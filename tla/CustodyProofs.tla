---------------------------- MODULE CustodyProofs ----------------------------
(***************************************************************************)
(* What is kept in custody and who may move it, for all values of the      *)
(* constants: the orders of the TON multisig (GramOrders), the pause latch *)
(* of the reconciler (ReconPause), the hand-over of the custody to the     *)
(* next federation (Rotation), and the money that backs the wrapped supply *)
(* (Backing).  The four parts are independent of each other.               *)
(***************************************************************************)
EXTENDS GramOrders, ReconPause, Rotation, Backing, Sums, SequenceTheorems, TLAPS

-----------------------------------------------------------------------------
(***************************************************************************)
(* GramOrders.  Numbers are given out in order and every action is pinned  *)
(* to one of them before a message for it leaves, so that only the order   *)
(* at an action's own pin can collect the approvals of a majority.         *)
(***************************************************************************)

(* Numbers are given out in order, and an order's action was pinned before *)
(* the order was opened: at its number or at an earlier one.               *)
OrdersFollowPins ==
    \A n \in Address : /\ Inited(n) <=> n < next
                       /\ Inited(n) => pin[order[n].body] \in 1..n
PinsOpenable == \A a \in Action : pin[a] <= next

(* A new_order is sent for a pinned action, an approval only to the order  *)
(* at its action's own pin.                                                *)
MailFollowsPins ==
    \A m \in mail :
        /\ m.kind = "new" => pin[m.body] # 0
        /\ m.kind = "approve" => Inited(m.at) /\ pin[order[m.at].body] = m.at

(* What an operator's call relies on after its wait.                       *)
CallsHold ==
    \A a \in Action :
        /\ drive[a].call # "none" => drive[a].asked \in Operator
        /\ drive[a].call \in {"inspect", "approve"} => Inited(pin[a])

(* Only the order at its action's own pin collects approvals, so only it   *)
(* executes, unless one operator is enough; ...                            *)
ExecutedAtPin == \A n \in Address : Executed(n) => pin[order[n].body] = n \/ Threshold = 1

(* ... then it is the only operator, and opens each action once.           *)
AloneOpensOnce ==
    Threshold = 1 =>
        /\ \A m \in mail : \A n \in Address : m.kind = "new" /\ Inited(n) => order[n].body # m.body
        /\ \A k, n \in Address : Inited(k) /\ Inited(n) /\ order[k].body = order[n].body => k = n

(* With serial pins no two actions share an address, and a confirmed one   *)
(* stands at its own.                                                      *)
PinsDistinct == \A a, b \in Action : pin[a] = pin[b] /\ pin[a] # 0 => a = b
AloneAtPin ==
    Threshold = 1 =>
        /\ \A m \in mail : m.kind = "new" => next = pin[m.body]
        /\ \A n \in Address : Inited(n) => pin[order[n].body] = n
ConfirmedAtPin == \A a \in confirmed : Executed(pin[a]) /\ order[pin[a]].body = a
SerialInv == PinsDistinct /\ AloneAtPin /\ ConfirmedAtPin

GramInv ==
    /\ TypeOK
    /\ OrdersFollowPins /\ PinsOpenable /\ MailFollowsPins /\ CallsHold
    /\ ExecutedAtPin /\ AloneOpensOnce
    /\ SerialPins => SerialInv

-----------------------------------------------------------------------------

LEMMA Numbers ==
    /\ NumOperators \in Nat /\ Threshold \in Nat \ {0} /\ MaxOrder \in Nat \ {0}
    /\ Threshold = 1 => NumOperators = 1
    /\ SerialPins \in BOOLEAN /\ None \notin Action /\ None \notin Operator
BY GramAssumption DEF Operator

(* The two kinds of messages and their fields.                             *)
LEMMA MessageFields ==
    ASSUME TypeOK, NEW m \in mail
    PROVE  /\ m.kind \in {"new", "approve"}
           /\ m.from \in Operator
           /\ m.kind = "new" => m.body \in Action /\ m \in [kind : {"new"}, from : Operator, body : Action]
           /\ m.kind = "approve" => m.at \in Address
BY DEF TypeOK, Message

LEMMA OrderFields ==
    ASSUME TypeOK, NEW n \in Address, order[n] # None
    PROVE  /\ order[n] \in Contract
           /\ order[n].body \in Action
           /\ order[n].approvals \in SUBSET Operator
           /\ order[n].executed \in BOOLEAN
<1>1. order[n] \in Contract
  BY DEF TypeOK
<1> QED
  BY <1>1 DEF Contract

LEMMA InitHolds == Init => GramInv
<1> SUFFICES ASSUME Init PROVE GramInv
  OBVIOUS
<1> USE Numbers
<1>1. NoDrive \in Drives
  BY DEF NoDrive, Drives
<1>2. TypeOK
  BY <1>1 DEF Init, TypeOK, Address
<1>3. \A n \in Address : ~Inited(n)
  BY DEF Init, Inited
<1>4. OrdersFollowPins /\ PinsOpenable /\ MailFollowsPins
  BY <1>3 DEF Init, OrdersFollowPins, PinsOpenable, MailFollowsPins, Address
<1>5. CallsHold
  BY DEF Init, CallsHold, NoDrive
<1>6. ExecutedAtPin /\ AloneOpensOnce /\ SerialInv
  BY <1>3 DEF Init, ExecutedAtPin, AloneOpensOnce, SerialInv, PinsDistinct, AloneAtPin, ConfirmedAtPin, Executed
<1> QED
  BY <1>2, <1>4, <1>5, <1>6 DEF GramInv

-----------------------------------------------------------------------------
(* The multisig's own steps. *)

LEMMA NewOrderKeeps ==
    ASSUME GramInv, NEW m \in mail, NewOrderLands(m)
    PROVE  GramInv'
<1> USE Numbers
<1> DEFINE opened == [body |-> m.body, approvals |-> {m.from}, executed |-> Threshold = 1]
<1>0. TypeOK /\ m.kind = "new" /\ m.body \in Action /\ m.from \in Operator
  BY MessageFields DEF GramInv, NewOrderLands
<1>1. opened \in Contract /\ opened # None
  <2>1. (Threshold = 1) \in BOOLEAN
    OBVIOUS
  <2>2. opened \in Contract
    BY <1>0, <2>1 DEF Contract
  <2> QED
    BY <2>2, NoneAssumption
<1>2. opened.body = m.body /\ (opened.executed => Threshold = 1)
  OBVIOUS
<1>3. /\ order' = [order EXCEPT ![next] = opened]
      /\ next \in Address /\ next' = next + 1 /\ mail' = mail \ {m}
      /\ pin' = pin /\ confirmed' = confirmed /\ drive' = drive
  BY DEF NewOrderLands
<1> HIDE DEF opened
<1>4. /\ order'[next] = opened
      /\ \A n \in Address : n # next => order'[n] = order[n]
  BY <1>0, <1>3 DEF TypeOK
<1>5. TypeOK'
  BY <1>0, <1>1, <1>3 DEF TypeOK, Address
<1>6. ~Inited(next)
  BY <1>3 DEF GramInv, OrdersFollowPins, Address
<1>7. /\ order'[next] # None
      /\ \A n \in Address : order[n] # None => order'[n] = order[n] /\ n # next
  BY <1>1, <1>3, <1>4, <1>6 DEF Inited
<1>8. /\ pin[m.body] # 0 /\ pin[m.body] \in 1..next
  BY <1>0, <1>3 DEF GramInv, MailFollowsPins, PinsOpenable, TypeOK, Address
<1>9. (OrdersFollowPins /\ PinsOpenable)'
  <2>1. ASSUME NEW n \in Address
        PROVE  (Inited(n)' <=> n < next') /\ (Inited(n)' => pin'[order'[n].body] \in 1..n)
    BY <1>2, <1>3, <1>4, <1>7, <1>8 DEF GramInv, OrdersFollowPins, Inited, Address
  <2> QED
    BY <2>1, <1>3, <1>0 DEF OrdersFollowPins, PinsOpenable, GramInv, TypeOK, Address
<1>10. MailFollowsPins'
  <2> SUFFICES ASSUME NEW q \in mail'
               PROVE  /\ q.kind = "new" => pin'[q.body] # 0
                      /\ q.kind = "approve" => Inited(q.at)' /\ pin'[order'[q.at].body] = q.at
    BY DEF MailFollowsPins
  <2>1. q \in mail
    BY <1>3
  <2>2. /\ q.kind = "new" => pin[q.body] # 0
        /\ q.kind = "approve" => Inited(q.at) /\ pin[order[q.at].body] = q.at
    BY <2>1 DEF GramInv, MailFollowsPins
  <2>3. q.kind = "approve" => q.at \in Address /\ q.at # next
    BY <2>2, <1>6 DEF Inited
  <2> QED
    BY <1>3, <1>4, <1>7, <2>2, <2>3 DEF Inited
<1>11. CallsHold'
  BY <1>3, <1>7 DEF GramInv, CallsHold, Inited
<1>12. ExecutedAtPin'
  BY <1>2, <1>3, <1>4, <1>7 DEF GramInv, ExecutedAtPin, Executed, Inited
<1>13. ASSUME Threshold = 1, NEW q \in mail', q.kind = "new"
       PROVE  q.body # m.body
  <2>1. q \in mail /\ q # m
    BY <1>3
  <2>2. /\ q \in [kind : {"new"}, from : Operator, body : Action]
        /\ m \in [kind : {"new"}, from : Operator, body : Action]
    BY <1>0, <1>13, <2>1, MessageFields
  <2>3. q.from = 1 /\ m.from = 1
    BY <1>13, <2>2 DEF Operator
  <2>4. q.kind = m.kind
    BY <1>0, <1>13
  <2> QED
    BY <2>1, <2>2, <2>3, <2>4
<1>14. AloneOpensOnce'
  <2> SUFFICES ASSUME Threshold = 1
               PROVE  /\ \A q \in mail' : \A n \in Address : q.kind = "new" /\ Inited(n)' => order'[n].body # q.body
                      /\ \A k, n \in Address : Inited(k)' /\ Inited(n)' /\ order'[k].body = order'[n].body => k = n
    BY DEF AloneOpensOnce
  <2>1. \A n \in Address : Inited(n) => order[n].body # m.body
    BY <1>0 DEF GramInv, AloneOpensOnce
  <2>2. ASSUME NEW q \in mail', NEW n \in Address, q.kind = "new", Inited(n)'
        PROVE  order'[n].body # q.body
    <3>1. q \in mail
      BY <1>3
    <3> QED
      BY <1>2, <1>4, <1>7, <1>13, <2>2, <3>1 DEF GramInv, AloneOpensOnce, Inited
  <2>3. ASSUME NEW k \in Address, NEW n \in Address, Inited(k)', Inited(n)', order'[k].body = order'[n].body
        PROVE  k = n
    BY <1>2, <1>4, <1>7, <2>1, <2>3 DEF GramInv, AloneOpensOnce, Inited
  <2> QED
    BY <2>2, <2>3
<1>15. ASSUME SerialPins PROVE SerialInv'
  <2>1. PinsDistinct'
    BY <1>3, <1>15 DEF GramInv, SerialInv, PinsDistinct
  <2>2. AloneAtPin'
    <3> SUFFICES ASSUME Threshold = 1
                 PROVE  /\ \A q \in mail' : q.kind = "new" => next' = pin'[q.body]
                        /\ \A n \in Address : Inited(n)' => pin'[order'[n].body] = n
      BY DEF AloneAtPin
    <3>1. next = pin[m.body] /\ \A n \in Address : Inited(n) => pin[order[n].body] = n
      BY <1>0, <1>15 DEF GramInv, SerialInv, AloneAtPin
    <3>2. ASSUME NEW q \in mail', q.kind = "new" PROVE FALSE
      <4>1. q \in mail /\ q.body \in Action
        BY <1>0, <1>3, <3>2, MessageFields
      <4>2. pin[q.body] = pin[m.body] /\ pin[q.body] # 0
        BY <1>15, <3>1, <3>2, <4>1, <1>8 DEF GramInv, SerialInv, AloneAtPin
      <4>3. q.body = m.body
        BY <1>0, <1>15, <4>1, <4>2 DEF GramInv, SerialInv, PinsDistinct
      <4> QED
        BY <1>13, <3>2, <4>3
    <3> QED
      BY <1>2, <1>3, <1>4, <1>7, <3>1, <3>2 DEF Inited
  <2>3. ConfirmedAtPin'
    <3> SUFFICES ASSUME NEW a \in confirmed'
                 PROVE  Executed(pin[a])' /\ order'[pin'[a]].body = a
      BY <1>3 DEF ConfirmedAtPin
    <3>1. Executed(pin[a]) /\ order[pin[a]].body = a
      BY <1>3, <1>15 DEF GramInv, SerialInv, ConfirmedAtPin
    <3>2. pin[a] \in Address /\ pin[a] # next
      BY <1>6, <3>1 DEF Executed, Inited
    <3> QED
      BY <1>3, <1>4, <3>1, <3>2 DEF Executed, Inited
  <2> QED
    BY <2>1, <2>2, <2>3 DEF SerialInv
<1> QED
  BY <1>5, <1>9, <1>10, <1>11, <1>12, <1>14, <1>15 DEF GramInv

LEMMA ApproveKeeps ==
    ASSUME GramInv, NEW m \in mail, ApproveLands(m)
    PROVE  GramInv'
<1> USE Numbers
<1> DEFINE n == m.at
           set == order[n].approvals \cup {m.from}
           signed == [body |-> order[n].body, approvals |-> set, executed |-> Cardinality(set) >= Threshold]
<1>0. TypeOK /\ m.kind = "approve" /\ n \in Address /\ m.from \in Operator
  BY MessageFields DEF GramInv, ApproveLands
<1>1. order[n] # None /\ pin[order[n].body] = n
  BY <1>0 DEF GramInv, MailFollowsPins, Inited
<1>2. order[n] \in Contract /\ order[n].body \in Action /\ order[n].approvals \in SUBSET Operator
  BY <1>0, <1>1, OrderFields
<1>3. signed \in Contract
  <2>1. (Cardinality(set) >= Threshold) \in BOOLEAN
    OBVIOUS
  <2> QED
    BY <1>0, <1>2, <2>1 DEF Contract
<1>4. signed.body = order[n].body /\ signed # None
  BY <1>3, NoneAssumption
<1>5. /\ order'[n] = signed /\ order' \in [Address -> Contract \cup {None}]
      /\ \A k \in Address : k # n => order'[k] = order[k]
  <2>1. order' = [order EXCEPT ![n].approvals = set, ![n].executed = Cardinality(set) >= Threshold]
    BY DEF ApproveLands
  <2>2. order'[n] = signed
    BY <1>0, <1>2, <2>1 DEF TypeOK, Contract
  <2>3. \A k \in Address : k # n => order'[k] = order[k]
    BY <1>0, <2>1 DEF TypeOK
  <2>4. order' = [k \in Address |-> order'[k]]
    BY <1>0, <2>1 DEF TypeOK
  <2> QED
    BY <1>0, <1>3, <2>2, <2>3, <2>4 DEF TypeOK
<1> HIDE DEF signed, set
<1>6. /\ next' = next /\ pin' = pin /\ confirmed' = confirmed /\ drive' = drive
      /\ mail' = mail \ {m} /\ ~Executed(n)
  BY DEF ApproveLands
<1> HIDE DEF n
<1>7. \A k \in Address : /\ order'[k] = None <=> order[k] = None
                         /\ order[k] # None => order'[k].body = order[k].body
  BY <1>0, <1>1, <1>4, <1>5
<1>8. TypeOK'
  BY <1>0, <1>5, <1>6 DEF TypeOK
<1>9. (OrdersFollowPins /\ PinsOpenable)'
  BY <1>6, <1>7 DEF GramInv, OrdersFollowPins, PinsOpenable, Inited
<1>10. (MailFollowsPins /\ CallsHold)'
  BY <1>6, <1>7 DEF GramInv, MailFollowsPins, CallsHold, Inited
<1>11. ExecutedAtPin'
  BY <1>1, <1>4, <1>5, <1>6, <1>7 DEF GramInv, ExecutedAtPin, Executed, Inited
<1>12. AloneOpensOnce'
  BY <1>6, <1>7 DEF GramInv, AloneOpensOnce, Inited
<1>13. ASSUME SerialPins PROVE SerialInv'
  <2>1. (PinsDistinct /\ AloneAtPin)'
    BY <1>6, <1>7, <1>13 DEF GramInv, SerialInv, PinsDistinct, AloneAtPin, Inited
  <2>2. ASSUME NEW a \in confirmed
        PROVE  pin[a] \in Address /\ pin[a] # n /\ Executed(pin[a]) /\ order[pin[a]].body = a
    BY <1>6, <1>13 DEF GramInv, SerialInv, ConfirmedAtPin, Executed, Inited
  <2>3. ConfirmedAtPin'
    BY <1>5, <1>6, <2>2 DEF ConfirmedAtPin, Executed, Inited
  <2> QED
    BY <2>1, <2>3 DEF SerialInv
<1> QED
  BY <1>8, <1>9, <1>10, <1>11, <1>12, <1>13 DEF GramInv

-----------------------------------------------------------------------------
(* Steps of the coordinator and of the operators: the contracts and the    *)
(* pins stay, messages are sent, actions confirmed.                        *)

LEMMA OffChainKeeps ==
    ASSUME GramInv, UNCHANGED <<next, order, pin>>,
           drive' \in [Action -> Drives], CallsHold',
           mail' \subseteq Message,
           \A m \in mail' : \/ m \in mail
                            \/ m.kind = "new" /\ pin[m.body] = next /\ ~Inited(next)
                            \/ m.kind = "approve" /\ Inited(m.at) /\ pin[order[m.at].body] = m.at,
           confirmed' \subseteq Action,
           \A a \in confirmed' : a \in confirmed \/ Executed(pin[a])
    PROVE  GramInv'
<1> USE Numbers
<1>1. TypeOK /\ TypeOK'
  BY DEF GramInv, TypeOK
<1>2. (OrdersFollowPins /\ PinsOpenable /\ ExecutedAtPin)'
  BY DEF GramInv, OrdersFollowPins, PinsOpenable, ExecutedAtPin, Executed, Inited
<1>3. next # 0
  BY <1>1 DEF TypeOK
<1>4. MailFollowsPins'
  BY <1>3 DEF GramInv, MailFollowsPins, Inited
<1>5. ASSUME NEW m \in mail', m \notin mail, m.kind = "new", NEW n \in Address, Inited(n)
      PROVE  order[n].body # m.body
  <2>1. pin[m.body] = next
    BY <1>5
  <2>2. n < next /\ pin[order[n].body] \in 1..n
    BY <1>5 DEF GramInv, OrdersFollowPins
  <2> QED
    BY <1>1, <2>1, <2>2 DEF TypeOK, Address
<1>6. AloneOpensOnce'
  BY <1>5 DEF GramInv, AloneOpensOnce, Inited
<1>7. ASSUME SerialPins PROVE SerialInv'
  <2>1. (PinsDistinct /\ AloneAtPin)'
    BY <1>7 DEF GramInv, SerialInv, PinsDistinct, AloneAtPin, Inited
  <2>2. ASSUME NEW a \in confirmed', a \notin confirmed
        PROVE  Executed(pin[a]) /\ order[pin[a]].body = a
    <3> DEFINE n == pin[a]
    <3>1. a \in Action /\ Executed(n) /\ Inited(n) /\ n \in Address /\ n # 0 /\ order[n] # None
      BY <2>2 DEF Executed, Inited, Address
    <3>2. order[n].body \in Action
      BY <1>1, <3>1, OrderFields
    <3>3. pin[order[n].body] = n
      BY <1>7, <3>1 DEF GramInv, ExecutedAtPin, SerialInv, AloneAtPin
    <3> QED
      BY <1>7, <3>1, <3>2, <3>3 DEF GramInv, SerialInv, PinsDistinct
  <2>3. ConfirmedAtPin'
    BY <1>7, <2>2 DEF GramInv, SerialInv, ConfirmedAtPin, Executed, Inited
  <2> QED
    BY <2>1, <2>3 DEF SerialInv
<1> QED
  BY <1>1, <1>2, <1>4, <1>6, <1>7 DEF GramInv

(* One drive moves on, to d; the others stay.                              *)
Moves(a, d) ==
    /\ drive' = [b \in Action |-> drive'[b]]
    /\ drive'[a] = d
    /\ \A b \in Action : b # a => drive'[b] = drive[b]

(* That is allowed if d's call, if any, is an operator's and finds the     *)
(* order it inspects.                                                      *)
LEMMA DriveMoves ==
    ASSUME GramInv, UNCHANGED order, \A b \in Action : pin[b] # 0 => pin'[b] = pin[b],
           NEW a \in Action, NEW d \in Drives, Moves(a, d),
           d.call # "none" => d.asked \in Operator,
           d.call \in {"inspect", "approve"} => Inited(pin[a])
    PROVE  drive' \in [Action -> Drives] /\ CallsHold'
<1>1. drive \in [Action -> Drives]
  BY DEF GramInv, TypeOK
<1>2. drive' \in [Action -> Drives]
  BY <1>1 DEF Moves
<1>3. CallsHold'
  BY DEF GramInv, CallsHold, Inited, Moves, Address
<1> QED
  BY <1>2, <1>3

LEMMA DriveFields ==
    ASSUME GramInv, NEW a \in Action
    PROVE  /\ drive \in [Action -> Drives] /\ drive[a] \in Drives
           /\ drive[a].step \in {"idle", "check", "build", "round", "poll"}
           /\ drive[a].todo \in SUBSET Operator /\ drive[a].approvals \in SUBSET Operator
           /\ drive[a].asked \in Operator \cup {None}
           /\ drive[a].call \in {"none", "look", "open", "wait", "inspect", "approve"}
           /\ drive[a].call # "none" => drive[a].asked \in Operator
           /\ drive[a].call \in {"inspect", "approve"} => Inited(pin[a])
<1>1. drive \in [Action -> Drives] /\ drive[a] \in Drives
  BY DEF GramInv, TypeOK
<1> QED
  BY <1>1 DEF GramInv, CallsHold, Drives

LEMMA NoDriveFits == NoDrive \in Drives /\ NoDrive.call = "none"
BY DEF NoDrive, Drives

LEMMA DriveResets ==
    ASSUME GramInv, UNCHANGED <<order, pin>>, NEW a \in Action,
           drive' = [drive EXCEPT ![a] = NoDrive]
    PROVE  drive' \in [Action -> Drives] /\ CallsHold'
<1>1. Moves(a, NoDrive)
  BY DriveFields DEF Moves
<1> QED
  BY <1>1, DriveMoves, NoDriveFits

(* A step of the coordinator outside a call.                               *)
LEMMA StepMoves ==
    ASSUME GramInv, UNCHANGED order, \A b \in Action : pin[b] # 0 => pin'[b] = pin[b], NEW a \in Action,
           NEW step \in {"idle", "check", "build", "round", "poll"}, NEW asks \in SUBSET Operator,
           \/ drive' = [drive EXCEPT ![a].step = step, ![a].todo = asks]
           \/ drive' = [drive EXCEPT ![a].step = step] /\ asks = drive[a].todo
    PROVE  drive' \in [Action -> Drives] /\ CallsHold'
<1> DEFINE d == [step |-> step, todo |-> asks, approvals |-> drive[a].approvals,
                 asked |-> drive[a].asked, call |-> drive[a].call]
<1>1. d \in Drives
  BY DriveFields DEF Drives
<1>2. drive \in [Action -> Drives] /\ drive[a] \in Drives
  BY DriveFields
<1>3. drive'[a] = d
  BY <1>2 DEF Drives
<1>4. Moves(a, d)
  BY <1>2, <1>3 DEF Moves
<1>5. d.call = drive[a].call /\ d.asked = drive[a].asked
  OBVIOUS
<1> HIDE DEF d
<1> QED
  BY <1>1, <1>4, <1>5, DriveMoves, DriveFields

(* A step within a call: the operator's next one, or its end.              *)
LEMMA AskMoves ==
    ASSUME GramInv, UNCHANGED <<order, pin>>, NEW a \in Action, NEW o \in Operator, Ask(a, o)
    PROVE  drive' \in [Action -> Drives] /\ CallsHold'
<1> DEFINE d == [step |-> drive[a].step, todo |-> drive[a].todo \ {o},
                 approvals |-> drive[a].approvals, asked |-> o, call |-> "look"]
<1>1. d \in Drives
  BY DriveFields DEF Drives
<1>2. drive \in [Action -> Drives] /\ drive[a] \in Drives
  BY DriveFields
<1>3. drive'[a] = d
  BY <1>2 DEF Ask, Drives
<1>4. Moves(a, d)
  BY <1>2, <1>3 DEF Moves, Ask
<1>5. d.call = "look" /\ d.asked = o
  OBVIOUS
<1> HIDE DEF d
<1> QED
  BY <1>1, <1>4, <1>5, DriveMoves

LEMMA GotoMoves ==
    ASSUME GramInv, UNCHANGED <<order, pin>>, NEW a \in Action,
           NEW call \in {"look", "open", "wait", "inspect", "approve"}, Goto(a, call),
           drive[a].call # "none", call \in {"inspect", "approve"} => Inited(pin[a])
    PROVE  drive' \in [Action -> Drives] /\ CallsHold'
<1> DEFINE d == [step |-> drive[a].step, todo |-> drive[a].todo,
                 approvals |-> drive[a].approvals, asked |-> drive[a].asked, call |-> call]
<1>1. d \in Drives
  BY DriveFields DEF Drives
<1>2. drive \in [Action -> Drives] /\ drive[a] \in Drives
  BY DriveFields
<1>3. drive'[a] = d
  BY <1>2 DEF Goto, Drives
<1>4. Moves(a, d)
  BY <1>2, <1>3 DEF Moves, Goto
<1>5. d.call = call /\ d.asked = drive[a].asked
  OBVIOUS
<1> HIDE DEF d
<1> QED
  BY <1>1, <1>4, <1>5, DriveMoves, DriveFields

LEMMA CallEnds ==
    ASSUME GramInv, UNCHANGED <<order, pin>>, NEW a \in Action, Approved(a) \/ Refused(a),
           drive[a].call # "none"
    PROVE  drive' \in [Action -> Drives] /\ CallsHold'
<1> DEFINE d(approvals) == [step |-> drive[a].step, todo |-> drive[a].todo,
                            approvals |-> approvals, asked |-> None, call |-> "none"]
           more == drive[a].approvals \cup {drive[a].asked}
<1>1. \A approvals \in SUBSET Operator : d(approvals) \in Drives /\ d(approvals).call = "none"
  BY DriveFields DEF Drives
<1>2. drive \in [Action -> Drives] /\ drive[a] \in Drives
  BY DriveFields
<1>3. more \in SUBSET Operator /\ drive[a].approvals \in SUBSET Operator
  BY DriveFields
<1>4. CASE Approved(a)
  <2>1. drive'[a] = d(more)
    BY <1>2, <1>4 DEF Approved, Drives
  <2>2. Moves(a, d(more))
    BY <1>2, <1>4, <2>1 DEF Moves, Approved
  <2> HIDE DEF d, more
  <2> QED
    BY <1>1, <1>3, <2>2, DriveMoves
<1>5. CASE Refused(a)
  <2>1. drive'[a] = d(drive[a].approvals)
    BY <1>2, <1>5 DEF Refused, Drives
  <2>2. Moves(a, d(drive[a].approvals))
    BY <1>2, <1>5, <2>1 DEF Moves, Refused
  <2> HIDE DEF d, more
  <2> QED
    BY <1>1, <1>3, <2>2, DriveMoves
<1> QED
  BY <1>4, <1>5

-----------------------------------------------------------------------------
(* The coordinator's and the operators' actions. *)

LEMMA BuildKeeps ==
    ASSUME GramInv, NEW a \in Action, Build(a)
    PROVE  GramInv'
<1> USE Numbers
<1>0. TypeOK /\ UNCHANGED <<next, order, mail, confirmed>>
  BY DEF GramInv, Build
<1>1. drive' = [drive EXCEPT ![a].step = "round", ![a].todo = Operator]
  BY DEF Build
<1>2. CASE pin[a] # 0
  <2>1. pin' = pin
    BY <1>0, <1>2 DEF Build, TypeOK
  <2>2. drive' \in [Action -> Drives] /\ CallsHold'
    BY <1>0, <1>1, <2>1, StepMoves
  <2> QED
    BY <1>0, <2>1, <2>2, OffChainKeeps DEF TypeOK
<1>3. CASE pin[a] = 0
  <2>1. /\ pin'[a] = next /\ next \in Address /\ next # 0
        /\ SerialPins => \A b \in Action : pin[b] # next
        /\ \A b \in Action : b # a => pin'[b] = pin[b]
        /\ pin' \in [Action -> 0..MaxOrder]
    BY <1>0, <1>3 DEF Build, TypeOK, Address
  <2>2. \A b \in Action : pin[b] # 0 => pin'[b] = pin[b]
    BY <1>3, <2>1
  <2>3. drive' \in [Action -> Drives] /\ CallsHold'
    BY <1>0, <1>1, <2>2, StepMoves
  <2>4. TypeOK'
    BY <1>0, <2>1, <2>3 DEF TypeOK
  <2>5. ASSUME NEW n \in Address, Inited(n)
        PROVE  order[n].body \in Action /\ pin[order[n].body] # 0 /\ pin'[order[n].body] = pin[order[n].body]
    <3>1. order[n].body \in Action
      BY <1>0, <2>5, OrderFields DEF Inited
    <3> QED
      BY <2>2, <2>5, <3>1 DEF GramInv, OrdersFollowPins
  <2>6. (OrdersFollowPins /\ PinsOpenable)'
    BY <1>0, <2>1, <2>5 DEF GramInv, OrdersFollowPins, PinsOpenable, Inited, TypeOK
  <2>7. MailFollowsPins'
    <3>1. \A m \in mail : m.kind = "new" => m.body \in Action
      BY <1>0, MessageFields
    <3>2. \A m \in mail : m.kind = "approve" => m.at \in Address
      BY <1>0, MessageFields
    <3> QED
      BY <1>0, <2>2, <2>5, <3>1, <3>2 DEF GramInv, MailFollowsPins, Inited
  <2>8. (ExecutedAtPin /\ AloneOpensOnce)'
    BY <1>0, <2>5 DEF GramInv, ExecutedAtPin, AloneOpensOnce, Executed, Inited
  <2>9. ASSUME SerialPins PROVE SerialInv'
    <3>1. PinsDistinct'
      BY <2>1, <2>9 DEF GramInv, SerialInv, PinsDistinct
    <3>2. AloneAtPin'
      <4>1. \A m \in mail : m.kind = "new" => m.body \in Action /\ pin[m.body] # 0
        BY <1>0, MessageFields DEF GramInv, MailFollowsPins
      <4> QED
        BY <1>0, <2>2, <2>5, <2>9, <4>1 DEF GramInv, SerialInv, AloneAtPin, Inited
    <3>3. ConfirmedAtPin'
      <4>1. \A b \in confirmed : b \in Action /\ pin[b] # 0
        BY <1>0, <2>9 DEF GramInv, SerialInv, ConfirmedAtPin, Executed, Inited, Address, TypeOK
      <4> QED
        BY <1>0, <2>2, <2>9, <4>1 DEF GramInv, SerialInv, ConfirmedAtPin, Executed, Inited
    <3> QED
      BY <3>1, <3>2, <3>3 DEF SerialInv
  <2> QED
    BY <2>3, <2>4, <2>6, <2>7, <2>8, <2>9 DEF GramInv
<1> QED
  BY <1>2, <1>3

LEMMA CoordinatorKeeps ==
    ASSUME GramInv, NEW a \in Action,
           \/ Submit(a) \/ CheckExecuted(a) \/ (\E o \in Operator : Ask(a, o))
           \/ RoundEnds(a) \/ PollConfirms(a) \/ DriveEnds(a)
    PROVE  GramInv'
<1>0. TypeOK /\ drive[a].todo \in SUBSET Operator
  BY DriveFields DEF GramInv
<1>1. UNCHANGED <<next, order, mail, pin>>
  BY DEF Submit, CheckExecuted, Ask, RoundEnds, PollConfirms, DriveEnds
<1>2. confirmed' \subseteq Action /\ \A b \in confirmed' : b \in confirmed \/ Executed(pin[b])
  BY <1>0 DEF Submit, CheckExecuted, Ask, RoundEnds, PollConfirms, DriveEnds, TypeOK
<1>3. drive' \in [Action -> Drives] /\ CallsHold'
  <2>1. CASE drive' = [drive EXCEPT ![a] = NoDrive]
    BY <1>1, <2>1, DriveResets
  <2>2. CASE drive' = [drive EXCEPT ![a].step = "check"] \/ drive' = [drive EXCEPT ![a].step = "build"]
    BY <1>0, <1>1, <2>2, StepMoves
  <2>3. CASE \E o \in Operator : Ask(a, o)
    BY <1>1, <2>3, AskMoves
  <2>4. CASE drive' = [drive EXCEPT ![a] = [NoDrive EXCEPT !.step = "poll"]]
    <3> DEFINE d == [NoDrive EXCEPT !.step = "poll"]
    <3>1. d \in Drives /\ d.call = "none"
      BY DEF NoDrive, Drives
    <3> HIDE DEF d
    <3>2. Moves(a, d)
      BY <2>4, DriveFields DEF Moves, d
    <3> QED
      BY <1>1, <3>1, <3>2, DriveMoves
  <2> QED
    BY <2>1, <2>2, <2>3, <2>4 DEF Submit, CheckExecuted, RoundEnds, PollConfirms, DriveEnds
<1> QED
  BY <1>0, <1>1, <1>2, <1>3, OffChainKeeps DEF TypeOK

LEMMA OperatorKeeps ==
    ASSUME GramInv, NEW a \in Action,
           Look(a) \/ Appears(a) \/ Inspect(a) \/ ApprovalSeen(a) \/ CallFails(a)
    PROVE  GramInv'
<1>0. TypeOK /\ UNCHANGED <<next, order, pin, confirmed>> /\ drive[a].call # "none"
  BY DEF GramInv, Look, Appears, Inspect, ApprovalSeen, CallFails
<1>1. drive' \in [Action -> Drives] /\ CallsHold'
  <2>1. CASE Approved(a) \/ Refused(a)
    BY <1>0, <2>1, CallEnds
  <2>2. CASE Goto(a, "open") \/ Goto(a, "wait")
    BY <1>0, <2>2, GotoMoves
  <2>3. CASE Goto(a, "inspect") /\ Inited(pin[a])
    BY <1>0, <2>3, GotoMoves
  <2>4. CASE Goto(a, "approve") /\ drive[a].call = "inspect"
    BY <1>0, <2>4, GotoMoves, DriveFields
  <2> QED
    BY <2>1, <2>2, <2>3, <2>4 DEF Look, Appears, Inspect, ApprovalSeen, CallFails
<1>2. CASE mail' = mail
  BY <1>0, <1>1, <1>2, OffChainKeeps DEF TypeOK
<1>3. CASE Look(a) /\ mail' # mail
  <2> DEFINE m == [kind |-> "new", from |-> drive[a].asked, body |-> a]
  <2>1. /\ mail' = mail \cup {m} /\ pin[a] = next /\ ~Inited(next)
    BY <1>3 DEF Look, Send
  <2>2. m \in Message /\ m.kind = "new" /\ m.body = a
    BY <1>0, DriveFields DEF Message
  <2> HIDE DEF m
  <2> QED
    BY <1>0, <1>1, <2>1, <2>2, OffChainKeeps DEF TypeOK
<1>4. CASE Inspect(a) /\ mail' # mail
  <2> DEFINE m == [kind |-> "approve", from |-> drive[a].asked, at |-> pin[a]]
  <2>1. /\ mail' = mail \cup {m} /\ Inited(pin[a]) /\ order[pin[a]].body = a
    BY <1>4, DriveFields DEF Inspect, Send, assertDeployedOrderHash
  <2>2. m \in Message /\ m.kind = "approve" /\ m.at = pin[a]
    BY <1>0, <2>1, DriveFields DEF Message, Inited
  <2> HIDE DEF m
  <2> QED
    BY <1>0, <1>1, <2>1, <2>2, OffChainKeeps DEF TypeOK
<1> QED
  BY <1>2, <1>3, <1>4 DEF Look, Appears, Inspect, ApprovalSeen, CallFails

LEMMA StepKeeps == GramInv /\ [Next]_vars => GramInv'
<1> SUFFICES ASSUME GramInv, [Next]_vars PROVE GramInv'
  OBVIOUS
<1>1. ASSUME NEW m \in mail, NewOrderLands(m) PROVE GramInv'
  BY <1>1, NewOrderKeeps
<1>2. ASSUME NEW m \in mail, ApproveLands(m) PROVE GramInv'
  BY <1>2, ApproveKeeps
<1>3. CASE UNCHANGED vars \/ \E m \in mail : MessageLost(m)
  <2>1. UNCHANGED <<next, order, pin, confirmed, drive>> /\ mail' \subseteq mail
    BY <1>3 DEF vars, MessageLost
  <2>2. drive' \in [Action -> Drives] /\ CallsHold'
    BY <2>1 DEF GramInv, CallsHold, TypeOK, Inited
  <2> QED
    BY <2>1, <2>2, OffChainKeeps DEF GramInv, TypeOK
<1>4. ASSUME NEW a \in Action, Build(a) PROVE GramInv'
  BY <1>4, BuildKeeps
<1>5. ASSUME NEW a \in Action,
             \/ Submit(a) \/ CheckExecuted(a) \/ (\E o \in Operator : Ask(a, o))
             \/ RoundEnds(a) \/ PollConfirms(a) \/ DriveEnds(a)
      PROVE  GramInv'
  BY <1>5, CoordinatorKeeps
<1>6. ASSUME NEW a \in Action, Look(a) \/ Appears(a) \/ Inspect(a) \/ ApprovalSeen(a) \/ CallFails(a)
      PROVE  GramInv'
  BY <1>6, OperatorKeeps
<1> QED
  BY <1>1, <1>2, <1>3, <1>4, <1>5, <1>6 DEF Next

-----------------------------------------------------------------------------

LEMMA GramInvariant == Spec => []GramInv
BY InitHolds, StepKeeps, PTL DEF Spec

(* The multisig's numbers, the messages on their way and the state of      *)
(* every drive stay within their types.                                    *)
THEOREM GramTypes == Spec => []TypeOK
<1>1. GramInv => TypeOK
  BY DEF GramInv
<1> QED
  BY <1>1, GramInvariant, PTL

(* No mint and no return is executed twice, whatever new_order messages    *)
(* are delayed, lost or land at another number than the one their sender   *)
(* looked at, and whether or not actions share a pinned address.           *)
THEOREM NoDoubleMint == Spec => []ExecutedOnce
<1>1. GramInv => ExecutedOnce
  BY DEF GramInv, ExecutedAtPin, AloneOpensOnce, ExecutedOnce, Executed
<1> QED
  BY <1>1, GramInvariant, PTL

(* If no address is pinned while a pinned one is unopened, an action       *)
(* reported as executed has its own order executed.                        *)
THEOREM ConfirmedHasMinted ==
    ASSUME SerialPins
    PROVE  Spec => []ConfirmedIsMinted
<1>1. GramInv => ConfirmedIsMinted
  BY DEF GramInv, SerialInv, ConfirmedAtPin, ConfirmedIsMinted, Executed, Inited
<1> QED
  BY <1>1, GramInvariant, PTL

-----------------------------------------------------------------------------
(***************************************************************************)
(* ReconPause.  The latch shows an alarm nobody cleared, and the streak of *)
(* clean ticks is backed by every chain's own run of clean results.        *)
(***************************************************************************)

(* A critical pause that is neither hidden nor cleared is the one the      *)
(* latch shows, and AutoUnpause is not about to lift it.                   *)
LatchInv == alarm /\ ~hidden => paused /\ reason = "critical" /\ pc # "lift"

(* How far the streak of ticks is backed by each chain's own run of OK     *)
(* results: at the start of a tick every run is as long as the streak, and *)
(* within a tick without a bad result the chains already checked are one   *)
(* ahead of it.                                                            *)
Ahead(c) == IF c \in todo THEN okStreak ELSE UpTo(OkTicks, okStreak + 1)
StreakInv ==
    /\ pc \in {"reserve", "auto"} => todo = {}
    /\ pc = "start" => \A c \in Chain : okRun[c] >= okStreak
    /\ pc \in {"check", "reserve", "auto"} /\ allOk => \A c \in Chain : okRun[c] >= Ahead(c)
    /\ pc = "lift" => \A c \in Chain : okRun[c] >= OkTicks

ReconInv == ReconTypeOK /\ LatchInv /\ (errors = 0 => StreakInv)

LEMMA UpToBounds ==
    ASSUME NEW limit \in Nat, NEW n \in Nat
    PROVE  UpTo(limit, n) \in 0..limit /\ UpTo(limit, n) <= n
BY DEF UpTo

LEMMA ReconInitHolds == ReconInit => ReconInv
<1> SUFFICES ASSUME ReconInit PROVE ReconInv
  OBVIOUS
<1> USE ReconAssumption
<1>1. ReconTypeOK
  <2>1. /\ readable \in [Chain -> BOOLEAN] /\ holds \in [Chain -> BOOLEAN]
        /\ {paused, alarm, hidden, allOk} \subseteq BOOLEAN
    BY Zenon DEF ReconInit
  <2> QED
    BY <2>1 DEF ReconInit, ReconTypeOK, Reason
<1>2. LatchInv
  BY DEF ReconInit, LatchInv
<1>3. StreakInv
  BY DEF ReconInit, StreakInv
<1> QED
  BY <1>1, <1>2, <1>3 DEF ReconInv

-----------------------------------------------------------------------------
(* Types. *)

LEMMA PauseTypes ==
    ASSUME ReconTypeOK, NEW r \in {"stalled", "critical"}, SetPause(r) \/ UNCHANGED latch
    PROVE  {paused', alarm', hidden'} \subseteq BOOLEAN /\ reason' \in Reason
<1>1. CASE SetPause(r)
  <2>1. alarm' \in BOOLEAN /\ hidden' \in BOOLEAN
    BY <1>1, Zenon DEF SetPause, ReconTypeOK
  <2> QED
    BY <1>1, <2>1 DEF SetPause, Reason
<1>2. CASE UNCHANGED latch
  BY <1>2 DEF latch, ReconTypeOK
<1> QED
  BY <1>1, <1>2

LEMMA CheckTypes ==
    ASSUME ReconTypeOK, NEW c \in Chain, CheckChain(c)
    PROVE  ReconTypeOK'
<1> USE ReconAssumption
<1>1. /\ UpTo(MaxFail, failures[c] + 1) \in 0..MaxFail
      /\ UpTo(OkTicks, okRun[c] + 1) \in 0..OkTicks
  BY DEF ReconTypeOK, UpTo
<1>2. /\ readable' = readable /\ holds' = holds /\ okStreak' = okStreak /\ errors' = errors
      /\ todo' \subseteq Chain /\ pc' \in {"start", "check", "reserve", "auto", "lift"}
  BY DEF CheckChain, ReconTypeOK, world
<1>3. CASE CheckIndeterminate(c)
  <2>1. SetPause("stalled") \/ UNCHANGED latch
    BY <1>3 DEF CheckIndeterminate
  <2>2. {paused', alarm', hidden'} \subseteq BOOLEAN /\ reason' \in Reason
    BY <2>1, PauseTypes
  <2>3. failures' \in [Chain -> 0..MaxFail] /\ okRun' \in [Chain -> 0..OkTicks]
    BY <1>1, <1>3 DEF CheckIndeterminate, ReconTypeOK
  <2> QED
    BY <1>2, <1>3, <2>2, <2>3 DEF CheckIndeterminate, ReconTypeOK
<1>4. CASE CheckViolated(c)
  <2>1. {paused', alarm', hidden'} \subseteq BOOLEAN /\ reason' \in Reason
    BY <1>4, PauseTypes DEF CheckViolated
  <2>2. failures' \in [Chain -> 0..MaxFail] /\ okRun' \in [Chain -> 0..OkTicks]
    BY <1>4 DEF CheckViolated, ReconTypeOK
  <2> QED
    BY <1>2, <1>4, <2>1, <2>2 DEF CheckViolated, ReconTypeOK
<1>5. CASE CheckOK(c)
  <2>1. failures' \in [Chain -> 0..MaxFail] /\ okRun' \in [Chain -> 0..OkTicks]
    BY <1>1, <1>5 DEF CheckOK, ReconTypeOK
  <2> QED
    BY <1>2, <1>5, <2>1 DEF CheckOK, ReconTypeOK, latch
<1> QED
  BY <1>3, <1>4, <1>5 DEF CheckChain

LEMMA TypeStep ==
    ASSUME ReconTypeOK, [ReconNext]_reconVars
    PROVE  ReconTypeOK'
<1> USE ReconAssumption
<1>1. CASE StartTick
  <2>1. {paused', alarm', hidden'} \subseteq BOOLEAN /\ reason' \in Reason
    BY <1>1, PauseTypes DEF StartTick
  <2> QED
    BY <1>1, <2>1 DEF StartTick, ReconTypeOK, world
<1>2. CASE ReserveCheck
  <2>1. {paused', alarm', hidden'} \subseteq BOOLEAN /\ reason' \in Reason
    BY <1>2, PauseTypes DEF ReserveCheck
  <2> QED
    BY <1>2, <2>1 DEF ReserveCheck, ReconTypeOK, world
<1>3. CASE AutoUnpauseReads
  <2>1. UpTo(OkTicks, okStreak + 1) \in 0..OkTicks
    BY DEF ReconTypeOK, UpTo
  <2> QED
    BY <1>3, <2>1 DEF AutoUnpauseReads, ReconTypeOK, world, latch
<1>4. CASE AutoUnpauseLifts
  BY <1>4 DEF AutoUnpauseLifts, SetUnpause, ReconTypeOK, Reason, world
<1>5. ASSUME NEW c \in Chain, CheckChain(c) PROVE ReconTypeOK'
  BY <1>5, CheckTypes
<1>6. CASE LoopError
  BY <1>6 DEF LoopError, ReconTypeOK, world, latch
<1>7. CASE ReconRestart
  BY <1>7 DEF ReconRestart, ReconTypeOK, world, latch
<1>8. CASE OtherPause
  <2>1. {paused', alarm', hidden'} \subseteq BOOLEAN /\ reason' \in Reason
    BY <1>8, PauseTypes DEF OtherPause
  <2> QED
    BY <1>8, <2>1 DEF OtherPause, ReconTypeOK, world, loop
<1>9. CASE HumanUnpause
  BY <1>9 DEF HumanUnpause, SetUnpause, ReconTypeOK, Reason, world, loop
<1>10. ASSUME NEW c \in Chain, WorldChanges(c) PROVE ReconTypeOK'
  <2>1. readable' \in [Chain -> BOOLEAN] /\ holds' \in [Chain -> BOOLEAN]
    BY <1>10, Zenon DEF WorldChanges, ReconTypeOK
  <2> QED
    BY <1>10, <2>1 DEF WorldChanges, ReconTypeOK, latch, loop
<1>11. CASE UNCHANGED reconVars
  BY <1>11 DEF reconVars, ReconTypeOK, world, latch, loop
<1> QED
  BY <1>1, <1>2, <1>3, <1>4, <1>5, <1>6, <1>7, <1>8, <1>9, <1>10, <1>11 DEF ReconNext, LoopStep

-----------------------------------------------------------------------------
(* The latch. *)

(* A pause shows its own reason, or hides the alarm it overwrites.         *)
LEMMA PauseLatches ==
    ASSUME ReconTypeOK, LatchInv, NEW r \in {"stalled", "critical"}, SetPause(r), pc' = "lift" => pc = "lift"
    PROVE  LatchInv'
<1>1. CASE r = "critical"
  BY <1>1 DEF SetPause, LatchInv, ReconTypeOK
<1>2. CASE r = "stalled"
  <2>1. alarm' = alarm /\ hidden' = (hidden \/ alarm)
    BY <1>2 DEF SetPause, ReconTypeOK
  <2> QED
    BY <2>1 DEF LatchInv
<1> QED
  BY <1>1, <1>2

LEMMA LatchStep ==
    ASSUME ReconTypeOK, LatchInv, [ReconNext]_reconVars
    PROVE  LatchInv'
<1>1. CASE StartTick
  BY <1>1, PauseLatches DEF StartTick, latch, LatchInv
<1>2. CASE ReserveCheck
  BY <1>2, PauseLatches DEF ReserveCheck, latch, LatchInv
<1>3. CASE AutoUnpauseReads
  BY <1>3 DEF AutoUnpauseReads, latch, LatchInv
<1>4. CASE AutoUnpauseLifts
  BY <1>4 DEF AutoUnpauseLifts, SetUnpause, LatchInv
<1>5. ASSUME NEW c \in Chain, CheckChain(c) PROVE LatchInv'
  <2>1. pc' # "lift" /\ pc = "check"
    BY <1>5 DEF CheckChain
  <2>2. SetPause("stalled") \/ SetPause("critical") \/ UNCHANGED latch
    BY <1>5 DEF CheckChain, CheckIndeterminate, CheckViolated, CheckOK, latch
  <2>3. CASE UNCHANGED latch
    BY <2>1, <2>3 DEF latch, LatchInv
  <2> QED
    BY <2>1, <2>2, <2>3, PauseLatches
<1>6. CASE LoopError \/ ReconRestart
  BY <1>6 DEF LoopError, ReconRestart, latch, LatchInv
<1>7. CASE OtherPause
  BY <1>7, PauseLatches DEF OtherPause, loop
<1>8. CASE HumanUnpause
  BY <1>8 DEF HumanUnpause, LatchInv
<1>9. CASE (\E c \in Chain : WorldChanges(c)) \/ UNCHANGED reconVars
  BY <1>9 DEF WorldChanges, reconVars, latch, loop, LatchInv
<1> QED
  BY <1>1, <1>2, <1>3, <1>4, <1>5, <1>6, <1>7, <1>8, <1>9 DEF ReconNext, LoopStep

-----------------------------------------------------------------------------
(* The streak. *)

LEMMA StreakStep ==
    ASSUME ReconTypeOK, errors = 0 => StreakInv, [ReconNext]_reconVars, errors' = 0
    PROVE  StreakInv'
<1> USE ReconAssumption
<1>0. errors = 0 /\ StreakInv
  <2>1. errors' = errors \/ errors' = errors + 1
    BY DEF ReconNext, LoopStep, StartTick, ReserveCheck, AutoUnpauseReads, AutoUnpauseLifts, CheckChain,
           LoopError, ReconRestart, OtherPause, HumanUnpause, WorldChanges, reconVars
  <2> QED
    BY <2>1 DEF ReconTypeOK
<1>1. CASE StartTick
  BY <1>0, <1>1 DEF StartTick, StreakInv, Ahead
<1>2. CASE ReserveCheck
  BY <1>0, <1>2 DEF ReserveCheck, StreakInv, Ahead
<1>3. CASE AutoUnpauseReads
  <2>1. /\ todo = {} /\ okRun' = okRun /\ pc' \in {"lift", "start"}
        /\ pc' = "lift" => okStreak' >= OkTicks /\ allOk
    BY <1>0, <1>3 DEF AutoUnpauseReads, StreakInv
  <2>2. \A c \in Chain : okRun[c] >= okStreak'
    BY <1>0, <1>3 DEF AutoUnpauseReads, StreakInv, Ahead, ReconTypeOK
  <2>3. okStreak' \in Nat
    BY <1>3, UpToBounds DEF AutoUnpauseReads, ReconTypeOK
  <2>4. pc' = "lift" => \A c \in Chain : okRun[c] >= OkTicks
    BY <1>3, <2>1, <2>2, <2>3 DEF AutoUnpauseReads, ReconTypeOK
  <2> QED
    BY <1>3, <2>1, <2>2, <2>4 DEF AutoUnpauseReads, StreakInv
<1>4. CASE AutoUnpauseLifts
  BY <1>0, <1>4 DEF AutoUnpauseLifts, StreakInv, ReconTypeOK
<1>5. ASSUME NEW c \in Chain, CheckChain(c) PROVE StreakInv'
  <2>1. /\ pc = "check" /\ pc' \in {"check", "reserve"} /\ (pc' = "reserve" => todo' = {})
        /\ c \in todo /\ todo' = todo \ {c} /\ okStreak' = okStreak
    BY <1>5 DEF CheckChain
  <2>2. CASE CheckOK(c)
    <3>1. allOk' = allOk /\ okRun' = [okRun EXCEPT ![c] = UpTo(OkTicks, @ + 1)]
      BY <2>2 DEF CheckOK
    <3>2. allOk => okRun[c] >= okStreak
      BY <1>0, <2>1 DEF StreakInv, Ahead
    <3>3. okRun[c] \in 0..OkTicks /\ okStreak \in 0..OkTicks
      BY DEF ReconTypeOK
    <3>4. allOk => okRun'[c] >= Ahead(c)'
      BY <2>1, <3>1, <3>2, <3>3 DEF Ahead, UpTo, ReconTypeOK
    <3>5. ASSUME NEW d \in Chain, d # c, allOk PROVE okRun'[d] >= Ahead(d)'
      BY <1>0, <2>1, <3>1, <3>5 DEF Ahead, StreakInv, ReconTypeOK
    <3> QED
      BY <2>1, <3>1, <3>4, <3>5 DEF StreakInv
  <2>3. CASE ~CheckOK(c)
    <3>1. allOk' = FALSE
      BY <1>5, <2>3 DEF CheckChain, CheckIndeterminate, CheckViolated
    <3> QED
      BY <2>1, <3>1 DEF StreakInv
  <2> QED
    BY <2>2, <2>3
<1>6. CASE LoopError \/ ReconRestart
  BY <1>0, <1>6 DEF LoopError, ReconRestart
<1>7. CASE OtherPause \/ HumanUnpause \/ (\E c \in Chain : WorldChanges(c)) \/ UNCHANGED reconVars
  <2>1. UNCHANGED loop
    BY <1>7 DEF OtherPause, HumanUnpause, WorldChanges, reconVars
  <2> QED
    BY <1>0, <2>1 DEF loop, StreakInv, Ahead
<1> QED
  BY <1>1, <1>2, <1>3, <1>4, <1>5, <1>6, <1>7 DEF ReconNext, LoopStep

-----------------------------------------------------------------------------

LEMMA ReconStepKeeps == ReconInv /\ [ReconNext]_reconVars => ReconInv'
BY TypeStep, LatchStep, StreakStep DEF ReconInv

(* Types, the latch and the streak hold in every reachable state.          *)
THEOREM ReconInvariant == ReconSpec => []ReconInv
BY ReconInitHolds, ReconStepKeeps, PTL DEF ReconSpec

(* A critical pause stays latched, with its reason, until a human clears   *)
(* it: AutoUnpause cannot lift it unless a stalled pause has overwritten   *)
(* the reason or it came after AutoUnpause read the reason.                *)
THEOREM CriticalLatch == ReconSpec => []LatchedUnlessHidden
<1>1. ReconInv => LatchedUnlessHidden
  BY DEF ReconInv, LatchInv, LatchedUnlessHidden
<1> QED
  BY <1>1, ReconInvariant, PTL

(* AutoUnpause lifts a pause only when the last OkTicks results of every   *)
(* chain were OK, in a loop whose iterations were not cut short.           *)
THEOREM AutoUnpauseEarned == ReconSpec => []UnpauseEarned
<1>1. ReconInv => UnpauseEarned
  BY DEF ReconInv, StreakInv, UnpauseEarned
<1> QED
  BY <1>1, ReconInvariant, PTL

-----------------------------------------------------------------------------
(***************************************************************************)
(* Rotation.  Every authority a chain or the manifest can hold is one that *)
(* buildActiveAuthority accepts, and every flag of the state file is       *)
(* preceded by what it reports.                                            *)
(***************************************************************************)

(* What a chain or the manifest can hold: the founding authority, or what  *)
(* a proposal that passes buildActiveAuthority asks for.                   *)
Valid == {p \in Proposal : buildActiveAuthority(Wanted[p])}
Adoptable == {Founding} \cup {Wanted[p] : p \in Valid}

Tx == [proposal : Valid, draft : Nat, sigs : SUBSET Operators]
File == [sigs : SUBSET Operators, pinned : Adoptable, expired : BOOLEAN, made : BOOLEAN, draft : Nat]
Command == [viz : {"no", "checked", "sent", "applied", "stated"}, tx : Tx \cup {NoTx}, solana : Nat]
Order == [proposal : Valid, by : Adoptable, approvals : SUBSET Operators, done : BOOLEAN, expired : BOOLEAN]

(* The chains.                                                             *)
ChainsTyped ==
    /\ viz \in Adoptable /\ ton \in Adoptable
    /\ orders \in Seq(Order)
    /\ multisigs \in Seq(Adoptable) /\ mint \in DOMAIN multisigs
    /\ pool \subseteq Tx
    /\ landed \in [viz : SUBSET Proposal, drafts : SUBSET Nat, ton : SUBSET Proposal, solana : SUBSET Nat]

(* The files, and the commands between two of their steps.                 *)
FilesTyped ==
    /\ file \in [Proposal -> File]
    /\ handoff \in [Proposal -> [old : Nat, new : {0} \cup DOMAIN multisigs, sigs : SUBSET Operators]]
    /\ running \in [Proposal -> Command]
    /\ state \in [proposal : Proposal \cup {NoProposal}, viz : BOOLEAN, order : Nat, ton : BOOLEAN,
                  multisig : Nat, solana : BOOLEAN]
    /\ manifest \in Adoptable
    /\ deploy \in [upgrade : {"payer", "vault", "multisig"}, update : {"payer", "vault"},
                   pointer : {"payer", "vault"}]
    /\ drafts \in Nat /\ faults \in Nat

(* How far a command is says what has happened: only a proposal that was   *)
(* validated is broadcast, and the steps after the wait follow a block.    *)
Progress ==
    \A p \in Proposal :
        /\ running[p].viz # "no" => p \in Valid
        /\ running[p].viz = "checked" => running[p].tx # NoTx
        /\ running[p].viz \in {"applied", "stated"} => landed.viz # {}
        /\ running[p].solana # 0 => running[p].solana \in landed.solana

RotationInv ==
    /\ ChainsTyped /\ FilesTyped
    /\ Progress
    /\ ton # Founding => landed.ton # {}
    /\ FlagsEarned

(* Initially.                                                              *)
LEMMA RotationInitHolds == RotationInit => RotationInv
<1> SUFFICES ASSUME RotationInit PROVE RotationInv
  OBVIOUS
<1> USE RotationAssumption
<1>1. Founding \in Adoptable
  BY DEF Adoptable
<1>2. multisigs \in Seq(Adoptable) /\ Len(multisigs) = 1 /\ mint \in DOMAIN multisigs
  BY <1>1 DEF RotationInit
<1>3. ChainsTyped
  BY <1>1, <1>2 DEF RotationInit, ChainsTyped
<1>4. FilesTyped
  BY <1>1, <1>2 DEF RotationInit, FilesTyped, File, Command, NoFile, NoHandoff, NoState
<1>5. Progress /\ FlagsEarned /\ ton = Founding
  BY DEF RotationInit, Progress, FlagsEarned, NoState
<1> QED
  BY <1>3, <1>4, <1>5 DEF RotationInv

(* A command that moves to another step, and a file that changes.          *)
LEMMA CommandMoves ==
    ASSUME running \in [Proposal -> Command], NEW p \in Proposal,
           NEW c \in Command, running' = [running EXCEPT ![p] = c]
    PROVE  running' \in [Proposal -> Command]
OBVIOUS

(* The transaction is taken up or laid down, ...                           *)
LEMMA TxTaken ==
    ASSUME NEW commands \in [Proposal -> Command], NEW p \in Proposal, NEW tx \in Tx \cup {NoTx}
    PROVE  [commands EXCEPT ![p].tx = tx] \in [Proposal -> Command]
<1>1. commands[p] \in Command
  OBVIOUS
<1>2. [commands[p] EXCEPT !.tx = tx] \in Command
  BY <1>1 DEF Command
<1> QED
  BY <1>2

(* ... together with the step.                                             *)
LEMMA CommandSteps ==
    ASSUME RotationInv, NEW p \in Proposal, NEW step \in {"no", "checked", "sent", "applied", "stated"},
           NEW tx \in Tx \cup {NoTx}, running' = [running EXCEPT ![p].viz = step, ![p].tx = tx]
    PROVE  running' \in [Proposal -> Command]
<1> DEFINE stepped == [running EXCEPT ![p].viz = step]
<1>1. running \in [Proposal -> Command]
  BY DEF RotationInv, FilesTyped
<1>2. stepped \in [Proposal -> Command]
  BY <1>1 DEF Command
<1>3. running' = [stepped EXCEPT ![p].tx = tx]
  OBVIOUS
<1> HIDE DEF stepped
<1>4. [stepped EXCEPT ![p].tx = tx] \in [Proposal -> Command]
  BY <1>2, TxTaken
<1> QED
  BY <1>3, <1>4

(* Commands and the chain on the VIZ side.                                 *)
LEMMA VizStepKeeps ==
    ASSUME RotationInv, NEW p \in Proposal, VizStep(p) \/ Expire(p) \/ \E o \in Operators : Propose(p, o)
    PROVE  RotationInv'
<1>1. ASSUME NEW o \in Operators, Propose(p, o) PROVE RotationInv'
  <2>1. ChainsTyped'
    BY <1>1 DEF Propose, chains, RotationInv, ChainsTyped
  <2>2. FilesTyped'
    <3>1. file' \in [Proposal -> File]
      BY <1>1 DEF Propose, chains, File, RotationInv, ChainsTyped, FilesTyped
    <3> QED
      BY <1>1, <3>1 DEF Propose, chains, RotationInv, FilesTyped
  <2>3. Progress'
    BY <1>1 DEF Propose, chains, RotationInv, ChainsTyped, FilesTyped, Progress
  <2>4. (ton # Founding => landed.ton # {})' /\ FlagsEarned'
    BY <1>1 DEF Propose, chains, File, RotationInv, ChainsTyped, FilesTyped, Progress, FlagsEarned
  <2> QED
    BY <2>1, <2>2, <2>3, <2>4 DEF RotationInv
<1>2. ASSUME NEW o \in Operators, CoSign(p, o) PROVE RotationInv'
  <2>1. ChainsTyped'
    BY <1>2 DEF CoSign, chains, RotationInv, ChainsTyped
  <2>2. FilesTyped'
    <3>1. file' \in [Proposal -> File]
      BY <1>2 DEF CoSign, chains, File, RotationInv, FilesTyped
    <3> QED
      BY <1>2, <3>1 DEF CoSign, chains, RotationInv, FilesTyped
  <2>3. Progress'
    BY <1>2 DEF CoSign, chains, RotationInv, ChainsTyped, FilesTyped, Progress
  <2>4. (ton # Founding => landed.ton # {})' /\ FlagsEarned'
    BY <1>2 DEF CoSign, chains, File, RotationInv, ChainsTyped, FilesTyped, Progress, FlagsEarned
  <2> QED
    BY <2>1, <2>2, <2>3, <2>4 DEF RotationInv
<1>3. CASE Expire(p)
  <2>1. ChainsTyped'
    BY <1>3 DEF Expire, RotationInv, ChainsTyped
  <2>2. FilesTyped'
    <3>1. file' \in [Proposal -> File]
      <4>1. file \in [Proposal -> File] /\ file[p] \in File
        BY DEF RotationInv, FilesTyped
      <4>2. [file[p] EXCEPT !.expired = TRUE] \in File
        BY <4>1 DEF File
      <4>3. file' = [file EXCEPT ![p] = [file[p] EXCEPT !.expired = TRUE]]
        BY <1>3 DEF Expire
      <4> QED
        BY <4>1, <4>2, <4>3
    <3> QED
      BY <1>3, <3>1 DEF Expire, RotationInv, FilesTyped
  <2>3. Progress'
    BY <1>3 DEF Expire, RotationInv, ChainsTyped, FilesTyped, Progress
  <2>4. (ton # Founding => landed.ton # {})' /\ FlagsEarned'
    BY <1>3 DEF Expire, File, RotationInv, ChainsTyped, FilesTyped, Progress, FlagsEarned
  <2> QED
    BY <2>1, <2>2, <2>3, <2>4 DEF RotationInv
<1>4. CASE CheckViz(p)
  <2> DEFINE tx == [proposal |-> p, draft |-> file[p].draft, sigs |-> file[p].sigs]
  <2>0. p \in Valid /\ tx \in Tx /\ tx # NoTx
    <3>1. p \in Valid
      BY <1>4 DEF CheckViz, validateProposal, Valid
    <3>2. tx \in Tx
      BY <3>1 DEF Tx, File, RotationInv, FilesTyped
    <3>3. tx.proposal = p /\ NoTx.proposal = NoProposal
      BY DEF NoTx
    <3> QED
      BY <3>1, <3>2, <3>3, RotationAssumption
  <2>00. running' = [running EXCEPT ![p].viz = "checked", ![p].tx = tx]
    BY <1>4 DEF CheckViz
  <2> HIDE DEF tx
  <2>1. ChainsTyped'
    BY <1>4 DEF CheckViz, chains, RotationInv, ChainsTyped
  <2>2. FilesTyped'
    <3>1. running' \in [Proposal -> Command]
      BY <2>0, <2>00, CommandSteps
    <3> QED
      BY <1>4, <3>1 DEF CheckViz, chains, RotationInv, FilesTyped
  <2>3. Progress'
    <3>1. ASSUME NEW q \in Proposal, q # p PROVE running'[q] = running[q]
      BY <2>00, <3>1 DEF RotationInv, FilesTyped
    <3>2. running'[p].viz = "checked" /\ running'[p].tx = tx /\ running'[p].solana = running[p].solana
      BY <2>00 DEF Command, RotationInv, FilesTyped
    <3>3. landed' = landed
      BY <1>4 DEF CheckViz, chains
    <3> QED
      BY <2>0, <3>1, <3>2, <3>3 DEF RotationInv, Progress
  <2>4. (ton # Founding => landed.ton # {})' /\ FlagsEarned'
    BY <1>4 DEF CheckViz, chains, RotationInv, FlagsEarned
  <2> QED
    BY <2>1, <2>2, <2>3, <2>4 DEF RotationInv
<1>5. CASE SendViz(p)
  <2>1. ChainsTyped'
    <3>1. running[p].tx \in Tx
      BY <1>5 DEF SendViz, Command, RotationInv, FilesTyped, Progress
    <3>2. pool' \subseteq Tx
      BY <1>5, <3>1 DEF SendViz, RotationInv, ChainsTyped
    <3> QED
      BY <1>5, <3>2 DEF SendViz, RotationInv, ChainsTyped
  <2>2. FilesTyped'
    <3>1. running' \in [Proposal -> Command]
      <4>1. running' = [running EXCEPT ![p].viz = "sent", ![p].tx = NoTx]
        BY <1>5 DEF SendViz
      <4> QED
        BY <4>1, CommandSteps
    <3> QED
      BY <1>5, <3>1 DEF SendViz, RotationInv, FilesTyped
  <2>3. Progress'
    BY <1>5 DEF SendViz, Command, RotationInv, ChainsTyped, FilesTyped, Progress
  <2>4. (ton # Founding => landed.ton # {})' /\ FlagsEarned'
    BY <1>5 DEF SendViz, RotationInv, ChainsTyped, FilesTyped, Progress, FlagsEarned
  <2> QED
    BY <2>1, <2>2, <2>3, <2>4 DEF RotationInv
<1>6. CASE StateViz(p)
  <2>1. ChainsTyped'
    BY <1>6 DEF StateViz, chains, NoState, RotationInv, ChainsTyped
  <2>2. FilesTyped'
    <3>1. running' \in [Proposal -> Command]
      BY <1>6 DEF StateViz, chains, NoState, Command, RotationInv, FilesTyped
    <3> QED
      BY <1>6, <3>1 DEF StateViz, chains, NoState, RotationInv, FilesTyped
  <2>3. Progress'
    BY <1>6 DEF StateViz, chains, NoState, Command, RotationInv, ChainsTyped, FilesTyped, Progress
  <2>4. (ton # Founding => landed.ton # {})' /\ FlagsEarned'
    BY <1>6 DEF StateViz, chains, NoState, RotationInv, ChainsTyped, FilesTyped, Progress, FlagsEarned
  <2> QED
    BY <2>1, <2>2, <2>3, <2>4 DEF RotationInv
<1>7. CASE ManifestViz(p)
  <2>1. ChainsTyped'
    BY <1>7 DEF ManifestViz, chains, Adoptable, RotationInv, ChainsTyped
  <2>2. FilesTyped'
    <3>1. running' \in [Proposal -> Command]
      BY <1>7 DEF ManifestViz, chains, Adoptable, Command, RotationInv, FilesTyped
    <3>2. manifest' \in Adoptable
      BY <1>7 DEF ManifestViz, Adoptable, RotationInv, Progress
    <3> QED
      BY <1>7, <3>1, <3>2 DEF ManifestViz, chains, RotationInv, FilesTyped
  <2>3. Progress'
    BY <1>7 DEF ManifestViz, chains, Adoptable, Command, RotationInv, ChainsTyped, FilesTyped, Progress
  <2>4. (ton # Founding => landed.ton # {})' /\ FlagsEarned'
    BY <1>7 DEF ManifestViz, chains, Adoptable, RotationInv, ChainsTyped, FilesTyped, Progress, FlagsEarned
  <2> QED
    BY <2>1, <2>2, <2>3, <2>4 DEF RotationInv
<1>8. CASE FailViz(p)
  <2>1. ChainsTyped'
    BY <1>8 DEF FailViz, RotationInv, ChainsTyped
  <2>2. FilesTyped'
    <3>1. running' \in [Proposal -> Command]
      <4>1. running' = [running EXCEPT ![p].viz = "no", ![p].tx = NoTx]
        BY <1>8 DEF FailViz
      <4> QED
        BY <4>1, CommandSteps
    <3> QED
      BY <1>8, <3>1 DEF FailViz, RotationInv, FilesTyped
  <2>3. Progress'
    BY <1>8 DEF FailViz, Command, RotationInv, ChainsTyped, FilesTyped, Progress
  <2>4. (ton # Founding => landed.ton # {})' /\ FlagsEarned'
    BY <1>8 DEF FailViz, RotationInv, ChainsTyped, FilesTyped, Progress, FlagsEarned
  <2> QED
    BY <2>1, <2>2, <2>3, <2>4 DEF RotationInv
<1> QED
  BY <1>1, <1>2, <1>3, <1>4, <1>5, <1>6, <1>7, <1>8 DEF VizStep

(* The chain applies an update.                                            *)
LEMMA ApplyVizKeeps ==
    ASSUME RotationInv, NEW t \in pool, ApplyViz(t)
    PROVE  RotationInv'
<1> USE DEF ApplyViz
<1>0. t.proposal \in Valid /\ t.proposal \in Proposal /\ t.draft \in Nat
  BY DEF Tx, Valid, RotationInv, ChainsTyped
<1>1. ChainsTyped'
  <2>1. viz' \in Adoptable
    BY <1>0 DEF buildRotationOp, Adoptable, RotationInv, ChainsTyped
  <2>2. landed' \in [viz : SUBSET Proposal, drafts : SUBSET Nat, ton : SUBSET Proposal, solana : SUBSET Nat]
    BY <1>0 DEF RotationInv, ChainsTyped
  <2> QED
    BY <2>1, <2>2 DEF RotationInv, ChainsTyped, FilesTyped
<1>2. FilesTyped'
  <2>1. running' \in [Proposal -> Command]
    <3>1. running \in [Proposal -> Command]
      BY DEF RotationInv, FilesTyped
    <3>2. running' = [running EXCEPT ![t.proposal].viz = IF @ = "sent" THEN "applied" ELSE @]
      OBVIOUS
    <3> HIDE DEF ApplyViz
    <3> QED
      BY <1>0, <3>1, <3>2 DEF Command
  <2>2. UNCHANGED <<file, handoff, state, multisigs, manifest, deploy, drafts, faults>>
    OBVIOUS
  <2> HIDE DEF ApplyViz
  <2> QED
    BY <2>1, <2>2 DEF RotationInv, FilesTyped
<1>3. Progress'
  BY <1>0 DEF Command, RotationInv, ChainsTyped, FilesTyped, Progress
<1>4. (ton # Founding => landed.ton # {})' /\ FlagsEarned'
  BY DEF RotationInv, ChainsTyped, FilesTyped, FlagsEarned
<1> QED
  BY <1>1, <1>2, <1>3, <1>4 DEF RotationInv

(* The TON side.  An order that executes is one of a valid proposal.       *)
LEMMA ExecuteKeeps ==
    ASSUME RotationInv, NEW n \in 1..(Len(orders) + 1), NEW placed \in Order, placed.done = FALSE, Execute(n, placed)
    PROVE  /\ orders' \in Seq(Order) /\ ton' \in Adoptable
           /\ landed' \in [viz : SUBSET Proposal, drafts : SUBSET Nat, ton : SUBSET Proposal, solana : SUBSET Nat]
           /\ landed.ton \subseteq landed'.ton
           /\ landed'.viz = landed.viz /\ landed'.drafts = landed.drafts /\ landed'.solana = landed.solana
           /\ ton' # Founding => landed'.ton # {}
<1> DEFINE ready == Cardinality(placed.approvals) >= placed.by.th /\ placed.by = ton
           last == IF n > Len(orders) THEN n ELSE Len(orders)
<1>1. orders' = [i \in 1..last |-> IF i = n THEN [placed EXCEPT !.done = ready] ELSE orders[i]]
  BY DEF Execute
<1>2. ton' = (IF ready THEN Wanted[placed.proposal] ELSE ton)
  BY DEF Execute
<1>3. landed' = IF ready THEN [landed EXCEPT !.ton = @ \cup {placed.proposal}] ELSE landed
  BY DEF Execute
<1>4. ready \in BOOLEAN
  OBVIOUS
<1> HIDE DEF ready
<1>5. placed.proposal \in Valid /\ placed.proposal \in Proposal
  BY DEF Order, Valid
<1>6. orders' \in Seq(Order)
  <2>1. [placed EXCEPT !.done = ready] \in Order
    BY <1>4 DEF Order
  <2>2. orders \in Seq(Order) /\ Len(orders) \in Nat
    BY DEF RotationInv, ChainsTyped
  <2>3. last \in Nat
    BY <2>2
  <2>4. ASSUME NEW i \in 1..last PROVE (IF i = n THEN [placed EXCEPT !.done = ready] ELSE orders[i]) \in Order
    <3>1. CASE i = n
      BY <3>1, <2>1
    <3>2. CASE i # n
      <4>1. i \in 1..Len(orders)
        BY <3>2, <2>2, <2>3
      <4> QED
        BY <3>2, <4>1, <2>2
    <3> QED
      BY <3>1, <3>2
  <2>5. orders' \in [1..last -> Order]
    BY <1>1, <2>4
  <2> QED
    BY <2>3, <2>5, IsASeq
<1>7. ton' \in Adoptable
  BY <1>2, <1>5 DEF Adoptable, RotationInv, ChainsTyped
<1>8. CASE ready
  BY <1>2, <1>3, <1>5, <1>6, <1>7, <1>8 DEF RotationInv, ChainsTyped
<1>9. CASE ~ready
  BY <1>2, <1>3, <1>6, <1>7, <1>9 DEF RotationInv, ChainsTyped
<1> QED
  BY <1>8, <1>9

(* A command on the TON side: a new order, an approval, and what they note *)
(* in the state file.                                                      *)
LEMMA TonStepKeeps ==
    ASSUME RotationInv, NEW p \in Proposal, TonStep(p)
    PROVE  RotationInv'
<1>1. ASSUME NEW o \in Operators, SubmitTon(p, o) PROVE RotationInv'
  <2> DEFINE placed == [proposal |-> p, by |-> ton, approvals |-> {o}, done |-> FALSE, expired |-> FALSE]
  <2>1. placed \in Order /\ placed.done = FALSE
    BY <1>1 DEF SubmitTon, validateProposal, Valid, Order, RotationInv, ChainsTyped
  <2>2. Len(orders) \in Nat /\ Len(orders) + 1 \in 1..(Len(orders) + 1)
    BY DEF RotationInv, ChainsTyped
  <2>3. Execute(Len(orders) + 1, placed)
    BY <1>1 DEF SubmitTon
  <2> HIDE DEF placed
  <2>4. /\ orders' \in Seq(Order) /\ ton' \in Adoptable
        /\ landed' \in [viz : SUBSET Proposal, drafts : SUBSET Nat, ton : SUBSET Proposal, solana : SUBSET Nat]
        /\ landed.ton \subseteq landed'.ton
        /\ landed'.viz = landed.viz /\ landed'.drafts = landed.drafts /\ landed'.solana = landed.solana
        /\ ton' # Founding => landed'.ton # {}
    BY <2>1, <2>2, <2>3, ExecuteKeeps
  <2>5. ChainsTyped'
    BY <1>1, <2>4 DEF SubmitTon, RotationInv, ChainsTyped
  <2>6. /\ state' \in [proposal : Proposal \cup {NoProposal}, viz : BOOLEAN, order : Nat, ton : BOOLEAN,
                      multisig : Nat, solana : BOOLEAN]
        /\ state'.viz = state.viz /\ state'.multisig = state.multisig /\ state'.solana = state.solana
        /\ state'.ton => state.ton
    <3>1. CASE state' = mergeState([proposal |-> p, order |-> Len(orders) + 1, ton |-> FALSE])
      <4> DEFINE patch == [proposal |-> p, order |-> Len(orders) + 1, ton |-> FALSE]
      <4>1. /\ DOMAIN patch = {"proposal", "order", "ton"}
            /\ patch["proposal"] = p /\ patch["order"] = Len(orders) + 1 /\ patch["ton"] = FALSE
        OBVIOUS
      <4>2. state' = [k \in DOMAIN state |-> IF k \in DOMAIN patch THEN patch[k] ELSE state[k]]
        BY <3>1 DEF mergeState
      <4> HIDE DEF patch
      <4>3. DOMAIN state = {"proposal", "viz", "order", "ton", "multisig", "solana"}
        BY DEF RotationInv, FilesTyped
      <4>4. /\ state'["proposal"] = p /\ state'["order"] = Len(orders) + 1 /\ state'["ton"] = FALSE
            /\ state'["viz"] = state["viz"] /\ state'["multisig"] = state["multisig"]
            /\ state'["solana"] = state["solana"]
        BY <4>1, <4>2, <4>3
      <4>5. state' = [proposal |-> p, viz |-> state.viz, order |-> Len(orders) + 1, ton |-> FALSE,
                      multisig |-> state.multisig, solana |-> state.solana]
        BY <4>2, <4>3, <4>4
      <4> QED
        BY <4>5, <2>2 DEF RotationInv, FilesTyped
    <3>2. CASE state' = state
      BY <3>2 DEF RotationInv, FilesTyped
    <3> QED
      BY <1>1, <3>1, <3>2 DEF SubmitTon
  <2>7. FilesTyped'
    BY <1>1, <2>6 DEF SubmitTon, RotationInv, FilesTyped
  <2>8. Progress'
    BY <1>1, <2>4 DEF SubmitTon, RotationInv, Progress
  <2>9. FlagsEarned'
    BY <1>1, <2>4, <2>6 DEF SubmitTon, RotationInv, FlagsEarned
  <2> QED
    BY <2>4, <2>5, <2>7, <2>8, <2>9 DEF RotationInv
<1>2. ASSUME NEW o \in Operators, NEW n \in DOMAIN orders, ApproveTon(p, n, o) PROVE RotationInv'
  <2> DEFINE placed == [orders[n] EXCEPT !.approvals = @ \cup {o}]
  <2>1. orders[n] \in Order /\ Len(orders) \in Nat /\ n \in 1..(Len(orders) + 1)
    BY DEF RotationInv, ChainsTyped
  <2>2. placed \in Order /\ placed.done = FALSE
    BY <1>2, <2>1 DEF ApproveTon, Order
  <2>3. Execute(n, placed)
    BY <1>2 DEF ApproveTon
  <2> HIDE DEF placed
  <2>4. /\ orders' \in Seq(Order) /\ ton' \in Adoptable
        /\ landed' \in [viz : SUBSET Proposal, drafts : SUBSET Nat, ton : SUBSET Proposal, solana : SUBSET Nat]
        /\ landed.ton \subseteq landed'.ton
        /\ landed'.viz = landed.viz /\ landed'.drafts = landed.drafts /\ landed'.solana = landed.solana
        /\ ton' # Founding => landed'.ton # {}
    BY <2>1, <2>2, <2>3, ExecuteKeeps
  <2>5. ChainsTyped'
    BY <1>2, <2>4 DEF ApproveTon, RotationInv, ChainsTyped
  <2>6. FilesTyped'
    BY <1>2 DEF ApproveTon, files, RotationInv, FilesTyped
  <2>7. Progress'
    BY <1>2, <2>4 DEF ApproveTon, files, RotationInv, Progress
  <2>8. FlagsEarned'
    BY <1>2, <2>4 DEF ApproveTon, files, RotationInv, FlagsEarned
  <2> QED
    BY <2>4, <2>5, <2>6, <2>7, <2>8 DEF RotationInv
<1>3. CASE StatusTon(p)
  <2>1. ChainsTyped'
    BY <1>3 DEF StatusTon, chains, RotationInv, ChainsTyped
  <2>2. /\ state' \in [proposal : Proposal \cup {NoProposal}, viz : BOOLEAN, order : Nat, ton : BOOLEAN,
                      multisig : Nat, solana : BOOLEAN]
        /\ state'.viz = state.viz /\ state'.multisig = state.multisig /\ state'.solana = state.solana
    BY <1>3 DEF StatusTon, mergeState, RotationInv, FilesTyped
  <2>3. FilesTyped'
    BY <1>3, <2>2 DEF StatusTon, chains, RotationInv, FilesTyped
  <2>4. Progress'
    BY <1>3 DEF StatusTon, chains, RotationInv, Progress
  <2>5. (ton # Founding => landed.ton # {})'
    BY <1>3 DEF StatusTon, chains, RotationInv
  <2>6. landed.ton # {} \/ (file[p].made /\ Wanted[p] = Founding)
    BY <1>3 DEF StatusTon, validateProposal, RotationInv
  <2>7. FlagsEarned'
    BY <1>3, <2>2, <2>6 DEF StatusTon, chains, RotationInv, FlagsEarned
  <2> QED
    BY <2>1, <2>3, <2>4, <2>5, <2>7 DEF RotationInv
<1> QED
  BY <1>1, <1>2, <1>3 DEF TonStep

(* An order expires.                                                       *)
LEMMA ExpireOrderKeeps ==
    ASSUME RotationInv, NEW n \in DOMAIN orders, ExpireOrder(n)
    PROVE  RotationInv'
<1>1. orders' \in Seq(Order)
  <2>1. orders[n] \in Order /\ orders \in Seq(Order) /\ n \in 1..Len(orders)
    BY DEF RotationInv, ChainsTyped
  <2>2. [orders[n] EXCEPT !.expired = TRUE] \in Order
    BY <2>1 DEF Order
  <2>3. orders' = [orders EXCEPT ![n] = [orders[n] EXCEPT !.expired = TRUE]]
    BY DEF ExpireOrder
  <2> QED
    BY <2>1, <2>2, <2>3, ExceptSeq
<1>2. ChainsTyped' /\ FilesTyped'
  BY <1>1 DEF ExpireOrder, files, RotationInv, ChainsTyped, FilesTyped
<1>3. Progress'
  BY DEF ExpireOrder, files, RotationInv, Progress
<1>4. (ton # Founding => landed.ton # {})' /\ FlagsEarned'
  BY DEF ExpireOrder, files, RotationInv, FlagsEarned
<1> QED
  BY <1>2, <1>3, <1>4 DEF RotationInv

(* The Solana side.                                                        *)
LEMMA SolanaStepKeeps ==
    ASSUME RotationInv, NEW p \in Proposal, SolanaStep(p)
    PROVE  RotationInv'
<1>1. CASE ProposeSolana(p)
  <2>1. Wanted[p] \in Adoptable
    BY <1>1 DEF ProposeSolana, validateProposal, Adoptable, Valid
  <2>2. multisigs \in Seq(Adoptable) /\ Len(multisigs) \in Nat /\ mint \in 1..Len(multisigs)
    BY DEF RotationInv, ChainsTyped
  <2>3. /\ multisigs' \in Seq(Adoptable)
        /\ Len(multisigs') = Len(multisigs) + 1
    BY <1>1, <2>1, <2>2, AppendProperties DEF ProposeSolana
  <2>4. DOMAIN multisigs' = 1..(Len(multisigs) + 1) /\ DOMAIN multisigs \subseteq DOMAIN multisigs'
    BY <2>2, <2>3
  <2>5. ChainsTyped'
    BY <1>1, <2>2, <2>3, <2>4 DEF ProposeSolana, RotationInv, ChainsTyped
  <2>6. handoff' \in [Proposal -> [old : Nat, new : {0} \cup DOMAIN multisigs', sigs : SUBSET Operators]]
    <3>1. handoff \in [Proposal -> [old : Nat, new : {0} \cup DOMAIN multisigs', sigs : SUBSET Operators]]
      BY <2>4 DEF RotationInv, FilesTyped
    <3>2. [old |-> mint, new |-> Len(multisigs) + 1, sigs |-> {}]
            \in [old : Nat, new : {0} \cup DOMAIN multisigs', sigs : SUBSET Operators]
      BY <2>2, <2>4
    <3> QED
      BY <1>1, <3>1, <3>2 DEF ProposeSolana
  <2>7. FilesTyped'
    BY <1>1, <2>6 DEF ProposeSolana, RotationInv, FilesTyped
  <2>8. Progress'
    BY <1>1 DEF ProposeSolana, RotationInv, Progress
  <2>9. (ton # Founding => landed.ton # {})' /\ FlagsEarned'
    BY <1>1 DEF ProposeSolana, RotationInv, FlagsEarned
  <2> QED
    BY <2>5, <2>7, <2>8, <2>9 DEF RotationInv
<1>2. CASE BroadcastSolana(p)
  <2>1. handoff[p].new \in DOMAIN multisigs /\ handoff[p].new \in Nat /\ Len(multisigs) \in Nat
    BY <1>2 DEF BroadcastSolana, validateHandoffProposal, RotationInv, ChainsTyped, FilesTyped
  <2>2. /\ landed' \in [viz : SUBSET Proposal, drafts : SUBSET Nat, ton : SUBSET Proposal, solana : SUBSET Nat]
        /\ landed'.ton = landed.ton /\ landed'.viz = landed.viz
        /\ landed'.solana = landed.solana \cup {handoff[p].new}
    BY <1>2, <2>1 DEF BroadcastSolana, RotationInv, ChainsTyped
  <2>3. ChainsTyped'
    BY <1>2, <2>1, <2>2 DEF BroadcastSolana, RotationInv, ChainsTyped
  <2>4. running' \in [Proposal -> Command]
    <3>1. running \in [Proposal -> Command] /\ running[p] \in Command
      BY DEF RotationInv, FilesTyped
    <3>2. [running[p] EXCEPT !.solana = handoff[p].new] \in Command
      BY <2>1, <3>1 DEF Command
    <3>3. running' = [running EXCEPT ![p] = [running[p] EXCEPT !.solana = handoff[p].new]]
      BY <1>2 DEF BroadcastSolana
    <3> QED
      BY <3>1, <3>2, <3>3, CommandMoves
  <2>5. FilesTyped'
    BY <1>2, <2>4 DEF BroadcastSolana, RotationInv, FilesTyped
  <2>6. Progress'
    <3>1. ASSUME NEW q \in Proposal, q # p PROVE running'[q] = running[q]
      BY <1>2, <3>1 DEF BroadcastSolana, RotationInv, FilesTyped
    <3>2. /\ running'[p].viz = running[p].viz /\ running'[p].tx = running[p].tx
          /\ running'[p].solana = handoff[p].new
      BY <1>2 DEF BroadcastSolana, Command, RotationInv, FilesTyped
    <3> QED
      BY <2>2, <3>1, <3>2 DEF RotationInv, Progress
  <2>7. (ton # Founding => landed.ton # {})' /\ FlagsEarned'
    BY <1>2, <2>2 DEF BroadcastSolana, RotationInv, FlagsEarned
  <2> QED
    BY <2>3, <2>5, <2>6, <2>7 DEF RotationInv
<1>3. CASE StateSolana(p)
  <2>1. ChainsTyped'
    BY <1>3 DEF StateSolana, chains, RotationInv, ChainsTyped
  <2>2. running' \in [Proposal -> Command]
    BY <1>3 DEF StateSolana, Command, RotationInv, FilesTyped
  <2>3. running[p].solana \in Nat /\ running[p].solana \in landed.solana
    BY <1>3 DEF StateSolana, Command, RotationInv, FilesTyped, Progress
  <2>4. /\ state' \in [proposal : Proposal \cup {NoProposal}, viz : BOOLEAN, order : Nat, ton : BOOLEAN,
                      multisig : Nat, solana : BOOLEAN]
        /\ state'.viz = state.viz /\ state'.ton = state.ton
        /\ state'.solana => state'.multisig \in landed.solana
    <3>1. CASE state' = mergeState([proposal |-> p, multisig |-> running[p].solana, solana |-> TRUE])
      BY <3>1, <2>3 DEF mergeState, RotationInv, FilesTyped
    <3>2. CASE state' = state
      BY <3>2 DEF RotationInv, FilesTyped, FlagsEarned
    <3> QED
      BY <1>3, <3>1, <3>2 DEF StateSolana
  <2>5. FilesTyped'
    BY <1>3, <2>2, <2>4 DEF StateSolana, chains, RotationInv, FilesTyped
  <2>6. Progress'
    BY <1>3 DEF StateSolana, chains, Command, RotationInv, FilesTyped, Progress
  <2>7. (ton # Founding => landed.ton # {})' /\ FlagsEarned'
    BY <1>3, <2>4 DEF StateSolana, chains, RotationInv, FlagsEarned
  <2> QED
    BY <2>1, <2>5, <2>6, <2>7 DEF RotationInv
<1>4. ASSUME NEW o \in Operators, CoSignSolana(p, o) PROVE RotationInv'
  <2>1. ChainsTyped'
    BY <1>4 DEF CoSignSolana, chains, RotationInv, ChainsTyped
  <2>2. handoff' \in [Proposal -> [old : Nat, new : {0} \cup DOMAIN multisigs', sigs : SUBSET Operators]]
    BY <1>4 DEF CoSignSolana, chains, RotationInv, FilesTyped
  <2>3. FilesTyped'
    BY <1>4, <2>2 DEF CoSignSolana, chains, RotationInv, FilesTyped
  <2>4. Progress'
    BY <1>4 DEF CoSignSolana, chains, RotationInv, Progress
  <2>5. (ton # Founding => landed.ton # {})' /\ FlagsEarned'
    BY <1>4 DEF CoSignSolana, chains, RotationInv, FlagsEarned
  <2> QED
    BY <2>1, <2>3, <2>4, <2>5 DEF RotationInv
<1> QED
  BY <1>1, <1>2, <1>3, <1>4 DEF SolanaStep

(* The deploy key's hand-over.                                             *)
LEMMA DeployStepKeeps ==
    ASSUME RotationInv, NEW e \in {"vault", "multisig"},
           EnforceProgramAuthority(e) \/ EnforceMetadataAuthority(e)
    PROVE  RotationInv'
<1>1. deploy' \in [upgrade : {"payer", "vault", "multisig"}, update : {"payer", "vault"},
                   pointer : {"payer", "vault"}]
  BY DEF EnforceProgramAuthority, EnforceMetadataAuthority, SigningTarget, RotationInv, FilesTyped
<1>2. UNCHANGED <<chains, files, drafts, faults>>
  BY DEF EnforceProgramAuthority, EnforceMetadataAuthority
<1>3. ChainsTyped' /\ FilesTyped'
  BY <1>1, <1>2 DEF chains, files, RotationInv, ChainsTyped, FilesTyped
<1>4. Progress'
  BY <1>2 DEF chains, files, RotationInv, Progress
<1>5. (ton # Founding => landed.ton # {})' /\ FlagsEarned'
  BY <1>2 DEF chains, files, RotationInv, FlagsEarned
<1> QED
  BY <1>3, <1>4, <1>5 DEF RotationInv

(* The invariant of every rotation: what the chains hold is adoptable and  *)
(* what the files claim has happened.                                      *)
THEOREM RotationInvariant == RotationSpec => []RotationInv
<1>1. RotationInv /\ [RotationNext]_rotationVars => RotationInv'
  <2>1. ASSUME RotationInv, RotationNext PROVE RotationInv'
    BY <2>1, VizStepKeeps, ApplyVizKeeps, TonStepKeeps, ExpireOrderKeeps, SolanaStepKeeps, DeployStepKeeps
       DEF RotationNext
  <2>2. ASSUME RotationInv, UNCHANGED rotationVars PROVE RotationInv'
    <3>1. ChainsTyped' /\ FilesTyped'
      BY <2>2 DEF rotationVars, chains, files, RotationInv, ChainsTyped, FilesTyped
    <3>2. Progress'
      BY <2>2 DEF rotationVars, chains, files, RotationInv, Progress
    <3>3. (ton # Founding => landed.ton # {})' /\ FlagsEarned'
      BY <2>2 DEF rotationVars, chains, files, RotationInv, FlagsEarned
    <3> QED
      BY <3>1, <3>2, <3>3 DEF RotationInv
  <2> QED
    BY <2>1, <2>2
<1> QED
  BY <1>1, RotationInitHolds, PTL DEF RotationSpec

(* FlagsEarned: what rotation-state.json calls done has happened on its    *)
(* chain, for any proposals, any number of orders, multisigs and faults.   *)
THEOREM FlagsAreEarned == RotationSpec => []FlagsEarned
<1>1. RotationInv => FlagsEarned
  BY DEF RotationInv
<1> QED
  BY <1>1, RotationInvariant, PTL

(* NoLockout: whatever the order of the commands, no chain and no manifest *)
(* ever holds an authority that cannot reach its own threshold.            *)
THEOREM NoRotationLocksOut == RotationSpec => []NoLockout
<1>1. RotationInv => NoLockout
  <2> SUFFICES ASSUME RotationInv PROVE NoLockout
    OBVIOUS
  <2>1. ASSUME NEW a \in Adoptable PROVE a.th \in 1..Cardinality(a.ops)
    BY <2>1, RotationAssumption DEF Adoptable, Valid, buildActiveAuthority
  <2>2. viz \in Adoptable /\ ton \in Adoptable /\ multisigs[mint] \in Adoptable /\ manifest \in Adoptable
    BY DEF RotationInv, ChainsTyped, FilesTyped
  <2>3. deploy.update # "multisig" /\ deploy.pointer # "multisig"
    BY DEF RotationInv, FilesTyped
  <2> QED
    BY <2>1, <2>2, <2>3 DEF NoLockout
<1> QED
  BY <1>1, RotationInvariant, PTL

-----------------------------------------------------------------------------
(***************************************************************************)
(* Backing.  The three balances are the sums of what the single rows did   *)
(* (Books), so that solvency is a fact about one row at a time; a check    *)
(* reads them at different moments and remembers how far each was apart.   *)
(***************************************************************************)

RowRecord == [status : {"none", "QUEUED", "BROADCAST", "CONFIRMED", "REFUNDING", "REFUNDED"},
              fee : Nat, net : Nat, signed : BOOLEAN, landed : BOOLEAN]
SweepRecord == [status : {"none", "QUEUED", "LANDED", "CONFIRMED"}, amount : Nat]
RefundRecord == [status : {"none", "QUEUED", "CONFIRMED"}, amount : Nat]

RowsTyped ==
    /\ row \in [Deposit -> RowRecord]
    /\ sweep \in [Deposit -> SweepRecord]
    /\ refund \in [Deposit -> RefundRecord]
    /\ out \in [Transfer -> {"none", "QUEUED", "CONFIRMED", "RETURNED"}]
    /\ policy \in [{"coordinator", "dispatcher", "signers"} -> {Old, New}]

(* What a deposit has brought in and not paid out again, what it has put   *)
(* into circulation; what a transfer has left in the wallet and paid out.  *)
Received == [d \in Deposit |->
    (IF row[d].status = "none" THEN 0 ELSE Gross[d])
      - (IF sweep[d].status \in {"LANDED", "CONFIRMED"} THEN sweep[d].amount ELSE 0)
      - (IF refund[d].status = "CONFIRMED" THEN refund[d].amount ELSE 0)]
Circulated == [d \in Deposit |-> IF row[d].landed THEN row[d].net ELSE 0]
Wallet == [t \in Transfer |->
    IF out[t] = "none" THEN 0
    ELSE IF out[t] = "RETURNED" THEN Amount[t] - refundAmount(Amount[t]) ELSE Amount[t]]
Paid == [t \in Transfer |-> IF out[t] = "CONFIRMED" THEN Amount[t] ELSE 0]

(* The three balances are the sums of what the rows did.                   *)
Books ==
    /\ locked = SumFunctionOnSet(Received, Deposit) - SumFunctionOnSet(Paid, Transfer)
    /\ supply = SumFunctionOnSet(Circulated, Deposit)
    /\ held = SumFunctionOnSet(Wallet, Transfer)
    /\ held <= supply

(* One deposit: what is signed fits the signers' present fee, what is      *)
(* swept fits beside the net, a refund is of a row that is being refunded. *)
RowSound(d) ==
    /\ row[d].net = 0 => row[d].fee = 0
    /\ row[d].net # 0 => row[d].net + row[d].fee = Gross[d]
    /\ row[d].status = "none" => row[d].net = 0
    /\ row[d].signed => /\ row[d].status \in {"BROADCAST", "CONFIRMED"}
                        /\ row[d].net # 0
                        /\ row[d].net + baseFee(Gross[d], policy["signers"]) <= Gross[d]
    /\ row[d].landed => row[d].signed
    /\ row[d].status = "CONFIRMED" => row[d].landed
    /\ sweep[d].status # "none" => row[d].status = "CONFIRMED"
    /\ sweep[d].status \in {"LANDED", "CONFIRMED"} => row[d].net + sweep[d].amount <= Gross[d]
    /\ refund[d].status = "QUEUED" => row[d].status = "REFUNDING"
    /\ refund[d].status = "CONFIRMED" => row[d].status = "REFUNDED"
    /\ refund[d].status # "none" => refund[d].amount <= Gross[d]

LedgerInv == RowsTyped /\ Books /\ \A d \in Deposit : RowSound(d)

(* The most that can be called unswept, and the least the wallet can hold, *)
(* before anything that counts as a movement happens.                      *)
Pinned == [d \in Deposit |-> IF row[d].status \in {"QUEUED", "BROADCAST", "CONFIRMED"} THEN row[d].fee ELSE 0]
Settled == [d \in Deposit |-> IF sweep[d].status = "CONFIRMED" THEN sweep[d].amount ELSE 0]
InFlight == [d \in Deposit |-> IF sweep[d].status = "LANDED" THEN sweep[d].amount ELSE 0]
Kept == [t \in Transfer |-> Wallet[t] - IF out[t] = "QUEUED" THEN refundAmount(Amount[t]) ELSE 0]

MostUnswept == SumFunctionOnSet(Pinned, Deposit) - SumFunctionOnSet(Settled, Deposit)
LeastHeld == SumFunctionOnSet(Kept, Transfer)

Figure == {"locked", "supply", "unswept", "held"}

CheckTyped ==
    /\ check \in [pc : {"idle", "read", "below floor", "over-swept", "UNDER_BACKED", "OK"}, locked : Int, supply : Int,
                  held : Int, unswept : Int, todo : SUBSET Figure]
    /\ moved \in Nat
    /\ sick \subseteq Endpoint /\ Endpoint \ sick # {}

(* The figures of a check in progress, those not read yet taken at their   *)
(* worst.                                                                  *)
WorstLocked == IF "locked" \in check.todo THEN locked ELSE check.locked
WorstSupply == IF "supply" \in check.todo THEN supply ELSE check.supply
WorstHeld == IF "held" \in check.todo THEN check.held ELSE LeastHeld
WorstUnswept == IF "unswept" \in check.todo THEN MostUnswept ELSE check.unswept

Figures ==
    /\ check.pc = "read" =>
         /\ "held" \in check.todo => "supply" \notin check.todo
         /\ WorstLocked - (WorstSupply - WorstHeld) - WorstUnswept >= -moved
         /\ WorstLocked - WorstUnswept >= -moved
         /\ "unswept" \notin check.todo => check.unswept >= 0

(* The floor below which a pinned fee is reported, and that no fee is      *)
(* below it.                                                               *)
GasFloor == Min({Old.gas, New.gas})
FloorKept == \A d \in Deposit : row[d].net # 0 => row[d].fee >= GasFloor

(* A new policy takes no deposit a higher base fee than the old one did.   *)
FeesOnlyFall == \A d \in Deposit : baseFee(Gross[d], New) <= baseFee(Gross[d], Old)
(* Every base fee covers the gas floor that a pinned fee is compared with. *)
FeesCoverGas == \A d \in Deposit : \A p \in {Old, New} : baseFee(Gross[d], p) >= GasFloor

-----------------------------------------------------------------------------
(* The larger and the smaller of two numbers.                              *)
LEMMA MaxOfTwo ==
    ASSUME NEW a \in Int, NEW b \in Int
    PROVE  Max({a, b}) \in {a, b} /\ Max({a, b}) >= a /\ Max({a, b}) >= b
<1>1. \E x \in {a, b} : \A y \in {a, b} : x >= y
  <2>1. CASE a >= b
    BY <2>1
  <2>2. CASE ~(a >= b)
    BY <2>2
  <2> QED
    BY <2>1, <2>2
<1> QED
  BY <1>1 DEF Max

(* The smaller of two numbers.                                             *)
LEMMA MinOfTwo ==
    ASSUME NEW a \in Int, NEW b \in Int
    PROVE  Min({a, b}) \in {a, b} /\ Min({a, b}) <= a /\ Min({a, b}) <= b
<1>1. \E x \in {a, b} : \A y \in {a, b} : x =< y
  <2>1. CASE a <= b
    BY <2>1
  <2>2. CASE ~(a <= b)
    BY <2>2
  <2> QED
    BY <2>1, <2>2
<1> QED
  BY <1>1 DEF Min

(* Fees are natural numbers, and a refund is no more than the amount.      *)
LEMMA FeeType ==
    ASSUME NEW d \in Deposit, NEW p \in {Old, New}
    PROVE  baseFee(Gross[d], p) \in Nat /\ p.activation \in Nat /\ p.gas \in Nat
<1>1. p.floor \in Nat /\ p.percent \in Nat /\ p.activation \in Nat /\ p.gas \in Nat /\ Gross[d] \in Nat
  BY BackingAssumption DEF Policy
<1>2. Gross[d] * p.percent \in Nat
  BY <1>1
<1>3. (Gross[d] * p.percent) \div 100 \in Nat
  BY <1>2
<1> DEFINE share == (Gross[d] * p.percent) \div 100
<1>4. share \in Nat /\ baseFee(Gross[d], p) = Max({p.floor, share})
  BY <1>3 DEF baseFee
<1> HIDE DEF share
<1> DEFINE floor == p.floor
<1>5. floor \in Int /\ share \in Int
  BY <1>1, <1>4
<1> HIDE DEF floor
<1>6. Max({floor, share}) \in {floor, share}
  BY <1>5, MaxOfTwo
<1> QED
  BY <1>1, <1>4, <1>6 DEF floor

(* What is left of an amount after the refund fee.                         *)
LEMMA RefundType ==
    ASSUME NEW a \in Nat PROVE refundAmount(a) \in Nat /\ refundAmount(a) <= a
<1>1. RefundFee \in Nat
  BY BackingAssumption
<1>2. a - RefundFee \in Int /\ a - RefundFee <= a
  BY <1>1
<1> DEFINE rest == a - RefundFee
<1>3. refundAmount(a) = Max({rest, 0})
  BY DEF refundAmount
<1> HIDE DEF rest
<1>4. Max({rest, 0}) \in {rest, 0} /\ Max({rest, 0}) >= 0
  <2>1. rest \in Int /\ 0 \in Int
    BY <1>2 DEF rest
  <2> QED
    BY <2>1, MaxOfTwo
<1>5. rest \in Int /\ rest <= a
  BY <1>2 DEF rest
<1> QED
  BY <1>3, <1>4, <1>5

(* The summands are integers.                                              *)
LEMMA DepositSummands ==
    ASSUME RowsTyped, NEW d \in Deposit
    PROVE  /\ Received[d] \in Int /\ Circulated[d] \in Nat /\ Pinned[d] \in Nat
           /\ Settled[d] \in Nat /\ InFlight[d] \in Nat
<1>1. Gross[d] \in Nat
  BY BackingAssumption
<1>2. row[d] \in RowRecord /\ sweep[d] \in SweepRecord /\ refund[d] \in RefundRecord
  BY DEF RowsTyped
<1>3. row[d].fee \in Nat /\ row[d].net \in Nat /\ sweep[d].amount \in Nat /\ refund[d].amount \in Nat
  BY <1>2 DEF RowRecord, SweepRecord, RefundRecord
<1>4. Received[d] \in Int
  BY <1>1, <1>3 DEF Received
<1>5. Circulated[d] \in Nat /\ Pinned[d] \in Nat
  BY <1>3 DEF Circulated, Pinned
<1>6. Settled[d] \in Nat /\ InFlight[d] \in Nat
  BY <1>3 DEF Settled, InFlight
<1> QED
  BY <1>4, <1>5, <1>6

(* A transfer pays out at most what it keeps in the wallet, and keeps at   *)
(* most what it brought.                                                   *)
LEMMA TransferSummands ==
    ASSUME NEW t \in Transfer
    PROVE  /\ Wallet[t] \in Nat /\ Paid[t] \in Nat /\ Kept[t] \in Nat
           /\ Kept[t] <= Wallet[t] /\ Paid[t] <= Kept[t]
<1>1. Amount[t] \in Nat
  BY BackingAssumption
<1>2. refundAmount(Amount[t]) \in Nat /\ refundAmount(Amount[t]) <= Amount[t]
  BY <1>1, RefundType
<1>3. Wallet[t] = IF out[t] = "none" THEN 0
                  ELSE IF out[t] = "RETURNED" THEN Amount[t] - refundAmount(Amount[t]) ELSE Amount[t]
  BY DEF Wallet
<1>4. Kept[t] = Wallet[t] - IF out[t] = "QUEUED" THEN refundAmount(Amount[t]) ELSE 0
  BY DEF Kept
<1>5. Paid[t] = IF out[t] = "CONFIRMED" THEN Amount[t] ELSE 0
  BY DEF Paid
<1> QED
  BY <1>1, <1>2, <1>3, <1>4, <1>5

(* When one deposit changes, each total changes by that summand.           *)
OtherDeposits(d) ==
    \A e \in Deposit \ {d} : row'[e] = row[e] /\ sweep'[e] = sweep[e] /\ refund'[e] = refund[e]

(* A step of one deposit changes each sum over the deposits by what it     *)
(* changes for that deposit.                                               *)
LEMMA DepositSums ==
    ASSUME RowsTyped, RowsTyped', NEW d \in Deposit, OtherDeposits(d)
    PROVE  /\ SumFunctionOnSet(Received', Deposit)
                = SumFunctionOnSet(Received, Deposit) + Received'[d] - Received[d]
           /\ SumFunctionOnSet(Circulated', Deposit)
                = SumFunctionOnSet(Circulated, Deposit) + Circulated'[d] - Circulated[d]
           /\ SumFunctionOnSet(Pinned', Deposit)
                = SumFunctionOnSet(Pinned, Deposit) + Pinned'[d] - Pinned[d]
           /\ SumFunctionOnSet(Settled', Deposit)
                = SumFunctionOnSet(Settled, Deposit) + Settled'[d] - Settled[d]
<1>1. IsFiniteSet(Deposit)
  BY BackingAssumption
<1>2. ASSUME NEW e \in Deposit
      PROVE  /\ Received[e] \in Int /\ Circulated[e] \in Int /\ Pinned[e] \in Int /\ Settled[e] \in Int
             /\ Received'[e] \in Int /\ Circulated'[e] \in Int /\ Pinned'[e] \in Int /\ Settled'[e] \in Int
  <2>1. Received[e] \in Int /\ Circulated[e] \in Nat /\ Pinned[e] \in Nat /\ Settled[e] \in Nat
    BY DepositSummands
  <2>2. Received'[e] \in Int /\ Circulated'[e] \in Nat /\ Pinned'[e] \in Nat /\ Settled'[e] \in Nat
    <3>1. Gross[e] \in Nat
      BY BackingAssumption
    <3>2. row'[e] \in RowRecord /\ sweep'[e] \in SweepRecord /\ refund'[e] \in RefundRecord
      BY DEF RowsTyped
    <3>3. row'[e].fee \in Nat /\ row'[e].net \in Nat /\ sweep'[e].amount \in Nat /\ refund'[e].amount \in Nat
      BY <3>2 DEF RowRecord, SweepRecord, RefundRecord
    <3>4. Received'[e] \in Int
      BY <3>1, <3>3 DEF Received
    <3>5. Circulated'[e] \in Nat /\ Pinned'[e] \in Nat /\ Settled'[e] \in Nat
      BY <3>3 DEF Circulated, Pinned, Settled
    <3> QED
      BY <3>4, <3>5
  <2> QED
    BY <2>1, <2>2
<1>3. ASSUME NEW e \in Deposit \ {d}
      PROVE  Received'[e] = Received[e] /\ Circulated'[e] = Circulated[e] /\ Pinned'[e] = Pinned[e]
  <2>1. row'[e] = row[e] /\ sweep'[e] = sweep[e] /\ refund'[e] = refund[e]
    BY DEF OtherDeposits
  <2>2. Received'[e] = Received[e]
    BY <2>1 DEF Received
  <2>3. Circulated'[e] = Circulated[e] /\ Pinned'[e] = Pinned[e]
    BY <2>1 DEF Circulated, Pinned
  <2> QED
    BY <2>2, <2>3
<1>4. SumFunctionOnSet(Received', Deposit) = SumFunctionOnSet(Received, Deposit) + Received'[d] - Received[d]
  <2> DEFINE f == Received
             h == Received'
  <2>1. \A x \in Deposit : f[x] \in Int /\ h[x] \in Int
    BY <1>2
  <2>2. \A x \in Deposit \ {d} : f[x] = h[x]
    BY <1>3
  <2> HIDE DEF f, h
  <2>3. SumFunctionOnSet(h, Deposit) = SumFunctionOnSet(f, Deposit) + h[d] - f[d]
    BY <1>1, <2>1, <2>2, SumChange
  <2> QED
    BY <2>3 DEF f, h
<1>5. SumFunctionOnSet(Circulated', Deposit) = SumFunctionOnSet(Circulated, Deposit) + Circulated'[d] - Circulated[d]
  <2> DEFINE f == Circulated
             h == Circulated'
  <2>1. \A x \in Deposit : f[x] \in Int /\ h[x] \in Int
    BY <1>2
  <2>2. \A x \in Deposit \ {d} : f[x] = h[x]
    BY <1>3
  <2> HIDE DEF f, h
  <2>3. SumFunctionOnSet(h, Deposit) = SumFunctionOnSet(f, Deposit) + h[d] - f[d]
    BY <1>1, <2>1, <2>2, SumChange
  <2> QED
    BY <2>3 DEF f, h
<1>6. SumFunctionOnSet(Pinned', Deposit) = SumFunctionOnSet(Pinned, Deposit) + Pinned'[d] - Pinned[d]
  <2> DEFINE f == Pinned
             h == Pinned'
  <2>1. \A x \in Deposit : f[x] \in Int /\ h[x] \in Int
    BY <1>2
  <2>2. \A x \in Deposit \ {d} : f[x] = h[x]
    BY <1>3
  <2> HIDE DEF f, h
  <2>3. SumFunctionOnSet(h, Deposit) = SumFunctionOnSet(f, Deposit) + h[d] - f[d]
    BY <1>1, <2>1, <2>2, SumChange
  <2> QED
    BY <2>3 DEF f, h
<1>7. SumFunctionOnSet(Settled', Deposit) = SumFunctionOnSet(Settled, Deposit) + Settled'[d] - Settled[d]
  <2> DEFINE f == Settled
             h == Settled'
  <2>1. \A x \in Deposit : f[x] \in Int /\ h[x] \in Int
    BY <1>2
  <2>2. \A x \in Deposit \ {d} : f[x] = h[x]
    BY DEF OtherDeposits, Settled
  <2> HIDE DEF f, h
  <2>3. SumFunctionOnSet(h, Deposit) = SumFunctionOnSet(f, Deposit) + h[d] - f[d]
    BY <1>1, <2>1, <2>2, SumChange
  <2> QED
    BY <2>3 DEF f, h
<1> QED
  BY <1>4, <1>5, <1>6, <1>7

(* And when one transfer changes.                                          *)
OtherTransfers(t) == \A u \in Transfer \ {t} : out'[u] = out[u]

(* The same for a step of one transfer.                                    *)
LEMMA TransferSums ==
    ASSUME NEW t \in Transfer, OtherTransfers(t)
    PROVE  /\ SumFunctionOnSet(Wallet', Transfer) = SumFunctionOnSet(Wallet, Transfer) + Wallet'[t] - Wallet[t]
           /\ SumFunctionOnSet(Paid', Transfer) = SumFunctionOnSet(Paid, Transfer) + Paid'[t] - Paid[t]
           /\ SumFunctionOnSet(Kept', Transfer) = SumFunctionOnSet(Kept, Transfer) + Kept'[t] - Kept[t]
<1>1. IsFiniteSet(Transfer)
  BY BackingAssumption
<1>2. ASSUME NEW u \in Transfer
      PROVE  /\ Wallet[u] \in Int /\ Paid[u] \in Int /\ Kept[u] \in Int
             /\ Wallet'[u] \in Int /\ Paid'[u] \in Int /\ Kept'[u] \in Int
  <2>1. Amount[u] \in Int /\ refundAmount(Amount[u]) \in Int
    BY BackingAssumption, RefundType
  <2>2. Wallet[u] \in Int /\ Wallet'[u] \in Int /\ Paid[u] \in Int /\ Paid'[u] \in Int
    BY <2>1 DEF Wallet, Paid, refundAmount
  <2>3. Kept[u] = Wallet[u] - IF out[u] = "QUEUED" THEN refundAmount(Amount[u]) ELSE 0
    BY DEF Kept
  <2>4. Kept'[u] = Wallet'[u] - IF out'[u] = "QUEUED" THEN refundAmount(Amount[u]) ELSE 0
    BY DEF Kept, refundAmount
  <2> QED
    BY <2>1, <2>2, <2>3, <2>4
<1>3. ASSUME NEW u \in Transfer \ {t}
      PROVE  Wallet'[u] = Wallet[u] /\ Paid'[u] = Paid[u] /\ Kept'[u] = Kept[u]
  BY DEF OtherTransfers, Wallet, Paid, Kept, refundAmount
<1>4. SumFunctionOnSet(Wallet', Transfer) = SumFunctionOnSet(Wallet, Transfer) + Wallet'[t] - Wallet[t]
  <2> DEFINE f == Wallet
             h == Wallet'
  <2>1. (\A x \in Transfer : f[x] \in Int /\ h[x] \in Int) /\ \A x \in Transfer \ {t} : f[x] = h[x]
    BY <1>2, <1>3
  <2> HIDE DEF f, h
  <2>2. SumFunctionOnSet(h, Transfer) = SumFunctionOnSet(f, Transfer) + h[t] - f[t]
    BY <1>1, <2>1, SumChange
  <2> QED
    BY <2>2 DEF f, h
<1>5. SumFunctionOnSet(Paid', Transfer) = SumFunctionOnSet(Paid, Transfer) + Paid'[t] - Paid[t]
  <2> DEFINE f == Paid
             h == Paid'
  <2>1. (\A x \in Transfer : f[x] \in Int /\ h[x] \in Int) /\ \A x \in Transfer \ {t} : f[x] = h[x]
    BY <1>2, <1>3
  <2> HIDE DEF f, h
  <2>2. SumFunctionOnSet(h, Transfer) = SumFunctionOnSet(f, Transfer) + h[t] - f[t]
    BY <1>1, <2>1, SumChange
  <2> QED
    BY <2>2 DEF f, h
<1>6. SumFunctionOnSet(Kept', Transfer) = SumFunctionOnSet(Kept, Transfer) + Kept'[t] - Kept[t]
  <2> DEFINE f == Kept
             h == Kept'
  <2>1. (\A x \in Transfer : f[x] \in Int /\ h[x] \in Int) /\ \A x \in Transfer \ {t} : f[x] = h[x]
    BY <1>2, <1>3
  <2> HIDE DEF f, h
  <2>2. SumFunctionOnSet(h, Transfer) = SumFunctionOnSet(f, Transfer) + h[t] - f[t]
    BY <1>1, <2>1, SumChange
  <2> QED
    BY <2>2 DEF f, h
<1> QED
  BY <1>4, <1>5, <1>6

(* The rows of a sound ledger cover what is owed, one by one.              *)
Pending == [d \in Deposit |-> IF row[d].status \in {"QUEUED", "BROADCAST"} /\ ~row[d].landed THEN Gross[d] ELSE 0]
Due == [d \in Deposit |-> IF refund[d].status = "QUEUED" THEN refund[d].amount ELSE 0]
Coming == [t \in Transfer |-> IF out[t] = "QUEUED" THEN Amount[t] ELSE 0]

(* What one deposit brought in covers what it put into circulation and     *)
(* everything it still owes.                                               *)
LEMMA RowCovers ==
    ASSUME LedgerInv, NEW d \in Deposit
    PROVE  /\ Pending[d] \in Int /\ Due[d] \in Int
           /\ Circulated[d] + Pending[d] + Due[d] <= Received[d]
           /\ Circulated[d] + Pinned[d] <= Received[d] + Settled[d] + InFlight[d]
           /\ Settled[d] <= IF row[d].status \in {"BROADCAST", "CONFIRMED"} THEN row[d].fee ELSE 0
<1>1. Gross[d] \in Nat
  BY BackingAssumption
<1>2. row[d] \in RowRecord /\ sweep[d] \in SweepRecord /\ refund[d] \in RefundRecord
  BY DEF LedgerInv, RowsTyped
<1>3. /\ row[d].fee \in Nat /\ row[d].net \in Nat /\ sweep[d].amount \in Nat /\ refund[d].amount \in Nat
      /\ row[d].signed \in BOOLEAN /\ row[d].landed \in BOOLEAN
      /\ row[d].status \in {"none", "QUEUED", "BROADCAST", "CONFIRMED", "REFUNDING", "REFUNDED"}
      /\ sweep[d].status \in {"none", "QUEUED", "LANDED", "CONFIRMED"}
      /\ refund[d].status \in {"none", "QUEUED", "CONFIRMED"}
  BY <1>2 DEF RowRecord, SweepRecord, RefundRecord
<1>4. RowSound(d)
  BY DEF LedgerInv
<1>5. Pending[d] \in Int /\ Due[d] \in Int
  BY <1>1, <1>3 DEF Pending, Due
<1> DEFINE r == row[d]
           swept == sweep[d].amount
           refunded == refund[d].amount
<1>6. /\ Received[d] = (IF r.status = "none" THEN 0 ELSE Gross[d])
                         - (IF sweep[d].status \in {"LANDED", "CONFIRMED"} THEN swept ELSE 0)
                         - (IF refund[d].status = "CONFIRMED" THEN refunded ELSE 0)
      /\ Circulated[d] = (IF r.landed THEN r.net ELSE 0)
      /\ Pending[d] = (IF r.status \in {"QUEUED", "BROADCAST"} /\ ~r.landed THEN Gross[d] ELSE 0)
      /\ Due[d] = (IF refund[d].status = "QUEUED" THEN refunded ELSE 0)
      /\ Pinned[d] = (IF r.status \in {"QUEUED", "BROADCAST", "CONFIRMED"} THEN r.fee ELSE 0)
      /\ Settled[d] = (IF sweep[d].status = "CONFIRMED" THEN swept ELSE 0)
      /\ InFlight[d] = (IF sweep[d].status = "LANDED" THEN swept ELSE 0)
  BY DEF Received, Circulated, Pending, Due, Pinned, Settled, InFlight
<1>7. /\ Circulated[d] + Pending[d] + Due[d] <= Received[d]
      /\ Circulated[d] + Pinned[d] <= Received[d] + Settled[d] + InFlight[d]
  <2>1. CASE r.landed
    <3>1. r.status \in {"BROADCAST", "CONFIRMED"} /\ r.net + r.fee = Gross[d] /\ refund[d].status = "none"
      BY <1>3, <1>4, <2>1 DEF RowSound
    <3>2. CASE sweep[d].status \in {"LANDED", "CONFIRMED"}
      <4>1. r.net + swept <= Gross[d] /\ r.status = "CONFIRMED"
        BY <1>4, <3>2 DEF RowSound
      <4> HIDE DEF r, swept, refunded
      <4> QED
        BY <1>1, <1>3, <1>6, <2>1, <3>1, <3>2, <4>1 DEF r, swept, refunded
    <3>3. CASE sweep[d].status \notin {"LANDED", "CONFIRMED"}
      BY <1>1, <1>3, <1>6, <2>1, <3>1, <3>3
    <3> QED
      BY <3>2, <3>3
  <2>2. CASE ~r.landed
    <3>1. r.status # "CONFIRMED" /\ sweep[d].status = "none"
      BY <1>3, <1>4, <2>2 DEF RowSound
    <3>2. r.fee <= Gross[d]
      BY <1>1, <1>3, <1>4 DEF RowSound
    <3>3. CASE r.status = "none"
      <4>1. refund[d].status = "none" /\ r.fee = 0
        BY <1>3, <1>4, <3>3 DEF RowSound
      <4> QED
        BY <1>1, <1>3, <1>6, <2>2, <3>1, <3>3, <4>1
    <3>4. CASE r.status \in {"QUEUED", "BROADCAST"}
      <4>1. refund[d].status = "none"
        BY <1>3, <1>4, <3>4 DEF RowSound
      <4> QED
        BY <1>1, <1>3, <1>6, <2>2, <3>1, <3>2, <3>4, <4>1
    <3>5. CASE r.status \in {"REFUNDING", "REFUNDED"}
      <4>1. refund[d].status # "none" => refunded <= Gross[d]
        BY <1>4 DEF RowSound
      <4> QED
        BY <1>1, <1>3, <1>6, <2>2, <3>1, <3>5, <4>1
    <3> QED
      BY <1>3, <3>1, <3>3, <3>4, <3>5
  <2> QED
    BY <2>1, <2>2
<1>8. Settled[d] <= IF row[d].status \in {"BROADCAST", "CONFIRMED"} THEN row[d].fee ELSE 0
  BY <1>1, <1>3, <1>4 DEF RowSound, Settled
<1> QED
  BY <1>5, <1>7, <1>8

LEMMA LedgerSolvent == ASSUME LedgerInv PROVE Solvent
<1>1. IsFiniteSet(Deposit) /\ IsFiniteSet(Transfer) /\ Gross \in [Deposit -> Nat] /\ Amount \in [Transfer -> Nat]
  BY BackingAssumption
<1> DEFINE Open == {d \in Deposit : row[d].status \in {"QUEUED", "BROADCAST"} /\ ~row[d].landed}
           Refunds == [d \in Deposit |-> refund[d].amount]
           Owing == {d \in Deposit : refund[d].status = "QUEUED"}
           Waiting == {t \in Transfer : out[t] = "QUEUED"}
           Sum(f) == SumFunctionOnSet(f, Deposit)
           SumT(f) == SumFunctionOnSet(f, Transfer)
<1>2. ASSUME NEW d \in Deposit
      PROVE  /\ Received[d] \in Int /\ Circulated[d] \in Int /\ Pending[d] \in Int /\ Due[d] \in Int
             /\ Circulated[d] + Pending[d] + Due[d] <= Received[d]
  BY RowCovers, DepositSummands DEF LedgerInv
<1>3. Sum(Pending) = SumFunctionOnSet(Gross, Open)
  <2>1. \A x \in Open : Gross[x] \in Int /\ Pending[x] = Gross[x]
    BY <1>1 DEF Pending
  <2>2. \A x \in Deposit \ Open : Pending[x] = 0
    BY DEF Pending
  <2>3. Open \in SUBSET Deposit
    OBVIOUS
  <2> HIDE DEF Open
  <2> QED
    BY <1>1, <2>1, <2>2, <2>3, SumSelect
<1>4. Sum(Due) = SumFunctionOnSet(Refunds, Owing)
  <2>1. \A x \in Owing : Refunds[x] \in Int /\ Due[x] = Refunds[x]
    BY DEF Due, LedgerInv, RowsTyped, RefundRecord
  <2>2. \A x \in Deposit \ Owing : Due[x] = 0
    BY DEF Due
  <2>3. Owing \in SUBSET Deposit
    OBVIOUS
  <2> HIDE DEF Owing, Refunds
  <2> QED
    BY <1>1, <2>1, <2>2, <2>3, SumSelect
<1>5. SumT(Coming) = SumFunctionOnSet(Amount, Waiting)
  <2>1. \A x \in Waiting : Amount[x] \in Int /\ Coming[x] = Amount[x]
    BY <1>1 DEF Coming
  <2>2. \A x \in Transfer \ Waiting : Coming[x] = 0
    BY DEF Coming
  <2>3. Waiting \in SUBSET Transfer
    OBVIOUS
  <2> HIDE DEF Waiting
  <2> QED
    BY <1>1, <2>1, <2>2, <2>3, SumSelect
<1>6. Sum(Circulated) + Sum(Pending) + Sum(Due) <= Sum(Received)
  <2> DEFINE two == [d \in Deposit |-> Circulated[d] + Pending[d]]
             three == [d \in Deposit |-> two[d] + Due[d]]
  <2>1. ASSUME NEW d \in Deposit
        PROVE  /\ two[d] \in Int /\ two[d] = Circulated[d] + Pending[d]
               /\ three[d] \in Int /\ three[d] = two[d] + Due[d] /\ three[d] <= Received[d]
    BY <1>2
  <2> HIDE DEF two, three
  <2>2. Sum(two) = Sum(Circulated) + Sum(Pending)
    BY <1>1, <1>2, <2>1, SumPlus
  <2>3. Sum(three) = Sum(two) + Sum(Due)
    BY <1>1, <1>2, <2>1, SumPlus
  <2>4. Sum(three) <= Sum(Received)
    BY <1>1, <1>2, <2>1, SumPointwise
  <2> QED
    BY <2>2, <2>3, <2>4
<1>7. SumT(Paid) + SumT(Coming) <= SumT(Wallet)
  <2> DEFINE two == [t \in Transfer |-> Paid[t] + Coming[t]]
  <2>1. ASSUME NEW t \in Transfer
        PROVE  /\ Paid[t] \in Int /\ Coming[t] \in Int /\ Wallet[t] \in Int
               /\ two[t] = Paid[t] + Coming[t] /\ two[t] \in Int /\ two[t] <= Wallet[t]
    <3>1. Paid[t] \in Nat /\ Wallet[t] \in Nat /\ Amount[t] \in Nat
      BY <1>1, TransferSummands
    <3>2. Coming[t] \in Nat /\ two[t] = Paid[t] + Coming[t]
      BY <3>1 DEF Coming
    <3>3. two[t] <= Wallet[t]
      BY <3>1, <3>2 DEF Coming, Paid, Wallet
    <3> QED
      BY <3>1, <3>2, <3>3
  <2> HIDE DEF two
  <2>2. SumT(two) = SumT(Paid) + SumT(Coming)
    BY <1>1, <2>1, SumPlus
  <2>3. SumT(two) <= SumT(Wallet)
    BY <1>1, <2>1, SumPointwise
  <2> QED
    BY <2>2, <2>3
<1>8. /\ Sum(Circulated) \in Int /\ Sum(Pending) \in Int /\ Sum(Due) \in Int /\ Sum(Received) \in Int
      /\ SumT(Paid) \in Int /\ SumT(Coming) \in Int /\ SumT(Wallet) \in Int
  <2>1. Sum(Circulated) \in Int /\ Sum(Pending) \in Int /\ Sum(Due) \in Int /\ Sum(Received) \in Int
    BY <1>1, <1>2, SumType
  <2>2. \A t \in Transfer : Paid[t] \in Int /\ Coming[t] \in Int /\ Wallet[t] \in Int
    BY <1>1, TransferSummands DEF Coming
  <2> QED
    BY <1>1, <2>1, <2>2, SumType
<1>9. Owed = supply - held + Sum(Pending) + Sum(Due) + SumT(Coming)
  BY <1>3, <1>4, <1>5 DEF Owed
<1>10. locked = Sum(Received) - SumT(Paid) /\ supply = Sum(Circulated) /\ held = SumT(Wallet)
  BY DEF LedgerInv, Books
<1> HIDE DEF Sum, SumT
<1> QED
  BY <1>6, <1>7, <1>8, <1>9, <1>10 DEF Solvent

-----------------------------------------------------------------------------
(* A step of one deposit keeps the ledger when the balances move with the  *)
(* row.                                                                    *)
LEMMA DepositStep ==
    ASSUME LedgerInv, NEW d \in Deposit, RowsTyped', OtherDeposits(d), out' = out, policy' = policy, RowSound(d)',
           locked' = locked + Received'[d] - Received[d],
           supply' = supply + Circulated'[d] - Circulated[d],
           held' = held, Circulated'[d] >= Circulated[d]
    PROVE  LedgerInv'
<1>1. /\ SumFunctionOnSet(Received', Deposit) = SumFunctionOnSet(Received, Deposit) + Received'[d] - Received[d]
      /\ SumFunctionOnSet(Circulated', Deposit)
           = SumFunctionOnSet(Circulated, Deposit) + Circulated'[d] - Circulated[d]
  BY DepositSums DEF LedgerInv
<1>2. /\ locked = SumFunctionOnSet(Received, Deposit) - SumFunctionOnSet(Paid, Transfer)
      /\ supply = SumFunctionOnSet(Circulated, Deposit)
      /\ held = SumFunctionOnSet(Wallet, Transfer) /\ held <= supply
  BY DEF LedgerInv, Books
<1>3. Paid' = Paid /\ Wallet' = Wallet
  BY DEF Paid, Wallet, refundAmount
<1>4. /\ Received[d] \in Int /\ Circulated[d] \in Int /\ Received'[d] \in Int /\ Circulated'[d] \in Int
      /\ SumFunctionOnSet(Received, Deposit) \in Int /\ SumFunctionOnSet(Circulated, Deposit) \in Int
      /\ SumFunctionOnSet(Paid, Transfer) \in Int /\ SumFunctionOnSet(Wallet, Transfer) \in Int
  <2>1. IsFiniteSet(Deposit) /\ IsFiniteSet(Transfer)
    BY BackingAssumption
  <2>2. \A e \in Deposit : Received[e] \in Int /\ Circulated[e] \in Int
    BY DepositSummands DEF LedgerInv
  <2>3. \A t \in Transfer : Paid[t] \in Int /\ Wallet[t] \in Int
    BY TransferSummands
  <2>4. row'[d] \in RowRecord /\ sweep'[d] \in SweepRecord /\ refund'[d] \in RefundRecord /\ Gross[d] \in Nat
    BY BackingAssumption DEF RowsTyped
  <2>5. row'[d].net \in Nat /\ sweep'[d].amount \in Nat /\ refund'[d].amount \in Nat
    BY <2>4 DEF RowRecord, SweepRecord, RefundRecord
  <2>6. Received'[d] \in Int /\ Circulated'[d] \in Int
    BY <2>4, <2>5 DEF Received, Circulated
  <2> QED
    BY <2>1, <2>2, <2>3, <2>6, SumType
<1>5. Books'
  <2>1. locked' = SumFunctionOnSet(Received', Deposit) - SumFunctionOnSet(Paid, Transfer)
    BY <1>1, <1>2, <1>4
  <2>2. supply' = SumFunctionOnSet(Circulated', Deposit) /\ held' = SumFunctionOnSet(Wallet, Transfer) /\ held' <= supply'
    BY <1>1, <1>2, <1>4
  <2> QED
    BY <1>3, <2>1, <2>2 DEF Books
<1>6. ASSUME NEW e \in Deposit PROVE RowSound(e)'
  <2>1. CASE e = d
    BY <2>1
  <2>2. CASE e # d
    <3>1. row'[e] = row[e] /\ sweep'[e] = sweep[e] /\ refund'[e] = refund[e]
      BY <2>2 DEF OtherDeposits
    <3>2. RowSound(e)
      BY DEF LedgerInv
    <3> QED
      BY <3>1, <3>2 DEF RowSound, baseFee
  <2> QED
    BY <2>1, <2>2
<1> QED
  BY <1>5, <1>6 DEF LedgerInv

(* And a step of one transfer.                                             *)
LEMMA TransferStep ==
    ASSUME LedgerInv, NEW t \in Transfer, OtherTransfers(t), UNCHANGED <<row, sweep, refund, policy, supply>>, RowsTyped',
           locked' = locked - Paid'[t] + Paid[t],
           held' = held + Wallet'[t] - Wallet[t], held' <= supply
    PROVE  LedgerInv'
<1>1. /\ SumFunctionOnSet(Wallet', Transfer) = SumFunctionOnSet(Wallet, Transfer) + Wallet'[t] - Wallet[t]
      /\ SumFunctionOnSet(Paid', Transfer) = SumFunctionOnSet(Paid, Transfer) + Paid'[t] - Paid[t]
  BY TransferSums
<1>2. /\ locked = SumFunctionOnSet(Received, Deposit) - SumFunctionOnSet(Paid, Transfer)
      /\ supply = SumFunctionOnSet(Circulated, Deposit)
      /\ held = SumFunctionOnSet(Wallet, Transfer)
  BY DEF LedgerInv, Books
<1>3. Received' = Received /\ Circulated' = Circulated
  BY DEF Received, Circulated
<1>4. /\ Paid[t] \in Int /\ Wallet[t] \in Int /\ Paid'[t] \in Int /\ Wallet'[t] \in Int
      /\ SumFunctionOnSet(Received, Deposit) \in Int
      /\ SumFunctionOnSet(Paid, Transfer) \in Int /\ SumFunctionOnSet(Wallet, Transfer) \in Int
  <2>1. IsFiniteSet(Deposit) /\ IsFiniteSet(Transfer)
    BY BackingAssumption
  <2>2. \A e \in Deposit : Received[e] \in Int
    BY DepositSummands DEF LedgerInv
  <2>3. \A u \in Transfer : Paid[u] \in Int /\ Wallet[u] \in Int
    BY TransferSummands
  <2>4. Amount[t] \in Int /\ refundAmount(Amount[t]) \in Int
    BY BackingAssumption, RefundType
  <2>5. Paid'[t] \in Int /\ Wallet'[t] \in Int
    BY <2>4 DEF Paid, Wallet, refundAmount
  <2> QED
    BY <2>1, <2>2, <2>3, <2>5, SumType
<1>5. Books'
  <2>1. locked' = SumFunctionOnSet(Received, Deposit) - SumFunctionOnSet(Paid', Transfer)
    BY <1>1, <1>2, <1>4
  <2>2. held' = SumFunctionOnSet(Wallet', Transfer)
    BY <1>1, <1>2, <1>4
  <2> QED
    BY <1>2, <1>3, <2>1, <2>2 DEF Books
<1>6. ASSUME NEW e \in Deposit PROVE RowSound(e)'
  BY DEF LedgerInv, RowSound, baseFee
<1> QED
  BY <1>5, <1>6 DEF LedgerInv

(* What a step can do to the figures of a check: each of the three is      *)
(* counted in moved, if there is a check.                                  *)
Slips(x, y, z) ==
    /\ locked' >= locked - x /\ supply' <= supply + y
    /\ MostUnswept' <= MostUnswept + z /\ LeastHeld' >= LeastHeld

BooksMove ==
    /\ check' = check /\ sick' = sick
    /\ \E x, y, z \in Nat : Slips(x, y, z) /\ (moved \in Nat => moved' \in Nat)
                                           /\ (moved \in Nat /\ check.pc # "idle" => moved' = moved + x + y + z)

(* What a step of one deposit does to the bounds of what a check can read. *)
LEMMA DepositFigures ==
    ASSUME LedgerInv, NEW d \in Deposit, RowsTyped', OtherDeposits(d), out' = out
    PROVE  /\ MostUnswept' = MostUnswept + Pinned'[d] - Pinned[d] - Settled'[d] + Settled[d]
           /\ LeastHeld' = LeastHeld
           /\ MostUnswept \in Int /\ LeastHeld \in Int /\ locked \in Int /\ supply \in Int
           /\ Pinned[d] \in Nat /\ Settled[d] \in Nat
<1>1. /\ SumFunctionOnSet(Pinned', Deposit) = SumFunctionOnSet(Pinned, Deposit) + Pinned'[d] - Pinned[d]
      /\ SumFunctionOnSet(Settled', Deposit) = SumFunctionOnSet(Settled, Deposit) + Settled'[d] - Settled[d]
  BY DepositSums DEF LedgerInv
<1>2. Kept' = Kept
  BY DEF Kept, Wallet, refundAmount
<1>3. IsFiniteSet(Deposit) /\ IsFiniteSet(Transfer)
  BY BackingAssumption
<1>4. \A e \in Deposit : Pinned[e] \in Nat /\ Settled[e] \in Nat /\ Received[e] \in Int /\ Circulated[e] \in Int
  BY DepositSummands DEF LedgerInv
<1>5. \A t \in Transfer : Kept[t] \in Int /\ Paid[t] \in Int
  BY TransferSummands
<1>6. /\ SumFunctionOnSet(Pinned, Deposit) \in Int /\ SumFunctionOnSet(Settled, Deposit) \in Int
      /\ SumFunctionOnSet(Received, Deposit) \in Int /\ SumFunctionOnSet(Circulated, Deposit) \in Int
      /\ LeastHeld \in Int /\ SumFunctionOnSet(Paid, Transfer) \in Int
  BY <1>3, <1>4, <1>5, SumType DEF LeastHeld
<1>7. locked \in Int /\ supply \in Int
  BY <1>6 DEF LedgerInv, Books
<1>8. Pinned'[d] \in Int /\ Settled'[d] \in Int
  <2>1. row'[d].fee \in Int /\ sweep'[d].amount \in Int
    BY DEF RowsTyped, RowRecord, SweepRecord
  <2> QED
    BY <2>1 DEF Pinned, Settled
<1>9. MostUnswept' = MostUnswept + Pinned'[d] - Pinned[d] - Settled'[d] + Settled[d]
  BY <1>1, <1>4, <1>6, <1>8 DEF MostUnswept
<1>10. MostUnswept \in Int
  BY <1>6 DEF MostUnswept
<1>11. LeastHeld' = LeastHeld
  BY <1>2 DEF LeastHeld
<1> QED
  BY <1>4, <1>6, <1>7, <1>9, <1>10, <1>11

(* One deposit and its summands, spelled out.                              *)
LEMMA DepositView ==
    ASSUME LedgerInv, NEW d \in Deposit
    PROVE  /\ row[d] \in RowRecord /\ sweep[d] \in SweepRecord /\ refund[d] \in RefundRecord
           /\ row[d].fee \in Nat /\ row[d].net \in Nat /\ sweep[d].amount \in Nat /\ refund[d].amount \in Nat
           /\ row[d].signed \in BOOLEAN /\ row[d].landed \in BOOLEAN
           /\ row[d].status \in {"none", "QUEUED", "BROADCAST", "CONFIRMED", "REFUNDING", "REFUNDED"}
           /\ sweep[d].status \in {"none", "QUEUED", "LANDED", "CONFIRMED"}
           /\ refund[d].status \in {"none", "QUEUED", "CONFIRMED"}
           /\ RowSound(d) /\ Gross[d] \in Nat /\ Gross[d] # 0
           /\ Received[d] \in Int /\ Circulated[d] \in Nat
           /\ locked \in Int /\ supply \in Int
<1>1. row[d] \in RowRecord /\ sweep[d] \in SweepRecord /\ refund[d] \in RefundRecord
  BY DEF LedgerInv, RowsTyped
<1>2. /\ row[d].fee \in Nat /\ row[d].net \in Nat /\ sweep[d].amount \in Nat /\ refund[d].amount \in Nat
      /\ row[d].signed \in BOOLEAN /\ row[d].landed \in BOOLEAN
      /\ row[d].status \in {"none", "QUEUED", "BROADCAST", "CONFIRMED", "REFUNDING", "REFUNDED"}
      /\ sweep[d].status \in {"none", "QUEUED", "LANDED", "CONFIRMED"}
      /\ refund[d].status \in {"none", "QUEUED", "CONFIRMED"}
  BY <1>1 DEF RowRecord, SweepRecord, RefundRecord
<1>3. RowSound(d) /\ Gross[d] \in Nat /\ Gross[d] # 0 /\ IsFiniteSet(Deposit) /\ IsFiniteSet(Transfer)
  BY BackingAssumption DEF LedgerInv
<1>4. \A e \in Deposit : Received[e] \in Int /\ Circulated[e] \in Nat
  BY DepositSummands DEF LedgerInv
<1>5. \A t \in Transfer : Paid[t] \in Int
  BY TransferSummands
<1>6. /\ SumFunctionOnSet(Received, Deposit) \in Int /\ SumFunctionOnSet(Circulated, Deposit) \in Int
      /\ SumFunctionOnSet(Paid, Transfer) \in Int
  BY <1>3, <1>4, <1>5, SumType
<1>7. locked \in Int /\ supply \in Int
  BY <1>6 DEF LedgerInv, Books
<1> QED
  BY <1>1, <1>2, <1>3, <1>4, <1>7

(* A step of one deposit, in the two respects.                             *)
LEMMA DepositMoves ==
    ASSUME LedgerInv, NEW d \in Deposit, RowsTyped', OtherDeposits(d), RowSound(d)',
           UNCHANGED <<held, out, policy, check, sick>>,
           NEW x \in Nat, NEW y \in Nat, NEW z \in Nat, NEW g \in Nat,
           Received'[d] = Received[d] + g - x, locked' = locked + g - x,
           Circulated'[d] = Circulated[d] + y, supply' = supply + y,
           Pinned'[d] <= Pinned[d] + z, Settled'[d] >= Settled[d],
           (moved' = moved /\ x = 0 /\ y = 0 /\ z = 0) \/ Move(x + y + z)
    PROVE  LedgerInv' /\ BooksMove
<1>1. Received[d] \in Int /\ Circulated[d] \in Nat /\ locked \in Int /\ supply \in Int
  BY DepositView
<1>2. LedgerInv'
  <2>1. /\ locked' = locked + Received'[d] - Received[d]
        /\ supply' = supply + Circulated'[d] - Circulated[d]
        /\ Circulated'[d] >= Circulated[d]
    BY <1>1
  <2> QED
    BY <2>1, DepositStep
<1>3. /\ MostUnswept' = MostUnswept + Pinned'[d] - Pinned[d] - Settled'[d] + Settled[d]
      /\ LeastHeld' = LeastHeld
      /\ MostUnswept \in Int /\ LeastHeld \in Int /\ Pinned[d] \in Nat /\ Settled[d] \in Nat
  BY DepositFigures
<1>4. Pinned'[d] \in Int /\ Settled'[d] \in Int
  <2>1. row'[d].fee \in Int /\ sweep'[d].amount \in Int
    BY DEF RowsTyped, RowRecord, SweepRecord
  <2> QED
    BY <2>1 DEF Pinned, Settled
<1>5. Slips(x, y, z)
  BY <1>1, <1>3, <1>4 DEF Slips
<1>6. moved \in Nat => moved' \in Nat
  BY DEF Move
<1>7. moved \in Nat /\ check.pc # "idle" => moved' = moved + x + y + z
  BY DEF Move
<1> QED
  BY <1>2, <1>5, <1>6, <1>7 DEF BooksMove

(* One row changes.                                                        *)
LEMMA RowChanges ==
    ASSUME LedgerInv, NEW d \in Deposit, NEW new \in RowRecord,
           row' = [row EXCEPT ![d] = new], UNCHANGED <<sweep, refund, out, policy>>
    PROVE  RowsTyped' /\ OtherDeposits(d) /\ row'[d] = new
<1>1. /\ row \in [Deposit -> RowRecord] /\ sweep \in [Deposit -> SweepRecord]
      /\ refund \in [Deposit -> RefundRecord]
      /\ out \in [Transfer -> {"none", "QUEUED", "CONFIRMED", "RETURNED"}]
      /\ policy \in [{"coordinator", "dispatcher", "signers"} -> {Old, New}]
  BY DEF LedgerInv, RowsTyped
<1>2. row' \in [Deposit -> RowRecord] /\ row'[d] = new
  BY <1>1
<1>3. RowsTyped'
  BY <1>1, <1>2 DEF RowsTyped
<1> QED
  BY <1>1, <1>2, <1>3 DEF OtherDeposits

(* The peg-in side keeps the ledger and moves the figures by no more than  *)
(* it records as moved.                                                    *)
LEMMA PegInStep ==
    ASSUME LedgerInv, NEW d \in Deposit, Arrive(d) \/ Deliver(d) \/ GiveUp(d) \/ Mint(d) \/ Confirm(d)
    PROVE  LedgerInv' /\ BooksMove
<1>1. /\ row[d] \in RowRecord /\ sweep[d] \in SweepRecord /\ refund[d] \in RefundRecord
      /\ row[d].fee \in Nat /\ row[d].net \in Nat /\ sweep[d].amount \in Nat /\ refund[d].amount \in Nat
      /\ row[d].signed \in BOOLEAN /\ row[d].landed \in BOOLEAN
      /\ row[d].status \in {"none", "QUEUED", "BROADCAST", "CONFIRMED", "REFUNDING", "REFUNDED"}
      /\ sweep[d].status \in {"none", "QUEUED", "LANDED", "CONFIRMED"}
      /\ refund[d].status \in {"none", "QUEUED", "CONFIRMED"}
      /\ RowSound(d) /\ Gross[d] \in Nat /\ Gross[d] # 0
      /\ Received[d] \in Int /\ Circulated[d] \in Nat
      /\ locked \in Int /\ supply \in Int
  BY DepositView
<1>2. row \in [Deposit -> RowRecord] /\ sweep \in [Deposit -> SweepRecord] /\ refund \in [Deposit -> RefundRecord]
  BY DEF LedgerInv, RowsTyped
<1>3. CASE Arrive(d)
  <2>1. row' = [row EXCEPT ![d] = [row[d] EXCEPT !.status = "QUEUED"]] /\ UNCHANGED <<sweep, refund, out, policy>>
    BY <1>3 DEF Arrive
  <2>2. RowsTyped' /\ OtherDeposits(d) /\ row'[d] = [row[d] EXCEPT !.status = "QUEUED"]
    <3> DEFINE new == [row[d] EXCEPT !.status = "QUEUED"]
    <3>1. new \in RowRecord
      BY <1>1 DEF RowRecord
    <3>2. row' = [row EXCEPT ![d] = new] /\ UNCHANGED <<sweep, refund, out, policy>>
      BY <2>1
    <3> HIDE DEF new
    <3>3. RowsTyped' /\ OtherDeposits(d) /\ row'[d] = new
      BY <3>1, <3>2, RowChanges
    <3> QED
      BY <3>3 DEF new
  <2>3. /\ row'[d].status = "QUEUED" /\ row'[d].fee = row[d].fee /\ row'[d].net = row[d].net
        /\ row'[d].signed = row[d].signed /\ row'[d].landed = row[d].landed
    BY <1>1, <2>2 DEF RowRecord
  <2>4. /\ row[d].status = "none" /\ row[d].net = 0 /\ row[d].fee = 0 /\ row[d].signed = FALSE
        /\ row[d].landed = FALSE /\ sweep[d].status = "none" /\ refund[d].status = "none"
    BY <1>1, <1>3 DEF Arrive, RowSound
  <2>5. RowSound(d)'
    BY <2>1, <2>3, <2>4 DEF RowSound
  <2>6. Received'[d] = Gross[d] /\ Received[d] = 0
    BY <1>1, <2>1, <2>3, <2>4 DEF Received
  <2>7. Circulated'[d] = Circulated[d] /\ Pinned'[d] = Pinned[d] /\ Settled'[d] = Settled[d]
    BY <2>1, <2>3, <2>4 DEF Circulated, Pinned, Settled
  <2>8. /\ locked' = locked + Gross[d] /\ moved' = moved /\ supply' = supply
        /\ UNCHANGED <<held, out, policy, check, sick>>
    BY <1>3 DEF Arrive, recon
  <2>9. Pinned[d] \in Nat /\ Settled[d] \in Nat
    BY DepositSummands DEF LedgerInv
  <2> QED
    <3>1. /\ Received'[d] = Received[d] + Gross[d] - 0 /\ locked' = locked + Gross[d] - 0
          /\ Circulated'[d] = Circulated[d] + 0 /\ supply' = supply + 0
          /\ Pinned'[d] <= Pinned[d] + 0 /\ Settled'[d] >= Settled[d]
      BY <1>1, <2>6, <2>7, <2>8, <2>9
    <3>2. 0 \in Nat /\ Gross[d] \in Nat
      BY <1>1
    <3> QED
      BY <2>2, <2>5, <2>8, <3>1, <3>2, DepositMoves
<1>4. CASE Deliver(d)
  <2>1. row' = [row EXCEPT ![d] = [row[d] EXCEPT !.status = "BROADCAST"]] /\ UNCHANGED <<sweep, refund, out, policy>>
    BY <1>4 DEF Deliver
  <2>2. RowsTyped' /\ OtherDeposits(d) /\ row'[d] = [row[d] EXCEPT !.status = "BROADCAST"]
    BY <1>2, <2>1 DEF LedgerInv, RowsTyped, OtherDeposits, RowRecord
  <2>3. /\ row'[d].status = "BROADCAST" /\ row'[d].fee = row[d].fee /\ row'[d].net = row[d].net
        /\ row'[d].signed = row[d].signed /\ row'[d].landed = row[d].landed
    BY <1>1, <2>2 DEF RowRecord
  <2>4. /\ row[d].status = "QUEUED" /\ row[d].signed = FALSE /\ row[d].landed = FALSE
        /\ sweep[d].status = "none" /\ refund[d].status = "none"
    BY <1>1, <1>4 DEF Deliver, RowSound
  <2>5. RowSound(d)'
    BY <1>1, <2>1, <2>3, <2>4 DEF RowSound
  <2>6. Received'[d] = Received[d]
    BY <1>1, <2>1, <2>3, <2>4 DEF Received
  <2>7. Circulated'[d] = Circulated[d] /\ Pinned'[d] = Pinned[d] /\ Settled'[d] = Settled[d]
    BY <2>1, <2>3, <2>4 DEF Circulated, Pinned, Settled
  <2>8. locked' = locked /\ moved' = moved /\ supply' = supply /\ UNCHANGED <<held, out, policy, check, sick>>
    BY <1>4 DEF Deliver, recon, money
  <2>9. Pinned[d] \in Nat /\ Settled[d] \in Nat
    BY DepositSummands DEF LedgerInv
  <2> QED
    <3>1. /\ Received'[d] = Received[d] + 0 - 0 /\ locked' = locked + 0 - 0
          /\ Circulated'[d] = Circulated[d] + 0 /\ supply' = supply + 0
          /\ Pinned'[d] <= Pinned[d] + 0 /\ Settled'[d] >= Settled[d] /\ 0 \in Nat
      BY <1>1, <2>6, <2>7, <2>8, <2>9
    <3> QED
      BY <2>2, <2>5, <2>8, <3>1, DepositMoves
<1>5. CASE GiveUp(d)
  <2>1. PICK st \in {"QUEUED", "REFUNDING"}, f \in {refund[d], [status |-> "QUEUED", amount |-> refundAmount(Gross[d])]} :
           /\ row' = [row EXCEPT ![d] = [row[d] EXCEPT !.status = st]]
           /\ refund' = [refund EXCEPT ![d] = f]
           /\ st = "QUEUED" => f = refund[d]
    <3>1. refund = [refund EXCEPT ![d] = refund[d]]
      BY <1>2
    <3>2. CASE row' = [row EXCEPT ![d].status = "QUEUED"] /\ refund' = refund
      BY <3>1, <3>2
    <3>3. CASE /\ row' = [row EXCEPT ![d].status = "REFUNDING"]
               /\ refund' = [refund EXCEPT ![d] = [status |-> "QUEUED", amount |-> refundAmount(Gross[d])]]
      BY <3>3
    <3>4. CASE row' = [row EXCEPT ![d].status = "REFUNDING"] /\ refund' = refund
      BY <3>1, <3>4
    <3> QED
      BY <1>5, <3>2, <3>3, <3>4 DEF GiveUp
  <2>2. f \in RefundRecord /\ (f = refund[d] \/ (f.status = "QUEUED" /\ f.amount <= Gross[d])) /\ UNCHANGED <<sweep, out, policy>>
    BY <1>1, <1>5, RefundType DEF GiveUp, RefundRecord
  <2>3. RowsTyped' /\ OtherDeposits(d) /\ row'[d] = [row[d] EXCEPT !.status = st] /\ refund'[d] = f
    BY <1>2, <2>1, <2>2 DEF LedgerInv, RowsTyped, OtherDeposits, RowRecord
  <2>4. /\ row'[d].status = st /\ row'[d].fee = row[d].fee /\ row'[d].net = row[d].net
        /\ row'[d].signed = row[d].signed /\ row'[d].landed = row[d].landed
    BY <1>1, <2>3 DEF RowRecord
  <2>5. /\ row[d].status = "BROADCAST" /\ row[d].signed = FALSE /\ row[d].landed = FALSE
        /\ sweep[d].status = "none" /\ refund[d].status = "none"
    BY <1>1, <1>5 DEF GiveUp, RowSound
  <2>6. RowSound(d)'
    BY <1>1, <2>1, <2>2, <2>3, <2>4, <2>5 DEF RowSound
  <2>7. Received'[d] = Received[d]
    BY <1>1, <2>1, <2>2, <2>3, <2>4, <2>5 DEF Received
  <2>8. Circulated'[d] = Circulated[d] /\ Pinned'[d] <= Pinned[d] /\ Settled'[d] = Settled[d]
    BY <1>1, <2>1, <2>2, <2>4, <2>5 DEF Circulated, Pinned, Settled
  <2>9. locked' = locked /\ moved' = moved /\ supply' = supply /\ UNCHANGED <<held, out, policy, check, sick>>
    BY <1>5 DEF GiveUp, recon, money
  <2>10. Pinned[d] \in Nat /\ Settled[d] \in Nat
    BY DepositSummands DEF LedgerInv
  <2> QED
    <3>1. Pinned'[d] \in Int
      BY <1>1, <2>4 DEF Pinned
    <3>2. /\ Received'[d] = Received[d] + 0 - 0 /\ locked' = locked + 0 - 0
          /\ Circulated'[d] = Circulated[d] + 0 /\ supply' = supply + 0
          /\ Pinned'[d] <= Pinned[d] + 0 /\ Settled'[d] >= Settled[d] /\ 0 \in Nat
      BY <1>1, <2>7, <2>8, <2>9, <2>10, <3>1
    <3> QED
      BY <2>3, <2>6, <2>9, <3>2, DepositMoves
<1>6. CASE Mint(d)
  <2>1. row' = [row EXCEPT ![d] = [row[d] EXCEPT !.landed = TRUE]] /\ UNCHANGED <<sweep, refund, out, policy>>
    BY <1>6 DEF Mint
  <2>2. RowsTyped' /\ OtherDeposits(d) /\ row'[d] = [row[d] EXCEPT !.landed = TRUE]
    <3> DEFINE new == [row[d] EXCEPT !.landed = TRUE]
    <3>1. new \in RowRecord
      BY <1>1 DEF RowRecord
    <3>2. row' = [row EXCEPT ![d] = new] /\ UNCHANGED <<sweep, refund, out, policy>>
      BY <2>1
    <3> HIDE DEF new
    <3>3. RowsTyped' /\ OtherDeposits(d) /\ row'[d] = new
      BY <3>1, <3>2, RowChanges
    <3> QED
      BY <3>3 DEF new
  <2>3. /\ row'[d].status = row[d].status /\ row'[d].fee = row[d].fee /\ row'[d].net = row[d].net
        /\ row'[d].signed = row[d].signed /\ row'[d].landed = TRUE
    BY <1>1, <2>2 DEF RowRecord
  <2>4. row[d].signed = TRUE /\ row[d].landed = FALSE
    BY <1>1, <1>6 DEF Mint
  <2>5. RowSound(d)'
    BY <1>1, <2>1, <2>3, <2>4 DEF RowSound, baseFee
  <2>6. Received'[d] = Received[d]
    BY <1>1, <2>1, <2>3, <2>4 DEF Received
  <2>7. Circulated'[d] = row[d].net /\ Circulated[d] = 0 /\ Pinned'[d] = Pinned[d] /\ Settled'[d] = Settled[d]
    BY <2>1, <2>3, <2>4 DEF Circulated, Pinned, Settled
  <2>8. /\ locked' = locked /\ supply' = supply + row[d].net /\ Move(row[d].net)
        /\ UNCHANGED <<held, out, policy, check, sick>>
    BY <1>6 DEF Mint
  <2>9. Pinned[d] \in Nat /\ Settled[d] \in Nat
    BY DepositSummands DEF LedgerInv
  <2> QED
    <3>1. /\ Received'[d] = Received[d] + 0 - 0 /\ locked' = locked + 0 - 0
          /\ Circulated'[d] = Circulated[d] + row[d].net
          /\ Pinned'[d] <= Pinned[d] + 0 /\ Settled'[d] >= Settled[d] /\ 0 \in Nat /\ row[d].net \in Nat
          /\ 0 + row[d].net + 0 = row[d].net
      BY <1>1, <2>6, <2>7, <2>8, <2>9
    <3> QED
      BY <2>2, <2>5, <2>8, <3>1, DepositMoves
<1>7. CASE Confirm(d)
  <2>1. PICK w \in {sweep[d], [status |-> "QUEUED", amount |-> sweepAmount(d)]} :
           /\ row' = [row EXCEPT ![d] = [row[d] EXCEPT !.status = "CONFIRMED"]]
           /\ sweep' = [sweep EXCEPT ![d] = w]
    <3>1. sweep = [sweep EXCEPT ![d] = sweep[d]]
      BY <1>2
    <3> QED
      BY <1>7, <3>1 DEF Confirm
  <2>2. /\ w \in SweepRecord /\ (w = sweep[d] \/ w.status = "QUEUED") /\ UNCHANGED <<refund, out, policy>>
    <3>1. policy["dispatcher"] \in {Old, New}
      BY DEF LedgerInv, RowsTyped
    <3>2. sweepAmount(d) \in Nat
      BY <3>1, FeeType DEF sweepAmount
    <3> QED
      BY <1>1, <1>7, <3>2 DEF Confirm, SweepRecord
  <2>3. RowsTyped' /\ OtherDeposits(d) /\ row'[d] = [row[d] EXCEPT !.status = "CONFIRMED"] /\ sweep'[d] = w
    BY <1>2, <2>1, <2>2 DEF LedgerInv, RowsTyped, OtherDeposits, RowRecord
  <2>4. /\ row'[d].status = "CONFIRMED" /\ row'[d].fee = row[d].fee /\ row'[d].net = row[d].net
        /\ row'[d].signed = row[d].signed /\ row'[d].landed = row[d].landed
    BY <1>1, <2>3 DEF RowRecord
  <2>5. /\ row[d].status = "BROADCAST" /\ row[d].landed = TRUE
        /\ sweep[d].status = "none" /\ refund[d].status = "none"
    BY <1>1, <1>7 DEF Confirm, RowSound
  <2>6. RowSound(d)'
    BY <1>1, <2>1, <2>2, <2>3, <2>4, <2>5 DEF RowSound, baseFee
  <2>7. Received'[d] = Received[d]
    BY <1>1, <2>1, <2>2, <2>3, <2>4, <2>5 DEF Received
  <2>8. Circulated'[d] = Circulated[d] /\ Pinned'[d] = Pinned[d] /\ Settled'[d] = Settled[d]
    BY <1>1, <2>1, <2>2, <2>3, <2>4, <2>5 DEF Circulated, Pinned, Settled
  <2>9. locked' = locked /\ moved' = moved /\ supply' = supply /\ UNCHANGED <<held, out, policy, check, sick>>
    BY <1>7 DEF Confirm, recon, money
  <2>10. Pinned[d] \in Nat /\ Settled[d] \in Nat
    BY DepositSummands DEF LedgerInv
  <2> QED
    <3>1. /\ Received'[d] = Received[d] + 0 - 0 /\ locked' = locked + 0 - 0
          /\ Circulated'[d] = Circulated[d] + 0 /\ supply' = supply + 0
          /\ Pinned'[d] <= Pinned[d] + 0 /\ Settled'[d] >= Settled[d] /\ 0 \in Nat
      BY <1>1, <2>7, <2>8, <2>9, <2>10
    <3> QED
      BY <2>3, <2>6, <2>9, <3>1, DepositMoves
<1> QED
  BY <1>3, <1>4, <1>5, <1>6, <1>7

(* The quote: what is withheld and what is minted make up the gross.       *)
LEMMA QuoteStep ==
    ASSUME LedgerInv, NEW d \in Deposit, Quote(d)
    PROVE  /\ LedgerInv' /\ BooksMove
           /\ \A e \in Deposit \ {d} : row'[e] = row[e]
           /\ row'[d].fee >= baseFee(Gross[d], policy["coordinator"])
<1>1. /\ row[d] \in RowRecord /\ sweep[d] \in SweepRecord /\ refund[d] \in RefundRecord
      /\ row[d].fee \in Nat /\ row[d].net \in Nat /\ sweep[d].amount \in Nat /\ refund[d].amount \in Nat
      /\ row[d].signed \in BOOLEAN /\ row[d].landed \in BOOLEAN
      /\ RowSound(d) /\ Gross[d] \in Nat /\ Gross[d] # 0
      /\ Received[d] \in Int /\ Circulated[d] \in Nat
      /\ locked \in Int /\ supply \in Int
  BY DepositView
<1>2. row \in [Deposit -> RowRecord] /\ policy["coordinator"] \in {Old, New} /\ policy["signers"] \in {Old, New}
  BY DEF LedgerInv, RowsTyped
<1>3. PICK provisioned \in BOOLEAN :
         LET q == quotePegIn(Gross[d], provisioned, policy["coordinator"]) IN
         /\ q.ok
         /\ row' = [row EXCEPT ![d].fee = q.fee, ![d].net = q.net,
                               ![d].signed = assertNet(Gross[d], provisioned, q.net, policy["signers"])]
         /\ Move(q.fee)
  BY DEF Quote
<1> DEFINE asked == policy["coordinator"]
           fee == baseFee(Gross[d], asked) + activation(provisioned, asked)
           net == Gross[d] - fee
           signed == assertNet(Gross[d], provisioned, net, policy["signers"])
<1>4. /\ net > 0 /\ net >= asked.gas
      /\ row' = [row EXCEPT ![d].fee = fee, ![d].net = net, ![d].signed = signed]
      /\ Move(fee)
  BY <1>3 DEF quotePegIn
<1>5. baseFee(Gross[d], asked) \in Nat /\ activation(provisioned, asked) \in Nat
  BY <1>2, FeeType DEF activation
<1>6. fee \in Nat /\ net \in Nat /\ net # 0 /\ net + fee = Gross[d] /\ fee >= baseFee(Gross[d], asked)
  BY <1>1, <1>4, <1>5
<1>7. signed \in BOOLEAN /\ (signed => net + baseFee(Gross[d], policy["signers"]) <= Gross[d])
  <2>1. baseFee(Gross[d], policy["signers"]) \in Nat /\ activation(provisioned, policy["signers"]) \in Nat
    BY <1>2, FeeType DEF activation
  <2> DEFINE base == baseFee(Gross[d], policy["signers"])
             extra == activation(provisioned, policy["signers"])
  <2>2. signed = (net > 0 /\ net = Gross[d] - base - extra)
    BY DEF assertNet
  <2>3. base \in Nat /\ extra \in Nat
    BY <2>1
  <2> HIDE DEF fee, net, base, extra
  <2>4. signed \in BOOLEAN /\ (signed => net = Gross[d] - base - extra)
    BY <2>2
  <2> HIDE DEF signed
  <2>5. net = Gross[d] - base - extra => net + base <= Gross[d]
    BY <1>1, <1>6, <2>3
  <2> QED
    BY <2>4, <2>5 DEF base
<1> HIDE DEF fee, net, signed
<1>8. row' = [row EXCEPT ![d] = [row[d] EXCEPT !.fee = fee, !.net = net, !.signed = signed]]
      /\ UNCHANGED <<sweep, refund, out, policy>>
  BY <1>2, <1>4 DEF Quote
<1>9. RowsTyped' /\ OtherDeposits(d) /\ row'[d] = [row[d] EXCEPT !.fee = fee, !.net = net, !.signed = signed]
  <2> DEFINE new == [row[d] EXCEPT !.fee = fee, !.net = net, !.signed = signed]
  <2>1. new \in RowRecord
    BY <1>1, <1>6, <1>7 DEF RowRecord
  <2>2. row' = [row EXCEPT ![d] = new] /\ UNCHANGED <<sweep, refund, out, policy>>
    BY <1>8
  <2> HIDE DEF new
  <2>3. RowsTyped' /\ OtherDeposits(d) /\ row'[d] = new
    BY <2>1, <2>2, RowChanges
  <2> QED
    BY <2>3 DEF new
<1>10. /\ row'[d].status = row[d].status /\ row'[d].fee = fee /\ row'[d].net = net
       /\ row'[d].signed = signed /\ row'[d].landed = row[d].landed
  BY <1>1, <1>9 DEF RowRecord
<1>11. /\ row[d].status = "BROADCAST" /\ row[d].net = 0 /\ row[d].fee = 0 /\ row[d].signed = FALSE
       /\ row[d].landed = FALSE
  BY <1>1 DEF Quote, RowSound
<1>12. RowSound(d)'
  BY <1>1, <1>6, <1>7, <1>8, <1>10, <1>11 DEF RowSound, baseFee
<1>13. Received'[d] = Received[d]
  BY <1>8, <1>10 DEF Received
<1>14. Circulated'[d] = Circulated[d] /\ Pinned'[d] = fee /\ Pinned[d] = 0 /\ Settled'[d] = Settled[d]
  BY <1>8, <1>10, <1>11 DEF Circulated, Pinned, Settled
<1>15. UNCHANGED <<locked, supply, held, out, policy, check, sick>>
  BY DEF Quote, money
<1>16. Settled[d] \in Nat
  BY DepositSummands DEF LedgerInv
<1>17. /\ Received'[d] = Received[d] + 0 - 0 /\ locked' = locked + 0 - 0
       /\ Circulated'[d] = Circulated[d] + 0 /\ supply' = supply + 0
       /\ Pinned'[d] <= Pinned[d] + fee /\ Settled'[d] >= Settled[d] /\ 0 \in Nat
       /\ 0 + 0 + fee = fee
  BY <1>1, <1>6, <1>13, <1>14, <1>15, <1>16
<1>18. LedgerInv' /\ BooksMove
  BY <1>4, <1>6, <1>9, <1>12, <1>15, <1>17, DepositMoves
<1> QED
  BY <1>6, <1>9, <1>10, <1>18 DEF OtherDeposits

(* Sweeps and refunds.                                                     *)
LEMMA PayOutStep ==
    ASSUME LedgerInv, NEW d \in Deposit, LandSweep(d) \/ ConfirmSweep(d) \/ Refund(d)
    PROVE  LedgerInv' /\ BooksMove
<1>1. /\ row[d] \in RowRecord /\ sweep[d] \in SweepRecord /\ refund[d] \in RefundRecord
      /\ row[d].fee \in Nat /\ row[d].net \in Nat /\ sweep[d].amount \in Nat /\ refund[d].amount \in Nat
      /\ row[d].signed \in BOOLEAN /\ row[d].landed \in BOOLEAN
      /\ row[d].status \in {"none", "QUEUED", "BROADCAST", "CONFIRMED", "REFUNDING", "REFUNDED"}
      /\ sweep[d].status \in {"none", "QUEUED", "LANDED", "CONFIRMED"}
      /\ refund[d].status \in {"none", "QUEUED", "CONFIRMED"}
      /\ RowSound(d) /\ Gross[d] \in Nat /\ Gross[d] # 0
      /\ Received[d] \in Int /\ Circulated[d] \in Nat
      /\ locked \in Int /\ supply \in Int
  BY DepositView
<1>2. row \in [Deposit -> RowRecord] /\ sweep \in [Deposit -> SweepRecord] /\ refund \in [Deposit -> RefundRecord]
  BY DEF LedgerInv, RowsTyped
<1>3. Pinned[d] \in Nat /\ Settled[d] \in Nat
  BY DepositSummands DEF LedgerInv
<1>4. CASE LandSweep(d)
  <2>1. sweep' = [sweep EXCEPT ![d] = [sweep[d] EXCEPT !.status = "LANDED"]] /\ UNCHANGED <<row, refund, out, policy>>
    BY <1>4 DEF LandSweep
  <2>2. RowsTyped' /\ OtherDeposits(d) /\ sweep'[d] = [sweep[d] EXCEPT !.status = "LANDED"]
    BY <1>2, <2>1 DEF LedgerInv, RowsTyped, OtherDeposits, SweepRecord
  <2>3. sweep'[d].status = "LANDED" /\ sweep'[d].amount = sweep[d].amount
    BY <1>1, <2>2 DEF SweepRecord
  <2>4. sweep[d].status = "QUEUED" /\ sweep[d].amount = baseFee(Gross[d], policy["signers"])
    BY <1>4 DEF LandSweep, validateFeeSweep
  <2>5. row[d].status = "CONFIRMED" /\ row[d].net + sweep[d].amount <= Gross[d]
    BY <1>1, <2>4 DEF RowSound
  <2>6. RowSound(d)'
    BY <1>1, <2>1, <2>3, <2>4, <2>5 DEF RowSound, baseFee
  <2>7. Received'[d] = Received[d] - sweep[d].amount
    <3>1. refund[d].status # "CONFIRMED"
      BY <1>1, <2>5 DEF RowSound
    <3> QED
      BY <1>1, <2>1, <2>3, <2>4, <2>5, <3>1 DEF Received
  <2>8. Circulated'[d] = Circulated[d] /\ Pinned'[d] = Pinned[d] /\ Settled'[d] = Settled[d]
    BY <2>1, <2>3, <2>4 DEF Circulated, Pinned, Settled
  <2>9. /\ locked' = locked - sweep[d].amount /\ supply' = supply /\ Move(sweep[d].amount)
        /\ UNCHANGED <<held, out, policy, check, sick>>
    BY <1>4 DEF LandSweep
  <2> QED
    <3>1. /\ Received'[d] = Received[d] + 0 - sweep[d].amount /\ locked' = locked + 0 - sweep[d].amount
          /\ Circulated'[d] = Circulated[d] + 0 /\ supply' = supply + 0
          /\ Pinned'[d] <= Pinned[d] + 0 /\ Settled'[d] >= Settled[d] /\ 0 \in Nat /\ sweep[d].amount \in Nat
          /\ sweep[d].amount + 0 + 0 = sweep[d].amount
      BY <1>1, <1>3, <2>7, <2>8, <2>9
    <3> QED
      BY <2>2, <2>6, <2>9, <3>1, DepositMoves
<1>5. CASE ConfirmSweep(d)
  <2>1. sweep' = [sweep EXCEPT ![d] = [sweep[d] EXCEPT !.status = "CONFIRMED"]] /\ UNCHANGED <<row, refund, out, policy>>
    BY <1>5 DEF ConfirmSweep
  <2>2. RowsTyped' /\ OtherDeposits(d) /\ sweep'[d] = [sweep[d] EXCEPT !.status = "CONFIRMED"]
    BY <1>2, <2>1 DEF LedgerInv, RowsTyped, OtherDeposits, SweepRecord
  <2>3. sweep'[d].status = "CONFIRMED" /\ sweep'[d].amount = sweep[d].amount
    BY <1>1, <2>2 DEF SweepRecord
  <2>4. sweep[d].status = "LANDED"
    BY <1>5 DEF ConfirmSweep
  <2>5. RowSound(d)'
    BY <1>1, <2>1, <2>3, <2>4 DEF RowSound, baseFee
  <2>6. Received'[d] = Received[d]
    BY <1>1, <2>1, <2>3, <2>4 DEF Received
  <2>7. Circulated'[d] = Circulated[d] /\ Pinned'[d] = Pinned[d] /\ Settled'[d] = sweep[d].amount /\ Settled[d] = 0
    BY <2>1, <2>3, <2>4 DEF Circulated, Pinned, Settled
  <2>8. locked' = locked /\ supply' = supply /\ moved' = moved /\ UNCHANGED <<held, out, policy, check, sick>>
    BY <1>5 DEF ConfirmSweep, money, recon
  <2> QED
    <3>1. /\ Received'[d] = Received[d] + 0 - 0 /\ locked' = locked + 0 - 0
          /\ Circulated'[d] = Circulated[d] + 0 /\ supply' = supply + 0
          /\ Pinned'[d] <= Pinned[d] + 0 /\ Settled'[d] >= Settled[d] /\ 0 \in Nat
      BY <1>1, <1>3, <2>6, <2>7, <2>8
    <3> QED
      BY <2>2, <2>5, <2>8, <3>1, DepositMoves
<1>6. CASE Refund(d)
  <2>1. /\ refund' = [refund EXCEPT ![d] = [refund[d] EXCEPT !.status = "CONFIRMED"]]
        /\ row' = [row EXCEPT ![d] = [row[d] EXCEPT !.status = "REFUNDED"]]
        /\ UNCHANGED <<sweep, out, policy>>
    BY <1>6 DEF Refund
  <2>2. /\ RowsTyped' /\ OtherDeposits(d)
        /\ refund'[d] = [refund[d] EXCEPT !.status = "CONFIRMED"]
        /\ row'[d] = [row[d] EXCEPT !.status = "REFUNDED"]
    <3>1. [row[d] EXCEPT !.status = "REFUNDED"] \in RowRecord
      BY <1>1 DEF RowRecord
    <3>2. [refund[d] EXCEPT !.status = "CONFIRMED"] \in RefundRecord
      BY <1>1 DEF RefundRecord
    <3>3. row' \in [Deposit -> RowRecord] /\ refund' \in [Deposit -> RefundRecord]
      BY <1>2, <2>1, <3>1, <3>2
    <3>4. RowsTyped'
      BY <2>1, <3>3 DEF LedgerInv, RowsTyped
    <3> QED
      BY <1>2, <2>1, <3>4 DEF OtherDeposits
  <2>3. /\ refund'[d].status = "CONFIRMED" /\ refund'[d].amount = refund[d].amount
        /\ row'[d].status = "REFUNDED" /\ row'[d].fee = row[d].fee /\ row'[d].net = row[d].net
        /\ row'[d].signed = row[d].signed /\ row'[d].landed = row[d].landed
    BY <1>1, <2>2 DEF RefundRecord, RowRecord
  <2>4. refund[d].status = "QUEUED" /\ row[d].status = "REFUNDING" /\ sweep[d].status = "none"
        /\ row[d].signed = FALSE /\ row[d].landed = FALSE /\ refund[d].amount <= Gross[d]
    BY <1>1, <1>6 DEF Refund, RowSound
  <2>5. RowSound(d)'
    BY <1>1, <2>1, <2>3, <2>4 DEF RowSound
  <2>6. Received'[d] = Received[d] - refund[d].amount
    BY <1>1, <2>1, <2>3, <2>4 DEF Received
  <2>7. Circulated'[d] = Circulated[d] /\ Pinned'[d] = Pinned[d] /\ Settled'[d] = Settled[d]
    BY <2>1, <2>3, <2>4 DEF Circulated, Pinned, Settled
  <2>8. /\ locked' = locked - refund[d].amount /\ supply' = supply /\ Move(refund[d].amount)
        /\ UNCHANGED <<held, out, policy, check, sick>>
    BY <1>6 DEF Refund
  <2> QED
    <3>1. /\ Received'[d] = Received[d] + 0 - refund[d].amount /\ locked' = locked + 0 - refund[d].amount
          /\ Circulated'[d] = Circulated[d] + 0 /\ supply' = supply + 0
          /\ Pinned'[d] <= Pinned[d] + 0 /\ Settled'[d] >= Settled[d] /\ 0 \in Nat /\ refund[d].amount \in Nat
          /\ refund[d].amount + 0 + 0 = refund[d].amount
      BY <1>1, <1>3, <2>6, <2>7, <2>8
    <3> QED
      BY <2>2, <2>5, <2>8, <3>1, DepositMoves
<1> QED
  BY <1>4, <1>5, <1>6

(* Peg-outs.                                                               *)
LEMMA PegOutStep ==
    ASSUME LedgerInv, NEW t \in Transfer, TransferIn(t) \/ Release(t) \/ Return(t)
    PROVE  LedgerInv' /\ BooksMove
<1>1. /\ Wallet[t] \in Nat /\ Paid[t] \in Nat /\ Kept[t] \in Nat /\ Amount[t] \in Nat
      /\ refundAmount(Amount[t]) \in Nat /\ refundAmount(Amount[t]) <= Amount[t]
  BY TransferSummands, BackingAssumption, RefundType
<1>2. out \in [Transfer -> {"none", "QUEUED", "CONFIRMED", "RETURNED"}]
  BY DEF LedgerInv, RowsTyped
<1>3. IsFiniteSet(Deposit) /\ IsFiniteSet(Transfer)
  BY BackingAssumption
<1>4. /\ locked \in Int /\ supply \in Int /\ held \in Int /\ LeastHeld \in Int /\ MostUnswept \in Int
  <2>1. \A e \in Deposit : Pinned[e] \in Int /\ Settled[e] \in Int /\ Received[e] \in Int /\ Circulated[e] \in Int
    BY DepositSummands DEF LedgerInv
  <2>2. \A u \in Transfer : Kept[u] \in Int /\ Paid[u] \in Int /\ Wallet[u] \in Int
    BY TransferSummands
  <2>3. /\ SumFunctionOnSet(Pinned, Deposit) \in Int /\ SumFunctionOnSet(Settled, Deposit) \in Int
        /\ SumFunctionOnSet(Received, Deposit) \in Int /\ SumFunctionOnSet(Circulated, Deposit) \in Int
        /\ SumFunctionOnSet(Kept, Transfer) \in Int /\ SumFunctionOnSet(Paid, Transfer) \in Int
        /\ SumFunctionOnSet(Wallet, Transfer) \in Int
    BY <1>3, <2>1, <2>2, SumType
  <2> QED
    BY <2>3 DEF LedgerInv, Books, LeastHeld, MostUnswept
<1>5. UNCHANGED <<row, sweep, refund, policy, supply, check, sick>>
  BY DEF TransferIn, Release, Return, recon
<1>6. OtherTransfers(t) /\ RowsTyped' /\ out'[t] \in {"QUEUED", "CONFIRMED", "RETURNED"}
  BY <1>2, <1>5 DEF TransferIn, Release, Return, OtherTransfers, LedgerInv, RowsTyped
<1>7. MostUnswept' = MostUnswept
  <2>1. Pinned' = Pinned /\ Settled' = Settled
    BY <1>5 DEF Pinned, Settled
  <2> QED
    BY <2>1 DEF MostUnswept
<1>8. LeastHeld' = LeastHeld + Kept'[t] - Kept[t]
  BY <1>6, TransferSums DEF LeastHeld
<1> DEFINE back == refundAmount(Amount[t])
<1>9. /\ Wallet[t] = IF out[t] = "none" THEN 0 ELSE IF out[t] = "RETURNED" THEN Amount[t] - back ELSE Amount[t]
      /\ Kept[t] = Wallet[t] - IF out[t] = "QUEUED" THEN back ELSE 0
      /\ Paid[t] = IF out[t] = "CONFIRMED" THEN Amount[t] ELSE 0
  BY DEF Wallet, Kept, Paid
<1>10. /\ Wallet'[t] = IF out'[t] = "none" THEN 0 ELSE IF out'[t] = "RETURNED" THEN Amount[t] - back ELSE Amount[t]
       /\ Kept'[t] = Wallet'[t] - IF out'[t] = "QUEUED" THEN back ELSE 0
       /\ Paid'[t] = IF out'[t] = "CONFIRMED" THEN Amount[t] ELSE 0
  BY DEF Wallet, Kept, Paid, refundAmount
<1>11. held <= supply
  BY DEF LedgerInv, Books
<1> HIDE DEF back
<1>12. back \in Nat /\ back <= Amount[t]
  BY <1>1 DEF back
<1>13. CASE TransferIn(t)
  <2>1. /\ out[t] = "none" /\ out'[t] = "QUEUED" /\ locked' = locked /\ held' = held + Amount[t]
        /\ Amount[t] <= supply - held /\ moved' = moved
    BY <1>2, <1>13 DEF TransferIn, recon
  <2>2. /\ Wallet[t] = 0 /\ Kept[t] = 0 /\ Paid[t] = 0
        /\ Wallet'[t] = Amount[t] /\ Kept'[t] = Amount[t] - back /\ Paid'[t] = 0
    BY <1>9, <1>10, <2>1
  <2>3. LedgerInv'
    <3>1. /\ locked' = locked - Paid'[t] + Paid[t]
          /\ held' = held + Wallet'[t] - Wallet[t] /\ held' <= supply
      BY <1>1, <1>4, <2>1, <2>2
    <3> QED
      BY <1>5, <1>6, <3>1, TransferStep
  <2>4. Slips(0, 0, 0)
    BY <1>1, <1>4, <1>5, <1>7, <1>8, <1>12, <2>1, <2>2 DEF Slips
  <2>5. (moved \in Nat => moved' \in Nat) /\ (moved \in Nat => moved' = moved + 0 + 0 + 0)
    BY <2>1
  <2> QED
    BY <1>5, <2>3, <2>4, <2>5 DEF BooksMove
<1>14. CASE Release(t)
  <2>1. /\ out[t] = "QUEUED" /\ out'[t] = "CONFIRMED" /\ locked' = locked - Amount[t] /\ held' = held
        /\ Move(Amount[t])
    BY <1>2, <1>14 DEF Release
  <2>2. /\ Wallet[t] = Amount[t] /\ Kept[t] = Amount[t] - back /\ Paid[t] = 0
        /\ Wallet'[t] = Amount[t] /\ Kept'[t] = Amount[t] /\ Paid'[t] = Amount[t]
    BY <1>1, <1>9, <1>10, <2>1
  <2>3. LedgerInv'
    <3>1. /\ locked' = locked - Paid'[t] + Paid[t]
          /\ held' = held + Wallet'[t] - Wallet[t] /\ held' <= supply
      BY <1>1, <1>4, <1>11, <2>1, <2>2
    <3> QED
      BY <1>5, <1>6, <3>1, TransferStep
  <2>4. Slips(Amount[t], 0, 0)
    BY <1>1, <1>4, <1>5, <1>7, <1>8, <1>12, <2>1, <2>2 DEF Slips
  <2>5. /\ moved \in Nat => moved' \in Nat
        /\ moved \in Nat /\ check.pc # "idle" => moved' = moved + Amount[t] + 0 + 0
    BY <1>1, <2>1 DEF Move
  <2> QED
    BY <1>1, <1>5, <2>3, <2>4, <2>5 DEF BooksMove
<1>15. CASE Return(t)
  <2>1. /\ out[t] = "QUEUED" /\ out'[t] = "RETURNED" /\ locked' = locked /\ held' = held - back
        /\ moved' = moved
    BY <1>2, <1>15 DEF Return, recon, back
  <2>2. /\ Wallet[t] = Amount[t] /\ Kept[t] = Amount[t] - back /\ Paid[t] = 0
        /\ Wallet'[t] = Amount[t] - back /\ Kept'[t] = Amount[t] - back /\ Paid'[t] = 0
    BY <1>1, <1>9, <1>10, <1>12, <2>1
  <2>3. LedgerInv'
    <3>1. /\ locked' = locked - Paid'[t] + Paid[t]
          /\ held' = held + Wallet'[t] - Wallet[t] /\ held' <= supply
      BY <1>1, <1>4, <1>11, <1>12, <2>1, <2>2
    <3> QED
      BY <1>5, <1>6, <3>1, TransferStep
  <2>4. Slips(0, 0, 0)
    BY <1>1, <1>4, <1>5, <1>7, <1>8, <1>12, <2>1, <2>2 DEF Slips
  <2>5. (moved \in Nat => moved' \in Nat) /\ (moved \in Nat => moved' = moved + 0 + 0 + 0)
    BY <2>1
  <2> QED
    BY <1>5, <2>3, <2>4, <2>5 DEF BooksMove
<1> QED
  BY <1>13, <1>14, <1>15

-----------------------------------------------------------------------------
(* Fee policies change, and everything else leaves the ledger alone.       *)
LEMMA ReconfigureStep ==
    ASSUME FeesOnlyFall, LedgerInv, NEW who \in DOMAIN policy, policy[who] = Old, Reconfigure(who)
    PROVE  LedgerInv' /\ MostUnswept' = MostUnswept /\ LeastHeld' = LeastHeld
<1>1. UNCHANGED <<locked, supply, held, row, sweep, refund, out>>
  BY DEF Reconfigure, money, rows
<1>2. policy \in [{"coordinator", "dispatcher", "signers"} -> {Old, New}] /\ policy' = [policy EXCEPT ![who] = New]
  BY DEF Reconfigure, LedgerInv, RowsTyped
<1>3. RowsTyped'
  BY <1>1, <1>2 DEF LedgerInv, RowsTyped
<1>4. /\ Received' = Received /\ Circulated' = Circulated /\ Wallet' = Wallet /\ Paid' = Paid
      /\ Pinned' = Pinned /\ Settled' = Settled
  BY <1>1 DEF Received, Circulated, Wallet, Paid, Pinned, Settled, refundAmount
<1>5. Books'
  BY <1>1, <1>4 DEF LedgerInv, Books
<1>6. Kept' = Kept
  BY <1>1, <1>4 DEF Kept, refundAmount
<1>7. ASSUME NEW d \in Deposit PROVE RowSound(d)'
  <2>1. policy'["signers"] \in {Old, New} /\ policy["signers"] \in {Old, New}
        /\ (policy'["signers"] = policy["signers"] \/ (policy["signers"] = Old /\ policy'["signers"] = New))
    BY <1>2
  <2> DEFINE before == baseFee(Gross[d], policy["signers"])
             after == baseFee(Gross[d], policy'["signers"])
  <2>2. before \in Nat /\ after \in Nat
    BY <2>1, FeeType
  <2>3. after <= before
    <3>1. CASE policy'["signers"] = policy["signers"]
      BY <2>2, <3>1
    <3>2. CASE policy["signers"] = Old /\ policy'["signers"] = New
      BY <3>2 DEF FeesOnlyFall
    <3> QED
      BY <2>1, <3>1, <3>2
  <2>4. row[d].net \in Nat /\ Gross[d] \in Nat /\ RowSound(d)
    BY DepositView
  <2>5. row[d].signed => row[d].net + before <= Gross[d]
    BY <2>4 DEF RowSound
  <2> HIDE DEF before, after
  <2>6. row[d].signed => row[d].net + after <= Gross[d]
    BY <2>2, <2>3, <2>4, <2>5
  <2>7. row[d].signed => row[d].net + baseFee(Gross[d], policy'["signers"]) <= Gross[d]
    BY <2>6 DEF after
  <2> QED
    BY <1>1, <2>4, <2>7 DEF RowSound, baseFee
<1> QED
  BY <1>3, <1>4, <1>5, <1>6, <1>7 DEF LedgerInv, MostUnswept, LeastHeld

(* A step that touches neither money nor rows.                             *)
LEMMA LedgerUnchanged ==
    ASSUME LedgerInv, UNCHANGED <<money, rows, policy>>
    PROVE  LedgerInv' /\ MostUnswept' = MostUnswept /\ LeastHeld' = LeastHeld
<1>1. UNCHANGED <<locked, supply, held, row, sweep, refund, out, policy>>
  BY DEF money, rows
<1>2. RowsTyped'
  BY <1>1 DEF LedgerInv, RowsTyped
<1>3. /\ Received' = Received /\ Circulated' = Circulated /\ Wallet' = Wallet /\ Paid' = Paid
      /\ Pinned' = Pinned /\ Settled' = Settled
  BY <1>1 DEF Received, Circulated, Wallet, Paid, Pinned, Settled, refundAmount
<1>4. Kept' = Kept
  BY <1>1, <1>3 DEF Kept, refundAmount
<1>5. Books'
  BY <1>1, <1>3 DEF LedgerInv, Books
<1>6. ASSUME NEW d \in Deposit PROVE RowSound(d)'
  BY <1>1 DEF LedgerInv, RowSound, baseFee
<1> QED
  BY <1>2, <1>3, <1>4, <1>5, <1>6 DEF LedgerInv, MostUnswept, LeastHeld

(* Initially.                                                              *)
LEMMA LedgerInit == ASSUME BackingInit PROVE LedgerInv
<1>1. RowsTyped
  BY DEF BackingInit, RowsTyped, RowRecord, SweepRecord, RefundRecord, NoRow, NoChild
<1>2. \A d \in Deposit : RowSound(d)
  BY DEF BackingInit, RowSound, NoRow, NoChild
<1>3. IsFiniteSet(Deposit) /\ IsFiniteSet(Transfer) /\ {} \subseteq Deposit /\ {} \subseteq Transfer
  BY BackingAssumption
<1>4. \A d \in Deposit : Received[d] = 0 /\ Circulated[d] = 0
  BY DEF BackingInit, Received, Circulated, NoRow, NoChild
<1>5. \A t \in Transfer : Wallet[t] = 0 /\ Paid[t] = 0
  BY DEF BackingInit, Wallet, Paid
<1>6. /\ SumFunctionOnSet(Received, Deposit) = 0 /\ SumFunctionOnSet(Circulated, Deposit) = 0
      /\ SumFunctionOnSet(Wallet, Transfer) = 0 /\ SumFunctionOnSet(Paid, Transfer) = 0
  BY <1>3, <1>4, <1>5, SumNone
<1>7. Books
  BY <1>6 DEF BackingInit, Books
<1> QED
  BY <1>1, <1>2, <1>7 DEF LedgerInv

(* What every step does to the ledger.                                     *)
LEMMA LedgerStep ==
    ASSUME FeesOnlyFall, LedgerInv, [BackingNext]_backingVars
    PROVE  LedgerInv'
<1>1. ASSUME NEW d \in Deposit,
             Arrive(d) \/ Deliver(d) \/ Quote(d) \/ GiveUp(d) \/ Mint(d) \/ Confirm(d)
               \/ LandSweep(d) \/ ConfirmSweep(d) \/ Refund(d)
      PROVE  LedgerInv'
  BY <1>1, PegInStep, QuoteStep, PayOutStep
<1>2. ASSUME NEW t \in Transfer, TransferIn(t) \/ Release(t) \/ Return(t) PROVE LedgerInv'
  BY <1>2, PegOutStep
<1>3. ASSUME NEW who \in DOMAIN policy, policy[who] = Old, Reconfigure(who) PROVE LedgerInv'
  BY <1>3, ReconfigureStep
<1>4. ASSUME StartCheck \/ Judge \/ publishSnapshot \/ Unpause \/ gatewayBalanceMilliViz
               \/ Read("supply", supply) \/ Read("unswept", unsweptFees)
               \/ (\E e \in Endpoint : ReadHeld(e) \/ FallSick(e)) \/ UNCHANGED backingVars
      PROVE  LedgerInv'
  <2>1. UNCHANGED <<money, rows, policy>>
    BY <1>4 DEF StartCheck, Judge, publishSnapshot, Unpause, gatewayBalanceMilliViz, Read, ReadHeld, FallSick,
                backingVars
  <2> QED
    BY <2>1, LedgerUnchanged
<1> QED
  BY <1>1, <1>2, <1>3, <1>4 DEF BackingNext

(* Solvent: the backing account covers everything the gateway owes, for    *)
(* any deposits, transfers and fee policies, as long as a new policy       *)
(* charges no deposit a higher base fee than the old one did.  The signers *)
(* derive the sweep from the policy they run when it lands and not from    *)
(* the one the net was pinned with, so the condition is needed.            *)
THEOREM GatewayStaysSolvent == ASSUME FeesOnlyFall PROVE BackingSpec => []Solvent
<1>1. BackingInit => LedgerInv
  BY LedgerInit
<1>2. LedgerInv /\ [BackingNext]_backingVars => LedgerInv'
  BY LedgerStep
<1>3. LedgerInv => Solvent
  BY LedgerSolvent
<1> QED
  BY <1>1, <1>2, <1>3, PTL DEF BackingSpec

-----------------------------------------------------------------------------
(* What is true of the four figures at any one moment.                     *)
LEMMA MomentFigures ==
    ASSUME LedgerInv
    PROVE  /\ Swept("LANDED") \in Nat
           /\ locked \in Int /\ supply \in Int /\ held \in Int /\ MostUnswept \in Int /\ LeastHeld \in Int
           /\ unsweptFees \in Int
           /\ locked - (supply - LeastHeld) - MostUnswept >= -Swept("LANDED")
           /\ locked - MostUnswept >= -Swept("LANDED")
           /\ LeastHeld <= held /\ held <= supply
           /\ unsweptFees <= MostUnswept /\ unsweptFees >= 0
<1> DEFINE Sum(f) == SumFunctionOnSet(f, Deposit)
           SumT(f) == SumFunctionOnSet(f, Transfer)
           Fees == [d \in Deposit |-> row[d].fee]
           Sweeps == [d \in Deposit |-> sweep[d].amount]
           Withheld == [d \in Deposit |-> IF row[d].status \in {"BROADCAST", "CONFIRMED"} THEN row[d].fee ELSE 0]
<1>1. IsFiniteSet(Deposit) /\ IsFiniteSet(Transfer)
  BY BackingAssumption
<1>2. ASSUME NEW d \in Deposit
      PROVE  /\ Received[d] \in Int /\ Circulated[d] \in Int /\ Pinned[d] \in Int
             /\ Settled[d] \in Nat /\ InFlight[d] \in Nat /\ Withheld[d] \in Nat
             /\ Circulated[d] + Pinned[d] <= Received[d] + Settled[d] + InFlight[d]
             /\ Settled[d] <= Withheld[d] /\ Withheld[d] <= Pinned[d]
             /\ row[d].fee \in Nat /\ sweep[d].amount \in Nat
  <2>1. /\ Received[d] \in Int /\ Circulated[d] \in Nat /\ Pinned[d] \in Nat
        /\ Settled[d] \in Nat /\ InFlight[d] \in Nat
    BY DepositSummands DEF LedgerInv
  <2>2. /\ Circulated[d] + Pinned[d] <= Received[d] + Settled[d] + InFlight[d]
        /\ Settled[d] <= IF row[d].status \in {"BROADCAST", "CONFIRMED"} THEN row[d].fee ELSE 0
    BY RowCovers
  <2>3. row[d].fee \in Nat /\ sweep[d].amount \in Nat
    BY DepositView
  <2>4. Withheld[d] \in Nat /\ Withheld[d] <= Pinned[d]
    BY <2>3 DEF Pinned
  <2> QED
    BY <2>1, <2>2, <2>3, <2>4
<1>3. ASSUME NEW t \in Transfer
      PROVE  /\ Wallet[t] \in Int /\ Paid[t] \in Int /\ Kept[t] \in Int
             /\ Kept[t] <= Wallet[t] /\ Paid[t] <= Kept[t]
  BY TransferSummands
<1>4. Swept("LANDED") = Sum(InFlight)
  <2> DEFINE T == {d \in Deposit : sweep[d].status = "LANDED"}
  <2>1. \A x \in T : Sweeps[x] \in Int /\ InFlight[x] = Sweeps[x]
    BY <1>2 DEF InFlight
  <2>2. (\A x \in Deposit \ T : InFlight[x] = 0) /\ T \in SUBSET Deposit
    BY DEF InFlight
  <2>3. Swept("LANDED") = SumFunctionOnSet(Sweeps, T)
    BY DEF Swept
  <2> HIDE DEF T, Sweeps
  <2>4. Sum(InFlight) = SumFunctionOnSet(Sweeps, T)
    BY <1>1, <2>1, <2>2, SumSelect
  <2> QED
    BY <2>3, <2>4
<1>5. Swept("CONFIRMED") = Sum(Settled)
  <2> DEFINE T == {d \in Deposit : sweep[d].status = "CONFIRMED"}
  <2>1. \A x \in T : Sweeps[x] \in Int /\ Settled[x] = Sweeps[x]
    BY <1>2 DEF Settled
  <2>2. (\A x \in Deposit \ T : Settled[x] = 0) /\ T \in SUBSET Deposit
    BY DEF Settled
  <2>3. Swept("CONFIRMED") = SumFunctionOnSet(Sweeps, T)
    BY DEF Swept
  <2> HIDE DEF T, Sweeps
  <2>4. Sum(Settled) = SumFunctionOnSet(Sweeps, T)
    BY <1>1, <2>1, <2>2, SumSelect
  <2> QED
    BY <2>3, <2>4
<1>6. unsweptFees = Sum(Withheld) - Sum(Settled)
  <2>1. \A x \in Minted : Fees[x] \in Int /\ Withheld[x] = Fees[x]
    BY <1>2 DEF Minted
  <2>2. (\A x \in Deposit \ Minted : Withheld[x] = 0) /\ Minted \in SUBSET Deposit
    BY DEF Minted
  <2>3. unsweptFees = SumFunctionOnSet(Fees, Minted) - Swept("CONFIRMED")
    BY DEF unsweptFees
  <2> HIDE DEF Fees, Withheld
  <2>4. Sum(Withheld) = SumFunctionOnSet(Fees, Minted)
    BY <1>1, <2>1, <2>2, SumSelect
  <2> QED
    BY <1>5, <2>3, <2>4
<1> HIDE DEF Fees, Sweeps, Withheld
<1>7. /\ Sum(Received) \in Int /\ Sum(Circulated) \in Int /\ Sum(Pinned) \in Int /\ Sum(Settled) \in Int
      /\ Sum(InFlight) \in Int /\ Sum(Withheld) \in Int
      /\ SumT(Wallet) \in Int /\ SumT(Paid) \in Int /\ SumT(Kept) \in Int
  <2>1. \A d \in Deposit : /\ Settled[d] \in Int /\ InFlight[d] \in Int /\ Withheld[d] \in Int
                           /\ Received[d] \in Int /\ Circulated[d] \in Int /\ Pinned[d] \in Int
    BY <1>2
  <2>2. /\ Sum(Received) \in Int /\ Sum(Circulated) \in Int /\ Sum(Pinned) \in Int /\ Sum(Settled) \in Int
        /\ Sum(InFlight) \in Int /\ Sum(Withheld) \in Int
    BY <1>1, <2>1, SumType
  <2>3. SumT(Wallet) \in Int /\ SumT(Paid) \in Int /\ SumT(Kept) \in Int
    BY <1>1, <1>3, SumType
  <2> QED
    BY <2>2, <2>3
<1>8. Sum(InFlight) \in Nat
  BY <1>1, <1>2, SumFewer
<1>9. Sum(Circulated) + Sum(Pinned) <= Sum(Received) + Sum(Settled) + Sum(InFlight)
  <2> DEFINE low == [d \in Deposit |-> Circulated[d] + Pinned[d]]
             mid == [d \in Deposit |-> Received[d] + Settled[d]]
             high == [d \in Deposit |-> mid[d] + InFlight[d]]
  <2>1. ASSUME NEW d \in Deposit
        PROVE  /\ low[d] \in Int /\ low[d] = Circulated[d] + Pinned[d]
               /\ mid[d] \in Int /\ mid[d] = Received[d] + Settled[d]
               /\ high[d] \in Int /\ high[d] = mid[d] + InFlight[d]
               /\ low[d] <= high[d] /\ Settled[d] \in Int /\ InFlight[d] \in Int
    BY <1>2
  <2> HIDE DEF low, mid, high
  <2>2. Sum(low) = Sum(Circulated) + Sum(Pinned)
    BY <1>1, <1>2, <2>1, SumPlus
  <2>3. Sum(mid) = Sum(Received) + Sum(Settled)
    BY <1>1, <1>2, <2>1, SumPlus
  <2>4. Sum(high) = Sum(mid) + Sum(InFlight)
    BY <1>1, <1>2, <2>1, SumPlus
  <2>5. Sum(low) <= Sum(high)
    BY <1>1, <2>1, SumPointwise
  <2> QED
    BY <2>2, <2>3, <2>4, <2>5
<1>10. Sum(Settled) <= Sum(Withheld) /\ Sum(Withheld) <= Sum(Pinned)
  <2>1. \A d \in Deposit : /\ Settled[d] \in Int /\ Withheld[d] \in Int /\ Pinned[d] \in Int
                           /\ Settled[d] <= Withheld[d] /\ Withheld[d] <= Pinned[d]
    BY <1>2
  <2> QED
    BY <1>1, <2>1, SumPointwise
<1>11. SumT(Kept) <= SumT(Wallet) /\ SumT(Paid) <= SumT(Kept)
  BY <1>1, <1>3, SumPointwise
<1>12. /\ locked = Sum(Received) - SumT(Paid) /\ supply = Sum(Circulated) /\ held = SumT(Wallet) /\ held <= supply
       /\ MostUnswept = Sum(Pinned) - Sum(Settled) /\ LeastHeld = SumT(Kept)
  BY DEF LedgerInv, Books, MostUnswept, LeastHeld
<1> HIDE DEF Sum, SumT
<1>13. /\ locked - (supply - LeastHeld) - MostUnswept >= -Sum(InFlight)
       /\ LeastHeld <= held /\ held <= supply
  BY <1>7, <1>9, <1>11, <1>12
<1>14. locked - MostUnswept >= -Sum(InFlight)
  BY <1>7, <1>12, <1>13
<1>15. unsweptFees <= MostUnswept /\ unsweptFees >= 0
  BY <1>6, <1>7, <1>10, <1>12
<1> QED
  BY <1>4, <1>6, <1>7, <1>8, <1>12, <1>13, <1>14, <1>15

(* The figures are numbers after a step too.                               *)
LEMMA MomentFiguresNext ==
    ASSUME LedgerInv'
    PROVE  locked' \in Int /\ supply' \in Int /\ MostUnswept' \in Int /\ LeastHeld' \in Int
<1>1. IsFiniteSet(Deposit) /\ IsFiniteSet(Transfer)
  BY BackingAssumption
<1>2. ASSUME NEW d \in Deposit
      PROVE  /\ Received'[d] \in Int /\ Circulated'[d] \in Int /\ Pinned'[d] \in Int /\ Settled'[d] \in Int
  <2>1. row'[d] \in RowRecord /\ sweep'[d] \in SweepRecord /\ refund'[d] \in RefundRecord /\ Gross[d] \in Int
    BY BackingAssumption DEF LedgerInv, RowsTyped
  <2>2. row'[d].fee \in Int /\ row'[d].net \in Int /\ sweep'[d].amount \in Int /\ refund'[d].amount \in Int
    BY <2>1 DEF RowRecord, SweepRecord, RefundRecord
  <2> QED
    BY <2>1, <2>2 DEF Received, Circulated, Pinned, Settled
<1>3. ASSUME NEW t \in Transfer PROVE Kept'[t] \in Int /\ Paid'[t] \in Int
  <2>1. Amount[t] \in Int /\ refundAmount(Amount[t]) \in Int
    BY BackingAssumption, RefundType
  <2>2. Wallet'[t] \in Int /\ Paid'[t] \in Int
    BY <2>1 DEF Wallet, Paid, refundAmount
  <2>3. Kept'[t] = Wallet'[t] - IF out'[t] = "QUEUED" THEN refundAmount(Amount[t]) ELSE 0
    BY DEF Kept, refundAmount
  <2> QED
    BY <2>1, <2>2, <2>3
<1>4. /\ SumFunctionOnSet(Received', Deposit) \in Int /\ SumFunctionOnSet(Circulated', Deposit) \in Int
      /\ SumFunctionOnSet(Pinned', Deposit) \in Int /\ SumFunctionOnSet(Settled', Deposit) \in Int
      /\ SumFunctionOnSet(Kept', Transfer) \in Int /\ SumFunctionOnSet(Paid', Transfer) \in Int
  BY <1>1, <1>2, <1>3, SumType
<1> QED
  BY <1>4 DEF LedgerInv, Books, MostUnswept, LeastHeld

(* A step that moves money moves the worst case by no more than it adds to *)
(* moved.                                                                  *)
LEMMA MovesKeep ==
    ASSUME LedgerInv, LedgerInv', CheckTyped, Figures, AlarmExplained, BooksMove
    PROVE  CheckTyped' /\ Figures' /\ AlarmExplained'
<1>1. PICK x \in Nat, y \in Nat, z \in Nat :
        /\ Slips(x, y, z) /\ (moved \in Nat => moved' \in Nat)
        /\ (moved \in Nat /\ check.pc # "idle" => moved' = moved + x + y + z)
  BY DEF BooksMove
<1>2. check' = check /\ sick' = sick /\ moved \in Nat /\ moved' \in Nat
  BY <1>1 DEF BooksMove, CheckTyped
<1>3. CheckTyped'
  BY <1>2 DEF CheckTyped
<1>4. /\ locked \in Int /\ supply \in Int /\ MostUnswept \in Int /\ LeastHeld \in Int
      /\ locked' \in Int /\ supply' \in Int /\ MostUnswept' \in Int /\ LeastHeld' \in Int
  BY MomentFigures, MomentFiguresNext
<1>5. /\ locked' >= locked - x /\ supply' <= supply + y
      /\ MostUnswept' <= MostUnswept + z /\ LeastHeld' >= LeastHeld
  BY <1>1 DEF Slips
<1>6. /\ check.locked \in Int /\ check.supply \in Int /\ check.held \in Int /\ check.unswept \in Int
  BY DEF CheckTyped
<1>7. Figures'
  <2> SUFFICES ASSUME check.pc = "read" PROVE Figures'
    BY <1>2 DEF Figures
  <2>1. moved' = moved + x + y + z
    BY <1>1, <1>2
  <2>2. /\ WorstLocked' >= WorstLocked - x /\ WorstSupply' <= WorstSupply + y
        /\ WorstUnswept' <= WorstUnswept + z /\ WorstHeld' >= WorstHeld
        /\ WorstLocked \in Int /\ WorstSupply \in Int /\ WorstUnswept \in Int /\ WorstHeld \in Int
        /\ WorstLocked' \in Int /\ WorstSupply' \in Int /\ WorstUnswept' \in Int /\ WorstHeld' \in Int
    <3>1. /\ WorstLocked' >= WorstLocked - x /\ WorstLocked \in Int /\ WorstLocked' \in Int
      BY <1>2, <1>4, <1>5, <1>6 DEF WorstLocked
    <3>2. /\ WorstSupply' <= WorstSupply + y /\ WorstSupply \in Int /\ WorstSupply' \in Int
      BY <1>2, <1>4, <1>5, <1>6 DEF WorstSupply
    <3>3. /\ WorstUnswept' <= WorstUnswept + z /\ WorstUnswept \in Int /\ WorstUnswept' \in Int
      BY <1>2, <1>4, <1>5, <1>6 DEF WorstUnswept
    <3>4. /\ WorstHeld' >= WorstHeld /\ WorstHeld \in Int /\ WorstHeld' \in Int
      BY <1>2, <1>4, <1>5, <1>6 DEF WorstHeld
    <3> QED
      BY <3>1, <3>2, <3>3, <3>4
  <2>3. /\ WorstLocked - (WorstSupply - WorstHeld) - WorstUnswept >= -moved
        /\ WorstLocked - WorstUnswept >= -moved
    BY DEF Figures
  <2>4. /\ WorstLocked' - (WorstSupply' - WorstHeld') - WorstUnswept' >= -moved'
        /\ WorstLocked' - WorstUnswept' >= -moved'
    <3> DEFINE l == WorstLocked
               s == WorstSupply
               h == WorstHeld
               u == WorstUnswept
               l2 == WorstLocked'
               s2 == WorstSupply'
               h2 == WorstHeld'
               u2 == WorstUnswept'
               m == moved
               m2 == moved'
    <3>1. /\ l2 >= l - x /\ s2 <= s + y /\ u2 <= u + z /\ h2 >= h
          /\ l \in Int /\ s \in Int /\ u \in Int /\ h \in Int
          /\ l2 \in Int /\ s2 \in Int /\ u2 \in Int /\ h2 \in Int
          /\ m \in Nat /\ m2 \in Nat /\ m2 = m + x + y + z
          /\ l - (s - h) - u >= -m /\ l - u >= -m
      BY <1>2, <2>1, <2>2, <2>3
    <3> HIDE DEF l, s, h, u, l2, s2, h2, u2, m, m2
    <3>2. l2 - (s2 - h2) - u2 >= -m2 /\ l2 - u2 >= -m2
      BY <3>1
    <3> QED
      BY <3>2 DEF l2, s2, h2, u2, m2
  <2> QED
    BY <1>2, <2>4 DEF Figures
<1>8. AlarmExplained'
  <2>1. Tolerance \in Nat
    BY BackingAssumption
  <2>2. check.pc # "idle" => moved' >= moved
    BY <1>1, <1>2
  <2>3. check.pc = "UNDER_BACKED" => moved > Tolerance
    BY DEF AlarmExplained
  <2>4. check.pc = "UNDER_BACKED" => moved' > Tolerance
    BY <1>2, <2>1, <2>2, <2>3
  <2>5. check'.pc \notin {"over-swept", "below floor"}
    BY <1>2 DEF AlarmExplained
  <2> QED
    BY <1>2, <2>4, <2>5 DEF AlarmExplained
<1> QED
  BY <1>3, <1>7, <1>8

(* The steps of the check itself.                                          *)
CheckOk == CheckTyped /\ Figures /\ AlarmExplained

(* The fields of a check.                                                  *)
LEMMA CheckViewed ==
    ASSUME CheckTyped
    PROVE  /\ check.pc \in {"idle", "read", "below floor", "over-swept", "UNDER_BACKED", "OK"}
           /\ check.locked \in Int /\ check.supply \in Int /\ check.held \in Int /\ check.unswept \in Int
           /\ check.todo \subseteq Figure /\ moved \in Nat
  BY DEF CheckTyped

(* A check that ends leaves nothing to explain.                            *)
LEMMA CheckEnds ==
    ASSUME CheckTyped, check' = NoCheck, moved' \in Nat, sick' = sick
    PROVE  CheckOk'
<1>1. check'.pc = "idle"
  BY DEF NoCheck
<1>2. CheckTyped'
  <2>1. NoCheck \in [pc : {"idle", "read", "below floor", "over-swept", "UNDER_BACKED", "OK"}, locked : Int, supply : Int,
                    held : Int, unswept : Int, todo : SUBSET Figure]
    BY DEF NoCheck
  <2> QED
    BY <2>1 DEF CheckTyped
<1>3. Figures'
  BY <1>1 DEF Figures
<1>4. AlarmExplained'
  BY <1>1 DEF AlarmExplained
<1> QED
  BY <1>2, <1>3, <1>4 DEF CheckOk

(* A check begins: nothing has moved, nothing is read.                     *)
LEMMA StartStep ==
    ASSUME LedgerInv, CheckOk, StartCheck, MostUnswept' = MostUnswept, LeastHeld' = LeastHeld
    PROVE  CheckOk'
<1>1. /\ Swept("LANDED") \in Nat
      /\ locked \in Int /\ supply \in Int /\ MostUnswept \in Int /\ LeastHeld \in Int
      /\ locked - (supply - LeastHeld) - MostUnswept >= -Swept("LANDED")
      /\ locked - MostUnswept >= -Swept("LANDED")
  BY MomentFigures
<1>2. /\ check' = [pc |-> "read", locked |-> 0, supply |-> 0, held |-> 0, unswept |-> 0,
                   todo |-> {"locked", "supply", "unswept"}]
      /\ moved' = Swept("LANDED") /\ UNCHANGED <<locked, supply, held, sick>>
  BY DEF StartCheck, NoCheck, money
<1>3. CheckTyped'
  <2>1. {"locked", "supply", "unswept"} \in SUBSET Figure
    BY DEF Figure
  <2>2. sick' \subseteq Endpoint /\ Endpoint \ sick' # {}
    BY <1>2 DEF CheckOk, CheckTyped
  <2>3. moved' \in Nat
    BY <1>1, <1>2
  <2>4. check' \in [pc : {"idle", "read", "below floor", "over-swept", "UNDER_BACKED", "OK"}, locked : Int, supply : Int,
                   held : Int, unswept : Int, todo : SUBSET Figure]
    BY <1>2, <2>1
  <2> QED
    BY <2>2, <2>3, <2>4 DEF CheckTyped
<1>4. /\ WorstLocked' = locked /\ WorstSupply' = supply /\ WorstHeld' = LeastHeld /\ WorstUnswept' = MostUnswept
  BY <1>2 DEF WorstLocked, WorstSupply, WorstHeld, WorstUnswept
<1>5. Figures'
  BY <1>1, <1>2, <1>4 DEF Figures
<1>6. AlarmExplained'
  BY <1>2 DEF AlarmExplained
<1> QED
  BY <1>3, <1>5, <1>6 DEF CheckOk

(* A check reads a figure of the VIZ side, of the supply or of the store.  *)
LEMMA ReadStep ==
    ASSUME LedgerInv, CheckOk, MostUnswept' = MostUnswept, LeastHeld' = LeastHeld,
           Read("locked", locked) \/ Read("supply", supply) \/ Read("unswept", unsweptFees)
    PROVE  CheckOk'
<1>1. /\ locked \in Int /\ supply \in Int /\ MostUnswept \in Int /\ LeastHeld \in Int /\ unsweptFees \in Int
      /\ unsweptFees <= MostUnswept /\ unsweptFees >= 0
  BY MomentFigures
<1>2. /\ check.locked \in Int /\ check.supply \in Int /\ check.held \in Int /\ check.unswept \in Int
      /\ check.todo \subseteq Figure /\ moved \in Nat
  BY CheckViewed DEF CheckOk
<1>3. check.pc = "read" /\ UNCHANGED <<locked, supply, held, moved, sick>>
  BY DEF Read, money
<1>4. /\ "held" \in check.todo => "supply" \notin check.todo
      /\ WorstLocked - (WorstSupply - WorstHeld) - WorstUnswept >= -moved
      /\ WorstLocked - WorstUnswept >= -moved
      /\ "unswept" \notin check.todo => check.unswept >= 0
  BY <1>3 DEF CheckOk, Figures
<1>5. WorstLocked \in Int /\ WorstSupply \in Int /\ WorstHeld \in Int /\ WorstUnswept \in Int
  BY <1>1, <1>2 DEF WorstLocked, WorstSupply, WorstHeld, WorstUnswept
<1>6. CASE Read("locked", locked)
  <2>1. /\ "locked" \in check.todo
        /\ check' = [check EXCEPT !.todo = check.todo \ {"locked"}, !.locked = locked]
    BY <1>6 DEF Read
  <2>2. CheckTyped'
    BY <1>1, <1>2, <1>3, <2>1 DEF CheckOk, CheckTyped
  <2>3. /\ check'.pc = "read" /\ check'.locked = locked /\ check'.supply = check.supply /\ check'.held = check.held
        /\ check'.unswept = check.unswept /\ check'.todo = check.todo \ {"locked"}
    BY <1>3, <2>1 DEF CheckOk, CheckTyped
  <2>4. WorstLocked' = WorstLocked /\ WorstSupply' = WorstSupply /\ WorstHeld' = WorstHeld /\ WorstUnswept' = WorstUnswept
    BY <1>3, <2>1, <2>3 DEF WorstLocked, WorstSupply, WorstHeld, WorstUnswept
  <2>5. Figures'
    BY <1>3, <1>4, <2>3, <2>4 DEF Figures
  <2> QED
    BY <2>2, <2>3, <2>5 DEF CheckOk, AlarmExplained
<1>7. CASE Read("supply", supply)
  <2>1. /\ "supply" \in check.todo
        /\ check' = [check EXCEPT !.todo = check.todo \ {"supply"}, !.supply = supply]
    BY <1>7 DEF Read
  <2>2. CheckTyped'
    BY <1>1, <1>2, <1>3, <2>1 DEF CheckOk, CheckTyped
  <2>3. /\ check'.pc = "read" /\ check'.locked = check.locked /\ check'.supply = supply /\ check'.held = check.held
        /\ check'.unswept = check.unswept /\ check'.todo = check.todo \ {"supply"}
    BY <1>3, <2>1 DEF CheckOk, CheckTyped
  <2>4. WorstLocked' = WorstLocked /\ WorstSupply' = WorstSupply /\ WorstHeld' = WorstHeld /\ WorstUnswept' = WorstUnswept
    BY <1>3, <2>1, <2>3 DEF WorstLocked, WorstSupply, WorstHeld, WorstUnswept
  <2>5. Figures'
    BY <1>3, <1>4, <2>3, <2>4 DEF Figures
  <2> QED
    BY <2>2, <2>3, <2>5 DEF CheckOk, AlarmExplained
<1>8. CASE Read("unswept", unsweptFees)
  <2>1. /\ "unswept" \in check.todo
        /\ check' = [check EXCEPT !.todo = check.todo \ {"unswept"}, !.unswept = unsweptFees]
    BY <1>8 DEF Read
  <2>2. CheckTyped'
    BY <1>1, <1>2, <1>3, <2>1 DEF CheckOk, CheckTyped
  <2>3. /\ check'.pc = "read" /\ check'.locked = check.locked /\ check'.supply = check.supply /\ check'.held = check.held
        /\ check'.unswept = unsweptFees /\ check'.todo = check.todo \ {"unswept"}
    BY <1>3, <2>1 DEF CheckOk, CheckTyped
  <2>4. WorstLocked' = WorstLocked /\ WorstSupply' = WorstSupply /\ WorstHeld' = WorstHeld
    BY <1>3, <2>1, <2>3 DEF WorstLocked, WorstSupply, WorstHeld
  <2>5. WorstUnswept' = unsweptFees /\ WorstUnswept = MostUnswept
    BY <2>1, <2>3 DEF WorstUnswept
  <2>6. Figures'
    <3> DEFINE l == WorstLocked
               s == WorstSupply
               h == WorstHeld
               u == WorstUnswept
    <3>1. l \in Int /\ s \in Int /\ h \in Int /\ u \in Int /\ l - (s - h) - u >= -moved /\ l - u >= -moved
      BY <1>4, <1>5
    <3>2. unsweptFees <= u
      BY <1>1, <2>5
    <3> HIDE DEF l, s, h, u
    <3>3. l - (s - h) - unsweptFees >= -moved /\ l - unsweptFees >= -moved
      BY <1>1, <1>2, <3>1, <3>2
    <3>4. WorstLocked' = l /\ WorstSupply' = s /\ WorstHeld' = h /\ WorstUnswept' = unsweptFees /\ moved' = moved
      BY <1>3, <2>4, <2>5 DEF l, s, h
    <3> QED
      BY <1>1, <1>4, <2>3, <3>3, <3>4 DEF Figures
  <2> QED
    BY <2>2, <2>3, <2>6 DEF CheckOk, AlarmExplained
<1> QED
  BY <1>6, <1>7, <1>8

(* A wallet balance that is believed is the real one.                      *)
LEMMA ReadHeldStep ==
    ASSUME LedgerInv, CheckOk, MostUnswept' = MostUnswept, LeastHeld' = LeastHeld, NEW e \in Endpoint, ReadHeld(e)
    PROVE  CheckOk'
<1>1. locked \in Int /\ supply \in Int /\ MostUnswept \in Int /\ LeastHeld \in Int /\ held \in Int /\ LeastHeld <= held
  BY MomentFigures
<1>2. /\ check.locked \in Int /\ check.supply \in Int /\ check.held \in Int /\ check.unswept \in Int
      /\ check.todo \subseteq Figure /\ moved \in Nat
  BY CheckViewed DEF CheckOk
<1>3. /\ check.pc = "read" /\ "supply" \notin check.todo /\ "held" \notin check.todo
      /\ UNCHANGED <<locked, supply, held, moved, sick>>
  BY DEF ReadHeld, money
<1>4. /\ WorstLocked - (WorstSupply - WorstHeld) - WorstUnswept >= -moved
      /\ WorstLocked - WorstUnswept >= -moved
      /\ "unswept" \notin check.todo => check.unswept >= 0
  BY <1>3 DEF CheckOk, Figures
<1>5. WorstLocked \in Int /\ WorstSupply \in Int /\ WorstHeld \in Int /\ WorstUnswept \in Int
  BY <1>1, <1>2 DEF WorstLocked, WorstSupply, WorstHeld, WorstUnswept
<1>6. check' = NoCheck \/ check' = [check EXCEPT !.todo = check.todo \cup {"held"}, !.held = held]
  <2> DEFINE answer(f) == IF f \in sick THEN 0 ELSE held
  <2>1. check' = IF answer(e) = 0 /\ \E f \in Endpoint : answer(f) # 0 THEN NoCheck
                 ELSE [check EXCEPT !.todo = check.todo \cup {"held"}, !.held = answer(e)]
    BY DEF ReadHeld
  <2>2. PICK well \in Endpoint : well \notin sick
    BY DEF CheckOk, CheckTyped
  <2>3. CASE answer(e) = 0 /\ \E f \in Endpoint : answer(f) # 0
    BY <2>1, <2>3
  <2>4. CASE ~(answer(e) = 0 /\ \E f \in Endpoint : answer(f) # 0)
    <3>1. answer(e) = held
      BY <2>2, <2>4
    <3> HIDE DEF answer
    <3> QED
      BY <2>1, <2>4, <3>1
  <2> QED
    BY <2>3, <2>4
<1>7. CASE check' = NoCheck
  <2>1. CheckTyped /\ moved' \in Nat /\ sick' = sick
    BY <1>2, <1>3 DEF CheckOk
  <2> QED
    BY <1>7, <2>1, CheckEnds
<1>8. CASE check' = [check EXCEPT !.todo = check.todo \cup {"held"}, !.held = held]
  <2>1. CheckTyped'
    BY <1>1, <1>2, <1>3, <1>8 DEF CheckOk, CheckTyped, Figure
  <2>2. /\ check'.pc = "read" /\ check'.locked = check.locked /\ check'.supply = check.supply /\ check'.held = held
        /\ check'.unswept = check.unswept /\ check'.todo = check.todo \cup {"held"}
    BY <1>3, <1>8 DEF CheckOk, CheckTyped
  <2>3. WorstLocked' = WorstLocked /\ WorstSupply' = WorstSupply /\ WorstUnswept' = WorstUnswept
    BY <1>3, <2>2 DEF WorstLocked, WorstSupply, WorstUnswept
  <2>4. WorstHeld' = held /\ WorstHeld = LeastHeld
    BY <1>3, <2>2 DEF WorstHeld
  <2>5. Figures'
    <3> DEFINE l == WorstLocked
               s == WorstSupply
               h == WorstHeld
               u == WorstUnswept
    <3>1. l \in Int /\ s \in Int /\ h \in Int /\ u \in Int /\ l - (s - h) - u >= -moved /\ l - u >= -moved
      BY <1>4, <1>5
    <3>2. h <= held
      BY <1>1, <2>4
    <3> HIDE DEF l, s, h, u
    <3>3. l - (s - held) - u >= -moved
      BY <1>1, <1>2, <3>1, <3>2
    <3>4. WorstLocked' = l /\ WorstSupply' = s /\ WorstHeld' = held /\ WorstUnswept' = u /\ moved' = moved
      BY <1>3, <2>3, <2>4 DEF l, s, u
    <3> QED
      BY <1>3, <1>4, <2>2, <3>1, <3>3, <3>4 DEF Figures
  <2> QED
    BY <2>1, <2>2, <2>5 DEF CheckOk, AlarmExplained
<1> QED
  BY <1>6, <1>7, <1>8

(* The gas floor is a number.                                              *)
LEMMA GasFloorType == GasFloor \in Int
<1>1. Old.gas \in Int /\ New.gas \in Int
  BY BackingAssumption DEF Policy
<1> DEFINE a == Old.gas
           b == New.gas
<1>2. a \in Int /\ b \in Int /\ GasFloor = Min({a, b})
  BY <1>1 DEF GasFloor
<1> HIDE DEF a, b
<1> QED
  BY <1>2, MinOfTwo

(* The verdict.                                                            *)
LEMMA JudgeStep ==
    ASSUME LedgerInv, FloorKept, CheckOk, MostUnswept' = MostUnswept, LeastHeld' = LeastHeld, Judge
    PROVE  CheckOk'
<1>1. /\ check.locked \in Int /\ check.supply \in Int /\ check.held \in Int /\ check.unswept \in Int
      /\ check.todo \subseteq Figure /\ moved \in Nat
  BY CheckViewed DEF CheckOk
<1>2. check.pc = "read" /\ check.todo = {"held"} /\ UNCHANGED <<moved, sick>>
  BY DEF Judge
<1>3. /\ check.locked - (check.supply - check.held) - check.unswept >= -moved
      /\ check.locked - check.unswept >= -moved /\ check.unswept >= 0
  BY <1>2 DEF CheckOk, Figures, WorstLocked, WorstSupply, WorstHeld, WorstUnswept
<1>4. drift >= -moved /\ drift \in Int
  <2> DEFINE c == check.supply - check.held
  <2>1. c \in Int /\ 0 \in Int
    BY <1>1
  <2>2. circulating = Max({c, 0})
    BY DEF circulating
  <2>3. drift = check.locked - circulating - check.unswept
    BY DEF drift
  <2>4. check.locked - c - check.unswept >= -moved
    BY <1>3
  <2> HIDE DEF c
  <2>5. Max({c, 0}) \in {c, 0}
    BY <2>1, MaxOfTwo
  <2>6. CASE circulating = c
    BY <1>1, <2>1, <2>3, <2>4, <2>6
  <2>7. CASE circulating = 0
    BY <1>1, <1>3, <2>3, <2>7
  <2> QED
    BY <2>2, <2>5, <2>6, <2>7
<1> DEFINE floored == \E d \in Minted : /\ ~(row[d].status = "BROADCAST" /\ row[d].fee = 0)
                                        /\ row[d].fee < Min({Old.gas, New.gas})
           verdict == CASE floored -> "below floor"
                        [] ~floored /\ check.unswept < 0 -> "over-swept"
                        [] ~floored /\ check.unswept >= 0 /\ drift < -Tolerance -> "UNDER_BACKED"
                        [] OTHER -> "OK"
<1>5. ~floored
  <2> SUFFICES ASSUME NEW d \in Minted, ~(row[d].status = "BROADCAST" /\ row[d].fee = 0), row[d].fee < GasFloor
               PROVE  FALSE
    BY DEF GasFloor
  <2>1. /\ d \in Deposit /\ row[d].status \in {"BROADCAST", "CONFIRMED"}
    BY DEF Minted
  <2>2. row[d].fee \in Nat /\ RowSound(d)
    BY <2>1, DepositView
  <2>3. row[d].net # 0
    <3>1. CASE row[d].status = "BROADCAST"
      BY <2>2, <3>1 DEF RowSound
    <3>2. CASE row[d].status = "CONFIRMED"
      BY <2>2, <3>2 DEF RowSound
    <3> QED
      BY <2>1, <3>1, <3>2
  <2>4. row[d].fee >= GasFloor
    BY <2>1, <2>3 DEF FloorKept
  <2>5. GasFloor \in Int
    BY GasFloorType
  <2> QED
    BY <2>2, <2>4, <2>5
<1>6. check' = [check EXCEPT !.pc = verdict]
  BY DEF Judge
<1>7. Tolerance \in Nat
  BY BackingAssumption
<1> HIDE DEF floored
<1>8. verdict \in {"UNDER_BACKED", "OK"} /\ (verdict = "UNDER_BACKED" => drift < -Tolerance)
  <2>1. ~(check.unswept < 0)
    BY <1>1, <1>3
  <2>2. CASE check.unswept >= 0 /\ drift < -Tolerance
    <3>1. verdict = "UNDER_BACKED"
      BY <1>5, <2>1, <2>2
    <3> QED
      BY <2>2, <3>1
  <2>3. CASE ~(check.unswept >= 0 /\ drift < -Tolerance)
    <3>1. verdict = "OK"
      BY <1>5, <2>1, <2>3
    <3> QED
      BY <3>1
  <2> QED
    BY <2>2, <2>3
<1> HIDE DEF verdict
<1>9. check'.pc = verdict
  BY <1>6 DEF CheckOk, CheckTyped
<1>10. CheckTyped'
  BY <1>2, <1>6, <1>8 DEF CheckOk, CheckTyped
<1>11. drift < -Tolerance => moved > Tolerance
  BY <1>1, <1>4, <1>7
<1> QED
  BY <1>2, <1>8, <1>9, <1>10, <1>11 DEF CheckOk, Figures, AlarmExplained

(* What was withheld never falls under the gas floor.                      *)
LEMMA FloorStep ==
    ASSUME FeesCoverGas, LedgerInv, FloorKept, BackingNext
    PROVE  FloorKept'
<1>1. row \in [Deposit -> RowRecord] /\ policy["coordinator"] \in {Old, New}
  BY DEF LedgerInv, RowsTyped
<1>2. ASSUME NEW d \in Deposit, Quote(d) PROVE FloorKept'
  <2>1. /\ \A e \in Deposit \ {d} : row'[e] = row[e]
        /\ row'[d].fee >= baseFee(Gross[d], policy["coordinator"])
    BY <1>2, QuoteStep
  <2>2. baseFee(Gross[d], policy["coordinator"]) >= GasFloor
    BY <1>1 DEF FeesCoverGas
  <2>3. GasFloor \in Int
    BY GasFloorType
  <2>4. baseFee(Gross[d], policy["coordinator"]) \in Nat
    BY <1>1, FeeType
  <2>5. row'[d].fee \in Int
    <3>1. LedgerInv'
      BY <1>2, QuoteStep
    <3> QED
      BY <3>1 DEF LedgerInv, RowsTyped, RowRecord
  <2>6. row'[d].fee >= GasFloor
    BY <2>1, <2>2, <2>3, <2>4, <2>5
  <2>7. GasFloor' = GasFloor
    BY DEF GasFloor
  <2> QED
    BY <2>1, <2>6, <2>7 DEF FloorKept
<1>3. ASSUME \A e \in Deposit : row'[e].net = row[e].net /\ row'[e].fee = row[e].fee PROVE FloorKept'
  BY <1>3 DEF FloorKept, GasFloor
<1>4. ASSUME NEW d \in Deposit,
             Arrive(d) \/ Deliver(d) \/ GiveUp(d) \/ Mint(d) \/ Confirm(d) \/ LandSweep(d) \/ ConfirmSweep(d) \/ Refund(d)
      PROVE  FloorKept'
  <2>1. \/ row' = row \/ row' = [row EXCEPT ![d].landed = TRUE]
        \/ row' = [row EXCEPT ![d].status = "QUEUED"] \/ row' = [row EXCEPT ![d].status = "BROADCAST"]
        \/ row' = [row EXCEPT ![d].status = "REFUNDING"] \/ row' = [row EXCEPT ![d].status = "CONFIRMED"]
        \/ row' = [row EXCEPT ![d].status = "REFUNDED"]
    BY <1>4 DEF Arrive, Deliver, GiveUp, Mint, Confirm, LandSweep, ConfirmSweep, Refund
  <2>2. \A e \in Deposit : row'[e].net = row[e].net /\ row'[e].fee = row[e].fee
    <3>1. CASE row' = row
      BY <3>1
    <3>2. CASE row' = [row EXCEPT ![d].landed = TRUE]
      BY <1>1, <3>2 DEF RowRecord
    <3>3. ASSUME NEW st, row' = [row EXCEPT ![d].status = st]
          PROVE  \A e \in Deposit : row'[e].net = row[e].net /\ row'[e].fee = row[e].fee
      BY <1>1, <3>3 DEF RowRecord
    <3> QED
      BY <2>1, <3>1, <3>2, <3>3
  <2> QED
    BY <1>3, <2>2
<1>5. ASSUME (\E t \in Transfer : TransferIn(t) \/ Release(t) \/ Return(t))
               \/ (\E who \in DOMAIN policy : Reconfigure(who))
               \/ StartCheck \/ Judge \/ publishSnapshot \/ Unpause \/ gatewayBalanceMilliViz
               \/ Read("supply", supply) \/ Read("unswept", unsweptFees)
               \/ (\E e \in Endpoint : ReadHeld(e) \/ FallSick(e))
      PROVE  FloorKept'
  <2>1. row' = row
    BY <1>5 DEF TransferIn, Release, Return, Reconfigure, StartCheck, Judge, publishSnapshot, Unpause,
                gatewayBalanceMilliViz, Read, ReadHeld, FallSick, rows
  <2> QED
    BY <1>3, <2>1
<1> QED
  BY <1>2, <1>4, <1>5 DEF BackingNext

(* Every step keeps the check explained.                                   *)
LEMMA CheckStep ==
    ASSUME FeesOnlyFall, FeesCoverGas, LedgerInv, FloorKept, CheckOk, [BackingNext]_backingVars
    PROVE  CheckOk'
<1>1. LedgerInv' /\ CheckTyped /\ Figures /\ AlarmExplained /\ moved \in Nat
  BY LedgerStep DEF CheckOk, CheckTyped
<1>2. ASSUME BooksMove PROVE CheckOk'
  BY <1>1, <1>2, MovesKeep DEF CheckOk
<1>3. ASSUME NEW d \in Deposit,
             Arrive(d) \/ Deliver(d) \/ Quote(d) \/ GiveUp(d) \/ Mint(d) \/ Confirm(d)
               \/ LandSweep(d) \/ ConfirmSweep(d) \/ Refund(d)
      PROVE  CheckOk'
  BY <1>2, <1>3, PegInStep, QuoteStep, PayOutStep
<1>4. ASSUME NEW t \in Transfer, TransferIn(t) \/ Release(t) \/ Return(t) PROVE CheckOk'
  BY <1>2, <1>4, PegOutStep
<1>5. ASSUME UNCHANGED <<locked, supply, check, moved>>, MostUnswept' = MostUnswept, LeastHeld' = LeastHeld,
             sick' \subseteq Endpoint, Endpoint \ sick' # {}
      PROVE  CheckOk'
  BY <1>1, <1>5 DEF CheckOk, CheckTyped, Figures, AlarmExplained, WorstLocked, WorstSupply, WorstHeld, WorstUnswept
<1>6. sick \subseteq Endpoint /\ Endpoint \ sick # {}
  BY DEF CheckOk, CheckTyped
<1>7. ASSUME NEW who \in DOMAIN policy, policy[who] = Old, Reconfigure(who) PROVE CheckOk'
  <2>1. UNCHANGED <<locked, supply, check, moved, sick>>
    BY <1>7 DEF Reconfigure, money, recon
  <2>2. MostUnswept' = MostUnswept /\ LeastHeld' = LeastHeld
    BY <1>7, ReconfigureStep
  <2> QED
    BY <1>5, <1>6, <2>1, <2>2
<1>8. ASSUME UNCHANGED <<money, rows, policy>> PROVE MostUnswept' = MostUnswept /\ LeastHeld' = LeastHeld
  BY <1>8, LedgerUnchanged
<1>9. ASSUME StartCheck PROVE CheckOk'
  BY <1>8, <1>9, StartStep DEF StartCheck
<1>10. ASSUME Judge PROVE CheckOk'
  BY <1>8, <1>10, JudgeStep DEF Judge
<1>11. ASSUME publishSnapshot PROVE CheckOk'
  BY <1>1, <1>11, CheckEnds DEF publishSnapshot
<1>12. ASSUME Unpause \/ UNCHANGED backingVars PROVE CheckOk'
  <2>1. UNCHANGED <<money, rows, policy>> /\ UNCHANGED <<locked, supply, check, moved, sick>>
    BY <1>12 DEF Unpause, backingVars, money, recon
  <2> QED
    BY <1>5, <1>6, <1>8, <2>1
<1>13. ASSUME gatewayBalanceMilliViz PROVE CheckOk'
  <2>1. CASE Read("locked", locked)
    BY <1>8, <2>1, ReadStep DEF Read
  <2>2. CASE check' = NoCheck /\ moved' = 0 /\ UNCHANGED sick
    BY <1>1, <2>2, CheckEnds
  <2> QED
    BY <1>13, <2>1, <2>2 DEF gatewayBalanceMilliViz
<1>14. ASSUME Read("supply", supply) \/ Read("unswept", unsweptFees) PROVE CheckOk'
  BY <1>8, <1>14, ReadStep DEF Read
<1>15. ASSUME NEW e \in Endpoint, ReadHeld(e) PROVE CheckOk'
  BY <1>8, <1>15, ReadHeldStep DEF ReadHeld
<1>16. ASSUME NEW e \in Endpoint, FallSick(e) PROVE CheckOk'
  <2>1. UNCHANGED <<money, rows, policy>> /\ UNCHANGED <<locked, supply, check, moved>>
    BY <1>16 DEF FallSick, money
  <2>2. sick' \subseteq Endpoint /\ Endpoint \ sick' # {}
    BY <1>6, <1>16 DEF FallSick
  <2> QED
    BY <1>5, <1>8, <2>1, <2>2
<1> QED
  BY <1>3, <1>4, <1>7, <1>9, <1>10, <1>11, <1>12, <1>13, <1>14, <1>15, <1>16 DEF BackingNext

(* AlarmExplained: whatever moves while the reconciler reads, and whatever *)
(* endpoints lie, it reports neither a deficit larger than what moved nor  *)
(* fees below the floor or over-swept.  The base fee has to cover the gas  *)
(* floor it is compared with, which the code leaves to the operators.      *)
THEOREM AlarmsAreExplained ==
    ASSUME FeesOnlyFall, FeesCoverGas PROVE BackingSpec => []AlarmExplained
<1> DEFINE Inv == LedgerInv /\ FloorKept /\ CheckOk
<1>1. BackingInit => Inv
  <2> SUFFICES ASSUME BackingInit PROVE Inv
    OBVIOUS
  <2>1. LedgerInv
    BY LedgerInit
  <2>2. FloorKept
    BY DEF BackingInit, FloorKept, NoRow
  <2>3. CheckOk
    <3>1. CheckTyped
      BY BackingAssumption DEF BackingInit, CheckTyped, NoCheck
    <3> QED
      BY <3>1 DEF BackingInit, NoCheck, CheckOk, Figures, AlarmExplained
  <2> QED
    BY <2>1, <2>2, <2>3
<1>2. Inv /\ [BackingNext]_backingVars => Inv'
  <2> SUFFICES ASSUME Inv, [BackingNext]_backingVars PROVE Inv'
    OBVIOUS
  <2>1. LedgerInv' /\ CheckOk'
    BY LedgerStep, CheckStep
  <2>2. FloorKept'
    <3>1. CASE BackingNext
      BY <3>1, FloorStep
    <3>2. CASE UNCHANGED backingVars
      BY <3>2 DEF backingVars, rows, FloorKept, GasFloor
    <3> QED
      BY <3>1, <3>2
  <2> QED
    BY <2>1, <2>2
<1>3. Inv => AlarmExplained
  BY DEF CheckOk
<1> HIDE DEF Inv
<1> QED
  BY <1>1, <1>2, <1>3, PTL DEF BackingSpec
=============================================================================
