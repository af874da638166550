-------------------------- MODULE SolanaMintProofs --------------------------
(***************************************************************************)
(* Solana mints happen once, for every signing subset, number of peg-ins,  *)
(* overlapping calls, size of the scan window and number of faults.        *)
(***************************************************************************)
EXTENDS SolanaMint, TLAPS

\* All signers have settled on one message for a.
Settled(a, n) == n # 0 /\ \A s \in Signer : ledger[s][a] = n

CallType == [pc : {"free", "check", "build", "sign", "confirm", "reply"},
             action : Action \cup {None}, nonce : Nat,
             asked : SUBSET Signer, signed : SUBSET Signer, txid : Nat]
RowType == [status : {"QUEUED", "BROADCAST", "CONFIRMED", "REFUNDING"},
            attempts : {0, 1}, txid : Nat]

Types ==
    /\ nonce \in Nat \ {0}
    /\ inflight \subseteq Tx
    /\ landed \in Seq(Tx)
    /\ ledger \in [Signer -> [Action -> Nat]]
    /\ row \in [Action -> RowType]
    /\ call \in [Call -> CallType]
    /\ waiting \in Call \cup {None}

(* A call: what it holds of the signers' ledgers at its stage.             *)
CallHolds(c) ==
    /\ call[c].pc # "free" => call[c].action \in Action
    /\ call[c].pc = "sign" =>
         /\ call[c].nonce # 0
         /\ \A s \in call[c].signed : ledger[s][call[c].action] = call[c].nonce
    /\ call[c].pc \in {"check", "build"} => call[c].signed = {} /\ call[c].txid = 0
    /\ call[c].pc \in {"sign", "confirm"} => call[c].txid = 0
    /\ call[c].pc = "confirm" => Settled(call[c].action, call[c].nonce)
    /\ call[c].pc = "reply" /\ call[c].txid # 0 => Settled(call[c].action, call[c].txid)

MintInv ==
    /\ Types
    /\ waiting # None => call[waiting].pc # "free"
    /\ \A c \in Call : CallHolds(c)
    /\ \A t \in inflight : Settled(t.action, t.nonce)
    /\ nonce = Len(landed) + 1
    /\ \A i \in 1..Len(landed) : landed[i].nonce = i /\ Settled(landed[i].action, i)
    /\ \A a \in Action : row[a].txid # 0 => Settled(a, row[a].txid)

LEMMA InitHolds == Init => MintInv
BY SolanaMintAssumption DEF Init, MintInv, Types, CallHolds, Settled, Free, CallType, RowType, Tx

(* Two settlements of one action are the same.                             *)
LEMMA SettledOnce ==
    ASSUME NEW a, NEW m, NEW n, Settled(a, m), Settled(a, n)
    PROVE  m = n
BY SolanaMintAssumption DEF Settled

LEMMA InvGivesMintedOnce == MintInv => MintedOnce
<1> SUFFICES ASSUME MintInv, NEW i \in DOMAIN landed, NEW j \in DOMAIN landed,
                    landed[i].action = landed[j].action
             PROVE  i = j
  BY DEF MintedOnce
<1>1. i \in 1..Len(landed) /\ j \in 1..Len(landed)
  BY DEF MintInv, Types
<1>2. Settled(landed[i].action, i) /\ Settled(landed[i].action, j)
  BY <1>1 DEF MintInv
<1> QED
  BY <1>2, SettledOnce

LEMMA InvGivesTxidIsTheMint == MintInv => TxidIsTheMint
<1> SUFFICES ASSUME MintInv, NEW a \in Action, row[a].txid # 0
             PROVE  /\ \A i \in DOMAIN landed : landed[i].action = a => landed[i].nonce = row[a].txid
                    /\ \A t \in inflight : t.action = a => t.nonce = row[a].txid
  BY DEF TxidIsTheMint
<1>1. Settled(a, row[a].txid)
  BY DEF MintInv
<1>2. ASSUME NEW i \in DOMAIN landed, landed[i].action = a
      PROVE  landed[i].nonce = row[a].txid
  <2>1. i \in 1..Len(landed)
    BY DEF MintInv, Types
  <2>2. Settled(a, landed[i].nonce)
    BY <1>2, <2>1 DEF MintInv
  <2> QED
    BY <1>1, <2>2, SettledOnce
<1>3. ASSUME NEW t \in inflight, t.action = a
      PROVE  t.nonce = row[a].txid
  <2>1. Settled(a, t.nonce)
    BY <1>3 DEF MintInv
  <2> QED
    BY <1>1, <2>1, SettledOnce
<1> QED
  BY <1>2, <1>3

-----------------------------------------------------------------------------
(* The steps. *)

(* The step of one call that leaves the ledgers and the chain alone: what  *)
(* it has to establish.                                                    *)
LEMMA OneCallMoves ==
    ASSUME MintInv, NEW c \in Call, NEW r \in CallType,
           call' = [call EXCEPT ![c] = r],
           UNCHANGED <<nonce, landed, ledger>>,
           inflight' \subseteq Tx, \A t \in inflight' : Settled(t.action, t.nonce),
           row' \in [Action -> RowType],
           \A a \in Action : row'[a].txid # 0 => Settled(a, row'[a].txid),
           waiting' \in Call \cup {None},
           waiting' = waiting \/ waiting' = None \/ waiting' = c,
           waiting' = c => r.pc # "free",
           CallHolds(c)'
    PROVE  MintInv'
<1>1. Types'
  BY DEF MintInv, Types, Tx, CallType, RowType
<1>2. ASSUME NEW a, NEW n
      PROVE  Settled(a, n)' <=> Settled(a, n)
  BY DEF Settled
<1>3. ASSUME NEW d \in Call
      PROVE  CallHolds(d)'
  <2>1. CASE d = c
    BY <2>1
  <2>2. CASE d # c
    <3>1. call'[d] = call[d]
      BY <2>2 DEF MintInv, Types
    <3>2. CallHolds(d)
      BY DEF MintInv
    <3> QED
      BY <3>1, <3>2 DEF CallHolds, Settled
  <2> QED
    BY <2>1, <2>2
<1>4. waiting' # None => call'[waiting'].pc # "free"
  <2> SUFFICES ASSUME waiting' # None
               PROVE  call'[waiting'].pc # "free"
    OBVIOUS
  <2>1. CASE waiting' = c
    BY <2>1 DEF MintInv, Types
  <2>2. CASE waiting' # c
    <3>1. waiting' = waiting /\ waiting \in Call
      BY <2>2 DEF MintInv, Types
    <3>2. call'[waiting] = call[waiting]
      BY <2>2, <3>1 DEF MintInv, Types
    <3> QED
      BY <3>1, <3>2 DEF MintInv
  <2> QED
    BY <2>1, <2>2
<1>5. \A t \in inflight' : Settled(t.action, t.nonce)'
  BY <1>2
<1>6. nonce' = Len(landed') + 1
  BY DEF MintInv
<1>7. (\A i \in 1..Len(landed) : landed[i].nonce = i /\ Settled(landed[i].action, i))'
  BY DEF MintInv, Settled
<1>8. (\A a \in Action : row[a].txid # 0 => Settled(a, row[a].txid))'
  BY DEF Settled
<1> QED
  BY <1>1, <1>3, <1>4, <1>5, <1>6, <1>7, <1>8 DEF MintInv

(* The same for a step that changes nothing but the call.                   *)
LEMMA OnlyCallMoves ==
    ASSUME MintInv, NEW c \in Call, NEW r \in CallType, r.pc # "free",
           call' = [call EXCEPT ![c] = r],
           UNCHANGED <<nonce, inflight, landed, ledger, row, waiting>>,
           CallHolds(c)'
    PROVE  MintInv'
<1>1. /\ inflight' \subseteq Tx /\ \A t \in inflight' : Settled(t.action, t.nonce)
      /\ row' \in [Action -> RowType]
      /\ \A a \in Action : row'[a].txid # 0 => Settled(a, row'[a].txid)
      /\ waiting' \in Call \cup {None} /\ waiting' = waiting
  BY DEF MintInv, Types
<1> QED
  BY <1>1, OneCallMoves

(* A step that leaves calls, ledgers and the chain alone.                  *)
LEMMA OnlyRowsMove ==
    ASSUME MintInv, UNCHANGED <<nonce, inflight, landed, ledger, call>>,
           row' \in [Action -> RowType],
           \A a \in Action : row'[a].txid = row[a].txid,
           waiting' = waiting \/ waiting' = None
    PROVE  MintInv'
<1>1. Types'
  BY DEF MintInv, Types, Tx, CallType, RowType
<1>2. \A c \in Call : CallHolds(c)'
  BY DEF MintInv, CallHolds, Settled
<1>3. (\A a \in Action : row[a].txid # 0 => Settled(a, row[a].txid))'
  BY DEF MintInv, Settled
<1>4. (waiting # None => call[waiting].pc # "free")'
  BY DEF MintInv
<1>5. (\A t \in inflight : Settled(t.action, t.nonce))'
  BY DEF MintInv, Settled
<1>6. (/\ nonce = Len(landed) + 1
       /\ \A i \in 1..Len(landed) : landed[i].nonce = i /\ Settled(landed[i].action, i))'
  BY DEF MintInv, Settled
<1> QED
  BY <1>1, <1>2, <1>3, <1>4, <1>5, <1>6 DEF MintInv

LEMMA RetryKeepsTxid ==
    ASSUME MintInv, NEW a \in Action, Retry(a)
    PROVE  row' \in [Action -> RowType] /\ \A b \in Action : row'[b].txid = row[b].txid
<1> PICK st \in {"QUEUED", "REFUNDING"} : row' = [row EXCEPT ![a].status = st, ![a].attempts = 1]
  BY DEF Retry
<1> DEFINE q == [status |-> st, attempts |-> 1, txid |-> row[a].txid]
<1>1. row \in [Action -> RowType] /\ row[a] \in RowType
  BY DEF MintInv, Types
<1>2. q \in RowType
  BY <1>1 DEF RowType
<1>3. row'[a] = q /\ \A b \in Action : b # a => row'[b] = row[b]
  BY <1>1 DEF RowType
<1>4. row' = [row EXCEPT ![a] = q]
  BY <1>1, <1>3
<1> HIDE DEF q
<1>5. row' \in [Action -> RowType] /\ row'[a].txid = row[a].txid
  BY <1>1, <1>2, <1>4 DEF q
<1> QED
  BY <1>3, <1>5

(* Once all signers settled on a message, no ledger row of the action      *)
(* changes any more.                                                       *)
LEMMA AskKeeps ==
    ASSUME MintInv, NEW c \in Call, NEW s \in Signer, Ask(c, s)
    PROVE  MintInv'
<1> DEFINE a == call[c].action
           n == call[c].nonce
<1>0. /\ call \in [Call -> CallType] /\ ledger \in [Signer -> [Action -> Nat]]
      /\ CallHolds(c) /\ call[c].pc = "sign" /\ call[c] \in CallType
  BY DEF MintInv, Types, Ask
<1>1. a \in Action /\ n # 0 /\ n \in Nat
  BY <1>0 DEF CallHolds, CallType
<1>2. CASE MaySign(s, a, n) /\ ledger' = [ledger EXCEPT ![s][a] = n]
           /\ call' = [call EXCEPT ![c].asked = @ \cup {s}, ![c].signed = @ \cup {s}]
  <2>0. UNCHANGED <<nonce, inflight, landed, row, waiting>>
    BY DEF Ask, network
  <2>1. ASSUME NEW z \in Signer, NEW b \in Action
        PROVE  /\ ledger'[z][b] \in Nat
               /\ ledger[z][b] # 0 => ledger'[z][b] = ledger[z][b]
    BY <1>0, <1>1, <1>2 DEF MaySign
  <2>2. ASSUME NEW b \in Action, NEW k, Settled(b, k)
        PROVE  Settled(b, k)'
    BY <2>1, <2>2 DEF Settled
  <2>3. ledger' \in [Signer -> [Action -> Nat]] /\ ledger'[s][a] = n
    BY <1>0, <1>1, <1>2
  <2>4. /\ call' \in [Call -> CallType]
        /\ \A d \in Call : d # c => call'[d] = call[d]
        /\ call'[c].pc = "sign" /\ call'[c].action = a /\ call'[c].nonce = n
        /\ call'[c].signed = call[c].signed \cup {s} /\ call'[c].txid = call[c].txid
    BY <1>0, <1>2 DEF CallType
  <2>5. CallHolds(c)'
    <3>1. \A z \in call'[c].signed : ledger'[z][a] = n
      <4> SUFFICES ASSUME NEW z \in call'[c].signed
                   PROVE  ledger'[z][a] = n
        OBVIOUS
      <4>1. CASE z = s
        BY <4>1, <2>3
      <4>2. CASE z # s
        <5>1. z \in call[c].signed /\ z \in Signer
          BY <4>2, <2>4, <1>0 DEF CallType
        <5>2. ledger[z][a] = n
          BY <5>1, <1>0 DEF CallHolds
        <5> QED
          BY <5>1, <5>2, <1>1, <2>1
      <4> QED
        BY <4>1, <4>2
    <3> QED
      BY <3>1, <2>4, <1>0, <1>1 DEF CallHolds
  <2>6. ASSUME NEW d \in Call, d # c
        PROVE  CallHolds(d)'
    <3>1. CallHolds(d) /\ call'[d] = call[d] /\ call[d] \in CallType
      BY <2>6, <2>4, <1>0 DEF MintInv
    <3>2. call[d].pc = "sign" =>
            \A z \in call[d].signed : ledger'[z][call[d].action] = call[d].nonce
      BY <3>1, <2>1 DEF CallHolds, CallType
    <3>3. /\ call[d].pc = "confirm" => Settled(call[d].action, call[d].nonce)'
          /\ call[d].pc = "reply" /\ call[d].txid # 0 => Settled(call[d].action, call[d].txid)'
      <4>1. call[d].pc = "confirm" => call[d].action \in Action /\ Settled(call[d].action, call[d].nonce)
        BY <3>1 DEF CallHolds
      <4>2. call[d].pc = "reply" /\ call[d].txid # 0
              => call[d].action \in Action /\ Settled(call[d].action, call[d].txid)
        BY <3>1 DEF CallHolds
      <4>3. UNCHANGED <<call[d].action, call[d].nonce, call[d].txid>>
        BY <3>1
      <4>4. CASE call[d].pc = "confirm"
        <5>1. \A z \in Signer : ledger'[z][call[d].action] = call[d].nonce
          BY <4>1, <4>4, <2>1 DEF Settled
        <5> QED
          BY <4>1, <4>4, <4>3, <5>1 DEF Settled
      <4>5. CASE call[d].pc = "reply" /\ call[d].txid # 0
        <5>1. \A z \in Signer : ledger'[z][call[d].action] = call[d].txid
          BY <4>2, <4>5, <2>1 DEF Settled
        <5> QED
          BY <4>2, <4>5, <4>3, <5>1 DEF Settled
      <4> QED
        BY <4>4, <4>5
    <3> QED
      BY <3>1, <3>2, <3>3 DEF CallHolds, Settled
  <2>7. \A d \in Call : CallHolds(d)'
    BY <2>5, <2>6
  <2>8. \A t \in inflight' : Settled(t.action, t.nonce)'
    <3> SUFFICES ASSUME NEW t \in inflight
                 PROVE  Settled(t.action, t.nonce)'
      BY <2>0
    <3>1. t.action \in Action /\ Settled(t.action, t.nonce)
      BY DEF MintInv, Types, Tx
    <3> QED
      BY <3>1, <2>1 DEF Settled
  <2>9. (\A i \in 1..Len(landed) : landed[i].nonce = i /\ Settled(landed[i].action, i))'
    <3> SUFFICES ASSUME NEW i \in 1..Len(landed)
                 PROVE  /\ landed[i].nonce = i /\ i # 0
                        /\ \A z \in Signer : ledger'[z][landed[i].action] = i
      BY <2>0 DEF Settled
    <3>1. landed[i] \in Tx
      BY DEF MintInv, Types
    <3>2. landed[i].action \in Action /\ landed[i].nonce = i /\ Settled(landed[i].action, i)
      BY <3>1 DEF MintInv, Tx
    <3> QED
      BY <3>2, <2>1 DEF Settled
  <2>10. (\A b \in Action : row[b].txid # 0 => Settled(b, row[b].txid))'
    <3> SUFFICES ASSUME NEW b \in Action, row[b].txid # 0
                 PROVE  \A z \in Signer : ledger'[z][b] = row[b].txid
      BY <2>0 DEF Settled
    <3>1. Settled(b, row[b].txid)
      BY DEF MintInv
    <3> QED
      BY <3>1, <2>1 DEF Settled
  <2>11. Types'
    BY <2>0, <2>3, <2>4 DEF MintInv, Types
  <2>12. waiting' # None => call'[waiting'].pc # "free"
    BY <2>0, <2>4 DEF MintInv, Types
  <2> QED
    BY <2>0, <2>7, <2>8, <2>9, <2>10, <2>11, <2>12 DEF MintInv
<1>3. CASE ledger' = ledger /\ call' = [call EXCEPT ![c].asked = @ \cup {s}]
  <2> DEFINE r == [call[c] EXCEPT !.asked = @ \cup {s}]
  <2>1. r \in CallType /\ call' = [call EXCEPT ![c] = r]
    BY <1>0, <1>3 DEF CallType
  <2>2. UNCHANGED <<nonce, inflight, landed, row, waiting>>
    BY DEF Ask, network
  <2>3. call'[c] = r /\ r.pc = "sign" /\ r.action = a /\ r.nonce = n /\ r.signed = call[c].signed
        /\ r.txid = call[c].txid
    BY <1>0, <2>1 DEF CallType
  <2> HIDE DEF r
  <2>4. CallHolds(c)'
    BY <1>0, <1>1, <1>3, <2>3 DEF CallHolds
  <2> QED
    BY <1>3, <2>1, <2>2, <2>3, <2>4, OneCallMoves DEF MintInv, Types
<1> QED
  BY <1>2, <1>3 DEF Ask

(* The steps of a call that only change the call.                          *)
LEMMA CallKeeps ==
    ASSUME MintInv, NEW c \in Call, Build(c) \/ GiveUp(c) \/ Confirm(c)
    PROVE  MintInv'
<1>0. /\ call \in [Call -> CallType] /\ call[c] \in CallType /\ CallHolds(c)
      /\ nonce \in Nat \ {0} /\ inflight \subseteq Tx
      /\ \A t \in inflight : Settled(t.action, t.nonce)
      /\ row \in [Action -> RowType]
      /\ \A a \in Action : row[a].txid # 0 => Settled(a, row[a].txid)
      /\ waiting \in Call \cup {None}
  BY DEF MintInv, Types
<1>1. CASE Build(c)
  <2> DEFINE r == [pc |-> "sign", action |-> call[c].action, nonce |-> nonce,
                  asked |-> call[c].asked, signed |-> call[c].signed, txid |-> call[c].txid]
  <2>4. r \in CallType
    BY <1>0 DEF CallType
  <2>5. /\ call'[c] = r /\ \A d \in Call : d # c => call'[d] = call[d]
        /\ call' = [d \in Call |-> call'[d]]
    BY <1>0, <1>1 DEF Build, CallType
  <2>1. r \in CallType /\ call'[c] = r /\ call' = [call EXCEPT ![c] = r]
    BY <1>0, <2>4, <2>5
  <2>2. UNCHANGED <<nonce, inflight, landed, ledger, row, waiting>>
    BY <1>1 DEF Build, network
  <2>3. CallHolds(c)'
    BY <1>0, <1>1, <2>1, <2>2 DEF Build, CallHolds, Settled
  <2>9. r.pc # "free"
    OBVIOUS
  <2> HIDE DEF r
  <2> QED
    BY <2>1, <2>2, <2>3, <2>9, OnlyCallMoves
<1>2. CASE GiveUp(c)
  <2> DEFINE r == [pc |-> "reply", action |-> call[c].action, nonce |-> call[c].nonce,
                  asked |-> call[c].asked, signed |-> call[c].signed, txid |-> call[c].txid]
  <2>4. r \in CallType
    BY <1>0 DEF CallType
  <2>5. /\ call'[c] = r /\ \A d \in Call : d # c => call'[d] = call[d]
        /\ call' = [d \in Call |-> call'[d]]
    BY <1>0, <1>2 DEF GiveUp, CallType
  <2>1. r \in CallType /\ call'[c] = r /\ call' = [call EXCEPT ![c] = r]
    BY <1>0, <2>4, <2>5
  <2>2. UNCHANGED <<nonce, inflight, landed, ledger, row, waiting>>
    BY <1>2 DEF GiveUp, network
  <2>3. CallHolds(c)'
    BY <1>0, <1>2, <2>1, <2>2 DEF GiveUp, CallHolds, Settled
  <2>9. r.pc # "free"
    OBVIOUS
  <2> HIDE DEF r
  <2> QED
    BY <2>1, <2>2, <2>3, <2>9, OnlyCallMoves
<1>3. CASE Confirm(c)
  <2> DEFINE r == [pc |-> "reply", action |-> call[c].action, nonce |-> call[c].nonce,
                  asked |-> call[c].asked, signed |-> call[c].signed, txid |-> call[c].nonce]
  <2>4. r \in CallType
    BY <1>0 DEF CallType
  <2>5. /\ call'[c] = r /\ \A d \in Call : d # c => call'[d] = call[d]
        /\ call' = [d \in Call |-> call'[d]]
    BY <1>0, <1>3 DEF Confirm, CallType
  <2>1. r \in CallType /\ call'[c] = r /\ call' = [call EXCEPT ![c] = r]
    BY <1>0, <2>4, <2>5
  <2>2. UNCHANGED <<nonce, inflight, landed, ledger, row, waiting>>
    BY <1>3 DEF Confirm, network
  <2>3. CallHolds(c)'
    BY <1>0, <1>3, <2>1, <2>2 DEF Confirm, CallHolds, Settled
  <2>9. r.pc # "free"
    OBVIOUS
  <2> HIDE DEF r
  <2> QED
    BY <2>1, <2>2, <2>3, <2>9, OnlyCallMoves
<1> QED
  BY <1>1, <1>2, <1>3

(* actionExecuted only ever finds the message the signers settled on.      *)
LEMMA CheckKeeps ==
    ASSUME MintInv, NEW c \in Call, Check(c)
    PROVE  MintInv'
<1> DEFINE a == call[c].action
           known == IF row[a].txid # 0 THEN {row[a].txid}
                    ELSE IF row[a].attempts > 0 THEN Found(a) ELSE {}
<1>0. /\ call \in [Call -> CallType] /\ call[c] \in CallType /\ CallHolds(c)
      /\ inflight \subseteq Tx /\ row \in [Action -> RowType]
      /\ \A t \in inflight : Settled(t.action, t.nonce)
      /\ \A b \in Action : row[b].txid # 0 => Settled(b, row[b].txid)
      /\ waiting \in Call \cup {None}
  BY DEF MintInv, Types
<1>1. a \in Action /\ call[c].txid = 0 /\ call[c].pc = "check" /\ call[c].signed = {}
  BY <1>0 DEF Check, CallHolds
<1>2. UNCHANGED <<nonce, inflight, landed, ledger, row, waiting>>
  BY DEF Check, network
<1>3. ASSUME NEW n \in Found(a)
      PROVE  n \in Nat /\ Settled(a, n)
  <2> PICK i \in DOMAIN landed : landed[i].action = a /\ n = landed[i].nonce
    BY <1>3 DEF Found
  <2>1. i \in 1..Len(landed)
    BY DEF MintInv, Types
  <2> QED
    BY <2>1 DEF MintInv
<1>4. ASSUME NEW n \in known
      PROVE  n \in Nat /\ Settled(a, n)
  <2>1. CASE row[a].txid # 0
    BY <1>0, <1>1, <1>4, <2>1 DEF RowType
  <2>2. CASE row[a].txid = 0
    BY <1>3, <1>4, <2>2
  <2> QED
    BY <2>1, <2>2
<1>5. ASSUME NEW n \in known, call' = [call EXCEPT ![c].pc = "reply", ![c].txid = n]
      PROVE  MintInv'
  <2> DEFINE r == [pc |-> "reply", action |-> a, nonce |-> call[c].nonce,
                  asked |-> call[c].asked, signed |-> call[c].signed, txid |-> n]
  <2>0. n \in Nat /\ Settled(a, n)
    BY <1>4, <1>5
  <2>4. r \in CallType
    BY <1>0, <2>0 DEF CallType
  <2>5. /\ call'[c] = r /\ \A d \in Call : d # c => call'[d] = call[d]
        /\ call' = [d \in Call |-> call'[d]]
    BY <1>0, <1>5, <2>0 DEF CallType
  <2>1. r \in CallType /\ call'[c] = r /\ call' = [call EXCEPT ![c] = r]
    BY <1>0, <2>4, <2>5
  <2>2. CallHolds(c)'
    BY <1>1, <1>2, <2>0, <2>1 DEF CallHolds, Settled
  <2>9. r.pc # "free"
    OBVIOUS
  <2> HIDE DEF r
  <2> QED
    BY <1>2, <2>1, <2>2, <2>9, OnlyCallMoves
<1>6. ASSUME call' = [call EXCEPT ![c].pc = "build"]
      PROVE  MintInv'
  <2> DEFINE r == [pc |-> "build", action |-> a, nonce |-> call[c].nonce,
                  asked |-> call[c].asked, signed |-> call[c].signed, txid |-> call[c].txid]
  <2>4. r \in CallType
    BY <1>0 DEF CallType
  <2>5. /\ call'[c] = r /\ \A d \in Call : d # c => call'[d] = call[d]
        /\ call' = [d \in Call |-> call'[d]]
    BY <1>0, <1>6 DEF CallType
  <2>1. r \in CallType /\ call'[c] = r /\ call' = [call EXCEPT ![c] = r]
    BY <1>0, <2>4, <2>5
  <2>2. CallHolds(c)'
    BY <1>1, <1>2, <2>1 DEF CallHolds
  <2>9. r.pc # "free"
    OBVIOUS
  <2> HIDE DEF r
  <2> QED
    BY <1>2, <2>1, <2>2, <2>9, OnlyCallMoves
<1> QED
  BY <1>5, <1>6 DEF Check

(* Every signer gave its signature, so the ledgers are settled on what is  *)
(* sent; a preflight that fails leaves a call without a txid.              *)
LEMMA SubmitKeeps ==
    ASSUME MintInv, NEW c \in Call, Submit(c)
    PROVE  MintInv'
<1> DEFINE a == call[c].action
           n == call[c].nonce
<1>0. /\ call \in [Call -> CallType] /\ call[c] \in CallType /\ CallHolds(c)
      /\ nonce \in Nat \ {0} /\ inflight \subseteq Tx
      /\ \A t \in inflight : Settled(t.action, t.nonce)
      /\ row \in [Action -> RowType]
      /\ \A b \in Action : row[b].txid # 0 => Settled(b, row[b].txid)
      /\ waiting \in Call \cup {None}
  BY DEF MintInv, Types
<1>1. /\ call[c].pc = "sign" /\ call[c].signed = Signer
      /\ UNCHANGED <<nonce, landed, ledger, row, waiting>>
  BY DEF Submit
<1>2. a \in Action /\ Settled(a, n) /\ call[c].txid = 0
  BY <1>0, <1>1 DEF CallHolds, Settled
<1>3. CASE n = nonce
  <2> DEFINE r == [pc |-> "confirm", action |-> a, nonce |-> n,
                  asked |-> call[c].asked, signed |-> call[c].signed, txid |-> call[c].txid]
             t == [action |-> a, nonce |-> nonce]
  <2>1. r \in CallType /\ call'[c] = r /\ call' = [call EXCEPT ![c] = r]
    BY <1>0, <1>3 DEF Submit, CallType
  <2>2. inflight' = inflight \cup {t} /\ t \in Tx /\ Settled(t.action, t.nonce)
    BY <1>0, <1>2, <1>3 DEF Submit, Tx
  <2>3. CallHolds(c)'
    BY <1>1, <1>2, <2>1 DEF CallHolds, Settled
  <2>9. r.pc # "free"
    OBVIOUS
  <2> HIDE DEF r, t
  <2>4. inflight' \subseteq Tx /\ \A u \in inflight' : Settled(u.action, u.nonce)
    BY <1>0, <2>2
  <2>5. /\ row' \in [Action -> RowType]
        /\ \A b \in Action : row'[b].txid # 0 => Settled(b, row'[b].txid)
        /\ waiting' \in Call \cup {None} /\ waiting' = waiting
    BY <1>0, <1>1
  <2> QED
    BY <1>1, <2>1, <2>3, <2>4, <2>5, <2>9, OneCallMoves
<1>4. CASE n # nonce
  <2> DEFINE r == [pc |-> "reply", action |-> a, nonce |-> n,
                  asked |-> call[c].asked, signed |-> call[c].signed, txid |-> call[c].txid]
  <2>1. r \in CallType /\ call'[c] = r /\ call' = [call EXCEPT ![c] = r]
    BY <1>0, <1>4 DEF Submit, CallType
  <2>2. inflight' = inflight
    BY <1>4 DEF Submit
  <2>3. CallHolds(c)'
    BY <1>1, <1>2, <2>1 DEF CallHolds
  <2>9. r.pc # "free"
    OBVIOUS
  <2> HIDE DEF r
  <2> QED
    BY <1>1, <2>1, <2>2, <2>3, <2>9, OnlyCallMoves
<1> QED
  BY <1>3, <1>4

(* The dispatcher starts a call.                                           *)
LEMMA DeliverKeeps ==
    ASSUME MintInv, NEW a \in Action, NEW c \in Call, Deliver(a, c)
    PROVE  MintInv'
<1> DEFINE r == [Free EXCEPT !.pc = "check", !.action = a]
<1>0. /\ call \in [Call -> CallType] /\ row \in [Action -> RowType] /\ row[a] \in RowType
      /\ inflight \subseteq Tx /\ \A t \in inflight : Settled(t.action, t.nonce)
      /\ \A b \in Action : row[b].txid # 0 => Settled(b, row[b].txid)
  BY DEF MintInv, Types
<1>1. UNCHANGED <<nonce, inflight, landed, ledger>> /\ waiting' = c
  BY DEF Deliver, network
<1>2. /\ r \in CallType
      /\ r.pc = "check" /\ r.action = a /\ r.signed = {} /\ r.txid = 0
  BY DEF CallType, Free
<1>3. call' = [call EXCEPT ![c] = r] /\ call'[c] = r
  BY <1>0 DEF Deliver
<1>4. CallHolds(c)'
  <2> HIDE DEF r
  <2> QED
    BY <1>2, <1>3 DEF CallHolds
<1>5. row' \in [Action -> RowType] /\ \A b \in Action : row'[b].txid = row[b].txid
  BY <1>0 DEF Deliver, RowType
<1>6. \A b \in Action : row'[b].txid # 0 => Settled(b, row'[b].txid)
  BY <1>0, <1>5
<1>7. inflight' \subseteq Tx /\ \A t \in inflight' : Settled(t.action, t.nonce)
  BY <1>0, <1>1
<1> HIDE DEF r
<1> QED
  BY <1>1, <1>2, <1>3, <1>4, <1>5, <1>6, <1>7, OneCallMoves

(* The answer: the txid it writes is the one the signers settled on.       *)
LEMMA ReplyKeeps ==
    ASSUME MintInv, NEW c \in Call, Reply(c)
    PROVE  MintInv'
<1> DEFINE a == call[c].action
<1>0. /\ call \in [Call -> CallType] /\ row \in [Action -> RowType]
      /\ call[c] \in CallType /\ CallHolds(c) /\ call[c].pc = "reply" /\ a \in Action
      /\ inflight \subseteq Tx /\ \A t \in inflight : Settled(t.action, t.nonce)
      /\ \A b \in Action : row[b].txid # 0 => Settled(b, row[b].txid)
      /\ waiting \in Call \cup {None}
  BY DEF MintInv, Types, Reply, CallHolds
<1>1. /\ UNCHANGED <<nonce, inflight, landed, ledger>>
      /\ waiting' \in {waiting, None} /\ waiting' # c
  BY SolanaMintAssumption DEF Reply, network
<1>2. Free \in CallType /\ Free.pc = "free" /\ Free.txid = 0
  BY DEF Free, CallType
<1>3. call' = [call EXCEPT ![c] = Free] /\ call'[c] = Free
  BY <1>0 DEF Reply
<1>4. CallHolds(c)'
  BY <1>2, <1>3 DEF CallHolds
<1>5. /\ row' \in [Action -> RowType]
      /\ \A b \in Action : row'[b].txid # 0 => Settled(b, row'[b].txid)
  <2>1. CASE waiting = c /\ call[c].txid # 0
    <3> DEFINE q == [status |-> "CONFIRMED", attempts |-> row[a].attempts, txid |-> call[c].txid]
    <3>1. row[a] \in RowType /\ call[c].txid \in Nat /\ Settled(a, call[c].txid)
      BY <1>0, <2>1 DEF CallHolds, CallType
    <3>2. q \in RowType /\ q.txid = call[c].txid
      BY <3>1 DEF RowType
    <3>3. row'[a] = q /\ \A b \in Action : b # a => row'[b] = row[b]
      BY <1>0, <2>1 DEF Reply, RowType
    <3>4. row' = [row EXCEPT ![a] = q]
      BY <1>0, <2>1, <3>3 DEF Reply
    <3> HIDE DEF q
    <3>5. row' \in [Action -> RowType]
      BY <1>0, <3>2, <3>4
    <3> QED
      BY <1>0, <3>1, <3>2, <3>3, <3>5
  <2>2. CASE waiting = c /\ call[c].txid = 0
    <3>1. Retry(a)
      BY <2>2 DEF Reply
    <3> QED
      BY <1>0, <3>1, RetryKeepsTxid
  <2>3. CASE waiting # c
    BY <1>0, <2>3 DEF Reply
  <2> QED
    BY <2>1, <2>2, <2>3
<1>6. /\ inflight' \subseteq Tx /\ \A t \in inflight' : Settled(t.action, t.nonce)
      /\ waiting' \in Call \cup {None}
  BY <1>0, <1>1
<1> QED
  BY <1>1, <1>2, <1>3, <1>4, <1>5, <1>6, OneCallMoves

(* The dispatcher stops waiting, crashes or requeues a row it left behind. *)
LEMMA RowKeeps ==
    ASSUME MintInv, TimeOut \/ CrashDispatcher \/ (\E a \in Action : RecoverOrphan(a))
    PROVE  MintInv'
<1>0. row \in [Action -> RowType] /\ waiting \in Call \cup {None}
  BY DEF MintInv, Types
<1>1. CASE TimeOut
  <2>1. call[waiting].action \in Action
    BY <1>0, <1>1 DEF TimeOut, MintInv, CallHolds
  <2>2. row' \in [Action -> RowType] /\ \A b \in Action : row'[b].txid = row[b].txid
    BY <1>1, <2>1, RetryKeepsTxid DEF TimeOut
  <2> QED
    BY <1>1, <2>2, OnlyRowsMove DEF TimeOut, network
<1>2. CASE CrashDispatcher
  BY <1>0, <1>2, OnlyRowsMove DEF CrashDispatcher, network
<1>3. ASSUME NEW a \in Action, RecoverOrphan(a)
      PROVE  MintInv'
  <2>1. Retry(a)
    BY <1>3 DEF RecoverOrphan, Retry
  <2> QED
    BY <1>3, <2>1, RetryKeepsTxid, OnlyRowsMove DEF RecoverOrphan, network
<1> QED
  BY <1>1, <1>2, <1>3

(* The coordinator dies: no call holds anything afterwards.                *)
LEMMA CrashKeeps ==
    ASSUME MintInv, CrashCoordinator
    PROVE  MintInv'
<1>0. call \in [Call -> CallType] /\ waiting \in Call \cup {None}
  BY DEF MintInv, Types
<1>1. UNCHANGED <<nonce, inflight, landed, ledger, row, waiting>>
  BY DEF CrashCoordinator, network
<1>2. ASSUME NEW c \in Call
      PROVE  call'[c] \in CallType /\ CallHolds(c)'
  <2>1. CASE c = waiting
    <3>1. call[c] \in CallType /\ call[c].pc # "free" /\ call[c].action \in Action
      BY <1>0, <2>1, SolanaMintAssumption DEF MintInv, CallHolds
    <3>2. call'[c] = [Free EXCEPT !.pc = "reply", !.action = call[c].action]
      BY <2>1 DEF CrashCoordinator
    <3>3. call'[c].pc = "reply" /\ call'[c].txid = 0 /\ call'[c].action = call[c].action
      BY <3>1, <3>2 DEF CallType, Free
    <3>4. call'[c] \in CallType
      <4> SUFFICES ASSUME NEW b \in Action
                   PROVE  [Free EXCEPT !.pc = "reply", !.action = b] \in CallType
        BY <3>1, <3>2
      <4> QED
        BY DEF CallType, Free
    <3> QED
      BY <3>1, <3>3, <3>4 DEF CallHolds
  <2>2. CASE c # waiting
    <3>1. call'[c] = Free
      BY <2>2 DEF CrashCoordinator
    <3> QED
      BY <3>1 DEF Free, CallType, CallHolds
  <2> QED
    BY <2>1, <2>2
<1>3. call' \in [Call -> CallType]
  <2>1. DOMAIN call' = Call /\ call' = [c \in Call |-> call'[c]]
    BY DEF CrashCoordinator
  <2> QED
    BY <1>2, <2>1
<1>4. waiting' # None => call'[waiting'].pc # "free"
  <2> SUFFICES ASSUME waiting # None
               PROVE  call'[waiting].pc # "free"
    BY <1>1
  <2>1. waiting \in Call /\ call[waiting] \in CallType
    BY <1>0
  <2>2. call'[waiting] = [Free EXCEPT !.pc = "reply", !.action = call[waiting].action]
    BY <2>1 DEF CrashCoordinator
  <2> QED
    BY <2>1, <2>2 DEF CallType, Free
<1>5. Types'
  BY <1>1, <1>3 DEF MintInv, Types
<1>6. (/\ \A t \in inflight : Settled(t.action, t.nonce)
       /\ nonce = Len(landed) + 1
       /\ \A i \in 1..Len(landed) : landed[i].nonce = i /\ Settled(landed[i].action, i)
       /\ \A a \in Action : row[a].txid # 0 => Settled(a, row[a].txid))'
  BY <1>1 DEF MintInv, Settled
<1> QED
  BY <1>2, <1>4, <1>5, <1>6 DEF MintInv

(* A transaction lands or is lost.                                         *)
LEMMA NetworkKeeps ==
    ASSUME MintInv, NEW t \in inflight, Land(t) \/ Lose(t)
    PROVE  MintInv'
<1>0. /\ UNCHANGED <<ledger, row, call, waiting>>
      /\ inflight' \subseteq inflight
      /\ t \in Tx /\ Settled(t.action, t.nonce) /\ landed \in Seq(Tx)
      /\ nonce = Len(landed) + 1 /\ nonce \in Nat \ {0}
  BY DEF MintInv, Types, Land, Lose
<1>1. (/\ \A c \in Call : CallHolds(c)
       /\ \A a \in Action : row[a].txid # 0 => Settled(a, row[a].txid)
       /\ waiting # None => call[waiting].pc # "free")'
  BY <1>0 DEF MintInv, CallHolds, Settled
<1>2. (\A u \in inflight : Settled(u.action, u.nonce))'
  BY <1>0 DEF MintInv, Settled
<1>3. CASE Land(t)
  <2>1. /\ landed' \in Seq(Tx) /\ Len(landed') = Len(landed) + 1 /\ nonce' = nonce + 1
        /\ landed'[Len(landed')] = t
        /\ \A i \in 1..Len(landed) : landed'[i] = landed[i]
    BY <1>0, <1>3 DEF Land
  <2>2. (nonce = Len(landed) + 1)' /\ nonce' \in Nat \ {0}
    BY <1>0, <2>1
  <2>3. ASSUME NEW i \in 1..Len(landed')
        PROVE  landed'[i].nonce = i /\ Settled(landed'[i].action, i)
    <3>0. Len(landed) \in Nat
      BY <1>0
    <3>1. CASE i = Len(landed')
      BY <1>0, <1>3, <2>1, <3>1 DEF Land
    <3>2. CASE i # Len(landed')
      <4>1. i \in 1..Len(landed) /\ landed'[i] = landed[i]
        BY <2>1, <3>0, <3>2
      <4> QED
        BY <4>1 DEF MintInv
    <3> QED
      BY <3>1, <3>2
  <2>4. (\A i \in 1..Len(landed) : landed[i].nonce = i /\ Settled(landed[i].action, i))'
    BY <1>0, <2>3 DEF Settled
  <2>5. Types'
    BY <1>0, <2>1, <2>2 DEF MintInv, Types
  <2> QED
    BY <1>1, <1>2, <2>2, <2>4, <2>5 DEF MintInv
<1>4. CASE Lose(t)
  <2>1. UNCHANGED <<nonce, landed>>
    BY <1>4 DEF Lose
  <2>2. Types'
    BY <1>0, <2>1 DEF MintInv, Types
  <2>3. (/\ nonce = Len(landed) + 1
         /\ \A i \in 1..Len(landed) : landed[i].nonce = i /\ Settled(landed[i].action, i))'
    BY <1>0, <2>1 DEF MintInv, Settled
  <2> QED
    BY <1>1, <1>2, <2>2, <2>3 DEF MintInv
<1> QED
  BY <1>3, <1>4

LEMMA StutterKeeps ==
    ASSUME MintInv, UNCHANGED vars
    PROVE  MintInv'
BY DEF MintInv, Types, CallHolds, Settled, vars, network

LEMMA StepKeeps == MintInv /\ [Next]_vars => MintInv'
<1> SUFFICES ASSUME MintInv, [Next]_vars
             PROVE  MintInv'
  OBVIOUS
<1>1. ASSUME NEW c \in Call,
             \/ Check(c) \/ Build(c) \/ Submit(c) \/ GiveUp(c) \/ Confirm(c) \/ Reply(c)
             \/ \E s \in Signer : Ask(c, s)
      PROVE  MintInv'
  BY <1>1, CheckKeeps, CallKeeps, SubmitKeeps, ReplyKeeps, AskKeeps
<1>2. ASSUME NEW a \in Action, RecoverOrphan(a) \/ \E c \in Call : Deliver(a, c)
      PROVE  MintInv'
  BY <1>2, RowKeeps, DeliverKeeps
<1>3. CASE TimeOut \/ CrashDispatcher \/ CrashCoordinator
  BY <1>3, RowKeeps, CrashKeeps
<1>4. ASSUME NEW t \in inflight, Land(t) \/ Lose(t)
      PROVE  MintInv'
  BY <1>4, NetworkKeeps
<1>5. CASE UNCHANGED vars
  BY <1>5, StutterKeeps
<1> QED
  BY <1>1, <1>2, <1>3, <1>4, <1>5 DEF Next

-----------------------------------------------------------------------------
(* The theorems. *)

(* No Solana peg-in is minted twice: a transaction that is sent carries    *)
(* all signatures of the committed subset, each signer's ledger signs one  *)
(* message per action, and a message lands at most once because it names   *)
(* the durable nonce.  The bounded scan and the attempt count play no part *)
(* in it.                                                                  *)
THEOREM MintsOnce == Spec => []MintedOnce
BY InitHolds, StepKeeps, InvGivesMintedOnce, PTL DEF Spec

(* The txid that actionExecuted or confirmSignature wrote to a row names   *)
(* the only transaction of that action that has landed or can land.        *)
THEOREM TxidNamesTheMint == Spec => []TxidIsTheMint
BY InitHolds, StepKeeps, InvGivesTxidIsTheMint, PTL DEF Spec
=============================================================================
