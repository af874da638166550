----------------------------- MODULE GramOrders -----------------------------
(***************************************************************************)
(* Mints and wVIZ returns on GRAM: the keyless coordinator pins an order   *)
(* address per action, the operators open or approve the order from their  *)
(* own wallets, the multisig executes it at the threshold.                 *)
(*                                                                         *)
(* An order address is the multisig's sequence number, and new_order is    *)
(* sent without one: the contract gives it the next number when the        *)
(* message arrives, which need not be the number the sender looked at.     *)
(* Messages to the chain are delayed, reordered and lost.                  *)
(*                                                                         *)
(* An order's body is its action: two actions with the same recipient and  *)
(* amount, whose bodies hash alike, are not distinguished by the chain     *)
(* either and are left out.                                                *)
(***************************************************************************)
EXTENDS Naturals, FiniteSets

CONSTANTS
    Action,       \* PEG_IN mints and GRAM_RETURNs
    NumOperators, \* number of signers of the multisig
    Threshold,    \* of the multisig and of the federation
    MaxOrder,     \* bound: orders that can be created
    MaxMail,      \* bound: messages on their way at one time
    None,
    SerialPins    \* TRUE: no address is pinned while a pinned one is unopened

ASSUME GramAssumption ==
    /\ NumOperators \in Nat
    /\ Threshold \in 1..NumOperators
    /\ 2 * Threshold > NumOperators
    /\ {MaxOrder, MaxMail} \subseteq Nat \ {0}
    /\ None \notin Action \cup (1..NumOperators)
    /\ SerialPins \in BOOLEAN

VARIABLES
    next,       \* nextOrderSeqno of the multisig
    order,      \* order[n]: the contract at address n, or None
    mail,       \* messages on their way to the chain
    pin,        \* pin[a]: txid column of a's row (0: none)
    confirmed,  \* actions reported as executed
    drive       \* drive[a]: the coordinator's process() call for a

vars == <<next, order, mail, pin, confirmed, drive>>

Operator == 1..NumOperators
Address == 1..MaxOrder
Contract == [body : Action, approvals : SUBSET Operator, executed : BOOLEAN]
ASSUME NoneAssumption == None \notin Contract

\* new_order of an action, approve at an address; each from one wallet.
Message == [kind : {"new"}, from : Operator, body : Action]
           \cup [kind : {"approve"}, from : Operator, at : Address]

\* step: the coordinator's; asked, call: the operator it is waiting for and
\* what that operator's sendOrApprove is doing.
Drives == [step : {"idle", "check", "build", "round", "poll"},
           todo : SUBSET Operator, approvals : SUBSET Operator,
           asked : Operator \cup {None},
           call : {"none", "look", "open", "wait", "inspect", "approve"}]
NoDrive == [step |-> "idle", todo |-> {}, approvals |-> {}, asked |-> None, call |-> "none"]

Init ==
    /\ next = 1
    /\ order = [n \in Address |-> None]
    /\ mail = {}
    /\ pin = [a \in Action |-> 0]
    /\ confirmed = {}
    /\ drive = [a \in Action |-> NoDrive]

Inited(n) == n \in Address /\ order[n] # None
Executed(n) == Inited(n) /\ order[n].executed

-----------------------------------------------------------------------------
(* The multisig contract. *)

\* A new_order arrives: the next number, the opener's approval counted.
NewOrderLands(m) ==
    /\ m \in mail
    /\ m.kind = "new"
    /\ next \in Address
    /\ order' = [order EXCEPT ![next] = [body |-> m.body, approvals |-> {m.from},
                                         executed |-> Threshold = 1]]
    /\ next' = next + 1
    /\ mail' = mail \ {m}
    /\ UNCHANGED <<pin, confirmed, drive>>

\* An approval arrives: the order executes when the threshold is reached.
ApproveLands(m) ==
    /\ m \in mail
    /\ m.kind = "approve"
    /\ ~Executed(m.at)
    /\ LET set == order[m.at].approvals \cup {m.from} IN
       order' = [order EXCEPT ![m.at].approvals = set,
                              ![m.at].executed = Cardinality(set) >= Threshold]
    /\ mail' = mail \ {m}
    /\ UNCHANGED <<next, pin, confirmed, drive>>

\* A message is dropped, rejected for its wallet's sequence number, or arrives
\* at an executed order.
MessageLost(m) ==
    /\ m \in mail
    /\ mail' = mail \ {m}
    /\ UNCHANGED <<next, order, pin, confirmed, drive>>

-----------------------------------------------------------------------------
(* The coordinator: process() with GramMintBroadcaster or GramReturnBroadcaster. *)

Submit(a) ==
    /\ a \notin confirmed
    /\ drive[a] = NoDrive
    /\ drive' = [drive EXCEPT ![a].step = "check"]
    /\ UNCHANGED <<next, order, mail, pin, confirmed>>

\* Seeded fault: an order that exists counts as executed.
CheckExists(a) ==
    /\ drive[a].step = "check"
    /\ IF Inited(pin[a])
         THEN confirmed' = confirmed \cup {a} /\ drive' = [drive EXCEPT ![a] = NoDrive]
         ELSE drive' = [drive EXCEPT ![a].step = "build"] /\ UNCHANGED confirmed
    /\ UNCHANGED <<next, order, mail, pin>>

\* actionExecuted: no address, no order; otherwise the order's executed flag.
CheckExecuted(a) ==
    /\ drive[a].step = "check"
    /\ IF Executed(pin[a])
         THEN confirmed' = confirmed \cup {a} /\ drive' = [drive EXCEPT ![a] = NoDrive]
         ELSE drive' = [drive EXCEPT ![a].step = "build"] /\ UNCHANGED confirmed
    /\ UNCHANGED <<next, order, mail, pin>>

\* Seeded fault: the address is computed anew on every drive.
BuildAnew(a) ==
    /\ drive[a].step = "build"
    /\ next \in Address
    /\ pin' = [pin EXCEPT ![a] = next]
    /\ drive' = [drive EXCEPT ![a].step = "round", ![a].todo = Operator]
    /\ UNCHANGED <<next, order, mail, confirmed>>

\* buildProposal: reuse the pinned address, else pin the next one.
Build(a) ==
    /\ drive[a].step = "build"
    /\ pin[a] = 0 => /\ next \in Address
                     /\ SerialPins => \A b \in Action : pin[b] # next
    /\ pin' = [pin EXCEPT ![a] = IF @ = 0 THEN next ELSE @]
    /\ drive' = [drive EXCEPT ![a].step = "round", ![a].todo = Operator]
    /\ UNCHANGED <<next, order, mail, confirmed>>

IsMet(a) == Cardinality(drive[a].approvals) >= Threshold

\* Ask the next operator of the list.
Ask(a, o) ==
    /\ drive[a].step = "round"
    /\ drive[a].asked = None
    /\ ~IsMet(a)
    /\ o \in drive[a].todo
    /\ \A p \in drive[a].todo : o <= p
    /\ drive' = [drive EXCEPT ![a].asked = o, ![a].call = "look", ![a].todo = @ \ {o}]
    /\ UNCHANGED <<next, order, mail, pin, confirmed>>

\* The round is over: poll for the execution, or give up.
RoundEnds(a) ==
    /\ drive[a].step = "round"
    /\ drive[a].asked = None
    /\ IsMet(a) \/ drive[a].todo = {}
    /\ drive' = [drive EXCEPT ![a] = IF IsMet(a) THEN [NoDrive EXCEPT !.step = "poll"] ELSE NoDrive]
    /\ UNCHANGED <<next, order, mail, pin, confirmed>>

\* Seeded fault: the order's address is reported where the action's id belongs.
PollConfirmsAddress(a) ==
    /\ drive[a].step = "poll"
    /\ Executed(pin[a])
    /\ confirmed' = confirmed \cup {pin[a]}
    /\ drive' = [drive EXCEPT ![a] = NoDrive]
    /\ UNCHANGED <<next, order, mail, pin>>

\* broadcast(): nothing to send; wait until the order at the address executed.
PollConfirms(a) ==
    /\ drive[a].step = "poll"
    /\ Executed(pin[a])
    /\ confirmed' = confirmed \cup {a}
    /\ drive' = [drive EXCEPT ![a] = NoDrive]
    /\ UNCHANGED <<next, order, mail, pin>>

\* The poll times out, or the coordinator crashes.
DriveEnds(a) ==
    /\ drive[a] # NoDrive
    /\ drive' = [drive EXCEPT ![a] = NoDrive]
    /\ UNCHANGED <<next, order, mail, pin, confirmed>>

-----------------------------------------------------------------------------
(* The operator's GramApprover.sendOrApprove for the pinned address. *)

Approved(a) == drive' = [drive EXCEPT ![a].asked = None, ![a].call = "none",
                                      ![a].approvals = @ \cup {drive[a].asked}]
Refused(a) == drive' = [drive EXCEPT ![a].asked = None, ![a].call = "none"]
Send(m) == mail' = mail \cup {m} /\ Cardinality(mail') <= MaxMail
Goto(a, call) == drive' = [drive EXCEPT ![a].call = call]

\* The order is there; or this address is the multisig's next one: open it;
\* or a foreign order took its turn: wait for it.
Look(a) ==
    /\ drive[a].call = "look"
    /\ \/ /\ Inited(pin[a])
          /\ Goto(a, "inspect")
          /\ UNCHANGED mail
       \/ /\ ~Inited(pin[a])
          /\ next = pin[a]
          /\ Send([kind |-> "new", from |-> drive[a].asked, body |-> a])
          /\ Goto(a, "open")
       \/ /\ ~Inited(pin[a])
          /\ next # pin[a]
          /\ Goto(a, "wait")
          /\ UNCHANGED mail
    /\ UNCHANGED <<next, order, pin, confirmed>>

\* waitForOrderInited: the opener reports its approval as soon as an order is
\* at the address; anyone else goes on to inspect it.
Appears(a) ==
    /\ drive[a].call \in {"open", "wait"}
    /\ Inited(pin[a])
    /\ IF drive[a].call = "open" THEN Approved(a) ELSE Goto(a, "inspect")
    /\ UNCHANGED <<next, order, mail, pin, confirmed>>

\* The body at the address, whoever opened it, is this action's own.
assertDeployedOrderHash(n, a) == order[n].body = a

\* That, then the short-circuits, then approve.
Inspect(a) ==
    LET n == pin[a]
        o == drive[a].asked
    IN
    /\ drive[a].call = "inspect"
    /\ \/ /\ ~assertDeployedOrderHash(n, a)
          /\ Refused(a)
          /\ UNCHANGED mail
       \/ /\ assertDeployedOrderHash(n, a)
          /\ order[n].executed \/ o \in order[n].approvals
          /\ Approved(a)
          /\ UNCHANGED mail
       \/ /\ assertDeployedOrderHash(n, a)
          /\ ~order[n].executed /\ o \notin order[n].approvals
          /\ Send([kind |-> "approve", from |-> o, at |-> n])
          /\ Goto(a, "approve")
    /\ UNCHANGED <<next, order, pin, confirmed>>

\* waitForApproval.
ApprovalSeen(a) ==
    /\ drive[a].call = "approve"
    /\ Executed(pin[a]) \/ drive[a].asked \in order[pin[a]].approvals
    /\ Approved(a)
    /\ UNCHANGED <<next, order, mail, pin, confirmed>>

\* A wait times out, an RPC fails, the operator is offline or refuses.
CallFails(a) ==
    /\ drive[a].call # "none"
    /\ Refused(a)
    /\ UNCHANGED <<next, order, mail, pin, confirmed>>

Next ==
    \/ \E m \in mail : NewOrderLands(m) \/ ApproveLands(m) \/ MessageLost(m)
    \/ \E a \in Action :
         \/ Submit(a) \/ CheckExecuted(a) \/ Build(a) \/ \E o \in Operator : Ask(a, o)
         \/ RoundEnds(a) \/ PollConfirms(a) \/ DriveEnds(a)
         \/ Look(a) \/ Appears(a) \/ Inspect(a) \/ ApprovalSeen(a) \/ CallFails(a)

Spec == Init /\ [][Next]_vars

-----------------------------------------------------------------------------
(* Properties. *)

\* Every variable stays within its type.
TypeOK ==
    /\ next \in 1..(MaxOrder + 1)
    /\ order \in [Address -> Contract \cup {None}]
    /\ mail \subseteq Message
    /\ pin \in [Action -> 0..MaxOrder]
    /\ confirmed \subseteq Action
    /\ drive \in [Action -> Drives]

\* No action is executed twice, whatever new_order messages are delayed or
\* land at a number other than the pinned one ("never propose a second
\* (double-mint) order"; AUDIT T4 on TON).
ExecutedOnce ==
    \A m, n \in Address :
        Executed(m) /\ Executed(n) /\ order[m].body = order[n].body => m = n

\* An action reported as executed was executed: the persisted address, the
\* "durable idempotency key", stands for this action's own order.
ConfirmedIsMinted ==
    \A a \in confirmed : \E n \in Address : Executed(n) /\ order[n].body = a
=============================================================================
