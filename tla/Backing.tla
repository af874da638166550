------------------------------- MODULE Backing ------------------------------
(***************************************************************************)
(* The money of one remote chain, and the reconciler that watches it:      *)
(* deposits lock VIZ, mints put the net into circulation, fee sweeps and   *)
(* refunds take VIZ out, transfers to the gateway's jetton wallet take     *)
(* wVIZ out of circulation until they are released or returned.            *)
(*                                                                         *)
(* The coordinator quotes, the dispatcher plans the children and the       *)
(* signers re-derive every amount, each with the fee policy it was started *)
(* with.  That what is signed once lands at most once, and that a deposit  *)
(* is minted or refunded but not both, is the subject of other modules and *)
(* assumed here.  check() of the reconciler reads four figures one after   *)
(* the other while all this goes on.                                       *)
(***************************************************************************)
EXTENDS Integers, FiniteSets, FiniteSetsExt, Functions

CONSTANTS
    Deposit, Gross,    \* peg-ins and their gross amounts
    Transfer, Amount,  \* wVIZ transfers to the gateway's jetton wallet
    Old, New,          \* fee policies: [floor, percent, activation, gas]
    RefundFee,
    Tolerance,         \* driftToleranceMilliViz
    Endpoint,          \* TON endpoints of the reconciler
    MaxChanges         \* bound: parties that move to the new policy

Policy == [floor : Nat, percent : 0..100, activation : Nat, gas : Nat]

ASSUME BackingAssumption ==
    /\ IsFiniteSet(Deposit) /\ IsFiniteSet(Transfer) /\ IsFiniteSet(Endpoint)
    /\ Gross \in [Deposit -> Nat \ {0}] /\ Amount \in [Transfer -> Nat \ {0}]
    /\ {Old, New} \subseteq Policy
    /\ {RefundFee, Tolerance, MaxChanges} \subseteq Nat
    /\ Endpoint # {}

VARIABLES
    locked,   \* VIZ on the backing account
    supply,   \* wVIZ minted
    held,     \* wVIZ in the gateway's jetton wallet
    row,      \* row[d]: status, pinned fee and net, and whether the mint is signed and landed
    sweep,    \* sweep[d]: the FEE_SWEEP child
    refund,   \* refund[d]: the REFUND child
    out,      \* out[t]: status of the peg-out
    policy,   \* policy[party]
    halted,
    check,    \* the check in progress, and its figures
    moved,    \* history: what moved during the check, or had moved unrecorded
    sick      \* endpoints that report an empty jetton wallet

money == <<locked, supply, held>>
rows == <<row, sweep, refund, out>>
recon == <<check, moved, sick>>
backingVars == <<money, rows, policy, halted, recon>>

NoRow == [status |-> "none", fee |-> 0, net |-> 0, signed |-> FALSE, landed |-> FALSE]
NoChild == [status |-> "none", amount |-> 0]
NoCheck == [pc |-> "idle", locked |-> 0, supply |-> 0, held |-> 0, unswept |-> 0, todo |-> {}]

BackingInit ==
    /\ locked = 0 /\ supply = 0 /\ held = 0
    /\ row = [d \in Deposit |-> NoRow]
    /\ sweep = [d \in Deposit |-> NoChild]
    /\ refund = [d \in Deposit |-> NoChild]
    /\ out = [t \in Transfer |-> "none"]
    /\ policy = [who \in {"coordinator", "dispatcher", "signers"} |-> Old]
    /\ halted = FALSE
    /\ check = NoCheck /\ moved = 0 /\ sick = {}

-----------------------------------------------------------------------------
(* Fees. *)

\* max(floor, percentage) of the gross.
baseFee(gross, p) == Max({p.floor, (gross * p.percent) \div 100})

activation(provisioned, p) == IF provisioned THEN 0 ELSE p.activation

\* quotePegIn: the fee withheld, or a refusal.
quotePegIn(gross, provisioned, p) ==
    LET fee == baseFee(gross, p) + activation(provisioned, p)
        net == gross - fee
    IN  [ok |-> net > 0 /\ net >= p.gas, fee |-> fee, net |-> net]

\* assertNet: the signers take the flag and derive the rest.
assertNet(gross, provisioned, net, p) ==
    net > 0 /\ net = gross - baseFee(gross, p) - activation(provisioned, p)

\* What is left to refund; nothing if the fee eats it.
refundAmount(gross) == Max({gross - RefundFee, 0})

\* planChildren: the sweep takes the base fee and leaves the surcharge.
sweepAmount(d) == baseFee(Gross[d], policy.dispatcher)

\* Seeded fault: the dispatcher's figure is taken.
SweepTrusted(d) == sweep[d].amount > 0

\* validateFeeSweep, validateRefund: the signers' own figures.
validateFeeSweep(d) == sweep[d].amount = baseFee(Gross[d], policy.signers)
validateRefund(d) == refund[d].amount > 0 /\ refund[d].amount = Gross[d] - RefundFee

-----------------------------------------------------------------------------
(* Peg-ins. *)

\* History: money moves while a check is going on.
Move(amount) == moved' = IF check.pc = "idle" THEN 0 ELSE moved + amount

Arrive(d) ==
    /\ row[d].status = "none"
    /\ locked' = locked + Gross[d]
    /\ row' = [row EXCEPT ![d].status = "QUEUED"]
    /\ UNCHANGED <<supply, held, sweep, refund, out, policy, halted, recon>>

Deliver(d) ==
    /\ row[d].status = "QUEUED" /\ ~halted
    /\ row' = [row EXCEPT ![d].status = "BROADCAST"]
    /\ UNCHANGED <<money, sweep, refund, out, policy, halted, recon>>

\* The coordinator pins fee and net once; the signers derive the net
\* themselves.
Quote(d) ==
    /\ row[d].status = "BROADCAST" /\ row[d].net = 0
    /\ \E provisioned \in BOOLEAN :
         LET q == quotePegIn(Gross[d], provisioned, policy.coordinator) IN
         /\ q.ok
         /\ row' = [row EXCEPT ![d].fee = q.fee, ![d].net = q.net,
                               ![d].signed = assertNet(Gross[d], provisioned, q.net, policy.signers)]
         /\ Move(q.fee)
    /\ UNCHANGED <<money, sweep, refund, out, policy, halted, check, sick>>

\* Not signed: another attempt, or, out of time, the refund.
GiveUp(d) ==
    /\ row[d].status = "BROADCAST" /\ ~row[d].signed
    /\ \/ row' = [row EXCEPT ![d].status = "QUEUED"] /\ UNCHANGED refund
       \/ /\ row' = [row EXCEPT ![d].status = "REFUNDING"]
          /\ refund' = IF refundAmount(Gross[d]) = 0 THEN refund
                       ELSE [refund EXCEPT ![d] = [status |-> "QUEUED", amount |-> refundAmount(Gross[d])]]
    /\ UNCHANGED <<money, sweep, out, policy, halted, recon>>

Mint(d) ==
    /\ row[d].signed /\ ~row[d].landed
    /\ row' = [row EXCEPT ![d].landed = TRUE]
    /\ supply' = supply + row[d].net
    /\ Move(row[d].net)
    /\ UNCHANGED <<locked, held, sweep, refund, out, policy, halted, check, sick>>

\* CONFIRMED, and the sweep is planned.
Confirm(d) ==
    /\ row[d].status = "BROADCAST" /\ row[d].landed
    /\ row' = [row EXCEPT ![d].status = "CONFIRMED"]
    /\ sweep' = IF sweepAmount(d) > 0 THEN [sweep EXCEPT ![d] = [status |-> "QUEUED", amount |-> sweepAmount(d)]]
                ELSE sweep
    /\ UNCHANGED <<money, refund, out, policy, halted, recon>>

LandSweep(d) ==
    /\ sweep[d].status = "QUEUED" /\ ~halted
    /\ validateFeeSweep(d)
    /\ sweep' = [sweep EXCEPT ![d].status = "LANDED"]
    /\ locked' = locked - sweep[d].amount
    /\ Move(sweep[d].amount)
    /\ UNCHANGED <<supply, held, row, refund, out, policy, halted, check, sick>>

ConfirmSweep(d) ==
    /\ sweep[d].status = "LANDED"
    /\ sweep' = [sweep EXCEPT ![d].status = "CONFIRMED"]
    /\ UNCHANGED <<money, row, refund, out, policy, halted, recon>>

Refund(d) ==
    /\ refund[d].status = "QUEUED" /\ ~halted
    /\ validateRefund(d)
    /\ refund' = [refund EXCEPT ![d].status = "CONFIRMED"]
    /\ row' = [row EXCEPT ![d].status = "REFUNDED"]
    /\ locked' = locked - refund[d].amount
    /\ Move(refund[d].amount)
    /\ UNCHANGED <<supply, held, sweep, out, policy, halted, check, sick>>

-----------------------------------------------------------------------------
(* Peg-outs. *)

\* A holder of wVIZ sends it to the gateway's jetton wallet.
TransferIn(t) ==
    /\ out[t] = "none" /\ Amount[t] <= supply - held
    /\ held' = held + Amount[t]
    /\ out' = [out EXCEPT ![t] = "QUEUED"]
    /\ UNCHANGED <<locked, supply, row, sweep, refund, policy, halted, recon>>

\* The VIZ account named with the transfer exists.
Release(t) ==
    /\ out[t] = "QUEUED" /\ ~halted
    /\ out' = [out EXCEPT ![t] = "CONFIRMED"]
    /\ locked' = locked - Amount[t]
    /\ Move(Amount[t])
    /\ UNCHANGED <<supply, held, row, sweep, refund, policy, halted, check, sick>>

\* It does not: GRAM_RETURN, the wVIZ minus the refund fee goes back; dust stays.
Return(t) ==
    /\ out[t] = "QUEUED" /\ ~halted
    /\ out' = [out EXCEPT ![t] = "RETURNED"]
    /\ held' = held - refundAmount(Amount[t])
    /\ UNCHANGED <<locked, supply, row, sweep, refund, policy, halted, recon>>

\* A party is restarted with the new fee policy.
Reconfigure(who) ==
    /\ Cardinality({w \in DOMAIN policy : policy[w] = New}) < MaxChanges
    /\ policy' = [policy EXCEPT ![who] = New]
    /\ UNCHANGED <<money, rows, halted, recon>>

-----------------------------------------------------------------------------
(* check() of the reconciler. *)

Minted == {d \in Deposit : row[d].status \in {"BROADCAST", "CONFIRMED"}}

\* The sweeps that got this far.
Swept(status) ==
    SumFunctionOnSet([d \in Deposit |-> sweep[d].amount], {d \in Deposit : sweep[d].status = status})

\* unsweptFeesMilliViz: fees withheld minus sweeps confirmed.
unsweptFees ==
    SumFunctionOnSet([d \in Deposit |-> row[d].fee], Minted) - Swept("CONFIRMED")

StartCheck ==
    /\ check.pc = "idle"
    /\ check' = [NoCheck EXCEPT !.pc = "read", !.todo = {"locked", "supply", "unswept"}]
    /\ moved' = Swept("LANDED")
    /\ UNCHANGED <<money, rows, policy, halted, sick>>

\* Promise.all: in any order.
Read(what, value) ==
    /\ check.pc = "read" /\ what \in check.todo
    /\ check' = [check EXCEPT !.todo = @ \ {what}, ![what] = value]
    /\ UNCHANGED <<money, rows, policy, halted, moved, sick>>

\* gatewayBalanceMilliViz: an answer without the account is an error, not a
\* zero, and ends the check.
gatewayBalanceMilliViz ==
    \/ Read("locked", locked)
    \/ /\ check.pc = "read" /\ "locked" \in check.todo
       /\ check' = NoCheck /\ moved' = 0
       /\ UNCHANGED <<money, rows, policy, halted, sick>>

\* Seeded fault: a balance of zero is believed.
BelieveHeld(e) ==
    /\ check.pc = "read" /\ "supply" \notin check.todo /\ "held" \notin check.todo
    /\ check' = [check EXCEPT !.todo = @ \cup {"held"}, !.held = IF e \in sick THEN 0 ELSE held]
    /\ UNCHANGED <<money, rows, policy, halted, moved, sick>>

\* circulatingSupply: after the total, the wallet's balance; a zero needs
\* every other endpoint to agree, or the check ends indeterminate.
ReadHeld(e) ==
    /\ check.pc = "read" /\ "supply" \notin check.todo /\ "held" \notin check.todo
    /\ LET answer(f) == IF f \in sick THEN 0 ELSE held IN
       check' = IF answer(e) = 0 /\ \E f \in Endpoint : answer(f) # 0 THEN NoCheck
                ELSE [check EXCEPT !.todo = @ \cup {"held"}, !.held = answer(e)]
    /\ UNCHANGED <<money, rows, policy, halted, moved, sick>>

circulating == Max({check.supply - check.held, 0})
drift == check.locked - circulating - check.unswept

\* The fee floor, the sweep total, the backing: the first that fails
\* pauses.  minPegInFee is read here, unpinned rows left out.
Judge ==
    /\ check.pc = "read" /\ check.todo = {"held"}
    /\ LET floored == \E d \in Minted : /\ ~(row[d].status = "BROADCAST" /\ row[d].fee = 0)
                                        /\ row[d].fee < Min({Old.gas, New.gas})
           verdict == CASE floored -> "below floor"
                        [] ~floored /\ check.unswept < 0 -> "over-swept"
                        [] ~floored /\ check.unswept >= 0 /\ drift < -Tolerance -> "UNDER_BACKED"
                        [] OTHER -> "OK"
       IN  /\ check' = [check EXCEPT !.pc = verdict]
           /\ halted' = (halted \/ verdict # "OK")
    /\ UNCHANGED <<money, rows, policy, moved, sick>>

\* The figures are published last, and a failure to publish them changes
\* nothing.
publishSnapshot ==
    /\ check.pc \notin {"idle", "read"}
    /\ check' = NoCheck /\ moved' = 0
    /\ UNCHANGED <<money, rows, policy, halted, sick>>

Unpause ==
    /\ halted
    /\ halted' = FALSE
    /\ UNCHANGED <<money, rows, policy, recon>>

\* Never all of them at once.
FallSick(e) ==
    /\ sick' \in {sick \cup {e}, sick \ {e}} /\ sick' # sick
    /\ Endpoint \ sick' # {}
    /\ UNCHANGED <<money, rows, policy, halted, check, moved>>

BackingNext ==
    \/ \E d \in Deposit : \/ Arrive(d) \/ Deliver(d) \/ Quote(d) \/ GiveUp(d) \/ Mint(d) \/ Confirm(d)
                          \/ LandSweep(d) \/ ConfirmSweep(d) \/ Refund(d)
    \/ \E t \in Transfer : TransferIn(t) \/ Release(t) \/ Return(t)
    \/ \E who \in DOMAIN policy : policy[who] = Old /\ Old # New /\ Reconfigure(who)
    \/ StartCheck \/ Judge \/ publishSnapshot \/ Unpause
    \/ gatewayBalanceMilliViz \/ Read("supply", supply) \/ Read("unswept", unsweptFees)
    \/ \E e \in Endpoint : ReadHeld(e) \/ FallSick(e)

BackingSpec == BackingInit /\ [][BackingNext]_backingVars

-----------------------------------------------------------------------------
(* Properties. *)

\* What the gateway owes in VIZ: circulating wVIZ, deposits it has neither
\* minted nor refunded, peg-outs it has neither released nor returned.
Owed ==
    supply - held
      + SumFunctionOnSet(Gross, {d \in Deposit : row[d].status \in {"QUEUED", "BROADCAST"} /\ ~row[d].landed})
      + SumFunctionOnSet([d \in Deposit |-> refund[d].amount], {d \in Deposit : refund[d].status = "QUEUED"})
      + SumFunctionOnSet(Amount, {t \in Transfer : out[t] = "QUEUED"})

(* The backing account covers everything the gateway owes, at every        *)
(* moment, whichever party has moved to the new fee policy.                *)
Solvent == locked >= Owed

(* The reconciler reads at different moments, and a sweep is on chain      *)
(* before its row is CONFIRMED.  What it takes for under-backing was       *)
(* always something that moved meanwhile, and over the tolerance; while    *)
(* one endpoint is healthy an empty wallet is never invented; and fees are *)
(* never found over-swept or below the floor.                              *)
AlarmExplained ==
    /\ check.pc = "UNDER_BACKED" => moved > Tolerance
    /\ check.pc \notin {"over-swept", "below floor"}

(* `over-backed at every step': a check of a sound gateway is OK.          *)
NoFalseAlarm == check.pc # "UNDER_BACKED"
=============================================================================
