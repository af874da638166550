----------------------------- MODULE VizRelease -----------------------------
(***************************************************************************)
(* Delivery of one VIZ release: the dispatcher submits the row, the        *)
(* coordinator's drives (one per /submit call, several of them may be      *)
(* running when the dispatcher gave up on an earlier one) pin a body,      *)
(* collect approvals signer by signer, persist the transaction id, send    *)
(* and poll; the signers and the chain are those of ReplayLedger.          *)
(*                                                                         *)
(* Bodies are numbered in the order in which they are built, and since all *)
(* of them get the same ten minutes they also expire in that order.        *)
(*                                                                         *)
(* Every lost request, timeout, crash or failed RPC spends one unit of     *)
(* MaxFaults, so that "the faults stop" is expressible.                    *)
(***************************************************************************)
EXTENDS ReplayLedger

CONSTANTS
    MaxBody,       \* bound: bodies that can be built
    MaxFaults,     \* bound: faults in a behaviour
    TimelyRounds,  \* TRUE: a signing round ends before the body it uses expires
    LastBodyLasts  \* TRUE: the last body is pinned long enough for everybody to sign it

ASSUME NobodyAssumption == None \notin Signer \cup Client
ASSUME BodyAssumption == MaxBody \in Nat /\ Body = 1..MaxBody
ASSUME BoundAssumption == MaxFaults \in Nat /\ {TimelyRounds, LastBodyLasts} \subseteq BOOLEAN

VARIABLES
    row,        \* outbox status of the action
    rowTxid,    \* outbox txid column of the action
    awaiting,   \* the drive whose /submit response the dispatcher awaits
    pinned,     \* VizReleaseBroadcaster.pinned for the action (in memory)
    drive,      \* drive[d]: the coordinator's process() call d
    sent,       \* bodies handed to a VIZ node with enough signatures
    faults      \* faults so far

coordVars == <<row, rowTxid, awaiting, pinned, drive, sent>>
vars == <<ledgerVars, coordVars, faults>>

Step == {"idle", "check", "build", "building", "approve", "send", "poll", "ok", "failed"}

NoDrive == [step |-> "idle", executed |-> FALSE, body |-> None,
            todo |-> {}, asked |-> None, approvals |-> {}]

Init ==
    /\ LedgerInit
    /\ row = "QUEUED"
    /\ rowTxid = None
    /\ awaiting = None
    /\ pinned = None
    /\ drive = [d \in Client |-> NoDrive]
    /\ sent = {}
    /\ faults = 0

Fault == faults < MaxFaults /\ faults' = faults + 1

HandlersOf(d) == {s \in Signer : handler[s][d] # Idle}

-----------------------------------------------------------------------------
(* The dispatcher's side of /submit. *)

\* Delivery loop: mark the row BROADCAST, then POST /submit.
Submit(d) ==
    /\ row = "QUEUED"
    /\ awaiting = None
    /\ drive[d] = NoDrive
    /\ HandlersOf(d) = {}
    /\ row' = "BROADCAST"
    /\ awaiting' = d
    /\ drive' = [drive EXCEPT ![d].step = "check"]
    /\ UNCHANGED <<ledgerVars, rowTxid, pinned, sent, faults>>

\* Seeded fault: one undelivered attempt ends the row.
DeliverOrGiveUp(d) ==
    /\ awaiting = d
    /\ drive[d].step \in {"ok", "failed"}
    /\ IF drive[d].step = "ok"
         THEN row' = "CONFIRMED" /\ rowTxid' = drive[d].body
         ELSE row' = "FAILED" /\ UNCHANGED rowTxid
    /\ awaiting' = None
    /\ drive' = [drive EXCEPT ![d] = NoDrive]
    /\ UNCHANGED <<ledgerVars, pinned, sent, faults>>

\* The response arrives: planTransition, then setStatus with the txid patch.
Deliver(d) ==
    /\ awaiting = d
    /\ drive[d].step \in {"ok", "failed"}
    /\ IF drive[d].step = "ok"
         THEN row' = "CONFIRMED" /\ rowTxid' = drive[d].body
         ELSE row' = "QUEUED" /\ UNCHANGED rowTxid
    /\ awaiting' = None
    /\ drive' = [drive EXCEPT ![d] = NoDrive]
    /\ UNCHANGED <<ledgerVars, pinned, sent, faults>>

\* The dispatcher is no longer listening (timeout, or it restarted).
DropResult(d) ==
    /\ awaiting # d
    /\ drive[d].step \in {"ok", "failed"}
    /\ drive' = [drive EXCEPT ![d] = NoDrive]
    /\ UNCHANGED <<ledgerVars, row, rowTxid, awaiting, pinned, sent, faults>>

\* AbortSignal.timeout fires (the row goes back to QUEUED), or the dispatcher
\* crashes (the row stays BROADCAST until it is recovered).
StopWaiting ==
    /\ awaiting # None
    /\ Fault
    /\ awaiting' = None
    /\ row' \in {"QUEUED", row}
    /\ UNCHANGED <<ledgerVars, rowTxid, pinned, drive, sent>>

\* Seeded fault: due() scans QUEUED rows only and nothing recovers the others.
RecoverNothing == FALSE /\ UNCHANGED vars

\* Orphan recovery at the start of a tick: a BROADCAST row nobody waits for.
RecoverOrphan ==
    /\ row = "BROADCAST"
    /\ awaiting = None
    /\ row' = "QUEUED"
    /\ UNCHANGED <<ledgerVars, rowTxid, awaiting, pinned, drive, sent, faults>>

-----------------------------------------------------------------------------
(* The coordinator: Orchestrator.process with the VizReleaseBroadcaster. *)

\* actionExecuted: no txid, no RPC; otherwise confirmReleaseByTxId, which
\* answers "not found" on any RPC error.
CheckExecuted(d) ==
    /\ drive[d].step = "check"
    /\ \/ /\ rowTxid \in landed
          /\ drive' = [drive EXCEPT ![d].step = "build", ![d].executed = TRUE, ![d].body = rowTxid]
          /\ UNCHANGED faults
       \/ /\ rowTxid \notin landed
          /\ drive' = [drive EXCEPT ![d].step = "build"]
          /\ UNCHANGED faults
       \/ /\ rowTxid \in landed
          /\ Fault
          /\ drive' = [drive EXCEPT ![d].step = "build"]
    /\ UNCHANGED <<ledgerVars, row, rowTxid, awaiting, pinned, sent>>

\* After buildProposal: an executed action is reported, any other is signed.
WithBody(r, b) ==
    IF r.executed THEN [r EXCEPT !.step = "ok"]
    ELSE [r EXCEPT !.step = "approve", !.body = b, !.todo = Signer]

\* buildProposal: reuse the pin while enough validity remains, else await a
\* new body from the node.
UsePin(d) ==
    /\ drive[d].step = "build"
    /\ drive' = [drive EXCEPT ![d] =
                   IF pinned # None /\ phase[pinned] = Fresh
                     THEN WithBody(@, pinned)
                     ELSE [@ EXCEPT !.step = "building"]]
    /\ UNCHANGED <<ledgerVars, row, rowTxid, awaiting, pinned, sent, faults>>

\* The body comes back and replaces the pin, whatever the pin is by now.
PinNew(d, b) ==
    /\ drive[d].step = "building"
    /\ \A a \in Body : a < b => phase[a] # Unbuilt
    /\ BuildBody(b)
    /\ pinned' = b
    /\ drive' = [drive EXCEPT ![d] = WithBody(@, b)]
    /\ UNCHANGED <<row, rowTxid, awaiting, sent, faults>>

\* The node is unreachable: fatal for a delivery, ignored for an executed one
\* (which also stands in for the rebuild once MaxBody bodies are used up).
BuildFails(d) ==
    /\ drive[d].step = "building"
    /\ IF drive[d].executed /\ \A b \in Body : phase[b] # Unbuilt THEN UNCHANGED faults ELSE Fault
    /\ drive' = [drive EXCEPT ![d].step = IF drive[d].executed THEN "ok" ELSE "failed"]
    /\ UNCHANGED <<ledgerVars, row, rowTxid, awaiting, pinned, sent>>

IsMet(d) == Cardinality(drive[d].approvals) >= Threshold

\* One signer after the other, until the threshold is met.
Ask(d, s) ==
    /\ drive[d].step = "approve"
    /\ drive[d].asked = None
    /\ ~IsMet(d)
    /\ s \in drive[d].todo
    /\ Receive(s, d, drive[d].body)
    /\ drive' = [drive EXCEPT ![d].asked = s, ![d].todo = @ \ {s}]
    /\ UNCHANGED <<row, rowTxid, awaiting, pinned, sent, faults>>

\* The signer is offline or paused.
AskFails(d, s) ==
    /\ drive[d].step = "approve"
    /\ drive[d].asked = None
    /\ ~IsMet(d)
    /\ s \in drive[d].todo
    /\ Fault
    /\ drive' = [drive EXCEPT ![d].todo = @ \ {s}]
    /\ UNCHANGED <<ledgerVars, row, rowTxid, awaiting, pinned, sent>>

\* HTTP 200: the approval is added; anything else is logged and skipped.
\* The await ends in the same turn in which the threshold is tested.
Answer(d, s) ==
    /\ drive[d].asked = s
    /\ \/ /\ Respond(s, d)
          /\ drive' = [drive EXCEPT ![d].asked = None, ![d].approvals = @ \cup {s}]
       \/ /\ handler[s][d] = Idle
          /\ drive' = [drive EXCEPT ![d].asked = None]
          /\ UNCHANGED ledgerVars
    /\ UNCHANGED <<row, rowTxid, awaiting, pinned, sent, faults>>

\* The per-call ceiling aborts the request; the signer's handler runs on.
AskTimesOut(d, s) ==
    /\ drive[d].asked = s
    /\ handler[s][d] # Idle
    /\ Fault
    /\ drive' = [drive EXCEPT ![d].asked = None]
    /\ UNCHANGED <<ledgerVars, row, rowTxid, awaiting, pinned, sent>>

\* A handler whose caller is gone ends without effect on any drive.
AbandonedResponse(d, s) ==
    /\ drive[d].asked # s
    /\ Respond(s, d)
    /\ UNCHANGED <<coordVars, faults>>

\* All signers asked, threshold not met: broadcast:false.
RoundFails(d) ==
    /\ drive[d].step = "approve"
    /\ drive[d].asked = None
    /\ drive[d].todo = {}
    /\ ~IsMet(d)
    /\ drive' = [drive EXCEPT ![d].step = "failed"]
    /\ UNCHANGED <<ledgerVars, row, rowTxid, awaiting, pinned, sent, faults>>

\* Seeded fault: the id is not persisted before the send.
PersistNothing(d) ==
    /\ drive[d].step = "approve"
    /\ drive[d].asked = None
    /\ IsMet(d)
    /\ row' = "BROADCAST"
    /\ drive' = [drive EXCEPT ![d].step = "send"]
    /\ UNCHANGED <<ledgerVars, rowTxid, awaiting, pinned, sent, faults>>

\* broadcast(): persist the deterministic id BEFORE sending.
PersistTxid(d) ==
    /\ drive[d].step = "approve"
    /\ drive[d].asked = None
    /\ IsMet(d)
    /\ row' = "BROADCAST"
    /\ rowTxid' = drive[d].body
    /\ drive' = [drive EXCEPT ![d].step = "send"]
    /\ UNCHANGED <<ledgerVars, awaiting, pinned, sent, faults>>

\* broadcastRelease: hand the body to the node; an erroring call may or may
\* not have reached the pool, the poll decides.
Send(d) ==
    /\ drive[d].step = "send"
    /\ \/ sent' = sent \cup {drive[d].body} /\ UNCHANGED faults
       \/ UNCHANGED sent /\ Fault
    /\ drive' = [drive EXCEPT ![d].step = "poll"]
    /\ UNCHANGED <<ledgerVars, row, rowTxid, awaiting, pinned>>

\* The poll finds the exact id: drop the action's pin and report success.
PollConfirms(d) ==
    /\ drive[d].step = "poll"
    /\ drive[d].body \in landed
    /\ pinned' = None
    /\ drive' = [drive EXCEPT ![d].step = "ok"]
    /\ UNCHANGED <<ledgerVars, row, rowTxid, awaiting, sent, faults>>

\* Seeded fault: a release that was sent counts as confirmed.
PollAssumes(d) ==
    /\ drive[d].step = "poll"
    /\ drive' = [drive EXCEPT ![d].step = "ok"]
    /\ UNCHANGED <<ledgerVars, row, rowTxid, awaiting, pinned, sent, faults>>

\* Not confirmed in time: the pin is kept so that a retry sends the same body.
\* A body that is still valid and in the pool only misses the poll by a fault.
PollTimesOut(d) ==
    LET b == drive[d].body IN
    /\ drive[d].step = "poll"
    /\ IF b \in landed \/ (b \in sent /\ phase[b] \in {Fresh, Closing})
         THEN Fault ELSE UNCHANGED faults
    /\ drive' = [drive EXCEPT ![d].step = "failed"]
    /\ UNCHANGED <<ledgerVars, row, rowTxid, awaiting, pinned, sent>>

\* The coordinator restarts: pins and drives are memory only.  A dispatcher
\* waiting for it sees a connection error.
CoordinatorCrash ==
    /\ \E d \in Client : drive[d] # NoDrive
    /\ LastBodyLasts => phase[MaxBody] = Unbuilt
    /\ Fault
    /\ drive' = [d \in Client |-> NoDrive]
    /\ pinned' = None
    /\ awaiting' = None
    /\ row' = IF awaiting = None THEN row ELSE "QUEUED"
    /\ UNCHANGED <<ledgerVars, rowTxid, sent>>

-----------------------------------------------------------------------------
(* Chain, time and signers, as in ReplayLedger. *)

\* A signing round works on b.
InRound(b) == \E d \in Client : drive[d].step \in {"approve", "send", "poll"} /\ drive[d].body = b

\* Time passes the next deadline of b.  Older bodies expire first.  With
\* TimelyRounds a body that was Fresh when a round took it outlives the round;
\* with LastBodyLasts the last body outlives the claims on all earlier ones
\* and enough retries (ten minutes against a retry every ten seconds).
Tick(b) ==
    /\ \A a \in Body : a < b => phase[a] > phase[b]
    /\ TimelyRounds /\ InRound(b) => phase[b] # Closing
    /\ LastBodyLasts /\ b = MaxBody => phase[b] # Fresh
    /\ Age(b)
    /\ UNCHANGED <<coordVars, faults>>

LandSent(b) ==
    /\ b \in sent
    /\ Land(b)
    /\ UNCHANGED <<coordVars, faults>>

SignerStep(s, d) ==
    /\ HandlerStep(s, d)
    /\ UNCHANGED <<coordVars, faults>>

SignerFails(s, d) ==
    /\ HandlerFails(s, d)
    /\ Fault
    /\ UNCHANGED coordVars

\* Seeded fault: the signer keeps its replay ledger in memory.
SignerForgets(s) ==
    /\ ledger' = [ledger EXCEPT ![s] = None]
    /\ handler' = [handler EXCEPT ![s] = [c \in Client |-> Idle]]
    /\ Fault
    /\ UNCHANGED <<phase, landed, claimed, signed, coordVars>>

SignerRestarts(s) ==
    /\ SignerCrash(s)
    /\ Fault
    /\ UNCHANGED coordVars

DriveStep(d) ==
    \/ Deliver(d) \/ DropResult(d)
    \/ CheckExecuted(d) \/ UsePin(d) \/ BuildFails(d)
    \/ \E b \in Body : PinNew(d, b)
    \/ \E s \in Signer : Ask(d, s) \/ AskFails(d, s) \/ Answer(d, s) \/ AskTimesOut(d, s)
                         \/ AbandonedResponse(d, s)
    \/ RoundFails(d) \/ PersistTxid(d) \/ Send(d) \/ PollConfirms(d) \/ PollTimesOut(d)

Next ==
    \/ \E d \in Client : Submit(d) \/ DriveStep(d)
    \/ StopWaiting \/ RecoverOrphan \/ CoordinatorCrash
    \/ \E b \in Body : Tick(b) \/ LandSent(b)
    \/ \E s \in Signer, d \in Client : SignerStep(s, d) \/ SignerFails(s, d)
    \/ \E s \in Signer : SignerRestarts(s)

Spec == Init /\ [][Next]_vars

\* The dispatcher's loop, the event loops of coordinator and signers, the block
\* producers and the clock keep running.
Fairness ==
    /\ \A d \in Client : WF_vars(Submit(d)) /\ WF_vars(DriveStep(d))
    /\ WF_vars(RecoverOrphan)
    /\ \A b \in Body : WF_vars(Tick(b)) /\ WF_vars(LandSent(b))
    /\ \A s \in Signer, d \in Client : WF_vars(SignerStep(s, d))

FairSpec == Spec /\ Fairness

-----------------------------------------------------------------------------
(* Properties. *)

\* Every variable of the coordinator and dispatcher stays within its type.
TypeOK ==
    /\ LedgerTypeOK
    /\ row \in {"QUEUED", "BROADCAST", "CONFIRMED"}
    /\ rowTxid \in Body \cup {None}
    /\ awaiting \in Client \cup {None}
    /\ pinned \in Body \cup {None}
    /\ drive \in [Client -> [step : Step, executed : BOOLEAN, body : Body \cup {None},
                             todo : SUBSET Signer, asked : Signer \cup {None},
                             approvals : SUBSET Signer]]
    /\ sent \subseteq Body
    /\ faults \in 0..MaxFaults

\* The coordinator with its pins, drives and crashes is one of the callers
\* ReplayLedger allows: every behaviour of VizRelease is one of LedgerSpec.
ImplementsLedger == LedgerSpec

\* A CONFIRMED row is a transfer on the chain, the one whose id it records.
ConfirmedIsLanded == row = "CONFIRMED" => rowTxid \in landed

\* Whatever landed can be recovered by the persisted id: the backstop that
\* VizReleaseBroadcaster.broadcast's persist-before-send comment relies on.
RecoverableByTxid == landed # {} => rowTxid \in landed

\* The strengthening of ConfirmedIsLanded that every step preserves: a drive
\* that reports success, or found the action executed, holds a landed body,
\* and a drive in its signing round holds a body.
DriveInv ==
    /\ TypeOK
    /\ ConfirmedIsLanded
    /\ \A d \in Client :
          /\ drive[d].executed \/ drive[d].step = "ok" => drive[d].body \in landed
          /\ drive[d].step \in {"approve", "send", "poll"} =>
                drive[d].body \in Body /\ ~drive[d].executed

\* Once the faults stop, the release is paid and the row stays CONFIRMED: the
\* signers converge on one body although earlier claims were spread over
\* several (VizReleaseBroadcaster.pinned: no livelock).
EventuallyConfirmed == <>[](row = "CONFIRMED")

=============================================================================
