------------------------------ MODULE Delivery ------------------------------
(***************************************************************************)
(* The outbox and everyone who moves its rows: the watchers that insert    *)
(* deposits and burns, the dispatcher's tick with the child rows it spawns *)
(* (fee sweep, refund, return), the coordinator's drives, which may outlive*)
(* the dispatcher's wait, and the operator's mint redirect.                *)
(*                                                                         *)
(* How a drive signs and lands its action is the subject of VizRelease;    *)
(* here a drive checks, pins (persisting the txid column), and waits; a    *)
(* pinned action may land at any later time, at most once.                 *)
(*                                                                         *)
(* Faults (a lost or late answer, a failed round, a crash, a pause) spend  *)
(* MaxFaults.  Five switches state what the deployment guarantees.         *)
(*                                                                         *)
(* Rows that a cap or the rate limit holds for an operator, and the status *)
(* SEEN, are never looked at by the dispatcher and are left out; so is the *)
(* retry backoff, which only delays a QUEUED row.                          *)
(***************************************************************************)
EXTENDS Naturals, FiniteSets

CONSTANTS
    PegIn,          \* VIZ deposits
    PegOut,         \* wVIZ burns
    Drive,          \* coordinator process() calls that may be running
    None,
    Redirects,      \* deposits with a resolution:"mint" directive
    MaxFaults,      \* bound: faults in a behaviour
    TimelyDrives,   \* TRUE: the dispatcher and orphan recovery outlast every drive
    LateMints,      \* TRUE: a mint may land although its attempt was given up
    FlipCrashes,    \* TRUE: a crash may hit between a row's status and its follow-up
    QuietRedirect,  \* TRUE: redirects are applied only between two ticks
    SeenCrashes     \* TRUE: a watcher may fail between a row's SEEN and its classification

ASSUME DeliveryAssumption ==
    /\ PegIn \cap PegOut = {}
    /\ None \notin Drive \cup (PegIn \X {"in", "fee", "refund"}) \cup (PegOut \X {"out", "return"})
    /\ Redirects \subseteq PegIn
    /\ MaxFaults \in Nat
    /\ {TimelyDrives, LateMints, FlipCrashes, QuietRedirect, SeenCrashes} \subseteq BOOLEAN

VARIABLES
    nature,      \* nature[x]: what is known of deposit or burn x (never changes)
    status,      \* status[r]: outbox status of row r
    pinned,      \* pinned[r]: row r has a txid (order address, transaction id)
    windowOver,  \* windowOver[p]: the delivery window of deposit p has run out
    landed,      \* rows whose action was executed on its chain
    disp,        \* the dispatcher's tick
    drive,       \* drive[d]: the coordinator's process() call d
    paused,      \* gateway_state.paused
    redirected,  \* deposits whose directive was applied (run-once marker)
    faults       \* faults so far

rowVars == <<status, pinned>>
vars == <<nature, status, pinned, windowOver, landed, disp, drive, paused, redirected, faults>>

\* Row ids: a deposit or burn, or a child with its deterministic suffix.
Row == (PegIn \X {"in", "fee", "refund"}) \cup (PegOut \X {"out", "return"})
In(p)     == <<p, "in">>
Fee(p)    == <<p, "fee">>
Refund(p) == <<p, "refund">>
Out(q)    == <<q, "out">>
Return(q) == <<q, "return">>

Status == {"ABSENT", "HELD", "QUEUED", "BROADCAST", "CONFIRMED", "REFUNDING", "REFUNDED", "FAILED"}

\* payable: can be minted or released; small: the deposit is below the minimum;
\* lost: no usable destination.  dust: not worth more than the refund fee.
Nature(x) == [kind : {"payable", "lost"} \cup (IF x \in PegIn THEN {"small"} ELSE {}), dust : BOOLEAN]
Natures == {n \in [PegIn \cup PegOut -> UNION {Nature(x) : x \in PegIn \cup PegOut}] :
              \A x \in PegIn \cup PegOut : n[x] \in Nature(x)}

\* pc: between ticks; in the first part of a tick; a HELD row's child is
\* enqueued, its flip is next; the due rows are being delivered; /submit is
\* awaited; the row's new status is written, its follow-up is next.
Tick == [pc : {"idle", "tick", "flip", "deliver", "await", "follow"},
         row : Row \cup {None}, drive : Drive \cup {None}, todo : SUBSET Row,
         planned : Status]
NoTick == [pc |-> "idle", row |-> None, drive |-> None, todo |-> {}, planned |-> "QUEUED"]
NoDrive == [row |-> None, step |-> "idle"]

Init ==
    /\ nature \in Natures
    /\ status = [r \in Row |-> "ABSENT"]
    /\ pinned = [r \in Row |-> FALSE]
    /\ windowOver = [p \in PegIn |-> FALSE]
    /\ landed = {}
    /\ disp = NoTick
    /\ drive = [d \in Drive |-> NoDrive]
    /\ paused = FALSE
    /\ redirected = {}
    /\ faults = 0

Fault == faults < MaxFaults /\ faults' = faults + 1

SetStatus(r, s) == status' = [status EXCEPT ![r] = s]

\* INSERT OR IGNORE: an existing row, whatever its status, is left alone.
Enqueue(r, s) == status' = [status EXCEPT ![r] = IF @ = "ABSENT" THEN s ELSE @]

\* An attempt at a mint that landed is not lost unless LateMints.
MayLose(r) == LateMints \/ r \notin landed \/ r \notin PegIn \X {"in"}

-----------------------------------------------------------------------------
(* Watchers, and the clock. *)

\* A deposit or a burn becomes a row the dispatcher sees: QUEUED, or HELD when
\* it has no usable destination (INVALID_DESTINATION, RETURN_INVALID_DEST).  A
\* burn is classified after it was written as SEEN; if the watcher fails in
\* between, recoverStaleSeen advances the row without classifying it.
Detect(r) ==
    LET lost == nature[r[1]].kind = "lost" IN
    /\ r \in PegIn \X {"in"} \cup PegOut \X {"out"}
    /\ status[r] = "ABSENT"
    /\ \/ Enqueue(r, IF lost THEN "HELD" ELSE "QUEUED") /\ UNCHANGED faults
       \/ SeenCrashes /\ lost /\ r[2] = "out" /\ Enqueue(r, "QUEUED") /\ Fault
    /\ UNCHANGED <<nature, pinned, windowOver, landed, disp, drive, paused, redirected>>

WindowEnds(p) ==
    /\ status[In(p)] # "ABSENT"
    /\ ~windowOver[p]
    /\ windowOver' = [windowOver EXCEPT ![p] = TRUE]
    /\ UNCHANGED <<nature, rowVars, landed, disp, drive, paused, redirected, faults>>

-----------------------------------------------------------------------------
(* The dispatcher's tick. *)

\* The pause flag is read once, before the tick.  A tick that finds nothing to
\* do changes nothing and is left out.
StartTick ==
    /\ disp.pc = "idle"
    /\ ~paused
    /\ \E r \in Row : status[r] \in {"HELD", "QUEUED", "BROADCAST"}
    /\ disp' = [NoTick EXCEPT !.pc = "tick"]
    /\ UNCHANGED <<nature, rowVars, windowOver, landed, drive, paused, redirected, faults>>

\* Seeded fault: orphaned rows are not recovered.
RecoverNothing(r) == r \in Row /\ FALSE /\ UNCHANGED vars

\* A BROADCAST row older than the signing timeout goes back to QUEUED.
RecoverOrphan(r) ==
    /\ disp.pc = "tick"
    /\ status[r] = "BROADCAST"
    /\ TimelyDrives => \A d \in Drive : drive[d].row # r
    /\ SetStatus(r, "QUEUED")
    /\ UNCHANGED <<nature, pinned, windowOver, landed, disp, drive, paused, redirected, faults>>

\* The child that repays deposit or burn x.
Repay(x) == IF x \in PegIn THEN Refund(x) ELSE Return(x)

\* Seeded fault: the return branch takes QUEUED rows too.
ReturnAnyRow(r) ==
    /\ disp.pc = "tick"
    /\ r[2] \in {"in", "out"}
    /\ status[r] \in {"HELD", "QUEUED"}
    /\ Enqueue(Repay(r[1]), "QUEUED")
    /\ disp' = [NoTick EXCEPT !.pc = "flip", !.row = r]
    /\ UNCHANGED <<nature, pinned, windowOver, landed, drive, paused, redirected, faults>>

\* Seeded fault: the parent is flipped before its child is enqueued.
FlipFirst(r) ==
    /\ disp.pc = "tick"
    /\ status[r] = "HELD"
    /\ SetStatus(r, "REFUNDING")
    /\ disp' = [NoTick EXCEPT !.pc = "flip", !.row = r]
    /\ UNCHANGED <<nature, pinned, windowOver, landed, drive, paused, redirected, faults>>

\* HELD rows without a destination: enqueue the child first; a dust amount has
\* no child and is closed at once.
ReturnHeld(r) ==
    /\ disp.pc = "tick"
    /\ status[r] = "HELD"
    /\ IF nature[r[1]].dust
         THEN SetStatus(r, "REFUNDED") /\ UNCHANGED disp
         ELSE Enqueue(Repay(r[1]), "QUEUED") /\ disp' = [NoTick EXCEPT !.pc = "flip", !.row = r]
    /\ UNCHANGED <<nature, pinned, windowOver, landed, drive, paused, redirected, faults>>

\* ... then flip the parent.
FlipHeld ==
    /\ disp.pc = "flip"
    /\ SetStatus(disp.row, "REFUNDING")
    /\ disp' = [NoTick EXCEPT !.pc = "tick"]
    /\ UNCHANGED <<nature, pinned, windowOver, landed, drive, paused, redirected, faults>>

\* store.due: the rows to deliver are read once; they are delivered from this
\* snapshot even if they change meanwhile.  HELD rows come first.
ReadDue ==
    LET due == {r \in Row : status[r] = "QUEUED"} IN
    /\ disp.pc = "tick"
    /\ \A r \in Row : status[r] # "HELD"
    /\ disp' = IF due = {} THEN NoTick ELSE [NoTick EXCEPT !.pc = "deliver", !.todo = due]
    /\ UNCHANGED <<nature, rowVars, windowOver, landed, drive, paused, redirected, faults>>

\* Mark the row BROADCAST, then POST /submit.
Submit(r, d) ==
    /\ disp.pc = "deliver"
    /\ r \in disp.todo
    /\ drive[d] = NoDrive
    /\ SetStatus(r, "BROADCAST")
    /\ drive' = [drive EXCEPT ![d] = [row |-> r, step |-> "check"]]
    /\ disp' = [disp EXCEPT !.pc = "await", !.row = r, !.drive = d, !.todo = @ \ {r}]
    /\ UNCHANGED <<nature, pinned, windowOver, landed, paused, redirected, faults>>

\* AbortSignal.timeout, or the connection broke.
StopWaiting ==
    /\ disp.pc = "await"
    /\ disp.drive # None
    /\ ~TimelyDrives
    /\ MayLose(disp.row)
    /\ Fault
    /\ disp' = [disp EXCEPT !.drive = None]
    /\ UNCHANGED <<nature, rowVars, windowOver, landed, drive, paused, redirected>>

\* planTransition: the next status of r.
PlanTransition(r, delivered) ==
    IF delivered THEN "CONFIRMED"
    ELSE IF r[2] = "in" /\ windowOver[r[1]] THEN "REFUNDING"
    ELSE "QUEUED"

\* The answer (or its absence) decides the row's next status.
Transition ==
    LET r == disp.row
        answered == disp.drive # None
        delivered == answered /\ drive[disp.drive].step = "ok"
        next == PlanTransition(r, delivered)
    IN
    /\ disp.pc = "await"
    /\ answered => drive[disp.drive].step \in {"ok", "failed"}
    /\ SetStatus(r, next)
    /\ pinned' = [pinned EXCEPT ![r] = @ \/ delivered]
    /\ drive' = IF answered THEN [drive EXCEPT ![disp.drive] = NoDrive] ELSE drive
    /\ disp' = [disp EXCEPT !.pc = "follow", !.drive = None, !.planned = next]
    /\ UNCHANGED <<nature, windowOver, landed, paused, redirected, faults>>

\* Seeded fault: the parent is closed by any transition of its refund.
CloseEarly(r, s) ==
    LET x == r[1] IN
    IF s = "REFUNDING" /\ ~nature[x].dust THEN Enqueue(Refund(x), "QUEUED")
    ELSE IF r[2] = "refund" THEN SetStatus(In(x), "REFUNDED")
    ELSE UNCHANGED status

\* Seeded fault: the fee is swept whichever way the deposit ended.
SweepAnyway(r, s) ==
    IF s # "QUEUED" /\ r[2] = "in" THEN Enqueue(Fee(r[1]), "QUEUED") ELSE UNCHANGED status

\* What a transition makes the dispatcher write next: planChildren, the dust
\* close-out, or the close-out of the parent of a confirmed refund or return.
FollowUp(r, s) ==
    LET x == r[1] IN
    IF s = "CONFIRMED" /\ r[2] = "in" THEN Enqueue(Fee(x), "QUEUED")
    ELSE IF s = "REFUNDING" /\ nature[x].dust THEN SetStatus(r, "REFUNDED")
    ELSE IF s = "REFUNDING" THEN Enqueue(Refund(x), "QUEUED")
    ELSE IF s = "CONFIRMED" /\ r[2] = "refund" THEN SetStatus(In(x), "REFUNDED")
    ELSE IF s = "CONFIRMED" /\ r[2] = "return" THEN SetStatus(Out(x), "REFUNDED")
    ELSE UNCHANGED status

\* The follow-up, then on to the next due row.  A late drive may have changed
\* the row meanwhile; the follow-up goes by the transition that was planned.
Follow ==
    /\ disp.pc = "follow"
    /\ FollowUp(disp.row, disp.planned)
    /\ disp' = IF disp.todo = {} THEN NoTick ELSE [NoTick EXCEPT !.pc = "deliver", !.todo = disp.todo]
    /\ UNCHANGED <<nature, pinned, windowOver, landed, drive, paused, redirected, faults>>

\* The dispatcher restarts, or a store call throws and ends the tick: only the
\* rows survive.
DispatcherCrash ==
    /\ disp.pc # "idle"
    /\ disp.pc = "follow" => FlipCrashes
    /\ disp.pc = "await" => MayLose(disp.row)
    /\ Fault
    /\ disp' = NoTick
    /\ UNCHANGED <<nature, rowVars, windowOver, landed, drive, paused, redirected>>

-----------------------------------------------------------------------------
(* The coordinator's drives. *)

\* The row is executed by a VIZ transfer; the others are GRAM orders.
IsRelease(r) == r[2] \in {"out", "fee", "refund"}

\* Seeded fault: a pinned order counts as executed.
CheckPinnedOnly(d) ==
    /\ drive[d].step = "check"
    /\ drive' = [drive EXCEPT ![d].step = IF pinned[drive[d].row] THEN "ok" ELSE "build"]
    /\ UNCHANGED <<nature, rowVars, windowOver, landed, disp, paused, redirected, faults>>

\* /submit: 423 while paused; then actionExecuted.  A failing lookup reads as
\* "not executed" for a VIZ release and as an error for a GRAM order.
CheckExecuted(d) ==
    LET r == drive[d].row
        executed == pinned[r] /\ r \in landed
        To(s) == drive' = [drive EXCEPT ![d].step = s]
    IN
    /\ drive[d].step = "check"
    /\ \/ paused /\ To("failed") /\ UNCHANGED faults
       \/ ~paused /\ To(IF executed THEN "ok" ELSE "build") /\ UNCHANGED faults
       \/ ~paused /\ executed /\ IsRelease(r) /\ Fault /\ To("build")
    /\ UNCHANGED <<nature, rowVars, windowOver, landed, disp, paused, redirected>>

\* buildProposal and the signing round up to the point where the txid is
\* persisted (status BROADCAST): an order address once, a release id on every
\* broadcast.  A deposit below the minimum cannot be built, one without a
\* destination is refused by every signer.
Pin(d) ==
    LET r == drive[d].row IN
    /\ drive[d].step = "build"
    /\ IF r[2] = "in" /\ nature[r[1]].kind # "payable"
         THEN drive' = [drive EXCEPT ![d].step = "failed"] /\ UNCHANGED rowVars
         ELSE /\ drive' = [drive EXCEPT ![d].step = "wait"]
              /\ pinned' = [pinned EXCEPT ![r] = TRUE]
              /\ IF IsRelease(r) \/ ~pinned[r] THEN SetStatus(r, "BROADCAST") ELSE UNCHANGED status
    /\ UNCHANGED <<nature, windowOver, landed, disp, paused, redirected, faults>>

\* The broadcast is observed on its chain.
Confirm(d) ==
    /\ drive[d].step = "wait"
    /\ drive[d].row \in landed
    /\ drive' = [drive EXCEPT ![d].step = "ok"]
    /\ UNCHANGED <<nature, rowVars, windowOver, landed, disp, paused, redirected, faults>>

\* Threshold not met, node unreachable, not confirmed in time.
DriveFails(d) ==
    /\ drive[d].step \in {"check", "build", "wait"}
    /\ MayLose(drive[d].row)
    /\ Fault
    /\ drive' = [drive EXCEPT ![d].step = "failed"]
    /\ UNCHANGED <<nature, rowVars, windowOver, landed, disp, paused, redirected>>

\* A VIZ transfer to an account that does not exist is never included.
CanLand(r) == r[2] = "out" => nature[r[1]].kind # "lost"

\* The poll reaches its deadline: nobody waits for it any more, or it waits
\* for what cannot happen.
PollEnds(d) ==
    /\ drive[d].step = "wait"
    /\ disp.drive # d \/ ~CanLand(drive[d].row)
    /\ drive[d].row \notin landed
    /\ drive' = [drive EXCEPT ![d].step = "failed"]
    /\ UNCHANGED <<nature, rowVars, windowOver, landed, disp, paused, redirected, faults>>

\* Nobody waits for the result any more.
DropResult(d) ==
    /\ drive[d].step \in {"ok", "failed"}
    /\ disp.drive # d
    /\ drive' = [drive EXCEPT ![d] = NoDrive]
    /\ UNCHANGED <<nature, rowVars, windowOver, landed, disp, paused, redirected, faults>>

\* The pinned action is executed: the signatures are out, the operators'
\* approvals are on the chain, whether or not a drive still waits for it.
Land(r) ==
    /\ pinned[r]
    /\ r \notin landed
    /\ CanLand(r)
    /\ r[2] = "in" => LateMints \/ (disp.row = r /\ disp.drive # None /\ drive[disp.drive].step = "wait")
    /\ landed' = landed \cup {r}
    /\ UNCHANGED <<nature, rowVars, windowOver, disp, drive, paused, redirected, faults>>

\* Seeded fault: no double-pay guard on the refund child.
RedirectAlways(p) ==
    /\ paused
    /\ p \in Redirects \ redirected
    /\ status[In(p)] \in {"HELD", "REFUNDING", "REFUNDED"}

\* applySourceHintResolutions, for one directive: refuse while the mint may
\* still complete or the refund may be on the chain.
Redirectable(p) ==
    /\ paused
    /\ p \in Redirects \ redirected
    /\ status[In(p)] \in {"HELD", "REFUNDING", "REFUNDED"}
    /\ status[Refund(p)] # "CONFIRMED"
    /\ ~pinned[Refund(p)]

\* Directives that are decided (and marked) without a redirect.
Decided(p) ==
    /\ paused
    /\ p \in Redirects
    /\ \/ status[In(p)] = "CONFIRMED"
       \/ /\ status[In(p)] \in {"HELD", "REFUNDING", "REFUNDED"}
          /\ status[Refund(p)] = "CONFIRMED" \/ pinned[Refund(p)]

\* The coordinator restarts: its drives are gone; a waiting dispatcher sees a
\* broken connection; directives are applied, abandoning the refund first.
CoordinatorBoot ==
    LET go == {p \in PegIn : Redirectable(p)} IN
    /\ \A d \in Drive : drive[d] # NoDrive => MayLose(drive[d].row)
    /\ QuietRedirect /\ go # {} => disp = NoTick
    /\ Fault
    /\ drive' = [d \in Drive |-> NoDrive]
    /\ disp' = [disp EXCEPT !.drive = None]
    /\ status' = [r \in Row |-> IF r[1] \notin go THEN status[r]
                                ELSE IF r = In(r[1]) THEN "QUEUED"
                                ELSE IF r = Refund(r[1]) /\ status[r] # "ABSENT" THEN "FAILED"
                                ELSE status[r]]
    /\ redirected' = redirected \cup go \cup {p \in PegIn : Decided(p)}
    /\ UNCHANGED <<nature, pinned, windowOver, landed, paused>>

Pause ==
    /\ ~paused
    /\ Fault
    /\ paused' = TRUE
    /\ UNCHANGED <<nature, rowVars, windowOver, landed, disp, drive, redirected>>

Unpause ==
    /\ paused
    /\ paused' = FALSE
    /\ UNCHANGED <<nature, rowVars, windowOver, landed, disp, drive, redirected, faults>>

-----------------------------------------------------------------------------

TickStep ==
    \/ \E r \in Row : ReturnHeld(r) \/ \E d \in Drive : Submit(r, d)
    \/ StartTick \/ FlipHeld \/ ReadDue \/ Transition \/ Follow

DriveStep(d) == CheckExecuted(d) \/ Pin(d) \/ Confirm(d) \/ PollEnds(d) \/ DropResult(d)

Next ==
    \/ \E r \in Row : Detect(r) \/ RecoverOrphan(r) \/ Land(r)
    \/ \E p \in PegIn : WindowEnds(p)
    \/ TickStep \/ StopWaiting \/ DispatcherCrash
    \/ \E d \in Drive : DriveStep(d) \/ DriveFails(d)
    \/ CoordinatorBoot \/ Pause \/ Unpause

Spec == Init /\ [][Next]_vars

\* A drive waits for r to land.
Awaited(r) == \E d \in Drive : drive[d] = [row |-> r, step |-> "wait"]

\* The loops of dispatcher and coordinator keep running, a row that stays
\* BROADCAST is older than the timeout at some tick, an approved action that is
\* waited for lands, and an operator ends every pause.
Fairness ==
    /\ WF_vars(TickStep)
    /\ \A r \in Row : SF_vars(RecoverOrphan(r)) /\ WF_vars(Awaited(r) /\ Land(r))
                      /\ WF_vars(\E d \in Drive : Submit(r, d))
    /\ \A d \in Drive : WF_vars(DriveStep(d))
    /\ \A p \in PegIn : WF_vars(WindowEnds(p))
    /\ WF_vars(Unpause)

FairSpec == Spec /\ Fairness

-----------------------------------------------------------------------------
(* Properties. *)

\* Every variable stays within its type.
TypeOK ==
    /\ nature \in Natures
    /\ status \in [Row -> Status]
    /\ pinned \in [Row -> BOOLEAN]
    /\ windowOver \in [PegIn -> BOOLEAN]
    /\ landed \subseteq Row
    /\ disp \in Tick
    /\ drive \in [Drive -> [row : Row \cup {None}, step : {"idle", "check", "build", "wait", "ok", "failed"}]]
    /\ paused \in BOOLEAN
    /\ redirected \subseteq PegIn
    /\ faults \in 0..MaxFaults

\* A row reported CONFIRMED was executed on its chain, whatever late drives,
\* lost answers and crashes did to it (dispatcher: "nothing is lost").
ConfirmedIsExecuted == \A r \in Row : status[r] = "CONFIRMED" => r \in landed

\* A REFUNDED deposit or burn was paid back, unless it was dust.
RefundedIsRepaid ==
    \A x \in PegIn \cup PegOut :
        status[IF x \in PegIn THEN In(x) ELSE Out(x)] = "REFUNDED" =>
            nature[x].dust \/ Repay(x) \in landed

\* The fee of a deposit is swept only after its mint: a sweep without a mint
\* would take backing out of the gateway account.
SweepOnlyAfterMint == \A p \in PegIn : status[Fee(p)] # "ABSENT" => In(p) \in landed

\* A burn is either released on VIZ or returned as wVIZ, never both.
ReleaseXorReturn == \A q \in PegOut : ~(Out(q) \in landed /\ Return(q) \in landed)

\* A deposit is not both minted and refunded.
RefundExcludesMint == \A p \in PegIn : ~(In(p) \in landed /\ Refund(p) \in landed)

\* A REFUNDING parent has a child on its way, or the dispatcher is about to
\* enqueue it or to close the parent (dispatcher: "rather than stranding a
\* REFUNDING parent with no refund child").  A redirect abandons its refund.
NotStranded ==
    \A x \in PegIn \cup PegOut :
        LET parent == IF x \in PegIn THEN In(x) ELSE Out(x) IN
        status[parent] = "REFUNDING" =>
            \/ status[Repay(x)] \in {"QUEUED", "BROADCAST"}
            \/ disp.pc = "follow" /\ disp.row \in {parent, Repay(x)}
            \/ x \in redirected

\* Once the faults stop, every row is closed: minted or refunded, released or
\* returned, and every fee swept (redirected deposits aside).
Closed(r) == status[r] \in {"ABSENT", "CONFIRMED", "REFUNDED"} \/ r[1] \in redirected

Settles == <>[](\A r \in Row : Closed(r))
=============================================================================
