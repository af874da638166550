----------------------------- MODULE ReconPause -----------------------------
(***************************************************************************)
(* The reconciler's loop and the gateway-wide pause latch it shares with   *)
(* the watchers and the operators.                                         *)
(*                                                                         *)
(* The latch is one flag and ONE reason, overwritten by every pause().  A  *)
(* pause is either "stalled" (recon could not read; AutoUnpause may clear  *)
(* it) or "critical" (everything else; only a human may).  alarm is        *)
(* history: a critical pause was raised and no human has cleared it.       *)
(*                                                                         *)
(* The figures are abstracted to what check() tells apart: a chain can be  *)
(* read or not, and if so holds (backing, fee floor and sweep total) or    *)
(* not.  Counters saturate where the code only compares them.              *)
(***************************************************************************)
EXTENDS Naturals, FiniteSets

CONSTANTS
    Chain,          \* the covered remote chains, one Recon each
    MaxFail,        \* maxConsecutiveFailures
    OkTicks,        \* autoUnpauseOkTicks
    MaxLoopErrors   \* bound: loop iterations ended by an exception

ASSUME ReconAssumption ==
    /\ IsFiniteSet(Chain) /\ Chain # {}
    /\ MaxFail \in Nat \ {0}
    /\ OkTicks \in Nat \ {0}
    /\ MaxLoopErrors \in Nat

VARIABLES
    readable,  \* readable[c]: node, store and supply of c can be read
    holds,     \* holds[c]: the peg invariant of c holds
    paused,    \* gateway_state.paused
    reason,    \* gateway_state.pause_reason
    alarm,     \* history: a critical pause no human has cleared
    hidden,    \* history: its reason was overwritten, or it came after the reason was read
    pc,        \* where the loop is
    todo,      \* chains still to check in this iteration
    allOk,     \* every chain checked so far in this iteration is OK
    failures,  \* failures[c]: consecutiveFailures of c's Recon
    okStreak,  \* AutoUnpause.okStreak
    okRun,     \* history: okRun[c]: results "OK" of c in a row
    errors     \* loop errors so far

world == <<readable, holds>>
latch == <<paused, reason, alarm, hidden>>
loop == <<pc, todo, allOk, failures, okStreak, okRun>>
reconVars == <<world, latch, loop, errors>>

Reason == {"none", "stalled", "critical"}

ReconInit ==
    /\ readable = [c \in Chain |-> TRUE]
    /\ holds = [c \in Chain |-> TRUE]
    /\ paused = FALSE
    /\ reason = "none"
    /\ alarm = FALSE
    /\ hidden = FALSE
    /\ pc = "start"
    /\ todo = {}
    /\ allOk = TRUE
    /\ failures = [c \in Chain |-> 0]
    /\ okStreak = 0
    /\ okRun = [c \in Chain |-> 0]
    /\ errors = 0

UpTo(limit, n) == IF n < limit THEN n ELSE limit

-----------------------------------------------------------------------------
(* The store's latch. *)

\* pause(reason): raise the flag, overwrite the reason.
SetPause(r) ==
    /\ paused' = TRUE
    /\ reason' = r
    /\ alarm' = (alarm \/ r = "critical")
    /\ hidden' = IF r = "critical" THEN pc = "lift" ELSE hidden \/ alarm

\* unpause(): clear both.  Only a human's clears the alarm.
SetUnpause == paused' = FALSE /\ reason' = "none"

\* A watcher (cap exceeded, id collision) or an operator pauses the gateway.
OtherPause ==
    /\ SetPause("critical")
    /\ UNCHANGED <<world, loop, errors>>

HumanUnpause ==
    /\ paused
    /\ SetUnpause
    /\ alarm' = FALSE
    /\ hidden' = FALSE
    /\ UNCHANGED <<world, loop, errors>>

\* Nodes come and go, backing is lost and restored.
WorldChanges(c) ==
    /\ \/ readable' = [readable EXCEPT ![c] = ~@] /\ UNCHANGED holds
       \/ holds' = [holds EXCEPT ![c] = ~@] /\ UNCHANGED readable
    /\ UNCHANGED <<latch, loop, errors>>

-----------------------------------------------------------------------------
(* One iteration of recon's loop. *)

\* enforceActiveChainCoverage(false): an uncovered active chain pauses, and
\* the covered ones are checked all the same.
StartTick ==
    /\ pc = "start"
    /\ SetPause("critical") \/ UNCHANGED latch
    /\ pc' = "check"
    /\ todo' = Chain
    /\ allOk' = TRUE
    /\ UNCHANGED <<world, failures, okStreak, okRun, errors>>

\* Seeded fault: the limit has to be exceeded.
StallTolerated(c) ==
    /\ ~readable[c]
    /\ failures' = [failures EXCEPT ![c] = UpTo(MaxFail, @ + 1)]
    /\ IF failures'[c] > MaxFail THEN SetPause("stalled") ELSE UNCHANGED latch
    /\ allOk' = FALSE
    /\ okRun' = [okRun EXCEPT ![c] = 0]

\* check() and onCheckResult() of one chain.
\* Indeterminate: count it, and pause as stalled at the limit and beyond.
CheckIndeterminate(c) ==
    /\ ~readable[c]
    /\ failures' = [failures EXCEPT ![c] = UpTo(MaxFail, @ + 1)]
    /\ IF failures'[c] >= MaxFail THEN SetPause("stalled") ELSE UNCHANGED latch
    /\ allOk' = FALSE
    /\ okRun' = [okRun EXCEPT ![c] = 0]

\* Under-backed, over-swept, or a fee below the sanity floor.
CheckViolated(c) ==
    /\ readable[c] /\ ~holds[c]
    /\ failures' = [failures EXCEPT ![c] = 0]
    /\ SetPause("critical")
    /\ allOk' = FALSE
    /\ okRun' = [okRun EXCEPT ![c] = 0]

CheckOK(c) ==
    /\ readable[c] /\ holds[c]
    /\ failures' = [failures EXCEPT ![c] = 0]
    /\ okRun' = [okRun EXCEPT ![c] = UpTo(OkTicks, @ + 1)]
    /\ UNCHANGED <<latch, allOk>>

CheckChain(c) ==
    /\ pc = "check"
    /\ c \in todo
    /\ CheckIndeterminate(c) \/ CheckViolated(c) \/ CheckOK(c)
    /\ todo' = todo \ {c}
    /\ pc' = IF todo' = {} THEN "reserve" ELSE "check"
    /\ UNCHANGED <<world, okStreak, errors>>

\* gramReserveCheck: pause when the multisig runs out of gas money.
ReserveCheck ==
    /\ pc = "reserve"
    /\ SetPause("critical") \/ UNCHANGED latch
    /\ pc' = "auto"
    /\ UNCHANGED <<world, todo, allOk, failures, okStreak, okRun, errors>>

\* Seeded faults: any pause is lifted; a bad tick does not reset the streak;
\* the streak has to be exceeded.
LiftAnyPause ==
    /\ pc = "auto"
    /\ okStreak' = IF allOk THEN UpTo(OkTicks, okStreak + 1) ELSE 0
    /\ pc' = IF allOk /\ okStreak' >= OkTicks /\ paused THEN "lift" ELSE "start"
    /\ UNCHANGED <<world, latch, todo, allOk, failures, okRun, errors>>

StreakNotReset ==
    /\ pc = "auto"
    /\ okStreak' = IF allOk THEN UpTo(OkTicks, okStreak + 1) ELSE okStreak
    /\ pc' = IF allOk /\ okStreak' >= OkTicks /\ paused /\ reason = "stalled" THEN "lift" ELSE "start"
    /\ UNCHANGED <<world, latch, todo, allOk, failures, okRun, errors>>

StreakExceeded ==
    /\ pc = "auto"
    /\ okStreak' = IF allOk THEN UpTo(OkTicks, okStreak + 1) ELSE 0
    /\ pc' = IF allOk /\ okStreak' > OkTicks /\ paused /\ reason = "stalled" THEN "lift" ELSE "start"
    /\ UNCHANGED <<world, latch, todo, allOk, failures, okRun, errors>>

\* AutoUnpause.onTick up to the reading of the reason.
AutoUnpauseReads ==
    /\ pc = "auto"
    /\ okStreak' = IF allOk THEN UpTo(OkTicks, okStreak + 1) ELSE 0
    /\ pc' = IF allOk /\ okStreak' >= OkTicks /\ paused /\ reason = "stalled" THEN "lift" ELSE "start"
    /\ UNCHANGED <<world, latch, todo, allOk, failures, okRun, errors>>

\* ... and its unpause().
AutoUnpauseLifts ==
    /\ pc = "lift"
    /\ SetUnpause
    /\ pc' = "start"
    /\ UNCHANGED <<world, alarm, hidden, todo, allOk, failures, okStreak, okRun, errors>>

\* An exception (a store call, mostly) ends the iteration; the catch logs it.
LoopError ==
    /\ pc # "start"
    /\ errors < MaxLoopErrors
    /\ errors' = errors + 1
    /\ pc' = "start"
    /\ todo' = {}
    /\ UNCHANGED <<world, latch, allOk, failures, okStreak, okRun>>

\* The reconciler restarts: its counters are memory, the latch is not.
ReconRestart ==
    /\ errors < MaxLoopErrors
    /\ errors' = errors + 1
    /\ pc' = "start"
    /\ todo' = {}
    /\ allOk' = TRUE
    /\ failures' = [c \in Chain |-> 0]
    /\ okStreak' = 0
    /\ okRun' = [c \in Chain |-> 0]
    /\ UNCHANGED <<world, latch>>

LoopStep ==
    \/ StartTick \/ ReserveCheck \/ AutoUnpauseReads \/ AutoUnpauseLifts
    \/ \E c \in Chain : CheckChain(c)

ReconNext ==
    \/ LoopStep \/ LoopError \/ ReconRestart
    \/ OtherPause \/ HumanUnpause
    \/ \E c \in Chain : WorldChanges(c)

ReconSpec == ReconInit /\ [][ReconNext]_reconVars

\* The loop keeps running (setTimeout, no call in it blocks for ever).
FairReconSpec == ReconSpec /\ WF_reconVars(LoopStep)

-----------------------------------------------------------------------------
(* Properties. *)

\* Every variable stays within its type.
ReconTypeOK ==
    /\ readable \in [Chain -> BOOLEAN]
    /\ holds \in [Chain -> BOOLEAN]
    /\ {paused, alarm, hidden, allOk} \subseteq BOOLEAN
    /\ reason \in Reason
    /\ pc \in {"start", "check", "reserve", "auto", "lift"}
    /\ todo \subseteq Chain
    /\ failures \in [Chain -> 0..MaxFail]
    /\ okStreak \in 0..OkTicks
    /\ okRun \in [Chain -> 0..OkTicks]
    /\ errors \in 0..MaxLoopErrors

\* Every pause but the stalled one "stays latched for a human no matter how
\* healthy later ticks look".
CriticalStaysLatched == alarm => paused

\* What the code does guarantee: the latch and its critical reason hold unless
\* a stalled pause hid the reason, or the critical pause came between
\* AutoUnpause's reading of the reason and its unpause.
LatchedUnlessHidden == alarm /\ ~hidden => paused /\ reason = "critical"

\* The auto-unpause is earned: when it lifts the pause, each chain's last
\* OkTicks results were all OK.  (An iteration ended by an exception does not
\* reach onTick, so it does not reset the streak even if a chain failed in it;
\* the guarantee is for a loop without exceptions.)
UnpauseEarned == pc = "lift" /\ errors = 0 => \A c \in Chain : okRun[c] >= OkTicks

\* A chain that stays unreadable or whose invariant stays violated keeps the
\* gateway paused: every human unpause is followed by a new pause.
TroubleHalts ==
    \A c \in Chain : /\ <>[](~readable[c]) => []<>paused
                     /\ <>[](readable[c] /\ ~holds[c]) => []<>paused

\* Self-repair: with every chain healthy for good and no critical pause
\* raised any more, a stalled pause does not last.
StallHeals ==
    <>[](~alarm /\ \A c \in Chain : readable[c] /\ holds[c]) => []<>(~paused)
=============================================================================
