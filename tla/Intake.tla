------------------------------- MODULE Intake -------------------------------
(***************************************************************************)
(* The three watchers: processes that follow the source chains and turn    *)
(* final deposits and burns into outbox rows.  They share the outbox, the  *)
(* 24 h cap window and the pause latch; every store call is a step, and a  *)
(* watcher may crash or end its tick with an exception between any two.    *)
(*                                                                         *)
(* A chain is the positions (block, logical time, slot) of its final       *)
(* transactions.  viz walks blocks upwards, one window per tick; gram and  *)
(* solana walk an account's transactions newest first, a bounded number    *)
(* per tick.  The 24 h and the rate window are the sequences of what they  *)
(* still hold, oldest first; time passing drops the oldest.                *)
(***************************************************************************)
EXTENDS Integers, Sequences, FiniteSets, SequencesExt, FiniteSetsExt

CONSTANTS
    Watcher,      \* the watchers that run: "viz", "gram", "solana"
    Event,        \* source events
    Home,         \* Home[e]: the watcher that sees e
    Amount,       \* Amount[e]: gross amount
    Usable,       \* Usable[e]: its destination can be paid
    Sender,       \* Sender[e]: its source account
    None,
    PerTx, Cap, ReviewAbove,  \* the cap policy
    RateMax,      \* pegInRateLimit.maxPerWindow
    BlocksPerScan,\* MAX_BLOCKS_PER_SCAN
    ScanLimit,    \* transactions a gram or solana walk sees at first
    EmptyWallet,  \* the gram wallet has no transaction when its watcher starts
    MaxFaults,    \* bound: crashes and exceptions
    MaxExpiries   \* bound: entries that leave the windows

ASSUME IntakeAssumption ==
    /\ Watcher \subseteq {"viz", "gram", "solana"}
    /\ IsFiniteSet(Event) /\ None \notin Event
    /\ Home \in [Event -> Watcher]
    /\ Amount \in [Event -> Nat \ {0}]
    /\ Usable \in [Event -> BOOLEAN]
    /\ DOMAIN Sender = Event
    /\ PerTx \in Nat /\ Cap \in Nat /\ ReviewAbove \in Nat
    /\ RateMax \in Nat \ {0}
    /\ BlocksPerScan \in Nat \ {0}
    /\ ScanLimit \in Nat \ {0}
    /\ EmptyWallet \in BOOLEAN
    /\ MaxFaults \in Nat /\ MaxExpiries \in Nat

VARIABLES
    at,       \* at[e]: position of e on its chain, 0 before it happens
    tip,      \* tip[w]: newest final position
    row,      \* row[e]: status ("none" without a row) and lastError of its row
    stale,    \* rows that have been SEEN for STALE_SEEN_MS
    capWin,   \* cap_window: the events that reserved, oldest first
    rateWin,  \* pegin_rate: the events that took a slot, oldest first
    paused,   \* the shared latch
    saved,    \* saved[w]: the durable cursor
    cursor,   \* cursor[w]: the watcher's own cursor
    tick,     \* tick[w]: the state of w's loop
    limit,    \* limit[w]: transactions a walk sees, after a truncated scan more
    anchor,   \* history: the first cursor w handed to the store, -1 before
    spent,    \* history: events queued in the current 24 h window
    faults, expiries

chain == <<at, tip>>
outbox == <<row, stale>>
windows == <<capWin, rateWin, spent, expiries>>
cursors == <<saved, cursor, anchor>>
vars == <<chain, outbox, windows, paused, cursors, tick, limit, faults>>

Lt == 2   \* two transactions of one TON account are more than 1 lt apart

Events(w) == {e \in Event : Home[e] = w}
NoRow == [status |-> "none", lastError |-> "none"]

\* Between two ticks.
Idle == [pc |-> "idle", recovering |-> FALSE, todo |-> {}, action |-> None,
         decision |-> "ok", scannedTo |-> 0, drained |-> TRUE]

Init ==
    /\ at = [e \in Event |-> 0]
    /\ tip = [w \in Watcher |-> IF w # "gram" THEN 1 ELSE IF EmptyWallet THEN 0 ELSE Lt]
    /\ row = [e \in Event |-> NoRow]
    /\ stale = {}
    /\ capWin = <<>>
    /\ rateWin = <<>>
    /\ spent = {}
    /\ expiries = 0
    /\ paused = FALSE
    /\ saved = [w \in Watcher |-> 0]
    /\ cursor = [w \in Watcher |-> 0]
    /\ anchor = [w \in Watcher |-> -1]
    /\ tick = [w \in Watcher |-> Idle]
    /\ limit = [w \in Watcher |-> ScanLimit]
    /\ faults = 0

-----------------------------------------------------------------------------
(* The chains and the clocks. *)

\* Some events become final at the next position.  A TON account has one
\* transaction per logical time; a block or a slot may hold several.
Happen(w) ==
    /\ \E S \in SUBSET {e \in Events(w) : at[e] = 0} :
         /\ S # {}
         /\ w = "gram" => Cardinality(S) = 1
         /\ tip' = [tip EXCEPT ![w] = @ + (IF w = "gram" THEN Lt ELSE 1)]
         /\ at' = [e \in Event |-> IF e \in S THEN tip'[w] ELSE at[e]]
    /\ UNCHANGED <<outbox, windows, paused, cursors, tick, limit, faults>>

\* STALE_SEEN_MS pass over a SEEN row that no tick is busy with.
GrowStale(e) ==
    /\ row[e].status = "SEEN" /\ e \notin stale
    /\ tick[Home[e]].action # e
    /\ stale' = stale \cup {e}
    /\ UNCHANGED <<chain, row, windows, paused, cursors, tick, limit, faults>>

\* The oldest reservation leaves the 24 h window; no tick spans a day.
DayPasses ==
    /\ capWin # <<>> /\ expiries < MaxExpiries
    /\ \A w \in Watcher : tick[w].pc # "settle"
    /\ capWin' = Tail(capWin)
    /\ spent' = IF Head(capWin) \in ToSet(Tail(capWin)) THEN spent ELSE spent \ {Head(capWin)}
    /\ expiries' = expiries + 1
    /\ UNCHANGED <<chain, outbox, rateWin, paused, cursors, tick, limit, faults>>

\* The oldest slot leaves the rate window.
RateWindowPasses ==
    /\ rateWin # <<>> /\ expiries < MaxExpiries
    /\ rateWin' = Tail(rateWin)
    /\ expiries' = expiries + 1
    /\ UNCHANGED <<chain, outbox, capWin, spent, paused, cursors, tick, limit, faults>>

-----------------------------------------------------------------------------
(* A tick: first the rows an earlier tick left in SEEN. *)

\* Seeded fault: no watcher looks for stale SEEN rows.
TickOnwards(w) ==
    /\ tick[w].pc = "idle" /\ ~paused
    /\ tick' = [tick EXCEPT ![w].pc = "scan"]
    /\ UNCHANGED <<chain, outbox, windows, paused, cursors, limit, faults>>

\* A paused gateway skips the tick.  viz and gram take the stale SEEN rows
\* of their own direction and chain; solana has no such pass.
Tick(w) ==
    /\ tick[w].pc = "idle" /\ ~paused
    /\ LET left == IF w = "solana" THEN {} ELSE Events(w) \cap stale
       IN  tick' = [tick EXCEPT ![w].pc = IF left = {} THEN "scan" ELSE "rows",
                                ![w].recovering = left # {},
                                ![w].todo = left]
    /\ UNCHANGED <<chain, outbox, windows, paused, cursors, limit, faults>>

\* recoverStaleSeen: straight to the cap decision, whatever the live path
\* checks in between.
Recover(w) ==
    /\ tick[w].pc = "rows" /\ tick[w].recovering
    /\ \/ \E e \in tick[w].todo :
            tick' = [tick EXCEPT ![w].todo = @ \ {e}, ![w].action = e, ![w].pc = "reserve"]
       \/ /\ tick[w].todo = {}
          /\ tick' = [tick EXCEPT ![w].recovering = FALSE, ![w].pc = "scan"]
    /\ UNCHANGED <<chain, outbox, windows, paused, cursors, limit, faults>>

-----------------------------------------------------------------------------
(* Cold start and the scan. *)

\* Where a watcher without a cursor begins: viz and solana at the head,
\* gram just below the newest transaction.
coldStartAnchor(w) ==
    IF w # "gram" THEN tip[w] ELSE IF tip[w] > 0 THEN tip[w] - 1 ELSE 0

Fresh(w) == {e \in Events(w) : at[e] > cursor[w]}

\* The events a walk of n transactions sees, newest first.
Newest(w, n) ==
    {e \in Fresh(w) : Cardinality({d \in Fresh(w) : at[d] > at[e]}) < n}

\* finalizedBurnsPaginated: all that is above the cursor, drained if the
\* walk is long enough to reach it.
walk(w) ==
    [rows |-> Newest(w, limit[w]),
     to |-> Max({cursor[w]} \cup {at[e] : e \in Fresh(w)}),
     drained |-> Cardinality(Fresh(w)) < limit[w]]

\* Seeded fault: one block more is committed than is read.
WindowOneFurther(w) ==
    LET to == Min({tip[w], cursor[w] + BlocksPerScan})
    IN  [rows |-> {e \in Fresh(w) : at[e] < to}, to |-> to, drained |-> TRUE]

\* One tick's window: nextScanWindow on viz, the walk on the others.
Window(w) ==
    IF w = "viz"
    THEN LET to == Min({tip[w], cursor[w] + BlocksPerScan})
         IN  [rows |-> {e \in Fresh(w) : at[e] <= to}, to |-> to, drained |-> TRUE]
    ELSE walk(w)

ColdStart(w) ==
    /\ tick[w].pc = "scan" /\ cursor[w] = 0
    /\ cursor' = [cursor EXCEPT ![w] = coldStartAnchor(w)]
    /\ tick' = [tick EXCEPT ![w].pc = "save"]
    /\ UNCHANGED <<chain, outbox, windows, paused, saved, anchor, limit, faults>>

Scan(w) ==
    /\ tick[w].pc = "scan" /\ cursor[w] # 0
    /\ tick' = IF w \in {"viz", "solana"} /\ tip[w] <= cursor[w]
               THEN [tick EXCEPT ![w] = Idle]
               ELSE [tick EXCEPT ![w].pc = "rows",
                                 ![w].todo = Window(w).rows,
                                 ![w].scannedTo = Window(w).to,
                                 ![w].drained = Window(w).drained]
    /\ UNCHANGED <<chain, outbox, windows, paused, cursors, limit, faults>>

-----------------------------------------------------------------------------
(* One scanned event. *)

\* The scan lists blocks upwards on viz, transactions downwards elsewhere.
NextUp(w, e) ==
    /\ tick[w].pc = "rows" /\ ~tick[w].recovering
    /\ e \in tick[w].todo
    /\ \A d \in tick[w].todo : IF w = "viz" THEN at[e] <= at[d] ELSE at[e] >= at[d]

\* enqueue is INSERT OR IGNORE: a row that exists stays as it is.
First(e) == row[e].status = "none"
enqueue(e, s, err) ==
    row' = IF First(e) THEN [row EXCEPT ![e] = [status |-> s, lastError |-> err]] ELSE row

\* A deposit no remote address can be read from is parked for a refund.
TakeUnusable(e) ==
    /\ NextUp("viz", e) /\ ~Usable[e]
    /\ enqueue(e, "HELD", "INVALID_DESTINATION")
    /\ tick' = [tick EXCEPT !["viz"].todo = @ \ {e}]
    /\ UNCHANGED <<chain, stale, windows, paused, cursors, limit, faults>>

\* tryReserveSenderRate, before anything is written: a slot of the sender's
\* if one is left, also for a deposit this window was read for before.
TakeDeposit(e) ==
    /\ NextUp("viz", e) /\ Usable[e]
    /\ LET over == Cardinality({i \in DOMAIN rateWin : Sender[rateWin[i]] = Sender[e]}) >= RateMax
       IN  /\ rateWin' = IF over THEN rateWin ELSE Append(rateWin, e)
           /\ tick' = [tick EXCEPT !["viz"].todo = @ \ {e}, !["viz"].action = e,
                                   !["viz"].pc = IF over THEN "overRate" ELSE "enqueue"]
    /\ UNCHANGED <<chain, outbox, capWin, spent, expiries, paused, cursors, limit, faults>>

\* Over the rate: held for an operator.
HoldRate ==
    /\ tick["viz"].pc = "overRate"
    /\ enqueue(tick["viz"].action, "HELD", "RATE_LIMITED")
    /\ tick' = [tick EXCEPT !["viz"].pc = "rows", !["viz"].action = None]
    /\ UNCHANGED <<chain, stale, windows, paused, cursors, limit, faults>>

\* The deposit's row; one that exists was handled before.
EnqueueDeposit ==
    /\ tick["viz"].pc = "enqueue"
    /\ LET e == tick["viz"].action
       IN  /\ enqueue(e, "SEEN", "none")
           /\ tick' = IF First(e) THEN [tick EXCEPT !["viz"].pc = "reserve"]
                      ELSE [tick EXCEPT !["viz"].pc = "rows", !["viz"].action = None]
    /\ UNCHANGED <<chain, stale, windows, paused, cursors, limit, faults>>

\* A burn is written at once; gram looks at its destination next.
TakeBurn(w, e) ==
    /\ w # "viz" /\ NextUp(w, e)
    /\ enqueue(e, "SEEN", "none")
    /\ tick' = IF First(e)
               THEN [tick EXCEPT ![w].todo = @ \ {e}, ![w].action = e,
                                 ![w].pc = IF w = "gram" THEN "classify" ELSE "reserve"]
               ELSE [tick EXCEPT ![w].todo = @ \ {e}]
    /\ UNCHANGED <<chain, stale, windows, paused, cursors, limit, faults>>

\* classifyPegOutDestination: no VIZ account to pay means an auto-return.
Classify ==
    /\ tick["gram"].pc = "classify"
    /\ LET e == tick["gram"].action
       IN  IF Usable[e]
           THEN tick' = [tick EXCEPT !["gram"].pc = "reserve"] /\ UNCHANGED row
           ELSE /\ row' = [row EXCEPT ![e] = [status |-> "HELD", lastError |-> "RETURN_INVALID_DEST"]]
                /\ tick' = [tick EXCEPT !["gram"].pc = "rows", !["gram"].action = None]
    /\ UNCHANGED <<chain, stale, windows, paused, cursors, limit, faults>>

-----------------------------------------------------------------------------
(* The cap decision, live or recovered. *)

WindowTotal == SumFunction([i \in DOMAIN capWin |-> Amount[capWin[i]]])

\* Seeded fault: the window is checked without the amount that asks.
FitsBefore(e) == WindowTotal < Cap

Fits(e) == WindowTotal + Amount[e] <= Cap

\* checkAndRecord: per-tx limit, then the window (checked and reserved in
\* one transaction), then the review band, whose reservation stays.
Reserve(w) ==
    /\ tick[w].pc = "reserve"
    /\ LET e == tick[w].action
       IN  /\ capWin' = IF Amount[e] <= PerTx /\ Fits(e) THEN Append(capWin, e) ELSE capWin
           /\ tick' = [tick EXCEPT ![w].pc = "settle", ![w].decision =
                         IF Amount[e] > PerTx THEN "OVER_PER_TX"
                         ELSE IF ~Fits(e) THEN "OVER_24H"
                         ELSE IF Amount[e] > ReviewAbove THEN "NEEDS_MANUAL_REVIEW" ELSE "ok"]
    /\ UNCHANGED <<chain, outbox, rateWin, spent, expiries, paused, cursors, limit, faults>>

\* QUEUED, or HELD with the breaker's reason; a full window also pauses.
Settle(w) ==
    /\ tick[w].pc = "settle"
    /\ LET e == tick[w].action
           d == tick[w].decision
       IN  /\ row' = [row EXCEPT ![e] = IF d = "ok" THEN [status |-> "QUEUED", lastError |-> @.lastError]
                                        ELSE [status |-> "HELD", lastError |-> d]]
           /\ stale' = stale \ {e}
           /\ spent' = IF d = "ok" THEN spent \cup {e} ELSE spent
           /\ tick' = IF d = "OVER_24H" THEN [tick EXCEPT ![w].pc = "pause"]
                      ELSE [tick EXCEPT ![w].pc = "rows", ![w].action = None, ![w].decision = "ok"]
    /\ UNCHANGED <<chain, capWin, rateWin, expiries, paused, cursors, limit, faults>>

PauseNow(w) ==
    /\ tick[w].pc = "pause"
    /\ paused' = TRUE
    /\ tick' = [tick EXCEPT ![w].pc = "rows", ![w].action = None, ![w].decision = "ok"]
    /\ UNCHANGED <<chain, outbox, windows, cursors, limit, faults>>

-----------------------------------------------------------------------------
(* The end of the tick. *)

\* Every row of the window is written: the cursor may move.
Advance(w) ==
    /\ tick[w].pc = "rows" /\ ~tick[w].recovering
    /\ tick[w].todo = {} /\ tick[w].drained
    /\ cursor' = [cursor EXCEPT ![w] = tick[w].scannedTo]
    /\ tick' = [tick EXCEPT ![w].pc = "save"]
    /\ UNCHANGED <<chain, outbox, windows, paused, saved, anchor, limit, faults>>

\* The walk did not reach the cursor: what lies between was not seen, so
\* the cursor stays and the gateway is paused.
Truncated(w) ==
    /\ tick[w].pc = "rows" /\ ~tick[w].recovering
    /\ tick[w].todo = {} /\ ~tick[w].drained
    /\ paused' = TRUE
    /\ tick' = [tick EXCEPT ![w] = [Idle EXCEPT !.drained = FALSE]]
    /\ UNCHANGED <<chain, outbox, windows, cursors, limit, faults>>

\* Seeded fault: the store loses what it is given.
SaveNothing(w) ==
    /\ tick[w].pc = "save"
    /\ saved' = [saved EXCEPT ![w] = None]
    /\ tick' = [tick EXCEPT ![w] = Idle]
    /\ UNCHANGED <<chain, outbox, windows, paused, cursor, anchor, limit, faults>>

\* setCursor: durable, and never backwards.
Save(w) ==
    /\ tick[w].pc = "save"
    /\ saved' = [saved EXCEPT ![w] = Max({@, cursor[w]})]
    /\ anchor' = IF anchor[w] < 0 THEN [anchor EXCEPT ![w] = cursor[w]] ELSE anchor
    /\ tick' = [tick EXCEPT ![w] = Idle]
    /\ UNCHANGED <<chain, outbox, windows, paused, cursor, limit, faults>>

VizStep == HoldRate \/ EnqueueDeposit \/ \E e \in Event : TakeUnusable(e) \/ TakeDeposit(e)

Step(w) ==
    \/ Tick(w) \/ Recover(w) \/ ColdStart(w) \/ Scan(w)
    \/ \E e \in Event : TakeBurn(w, e)
    \/ w = "viz" /\ VizStep
    \/ w = "gram" /\ Classify
    \/ Reserve(w) \/ Settle(w) \/ PauseNow(w)
    \/ Advance(w) \/ Truncated(w) \/ Save(w)

\* The process dies (its cursor is read back from the store), or a call
\* throws and the loop starts over with the cursor it has.
Fail(w) ==
    /\ tick[w].pc # "idle" /\ faults < MaxFaults
    /\ cursor' \in {cursor, [cursor EXCEPT ![w] = saved[w]]}
    /\ tick' = [tick EXCEPT ![w] = Idle]
    /\ faults' = faults + 1
    /\ UNCHANGED <<chain, outbox, windows, paused, saved, anchor, limit>>

\* Operators resume the gateway,
Unpause ==
    /\ paused
    /\ paused' = FALSE
    /\ UNCHANGED <<chain, outbox, windows, cursors, tick, limit, faults>>

\* and restart a watcher whose scan was truncated with a larger window.
Widen(w) ==
    /\ tick[w].pc = "idle" /\ ~tick[w].drained
    /\ limit' = [limit EXCEPT ![w] = Cardinality(Event) + 1]
    /\ cursor' = [cursor EXCEPT ![w] = saved[w]]
    /\ tick' = [tick EXCEPT ![w] = Idle]
    /\ UNCHANGED <<chain, outbox, windows, saved, anchor, paused, faults>>

Next ==
    \/ \E w \in Watcher : Happen(w) \/ Step(w) \/ Fail(w) \/ Widen(w)
    \/ \E e \in Event : GrowStale(e)
    \/ DayPasses \/ RateWindowPasses \/ Unpause

Spec == Init /\ [][Next]_vars

(* Watchers keep ticking, clocks keep running, and operators answer the    *)
(* alerts: a pause is lifted, a truncated scan eventually widened.         *)
Fairness ==
    /\ \A w \in Watcher : WF_vars(Step(w))
    /\ \A e \in Event : WF_vars(GrowStale(e))
    /\ WF_vars(Unpause)
    /\ \A w \in Watcher : SF_vars(Widen(w))

FairSpec == Spec /\ Fairness

-----------------------------------------------------------------------------
(* Properties. *)

Row == [status : {"none", "SEEN", "QUEUED", "HELD"},
        lastError : {"none", "INVALID_DESTINATION", "RATE_LIMITED", "RETURN_INVALID_DEST",
                     "OVER_PER_TX", "OVER_24H", "NEEDS_MANUAL_REVIEW"}]
TickState ==
    [pc : {"idle", "scan", "rows", "enqueue", "overRate", "classify", "reserve", "settle", "pause", "save"},
     recovering : BOOLEAN, todo : SUBSET Event, action : Event \cup {None},
     decision : {"ok", "OVER_PER_TX", "OVER_24H", "NEEDS_MANUAL_REVIEW"},
     scannedTo : Nat, drained : BOOLEAN]

TypeOK ==
    /\ at \in [Event -> Nat] /\ tip \in [Watcher -> Nat]
    /\ row \in [Event -> Row] /\ stale \subseteq Event
    /\ capWin \in Seq(Event) /\ rateWin \in Seq(Event) /\ spent \subseteq Event
    /\ paused \in BOOLEAN
    /\ saved \in [Watcher -> Nat] /\ cursor \in [Watcher -> Nat]
    /\ anchor \in [Watcher -> Nat \cup {-1}]
    /\ tick \in [Watcher -> TickState] /\ limit \in [Watcher -> Nat]
    /\ faults \in Nat /\ expiries \in Nat

(* `downtime never silently skips burns': whatever crashes, truncated      *)
(* scans and replays there were, everything after the watcher's first      *)
(* cursor and up to the durable one has a row.                             *)
NothingSkipped ==
    \A e \in Event :
        (/\ 0 <= anchor[Home[e]] /\ anchor[Home[e]] < at[e]
         /\ at[e] <= saved[Home[e]])
            => row[e].status # "none"

\* What the limiter sees of a row.
Verdict == [e \in Event |->
              CASE row[e].status = "QUEUED" -> "queued"
                [] row[e].status = "HELD" -> "held"
                [] OTHER -> "open"]

Limiter == INSTANCE Admission WITH
    Largest <- Min({PerTx, ReviewAbove}), verdict <- Verdict, spent <- spent

(* The three processes together behave like one limiter: every event gets  *)
(* one verdict, and what is queued within one day stays within the cap.    *)
OneLimiter == Limiter!Spec

\* e was there before w's cold start chose its first cursor.
BeforeStart(e) ==
    LET w == Home[e] IN at[e] <= IF anchor[w] >= 0 THEN anchor[w] ELSE cursor[w]

(* Every event after the cold start is eventually decided on viz and gram, *)
(* where stale SEEN rows are recovered, and at least written on solana,    *)
(* where nothing recovers them.                                            *)
Handled ==
    \A e \in Event :
        at[e] > 0 ~> (\/ BeforeStart(e)
                      \/ row[e].status \in {"QUEUED", "HELD"}
                      \/ (Home[e] = "solana" /\ row[e].status = "SEEN"))

(* `block senders who deposit too frequently': nobody is held for the rate *)
(* who never made more than RateMax deposits.                              *)
OnlyFrequentHeld ==
    \A e \in Event : row[e].lastError = "RATE_LIMITED" =>
        Cardinality({d \in Event : Sender[d] = Sender[e] /\ at[d] > 0}) > RateMax
=============================================================================
