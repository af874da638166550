---------------------------- MODULE IntakeProofs ----------------------------
(***************************************************************************)
(* Three arguments about the watchers.  That nothing is skipped: a         *)
(* watcher's cursor moves only over a window whose every event has a row,  *)
(* and whatever becomes final later lies above everything read so far.     *)
(* That the rows of a watcher are its own: the row a cap decision is being *)
(* made for is SEEN and no other step touches it.  That the three          *)
(* processes are one limiter: what was queued within a day is covered by   *)
(* the shared window, whose total stays within the cap.                    *)
(***************************************************************************)
EXTENDS Intake, Sums

(* Busy with one event, and with a window of them.                         *)
Acting == {"enqueue", "overRate", "classify", "reserve", "settle", "pause"}
Working == {"rows"} \cup Acting

(* A watcher handles its own events only.                                  *)
OwnEvents(w) ==
    /\ tick[w].todo \subseteq Events(w)
    /\ tick[w].pc \in Acting => tick[w].action \in Events(w)

Placed == \A e \in Event : at[e] <= tip[Home[e]]

Typed == TypeOK /\ Placed /\ \A w \in Watcher : OwnEvents(w)

(* Cursors lie on the chain, the durable one not above the watcher's own,  *)
(* and a first cursor handed to the store is never 0.                      *)
CursorsPlaced(w) ==
    /\ saved[w] <= cursor[w] /\ cursor[w] <= tip[w]
    /\ 0 < tip[w] /\ (w = "gram" => 1 < tip[w])
    /\ anchor[w] >= 0 => saved[w] > 0
    /\ tick[w].pc = "save" => cursor[w] > 0

(* Everything above the first cursor and up to the current one has a row.  *)
Written(w) ==
    anchor[w] >= 0 =>
        \A e \in Events(w) : anchor[w] < at[e] /\ at[e] <= cursor[w] => row[e].status # "none"

(* e is still to do, has a row, or is about to get one.                    *)
Accounted(w, e) ==
    \/ e \in tick[w].todo \/ row[e].status # "none"
    \/ tick[w].pc \in {"overRate", "enqueue"} /\ tick[w].action = e

(* In the middle of a window, everything it spans is accounted for; a      *)
(* window that was not drained is never committed.                         *)
Spanned(w) ==
    tick[w].pc \in Working /\ ~tick[w].recovering =>
        /\ 0 < cursor[w] /\ cursor[w] <= tick[w].scannedTo /\ tick[w].scannedTo <= tip[w]
        /\ tick[w].drained =>
             \A e \in Events(w) : cursor[w] < at[e] /\ at[e] <= tick[w].scannedTo => Accounted(w, e)

ScanInv ==
    /\ Typed
    /\ \A w \in Watcher : CursorsPlaced(w) /\ Written(w) /\ Spanned(w)

(* The row under decision is SEEN, and so are the stale ones that are left *)
(* to recover.                                                             *)
Undecided(w) ==
    /\ \A e \in Events(w) : e \in stale => row[e].status = "SEEN"
    /\ tick[w].pc \in {"classify", "reserve", "settle"} => row[tick[w].action].status = "SEEN"
    /\ tick[w].pc = "classify" => tick[w].action \notin stale
    /\ tick[w].pc = "scan" => ~tick[w].recovering
    /\ tick[w].pc \in Working /\ tick[w].recovering => tick[w].todo \subseteq stale
    /\ tick[w].pc \in Acting /\ tick[w].recovering => tick[w].action \notin tick[w].todo

(* A positive decision was reserved for; the window that everything queued *)
(* within the day is in does not exceed the cap.                           *)
Covered(w) ==
    tick[w].pc = "settle" /\ tick[w].decision = "ok" =>
        /\ tick[w].action \in ToSet(capWin)
        /\ Amount[tick[w].action] <= PerTx /\ Amount[tick[w].action] <= ReviewAbove

LimiterInv ==
    /\ Typed
    /\ \A w \in Watcher : Undecided(w) /\ Covered(w)
    /\ spent \subseteq ToSet(capWin)
    /\ WindowTotal <= Cap

-----------------------------------------------------------------------------
(* Least and greatest members, and what a scan returns.                    *)

(* The smaller of two naturals.                                            *)
LEMMA MinOfTwo ==
    ASSUME NEW a \in Nat, NEW b \in Nat
    PROVE  Min({a, b}) \in {a, b} /\ Min({a, b}) <= a /\ Min({a, b}) <= b
<1>1. \E m \in {a, b} : \A n \in {a, b} : m <= n
  <2>1. CASE a <= b
    BY <2>1
  <2>2. CASE b <= a
    BY <2>2
  <2> QED
    BY <2>1, <2>2
<1> QED
  BY <1>1 DEF Min

(* A bounded set of naturals has its maximum as a member.                  *)
LEMMA MaxOfBounded ==
    ASSUME NEW T \in SUBSET Nat, T # {}, NEW b \in Nat, \A n \in T : n <= b
    PROVE  Max(T) \in T /\ \A n \in T : n <= Max(T)
<1>1. \E m \in T : \A n \in T : n <= m
  BY GreatestNatural
<1>2. \E m \in T : \A n \in T : m >= n
  BY <1>1
<1>3. Max(T) \in T /\ \A n \in T : Max(T) >= n
  BY <1>2 DEF Max
<1> QED
  BY <1>3

(* A scan returns events of the watcher's own above its cursor, reaches no *)
(* further than the chain, and when it is drained it holds everything up   *)
(* to where it reaches.                                                    *)
LEMMA WindowIsWhole ==
    ASSUME TypeOK, Placed, NEW w \in Watcher, w \in {"viz", "solana"} => tip[w] > cursor[w]
    PROVE  /\ Window(w).rows \subseteq Events(w)
           /\ Window(w).to \in Nat /\ Window(w).drained \in BOOLEAN
           /\ cursor[w] <= Window(w).to
           /\ cursor[w] <= tip[w] => Window(w).to <= tip[w]
           /\ Window(w).drained =>
                \A e \in Events(w) : cursor[w] < at[e] /\ at[e] <= Window(w).to => e \in Window(w).rows
<1>0. /\ at \in [Event -> Nat] /\ tip[w] \in Nat /\ cursor[w] \in Nat /\ limit[w] \in Nat
      /\ BlocksPerScan \in Nat \ {0} /\ IsFiniteSet(Event) /\ Home \in [Event -> Watcher]
      /\ \A e \in Events(w) : e \in Event /\ at[e] <= tip[w]
  BY IntakeAssumption DEF TypeOK, Placed, Events
<1>1. Fresh(w) \subseteq Events(w) /\ IsFiniteSet(Fresh(w)) /\ \A e \in Events(w) : e \in Fresh(w) <=> cursor[w] < at[e]
  <2>1. Fresh(w) \subseteq Events(w) /\ \A e \in Events(w) : e \in Fresh(w) <=> cursor[w] < at[e]
    BY <1>0 DEF Fresh
  <2> QED
    BY <1>0, <2>1, FS_Subset
<1>2. CASE w = "viz"
  <2> DEFINE to == Min({tip[w], cursor[w] + BlocksPerScan})
  <2>1. Window(w) = [rows |-> {e \in Fresh(w) : at[e] <= to}, to |-> to, drained |-> TRUE]
    BY <1>2 DEF Window
  <2>2. to \in {tip[w], cursor[w] + BlocksPerScan} /\ to <= tip[w]
    BY <1>0, MinOfTwo
  <2>3. to \in Nat /\ cursor[w] <= to
    BY <1>0, <1>2, <2>2
  <2> HIDE DEF to
  <2> QED
    BY <1>1, <2>1, <2>2, <2>3
<1>3. CASE w # "viz"
  <2> DEFINE T == {cursor[w]} \cup {at[e] : e \in Fresh(w)}
  <2>1. Window(w) = [rows |-> Newest(w, limit[w]), to |-> Max(T), drained |-> Cardinality(Fresh(w)) < limit[w]]
    BY <1>3 DEF Window, walk
  <2>2. Max(T) \in T /\ \A n \in T : n <= Max(T)
    <3>1. T \in SUBSET Nat /\ T # {} /\ cursor[w] + tip[w] \in Nat /\ \A n \in T : n <= cursor[w] + tip[w]
      BY <1>0, <1>1
    <3> HIDE DEF T
    <3> QED
      BY <3>1, MaxOfBounded
  <2>3. Max(T) \in Nat /\ cursor[w] <= Max(T) /\ (cursor[w] <= tip[w] => Max(T) <= tip[w])
    BY <1>0, <1>1, <2>2
  <2>4. Newest(w, limit[w]) \subseteq Fresh(w)
    BY DEF Newest
  <2>5. ASSUME Cardinality(Fresh(w)) < limit[w], NEW e \in Fresh(w) PROVE e \in Newest(w, limit[w])
    <3> DEFINE Above == {d \in Fresh(w) : at[d] > at[e]}
    <3>1. Above \in SUBSET Fresh(w)
      OBVIOUS
    <3>2. Cardinality(Above) \in Nat /\ Cardinality(Fresh(w)) \in Nat /\ Cardinality(Above) <= Cardinality(Fresh(w))
      BY <1>1, <3>1, FS_Subset, FS_CardinalityType
    <3>3. Cardinality(Above) < limit[w]
      <4> HIDE DEF Above
      <4> QED
        BY <1>0, <2>5, <3>2
    <3> QED
      BY <2>5, <3>3 DEF Newest
  <2> HIDE DEF T
  <2>6. Window(w).rows = Newest(w, limit[w]) /\ Window(w).to = Max(T)
        /\ Window(w).drained = (Cardinality(Fresh(w)) < limit[w])
    BY <2>1
  <2>7. Window(w).rows \subseteq Events(w)
    BY <1>1, <2>4, <2>6
  <2>8. Window(w).drained \in BOOLEAN
    BY <2>6
  <2>9. ASSUME Window(w).drained, NEW e \in Events(w), cursor[w] < at[e] PROVE e \in Window(w).rows
    <3>1. Cardinality(Fresh(w)) < limit[w]
      BY <2>6, <2>9
    <3>2. e \in Fresh(w)
      BY <1>1, <2>9
    <3> QED
      BY <2>5, <2>6, <3>1, <3>2
  <2> QED
    BY <2>3, <2>6, <2>7, <2>8, <2>9
<1> QED
  BY <1>2, <1>3

-----------------------------------------------------------------------------
(* Types, and a watcher's own events.                                      *)

(* enqueue writes a row of the right form.                                 *)
LEMMA EnqueueTyped ==
    ASSUME row \in [Event -> Row], NEW e \in Event, NEW s, NEW err,
           [status |-> s, lastError |-> err] \in Row, enqueue(e, s, err)
    PROVE  row' \in [Event -> Row]
  BY DEF enqueue

(* What a watcher's step does to the state it shares: it leaves the chain  *)
(* alone and keeps the types of the rest, its own loop aside.              *)
LEMMA StepShared ==
    ASSUME Typed, NEW w \in Watcher, Step(w) \/ Fail(w) \/ Widen(w)
    PROVE  /\ UNCHANGED chain
           /\ row' \in [Event -> Row] /\ stale' \subseteq Event
           /\ capWin' \in Seq(Event) /\ rateWin' \in Seq(Event) /\ spent' \subseteq Event
           /\ paused' \in BOOLEAN
           /\ limit' \in [Watcher -> Nat] /\ faults' \in Nat /\ expiries' \in Nat
<1>0. /\ row \in [Event -> Row] /\ stale \subseteq Event
      /\ capWin \in Seq(Event) /\ rateWin \in Seq(Event) /\ spent \subseteq Event
      /\ paused \in BOOLEAN
      /\ limit \in [Watcher -> Nat] /\ faults \in Nat /\ expiries \in Nat
      /\ tick \in [Watcher -> TickState]
      /\ \A v \in Watcher : tick[v].pc \in Acting => tick[v].action \in Event
  BY DEF Typed, TypeOK, OwnEvents, Events
<1>1. CASE Tick(w) \/ Recover(w) \/ ColdStart(w) \/ Scan(w) \/ Advance(w) \/ Save(w)
  BY <1>0, <1>1 DEF Tick, Recover, ColdStart, Scan, Advance, Save, outbox, windows
<1>2. CASE PauseNow(w) \/ Truncated(w)
  BY <1>0, <1>2 DEF PauseNow, Truncated, outbox, windows
<1>3. CASE Fail(w)
  BY <1>0, <1>3 DEF Fail, outbox, windows
<1>4. CASE Widen(w)
  <2>1. Cardinality(Event) + 1 \in Nat
    BY IntakeAssumption, FS_CardinalityType
  <2> QED
    BY <1>0, <1>4, <2>1 DEF Widen, outbox, windows
<1>5. ASSUME NEW e \in Event, TakeBurn(w, e) PROVE row' \in [Event -> Row] /\ UNCHANGED <<chain, stale, windows, paused, limit, faults>>
  <2>1. [status |-> "SEEN", lastError |-> "none"] \in Row
    BY DEF Row
  <2> QED
    BY <1>0, <1>5, <2>1, EnqueueTyped DEF TakeBurn
<1>6. CASE w = "viz" /\ VizStep
  <2>1. CASE HoldRate
    <3>1. [status |-> "HELD", lastError |-> "RATE_LIMITED"] \in Row
      BY DEF Row
    <3>2. tick["viz"].action \in Event
      BY <1>0, <1>6, <2>1 DEF HoldRate, Acting
    <3> QED
      BY <1>0, <2>1, <3>1, <3>2, EnqueueTyped DEF HoldRate, windows
  <2>2. CASE EnqueueDeposit
    <3>1. [status |-> "SEEN", lastError |-> "none"] \in Row
      BY DEF Row
    <3>2. tick["viz"].action \in Event
      BY <1>0, <1>6, <2>2 DEF EnqueueDeposit, Acting
    <3> QED
      BY <1>0, <2>2, <3>1, <3>2, EnqueueTyped DEF EnqueueDeposit, windows
  <2>3. ASSUME NEW e \in Event, TakeUnusable(e) PROVE row' \in [Event -> Row] /\ UNCHANGED <<chain, stale, windows, paused, limit, faults>>
    <3>1. [status |-> "HELD", lastError |-> "INVALID_DESTINATION"] \in Row
      BY DEF Row
    <3> QED
      BY <1>0, <2>3, <3>1, EnqueueTyped DEF TakeUnusable
  <2>4. ASSUME NEW e \in Event, TakeDeposit(e)
        PROVE rateWin' \in Seq(Event) /\ UNCHANGED <<chain, outbox, capWin, spent, expiries, paused, limit, faults>>
    BY <1>0, <2>4 DEF TakeDeposit
  <2> QED
    BY <1>0, <1>6, <2>1, <2>2, <2>3, <2>4 DEF VizStep, outbox, windows
<1>7. CASE w = "gram" /\ Classify
  <2>1. [status |-> "HELD", lastError |-> "RETURN_INVALID_DEST"] \in Row
    BY DEF Row
  <2> QED
    BY <1>0, <1>7, <2>1 DEF Classify, windows
<1>8. CASE Reserve(w)
  <2>1. tick[w].action \in Event
    BY <1>0, <1>8 DEF Reserve, Acting
  <2> QED
    BY <1>0, <1>8, <2>1 DEF Reserve, outbox
<1>9. CASE Settle(w)
  <2> DEFINE e == tick[w].action
             d == tick[w].decision
  <2>1. e \in Event /\ d \in {"ok", "OVER_PER_TX", "OVER_24H", "NEEDS_MANUAL_REVIEW"}
    BY <1>0, <1>9 DEF Settle, Acting, TickState
  <2>2. row[e].lastError \in {"none", "INVALID_DESTINATION", "RATE_LIMITED", "RETURN_INVALID_DEST",
                              "OVER_PER_TX", "OVER_24H", "NEEDS_MANUAL_REVIEW"}
    BY <1>0, <2>1 DEF Row
  <2>3. row' = [row EXCEPT ![e] = IF d = "ok" THEN [status |-> "QUEUED", lastError |-> row[e].lastError]
                                  ELSE [status |-> "HELD", lastError |-> d]]
        /\ stale' = stale \ {e} /\ (spent' = spent \cup {e} \/ spent' = spent)
        /\ UNCHANGED <<chain, capWin, rateWin, expiries, paused, limit, faults>>
    BY <1>0, <1>9, <2>1 DEF Settle
  <2> HIDE DEF e, d
  <2>4. (IF d = "ok" THEN [status |-> "QUEUED", lastError |-> row[e].lastError]
         ELSE [status |-> "HELD", lastError |-> d]) \in Row
    BY <2>1, <2>2 DEF Row
  <2>5. row' \in [Event -> Row]
    BY <1>0, <2>3, <2>4
  <2> QED
    BY <1>0, <2>1, <2>3, <2>5
<1> QED
  BY <1>0, <1>1, <1>2, <1>3, <1>4, <1>5, <1>6, <1>7, <1>8, <1>9 DEF Step, windows

(* A watcher's step moves its own loop only, and keeps to its own events.  *)
LEMMA StepLoop ==
    ASSUME Typed, NEW w \in Watcher, Step(w) \/ Fail(w) \/ Widen(w)
    PROVE  /\ tick' \in [Watcher -> TickState]
           /\ OwnEvents(w)'
           /\ \A v \in Watcher : v # w => tick'[v] = tick[v]
<1>0. /\ tick \in [Watcher -> TickState]
      /\ tick[w].todo \subseteq Events(w)
      /\ tick[w].pc \in Acting => tick[w].action \in Events(w)
      /\ Events(w) \subseteq Event
  BY DEF Typed, TypeOK, OwnEvents, Events
<1> DEFINE Good ==
      /\ tick' \in [Watcher -> TickState]
      /\ tick'[w].todo \subseteq Events(w)
      /\ tick'[w].pc \in Acting => tick'[w].action \in Events(w)
      /\ \A v \in Watcher : v # w => tick'[v] = tick[v]
<1> SUFFICES Good
  BY DEF OwnEvents, Events
<1>I. Idle \in TickState /\ Idle.pc = "idle" /\ Idle.todo = {} /\ [Idle EXCEPT !.drained = FALSE] \in TickState
  BY IntakeAssumption DEF Idle, TickState
<1>M. ASSUME NEW r \in TickState, tick' = [tick EXCEPT ![w] = r], r.todo \subseteq Events(w),
             r.pc \in Acting => r.action \in Events(w)
      PROVE  Good
  BY <1>0, <1>M
<1>N. None \in Event \cup {None}
  OBVIOUS
<1> HIDE DEF Good
<1> USE DEF TickState, Acting
<1>1. CASE Tick(w)
  <2>1. PICK pc \in {"scan", "rows"}, b \in BOOLEAN, left \in SUBSET Events(w) :
            tick' = [tick EXCEPT ![w].pc = pc, ![w].recovering = b, ![w].todo = left]
    BY <1>1 DEF Tick
  <2> DEFINE r == [tick[w] EXCEPT !.pc = pc, !.recovering = b, !.todo = left]
  <2>2. tick' = [tick EXCEPT ![w] = r]
    BY <1>0, <2>1
  <2>3. r \in TickState /\ r.todo \subseteq Events(w) /\ r.pc \notin Acting
    BY <1>0
  <2> QED
    BY <1>M, <2>2, <2>3
<1>2. CASE Recover(w)
  <2>1. ASSUME NEW e \in tick[w].todo,
               tick' = [tick EXCEPT ![w].todo = @ \ {e}, ![w].action = e, ![w].pc = "reserve"]
        PROVE  Good
    <3> DEFINE r == [tick[w] EXCEPT !.todo = @ \ {e}, !.action = e, !.pc = "reserve"]
    <3>2. tick' = [tick EXCEPT ![w] = r]
      BY <1>0, <2>1
    <3>3. r \in TickState /\ r.todo \subseteq Events(w) /\ r.action \in Events(w)
      BY <1>0
    <3> QED
      BY <1>M, <3>2, <3>3
  <2>2. CASE tick' = [tick EXCEPT ![w].recovering = FALSE, ![w].pc = "scan"]
    <3> DEFINE r == [tick[w] EXCEPT !.recovering = FALSE, !.pc = "scan"]
    <3>2. tick' = [tick EXCEPT ![w] = r]
      BY <1>0, <2>2
    <3>3. r \in TickState /\ r.todo \subseteq Events(w) /\ r.pc \notin Acting
      BY <1>0
    <3> QED
      BY <1>M, <3>2, <3>3
  <2> QED
    BY <1>2, <2>1, <2>2 DEF Recover
<1>3. CASE ColdStart(w)
  BY <1>0, <1>3 DEF ColdStart, Good
<1>R. ASSUME tick' = [tick EXCEPT ![w].pc = "rows", ![w].action = None] PROVE Good
  <2> DEFINE r == [tick[w] EXCEPT !.pc = "rows", !.action = None]
  <2>1. tick' = [tick EXCEPT ![w] = r]
    BY <1>0, <1>R
  <2>2. r \in TickState /\ r.todo \subseteq Events(w) /\ r.pc \notin Acting
    BY <1>0
  <2> QED
    BY <1>M, <2>1, <2>2
<1>D. ASSUME tick' = [tick EXCEPT ![w].pc = "rows", ![w].action = None, ![w].decision = "ok"] PROVE Good
  <2> DEFINE r == [tick[w] EXCEPT !.pc = "rows", !.action = None, !.decision = "ok"]
  <2>1. tick' = [tick EXCEPT ![w] = r]
    BY <1>0, <1>D
  <2>2. r \in TickState /\ r.todo \subseteq Events(w) /\ r.pc \notin Acting
    BY <1>0
  <2> QED
    BY <1>M, <2>1, <2>2
<1>G. ASSUME NEW pc \in Acting, tick[w].pc \in Acting, tick' = [tick EXCEPT ![w].pc = pc] PROVE Good
  <2> DEFINE r == [tick[w] EXCEPT !.pc = pc]
  <2>1. tick' = [tick EXCEPT ![w] = r]
    BY <1>0, <1>G
  <2>2. r \in TickState /\ r.todo \subseteq Events(w) /\ r.action \in Events(w)
    BY <1>0, <1>G
  <2> QED
    BY <1>M, <2>1, <2>2
<1>T. ASSUME NEW e \in tick[w].todo, NEW pc \in Acting,
             tick' = [tick EXCEPT ![w].todo = @ \ {e}, ![w].action = e, ![w].pc = pc]
      PROVE  Good
  <2> DEFINE r == [tick[w] EXCEPT !.todo = @ \ {e}, !.action = e, !.pc = pc]
  <2>1. tick' = [tick EXCEPT ![w] = r]
    BY <1>0, <1>T
  <2>2. r \in TickState /\ r.todo \subseteq Events(w) /\ r.action \in Events(w)
    BY <1>0, <1>T
  <2> QED
    BY <1>M, <2>1, <2>2
<1>4. CASE Scan(w)
  <2>1. CASE tick' = [tick EXCEPT ![w] = Idle]
    BY <1>I, <1>M, <2>1
  <2>2. CASE /\ ~(w \in {"viz", "solana"} /\ tip[w] <= cursor[w])
             /\ tick' = [tick EXCEPT ![w].pc = "rows",
                                 ![w].todo = Window(w).rows,
                                 ![w].scannedTo = Window(w).to,
                                 ![w].drained = Window(w).drained]
    <3>1. w \in {"viz", "solana"} => tip[w] > cursor[w]
      BY <2>2 DEF Typed, TypeOK
    <3>2. Window(w).rows \subseteq Events(w) /\ Window(w).to \in Nat /\ Window(w).drained \in BOOLEAN
      BY <3>1, WindowIsWhole DEF Typed
    <3> DEFINE r == [tick[w] EXCEPT !.pc = "rows", !.todo = Window(w).rows,
                                    !.scannedTo = Window(w).to, !.drained = Window(w).drained]
    <3>3. tick' = [tick EXCEPT ![w] = r]
      BY <1>0, <2>2
    <3>4. r \in TickState /\ r.todo \subseteq Events(w) /\ r.pc \notin Acting
      BY <1>0, <3>2
    <3> QED
      BY <1>M, <3>3, <3>4
  <2> QED
    BY <1>4, <2>1, <2>2 DEF Scan
<1>U. ASSUME NEW e \in Event, tick' = [tick EXCEPT ![w].todo = @ \ {e}], tick[w].pc = "rows" PROVE Good
  BY <1>0, <1>U DEF Good
<1>5. ASSUME NEW e \in Event, TakeBurn(w, e) PROVE Good
  <2>1. e \in tick[w].todo /\ tick[w].pc = "rows"
    BY <1>5 DEF TakeBurn, NextUp
  <2>2. \/ \E pc \in {"classify", "reserve"} :
                tick' = [tick EXCEPT ![w].todo = @ \ {e}, ![w].action = e, ![w].pc = pc]
        \/ tick' = [tick EXCEPT ![w].todo = @ \ {e}]
    BY <1>5 DEF TakeBurn
  <2> QED
    BY <1>T, <1>U, <2>1, <2>2
<1>6. CASE w = "viz" /\ VizStep
  <2>1. CASE HoldRate
    BY <1>6, <1>R, <2>1 DEF HoldRate
  <2>2. CASE EnqueueDeposit
    BY <1>6, <1>G, <1>R, <2>2 DEF EnqueueDeposit
  <2>3. ASSUME NEW e \in Event, TakeUnusable(e) PROVE Good
    BY <1>6, <1>U, <2>3 DEF TakeUnusable, NextUp
  <2>4. ASSUME NEW e \in Event, TakeDeposit(e) PROVE Good
    <3>1. PICK pc \in {"overRate", "enqueue"} :
              tick' = [tick EXCEPT !["viz"].todo = @ \ {e}, !["viz"].action = e, !["viz"].pc = pc]
      BY <2>4 DEF TakeDeposit
    <3>2. e \in tick[w].todo
      BY <1>6, <2>4 DEF TakeDeposit, NextUp
    <3> QED
      BY <1>6, <1>T, <3>1, <3>2
  <2> QED
    BY <1>6, <2>1, <2>2, <2>3, <2>4 DEF VizStep
<1>7. CASE w = "gram" /\ Classify
  BY <1>7, <1>G, <1>R DEF Classify
<1>8. CASE Reserve(w)
  <2>1. PICK d \in {"ok", "OVER_PER_TX", "OVER_24H", "NEEDS_MANUAL_REVIEW"} :
            tick' = [tick EXCEPT ![w].pc = "settle", ![w].decision = d]
    BY <1>8 DEF Reserve
  <2> DEFINE r == [tick[w] EXCEPT !.pc = "settle", !.decision = d]
  <2>2. tick' = [tick EXCEPT ![w] = r]
    BY <1>0, <2>1
  <2>3. r \in TickState /\ r.todo \subseteq Events(w) /\ r.action \in Events(w)
    BY <1>0, <1>8 DEF Reserve
  <2> QED
    BY <1>M, <2>2, <2>3
<1>9. CASE Settle(w)
  BY <1>9, <1>G, <1>D DEF Settle
<1>10. CASE PauseNow(w)
  BY <1>10, <1>D DEF PauseNow
<1>11. CASE Advance(w)
  BY <1>0, <1>11 DEF Advance, Good
<1>12. CASE Truncated(w)
  <2>1. tick' = [tick EXCEPT ![w] = [Idle EXCEPT !.drained = FALSE]]
    BY <1>12 DEF Truncated
  <2>2. [Idle EXCEPT !.drained = FALSE].todo = {} /\ [Idle EXCEPT !.drained = FALSE].pc = "idle"
    BY DEF Idle
  <2> QED
    BY <1>I, <1>M, <2>1, <2>2
<1>13. CASE Save(w) \/ Fail(w) \/ Widen(w)
  <2>1. tick' = [tick EXCEPT ![w] = Idle]
    BY <1>13 DEF Save, Fail, Widen
  <2> QED
    BY <1>I, <1>M, <2>1
<1> QED
  BY <1>1, <1>2, <1>3, <1>4, <1>5, <1>6, <1>7, <1>8, <1>9, <1>10, <1>11, <1>12, <1>13 DEF Step

(* Likewise for its cursors.                                               *)
LEMMA StepCursors ==
    ASSUME Typed, NEW w \in Watcher, Step(w) \/ Fail(w) \/ Widen(w)
    PROVE  /\ saved' \in [Watcher -> Nat] /\ cursor' \in [Watcher -> Nat]
           /\ anchor' \in [Watcher -> Nat \cup {-1}]
           /\ \A v \in Watcher : v # w =>
                saved'[v] = saved[v] /\ cursor'[v] = cursor[v] /\ anchor'[v] = anchor[v]
<1>0. /\ saved \in [Watcher -> Nat] /\ cursor \in [Watcher -> Nat]
      /\ anchor \in [Watcher -> Nat \cup {-1}] /\ tip \in [Watcher -> Nat]
  BY DEF Typed, TypeOK
<1>1. CASE ColdStart(w)
  <2>1. coldStartAnchor(w) \in Nat
    BY <1>0 DEF coldStartAnchor
  <2> QED
    BY <1>0, <1>1, <2>1 DEF ColdStart
<1>2. CASE Advance(w)
  <2>1. tick[w].scannedTo \in Nat
    BY DEF Typed, TypeOK, TickState
  <2> QED
    BY <1>0, <1>2, <2>1 DEF Advance
<1>3. CASE Save(w)
  <2> DEFINE m == Max({saved[w], cursor[w]})
  <2>1. m \in {saved[w], cursor[w]}
    <3>1. {saved[w], cursor[w]} \in SUBSET Nat /\ saved[w] + cursor[w] \in Nat
          /\ \A n \in {saved[w], cursor[w]} : n <= saved[w] + cursor[w]
      BY <1>0
    <3> QED
      BY <3>1, MaxOfBounded
  <2>2. saved' = [saved EXCEPT ![w] = m]
    BY <1>0, <1>3 DEF Save
  <2> HIDE DEF m
  <2> QED
    BY <1>0, <1>3, <2>1, <2>2 DEF Save
<1>4. CASE Fail(w) \/ Widen(w)
  BY <1>0, <1>4 DEF Fail, Widen
<1>5. CASE UNCHANGED cursors
  BY <1>0, <1>5 DEF cursors
<1>6. ASSUME Step(w) PROVE ColdStart(w) \/ Advance(w) \/ Save(w) \/ UNCHANGED cursors
  BY <1>6 DEF Step, VizStep, Tick, Recover, Scan, TakeBurn, HoldRate, EnqueueDeposit, TakeUnusable,
     TakeDeposit, Classify, Reserve, Settle, PauseNow, Truncated
<1> QED
  BY <1>1, <1>2, <1>3, <1>4, <1>5, <1>6

(* The chain, the clocks and the operators.                                *)
LEMMA TypedPreserved ==
    ASSUME Typed, [Next]_vars
    PROVE  Typed'
<1> USE DEF Typed
<1>Q. UNCHANGED <<at, tip, tick>> => Placed' /\ \A w \in Watcher : OwnEvents(w)'
  BY DEF Placed, OwnEvents, Events
<1>1. ASSUME NEW w \in Watcher, Step(w) \/ Fail(w) \/ Widen(w) PROVE Typed'
  <2>1. TypeOK'
    BY <1>1, StepShared, StepLoop, StepCursors DEF TypeOK, chain
  <2>2. Placed'
    BY <1>1, StepShared DEF Placed, chain
  <2>3. \A v \in Watcher : OwnEvents(v)'
    BY <1>1, StepLoop DEF OwnEvents, Events
  <2> QED
    BY <2>1, <2>2, <2>3
<1>2. ASSUME NEW w \in Watcher, Happen(w) PROVE Typed'
  <2>1. PICK S \in SUBSET {e \in Events(w) : at[e] = 0} :
          /\ tip' = [tip EXCEPT ![w] = @ + (IF w = "gram" THEN Lt ELSE 1)]
          /\ at' = [e \in Event |-> IF e \in S THEN tip'[w] ELSE at[e]]
    BY <1>2 DEF Happen
  <2>2. at \in [Event -> Nat] /\ tip \in [Watcher -> Nat] /\ Home \in [Event -> Watcher]
    BY IntakeAssumption DEF TypeOK
  <2>3. tip' \in [Watcher -> Nat] /\ \A v \in Watcher : tip[v] <= tip'[v]
    BY <2>1, <2>2 DEF Lt
  <2>4. at' \in [Event -> Nat]
    BY <2>1, <2>2, <2>3
  <2>5. Placed'
    <3> SUFFICES ASSUME NEW e \in Event PROVE at'[e] <= tip'[Home[e]]
      BY DEF Placed
    <3>1. CASE e \in S
      BY <2>1, <2>2, <2>3, <3>1 DEF Events
    <3>2. CASE e \notin S
      <4>1. at'[e] = at[e] /\ at[e] <= tip[Home[e]]
        BY <2>1, <3>2 DEF Placed
      <4> QED
        BY <2>2, <2>3, <4>1
    <3> QED
      BY <3>1, <3>2
  <2>6. UNCHANGED <<outbox, windows, paused, cursors, tick, limit, faults>>
    BY <1>2 DEF Happen
  <2> QED
    BY <2>3, <2>4, <2>5, <2>6 DEF TypeOK, OwnEvents, Events, outbox, windows, cursors
<1>3. ASSUME NEW e \in Event, GrowStale(e) PROVE Typed'
  <2>1. UNCHANGED <<at, tip, row, windows, paused, cursors, tick, limit, faults>> /\ stale' = stale \cup {e}
    BY <1>3 DEF GrowStale, chain
  <2> QED
    BY <1>Q, <2>1 DEF TypeOK, windows, cursors
<1>4. CASE DayPasses
  <2>1. capWin' \in Seq(Event) /\ spent' \subseteq Event
    BY <1>4 DEF DayPasses, TypeOK
  <2>2. UNCHANGED <<at, tip, outbox, rateWin, paused, cursors, tick, limit, faults>> /\ expiries' = expiries + 1
    BY <1>4 DEF DayPasses, chain
  <2> QED
    BY <1>Q, <2>1, <2>2 DEF TypeOK, outbox, cursors
<1>5. CASE RateWindowPasses
  <2>1. rateWin' \in Seq(Event)
    BY <1>5 DEF RateWindowPasses, TypeOK
  <2>2. UNCHANGED <<at, tip, outbox, capWin, spent, paused, cursors, tick, limit, faults>> /\ expiries' = expiries + 1
    BY <1>5 DEF RateWindowPasses, chain
  <2> QED
    BY <1>Q, <2>1, <2>2 DEF TypeOK, outbox, cursors
<1>6. CASE Unpause
  <2>1. UNCHANGED <<at, tip, outbox, windows, cursors, tick, limit, faults>> /\ paused' \in BOOLEAN
    BY <1>6 DEF Unpause, chain
  <2> QED
    BY <1>Q, <2>1 DEF TypeOK, outbox, windows, cursors
<1>7. CASE UNCHANGED vars
  BY <1>7 DEF vars, TypeOK, Placed, OwnEvents, Events, chain, outbox, windows, cursors
<1> QED
  BY <1>1, <1>2, <1>3, <1>4, <1>5, <1>6, <1>7 DEF Next

(* The initial state.                                                      *)
LEMMA InitTyped ==
    ASSUME Init
    PROVE  Typed
<1>1. Idle \in TickState /\ Idle.todo = {} /\ Idle.pc = "idle" /\ NoRow \in Row
  BY DEF Idle, TickState, NoRow, Row
<1>2. TypeOK
  <2>1. tip \in [Watcher -> Nat]
    BY IntakeAssumption DEF Init, Lt
  <2>2. anchor \in [Watcher -> Nat \cup {-1}] /\ limit \in [Watcher -> Nat]
    BY IntakeAssumption DEF Init
  <2>3. at \in [Event -> Nat] /\ row \in [Event -> Row] /\ tick \in [Watcher -> TickState]
    BY <1>1 DEF Init
  <2>4. capWin \in Seq(Event) /\ rateWin \in Seq(Event)
    BY DEF Init
  <2> QED
    BY <2>1, <2>2, <2>3, <2>4 DEF Init, TypeOK
<1>3. Placed
  BY IntakeAssumption DEF Init, Placed, Lt
<1>4. \A w \in Watcher : OwnEvents(w)
  BY <1>1 DEF Init, OwnEvents, Acting
<1> QED
  BY <1>2, <1>3, <1>4 DEF Typed

(* Every state of the watchers is of its declared form, for any chains,    *)
(* limits and numbers of watchers: a scan always yields a cursor and a     *)
(* decision always has an event to decide.                                 *)
THEOREM TypeCorrect == Spec => []TypeOK
<1>1. Init => Typed
  BY InitTyped
<1>2. Typed /\ [Next]_vars => Typed'
  BY TypedPreserved
<1>3. Typed => TypeOK
  BY DEF Typed
<1> QED
  BY <1>1, <1>2, <1>3, PTL DEF Spec

-----------------------------------------------------------------------------
(* Nothing is skipped.                                                     *)

(* A row that exists is never deleted.                                     *)
LEMMA RowsStay ==
    ASSUME Typed, [Next]_vars, NEW e \in Event, row[e].status # "none"
    PROVE  row'[e].status # "none"
<1>0. row \in [Event -> Row]
  BY DEF Typed, TypeOK
<1>1. ASSUME NEW d, NEW s, NEW err, s # "none", enqueue(d, s, err) PROVE row'[e].status # "none"
  BY <1>0, <1>1 DEF enqueue, First
<1>2. ASSUME NEW w \in Watcher, Settle(w) PROVE row'[e].status # "none"
  BY <1>0, <1>2 DEF Settle
<1>3. CASE Classify
  BY <1>0, <1>3 DEF Classify
<1>4. CASE UNCHANGED row
  BY <1>4
<1>5. ASSUME NEW w \in Watcher, Step(w), ~Settle(w), ~Classify
      PROVE  UNCHANGED row \/ \E d, err : \E s \in {"SEEN", "HELD"} : enqueue(d, s, err)
  BY <1>5 DEF Step, VizStep, Tick, Recover, ColdStart, Scan, TakeBurn, HoldRate, EnqueueDeposit,
     TakeUnusable, TakeDeposit, Reserve, PauseNow, Advance, Truncated, Save, outbox
<1>6. ASSUME \A w \in Watcher : ~Step(w) PROVE UNCHANGED row
  BY <1>6 DEF Next, vars, outbox, Happen, Fail, Widen, GrowStale, DayPasses, RateWindowPasses, Unpause
<1> QED
  BY <1>1, <1>2, <1>3, <1>4, <1>5, <1>6

(* A step in the middle of a window: the window stays what it is, and      *)
(* nothing falls out of it.                                                *)
Within(w) ==
    /\ tick[w].pc \in Working /\ tick'[w].pc \in Working /\ UNCHANGED cursors
    /\ tick'[w].recovering = tick[w].recovering
    /\ tick'[w].scannedTo = tick[w].scannedTo /\ tick'[w].drained = tick[w].drained
    /\ \A e \in Events(w) : Accounted(w, e) => Accounted(w, e)'

(* The steps of a watcher's loop.                                          *)
LEMMA StepKinds ==
    ASSUME Typed, NEW w \in Watcher, Step(w)
    PROVE  \/ Tick(w) \/ Recover(w) \/ ColdStart(w) \/ Scan(w) \/ Advance(w) \/ Truncated(w) \/ Save(w)
           \/ Within(w)
<1>0. tick \in [Watcher -> TickState] /\ row \in [Event -> Row] /\ Events(w) \subseteq Event
  BY DEF Typed, TypeOK, Events
<1>S. \A e \in Event : row[e].status # "none" => row'[e].status # "none"
  BY RowsStay DEF Next
<1> DEFINE R == tick[w]
           T == tick'[w]
           Same == T.recovering = R.recovering /\ T.scannedTo = R.scannedTo /\ T.drained = R.drained
<1>1. ASSUME NEW e \in Event, TakeBurn(w, e) PROVE Within(w)
  <2>1. R.pc = "rows" /\ UNCHANGED cursors /\ e \in R.todo /\ enqueue(e, "SEEN", "none")
    BY <1>1 DEF TakeBurn, NextUp
  <2>2. row'[e].status # "none"
    BY <1>0, <2>1 DEF enqueue, First
  <2>3. T.pc \in {"rows", "classify", "reserve"} /\ Same /\ T.todo = R.todo \ {e}
    BY <1>0, <1>1 DEF TakeBurn, NextUp
  <2>4. ASSUME NEW d \in Events(w), Accounted(w, d) PROVE Accounted(w, d)'
    BY <1>0, <1>S, <2>1, <2>2, <2>3, <2>4 DEF Accounted
  <2> QED
    BY <2>1, <2>3, <2>4 DEF Within, Working, Acting
<1>2. CASE w = "viz" /\ HoldRate
  <2>1. R.pc = "overRate" /\ UNCHANGED cursors /\ enqueue(R.action, "HELD", "RATE_LIMITED")
    BY <1>2 DEF HoldRate
  <2>2. R.action \in Event
    BY <2>1 DEF Typed, OwnEvents, Acting, Events
  <2>3. row'[R.action].status # "none"
    BY <1>0, <2>1, <2>2 DEF enqueue, First
  <2>4. T.pc = "rows" /\ Same /\ T.todo = R.todo
    BY <1>0, <1>2 DEF HoldRate
  <2>5. ASSUME NEW d \in Events(w), Accounted(w, d) PROVE Accounted(w, d)'
    BY <1>0, <1>S, <2>1, <2>3, <2>4, <2>5 DEF Accounted
  <2> QED
    BY <2>1, <2>4, <2>5 DEF Within, Working, Acting
<1>3. CASE w = "viz" /\ EnqueueDeposit
  <2>1. R.pc = "enqueue" /\ UNCHANGED cursors /\ enqueue(R.action, "SEEN", "none")
    BY <1>3 DEF EnqueueDeposit
  <2>2. R.action \in Event
    BY <2>1 DEF Typed, OwnEvents, Acting, Events
  <2>3. row'[R.action].status # "none"
    BY <1>0, <2>1, <2>2 DEF enqueue, First
  <2>4. T.pc \in {"rows", "reserve"} /\ Same /\ T.todo = R.todo
    BY <1>0, <1>3 DEF EnqueueDeposit
  <2>5. ASSUME NEW d \in Events(w), Accounted(w, d) PROVE Accounted(w, d)'
    BY <1>0, <1>S, <2>1, <2>3, <2>4, <2>5 DEF Accounted
  <2> QED
    BY <2>1, <2>4, <2>5 DEF Within, Working, Acting
<1>4. ASSUME NEW e \in Event, w = "viz", TakeUnusable(e) PROVE Within(w)
  <2>1. R.pc = "rows" /\ UNCHANGED cursors /\ enqueue(e, "HELD", "INVALID_DESTINATION")
    BY <1>4 DEF TakeUnusable, NextUp
  <2>2. row'[e].status # "none"
    BY <1>0, <2>1 DEF enqueue, First
  <2>3. T.pc = "rows" /\ Same /\ T.todo = R.todo \ {e}
    BY <1>0, <1>4, <2>1 DEF TakeUnusable
  <2>4. ASSUME NEW d \in Events(w), Accounted(w, d) PROVE Accounted(w, d)'
    BY <1>0, <1>S, <2>1, <2>2, <2>3, <2>4 DEF Accounted
  <2> QED
    BY <2>1, <2>3, <2>4 DEF Within, Working, Acting
<1>5. ASSUME NEW e \in Event, w = "viz", TakeDeposit(e) PROVE Within(w)
  <2>1. R.pc = "rows" /\ UNCHANGED cursors
    BY <1>5 DEF TakeDeposit, NextUp
  <2>2. T.pc \in {"overRate", "enqueue"} /\ T.action = e /\ Same /\ T.todo = R.todo \ {e}
    BY <1>0, <1>5 DEF TakeDeposit
  <2>3. ASSUME NEW d \in Events(w), Accounted(w, d) PROVE Accounted(w, d)'
    BY <1>0, <1>S, <2>1, <2>2, <2>3 DEF Accounted
  <2> QED
    BY <2>1, <2>2, <2>3 DEF Within, Working, Acting
<1>6. CASE w = "gram" /\ Classify
  <2>1. R.pc = "classify" /\ UNCHANGED cursors
    BY <1>6 DEF Classify
  <2>2. T.pc \in {"reserve", "rows"} /\ Same /\ T.todo = R.todo
    <3>1. \/ tick' = [tick EXCEPT !["gram"].pc = "reserve"]
          \/ tick' = [tick EXCEPT !["gram"].pc = "rows", !["gram"].action = None]
      BY <1>6 DEF Classify
    <3>2. CASE tick' = [tick EXCEPT !["gram"].pc = "reserve"]
      BY <1>0, <1>6, <3>2
    <3>3. CASE tick' = [tick EXCEPT !["gram"].pc = "rows", !["gram"].action = None]
      BY <1>0, <1>6, <3>3
    <3> QED
      BY <3>1, <3>2, <3>3
  <2>3. ASSUME NEW d \in Events(w), Accounted(w, d) PROVE Accounted(w, d)'
    BY <1>0, <1>S, <2>1, <2>2, <2>3 DEF Accounted
  <2> QED
    BY <2>1, <2>2, <2>3 DEF Within, Working, Acting
<1>7. CASE Reserve(w) \/ Settle(w) \/ PauseNow(w)
  <2>1. R.pc \in {"reserve", "settle", "pause"} /\ UNCHANGED cursors
    BY <1>7 DEF Reserve, Settle, PauseNow
  <2>2. T.pc \in {"settle", "pause", "rows"} /\ Same /\ T.todo = R.todo
    <3>1. CASE Reserve(w)
      <4>1. PICK d : tick' = [tick EXCEPT ![w].pc = "settle", ![w].decision = d]
        BY <3>1 DEF Reserve
      <4> QED
        BY <1>0, <4>1
    <3>2. CASE Settle(w)
      BY <1>0, <3>2 DEF Settle
    <3>3. CASE PauseNow(w)
      BY <1>0, <3>3 DEF PauseNow
    <3> QED
      BY <1>7, <3>1, <3>2, <3>3
  <2>3. ASSUME NEW d \in Events(w), Accounted(w, d) PROVE Accounted(w, d)'
    BY <1>0, <1>S, <2>1, <2>2, <2>3 DEF Accounted
  <2> QED
    BY <2>1, <2>2, <2>3 DEF Within, Working, Acting
<1> QED
  BY <1>1, <1>2, <1>3, <1>4, <1>5, <1>6, <1>7 DEF Step, VizStep

(* A watcher's own step.                                                   *)
LEMMA ScanStep ==
    ASSUME ScanInv, NEW w \in Watcher, Step(w)
    PROVE  CursorsPlaced(w)' /\ Written(w)' /\ Spanned(w)'
<1>0. /\ tick \in [Watcher -> TickState] /\ Events(w) \subseteq Event
      /\ at \in [Event -> Nat] /\ tip[w] \in Nat /\ saved[w] \in Nat /\ cursor[w] \in Nat
      /\ anchor[w] \in Nat \cup {-1} /\ tick[w].scannedTo \in Nat
      /\ cursor \in [Watcher -> Nat] /\ saved \in [Watcher -> Nat] /\ anchor \in [Watcher -> Nat \cup {-1}]
  BY DEF ScanInv, Typed, TypeOK, Events, TickState
<1>1. /\ CursorsPlaced(w) /\ Written(w) /\ Spanned(w)
      /\ at' = at /\ tip' = tip
      /\ \A e \in Events(w) : row[e].status # "none" => row'[e].status # "none"
  BY <1>0, StepShared, RowsStay DEF ScanInv, chain, Next
<1>2. ASSUME UNCHANGED cursors, tick'[w].pc # "save" PROVE CursorsPlaced(w)' /\ Written(w)'
  <2>1. CursorsPlaced(w)'
    BY <1>1, <1>2 DEF CursorsPlaced, cursors
  <2>2. Written(w)'
    BY <1>1, <1>2 DEF Written, cursors, Events
  <2> QED
    BY <2>1, <2>2
<1>3. ASSUME tick'[w].pc \notin Working \/ tick'[w].recovering PROVE Spanned(w)'
  BY <1>3 DEF Spanned
<1>4. CASE Tick(w)
  <2>1. PICK left \in SUBSET Events(w) :
            tick' = [tick EXCEPT ![w].pc = IF left = {} THEN "scan" ELSE "rows",
                                 ![w].recovering = left # {}, ![w].todo = left]
    BY <1>4 DEF Tick
  <2>2. tick'[w].pc = "scan" \/ (tick'[w].pc = "rows" /\ tick'[w].recovering)
    <3>1. CASE left = {}
      <4>1. tick' = [tick EXCEPT ![w].pc = "scan", ![w].recovering = FALSE, ![w].todo = left]
        BY <2>1, <3>1
      <4> QED
        BY <1>0, <4>1
    <3>2. CASE left # {}
      <4>1. tick' = [tick EXCEPT ![w].pc = "rows", ![w].recovering = TRUE, ![w].todo = left]
        BY <2>1, <3>2
      <4>2. tick'[w].pc = "rows" /\ tick'[w].recovering = TRUE
        BY <1>0, <4>1
      <4> QED
        BY <4>2
    <3> QED
      BY <3>1, <3>2
  <2>3. UNCHANGED cursors
    BY <1>4 DEF Tick
  <2> QED
    BY <1>2, <1>3, <2>2, <2>3 DEF Working, Acting
<1>5. CASE Recover(w)
  <2>1. tick[w].recovering /\ UNCHANGED cursors
    BY <1>5 DEF Recover
  <2>2. tick'[w].pc = "scan" \/ (tick'[w].pc = "reserve" /\ tick'[w].recovering = tick[w].recovering)
    <3>1. ASSUME NEW e, tick' = [tick EXCEPT ![w].todo = @ \ {e}, ![w].action = e, ![w].pc = "reserve"]
          PROVE  tick'[w].pc = "reserve" /\ tick'[w].recovering = tick[w].recovering
      BY <1>0, <3>1
    <3>2. ASSUME tick' = [tick EXCEPT ![w].recovering = FALSE, ![w].pc = "scan"]
          PROVE  tick'[w].pc = "scan"
      BY <1>0, <3>2
    <3> QED
      BY <1>5, <3>1, <3>2 DEF Recover
  <2> QED
    BY <1>2, <1>3, <2>1, <2>2 DEF Working, Acting
<1>6. CASE ColdStart(w)
  <2>1. cursor[w] = 0 /\ cursor'[w] = coldStartAnchor(w) /\ tick'[w].pc = "save" /\ UNCHANGED <<saved, anchor>>
    BY <1>0, <1>6 DEF ColdStart
  <2>2. saved[w] = 0 /\ ~(anchor[w] >= 0)
    BY <1>0, <1>1, <2>1 DEF CursorsPlaced
  <2>3. 0 < cursor'[w] /\ cursor'[w] <= tip[w]
    <3>1. 0 < tip[w] /\ (w = "gram" => 1 < tip[w])
      BY <1>1 DEF CursorsPlaced
    <3>2. CASE w = "gram"
      <4>1. coldStartAnchor(w) = tip[w] - 1
        BY <1>0, <3>1, <3>2 DEF coldStartAnchor
      <4> QED
        BY <1>0, <2>1, <3>1, <3>2, <4>1
    <3>3. CASE w # "gram"
      <4>1. coldStartAnchor(w) = tip[w]
        BY <3>3 DEF coldStartAnchor
      <4> QED
        BY <1>0, <2>1, <3>1, <4>1
    <3> QED
      BY <3>2, <3>3
  <2>4. CursorsPlaced(w)'
    <3>1. tip'[w] = tip[w] /\ 0 < tip[w] /\ (w = "gram" => 1 < tip[w])
      BY <1>1 DEF CursorsPlaced
    <3>0. cursor'[w] \in Nat
      BY StepCursors DEF ScanInv
    <3>2. saved'[w] = 0 /\ ~(anchor'[w] >= 0) /\ saved'[w] <= cursor'[w]
      BY <2>1, <2>2, <2>3, <3>0
    <3> QED
      BY <2>3, <3>1, <3>2 DEF CursorsPlaced
  <2>5. Written(w)'
    BY <2>1, <2>2 DEF Written
  <2>6. Spanned(w)'
    BY <1>3, <2>1 DEF Working, Acting
  <2> QED
    BY <2>4, <2>5, <2>6
<1>7. CASE Scan(w)
  <2>0. cursor[w] # 0 /\ UNCHANGED cursors
    BY <1>7 DEF Scan
  <2>1. CASE tick' = [tick EXCEPT ![w] = Idle]
    <3>1. tick'[w].pc = "idle"
      BY <1>0, <2>1 DEF Idle
    <3> QED
      BY <1>2, <1>3, <2>0, <3>1 DEF Working, Acting
  <2>2. CASE /\ ~(w \in {"viz", "solana"} /\ tip[w] <= cursor[w])
             /\ tick' = [tick EXCEPT ![w].pc = "rows",
                                 ![w].todo = Window(w).rows,
                                 ![w].scannedTo = Window(w).to,
                                 ![w].drained = Window(w).drained]
    <3>1. w \in {"viz", "solana"} => tip[w] > cursor[w]
      BY <1>0, <2>2
    <3>2. cursor[w] <= tip[w]
      BY <1>1 DEF CursorsPlaced
    <3>3. /\ cursor[w] <= Window(w).to /\ Window(w).to <= tip[w]
          /\ Window(w).drained =>
                \A e \in Events(w) : cursor[w] < at[e] /\ at[e] <= Window(w).to => e \in Window(w).rows
      BY <3>1, <3>2, WindowIsWhole DEF ScanInv, Typed
    <3>4. tick'[w].pc = "rows" /\ tick'[w].todo = Window(w).rows
          /\ tick'[w].scannedTo = Window(w).to /\ tick'[w].drained = Window(w).drained
      BY <1>0, <2>2
    <3>5. cursor' = cursor
      BY <2>0 DEF cursors
    <3>6. Spanned(w)'
      <4>1. 0 < cursor'[w] /\ cursor'[w] <= tick'[w].scannedTo /\ tick'[w].scannedTo <= tip'[w]
        BY <1>0, <1>1, <2>0, <3>3, <3>4, <3>5
      <4>2. ASSUME tick'[w].drained, NEW e \in Events(w), cursor'[w] < at'[e], at'[e] <= tick'[w].scannedTo
            PROVE  e \in tick'[w].todo
        BY <1>1, <3>3, <3>4, <3>5, <4>2
      <4> QED
        BY <4>1, <4>2 DEF Spanned, Accounted, Events
    <3> QED
      BY <1>2, <2>0, <3>4, <3>6
  <2> QED
    BY <1>7, <2>1, <2>2 DEF Scan
<1>8. CASE Advance(w)
  <2>1. /\ tick[w].pc = "rows" /\ ~tick[w].recovering /\ tick[w].todo = {} /\ tick[w].drained
        /\ cursor'[w] = tick[w].scannedTo /\ UNCHANGED <<saved, anchor>>
        /\ tick'[w].pc = "save"
    BY <1>0, <1>8 DEF Advance
  <2>2. /\ 0 < cursor[w] /\ cursor[w] <= tick[w].scannedTo /\ tick[w].scannedTo <= tip[w]
        /\ \A e \in Events(w) : cursor[w] < at[e] /\ at[e] <= tick[w].scannedTo => row[e].status # "none"
    BY <1>1, <2>1 DEF Spanned, Accounted, Working
  <2>3. CursorsPlaced(w)'
    BY <1>0, <1>1, <2>1, <2>2 DEF CursorsPlaced
  <2>4. Written(w)'
    <3> SUFFICES ASSUME anchor[w] >= 0, NEW e \in Events(w), anchor[w] < at[e], at[e] <= tick[w].scannedTo
                 PROVE  row'[e].status # "none"
      BY <1>1, <2>1 DEF Written, Events
    <3>1. CASE at[e] <= cursor[w]
      BY <1>1, <3>1 DEF Written
    <3>2. CASE cursor[w] < at[e]
      BY <1>1, <2>2, <3>2
    <3> QED
      BY <1>0, <3>1, <3>2
  <2>5. Spanned(w)'
    BY <1>3, <2>1 DEF Working, Acting
  <2> QED
    BY <2>3, <2>4, <2>5
<1>9. CASE Truncated(w)
  <2>1. tick'[w].pc = "idle" /\ UNCHANGED cursors
    BY <1>0, <1>9 DEF Truncated, Idle
  <2> QED
    BY <1>2, <1>3, <2>1 DEF Working, Acting
<1>10. CASE Save(w)
  <2>1. tick[w].pc = "save" /\ cursor' = cursor /\ tick'[w].pc = "idle"
    BY <1>0, <1>10 DEF Save, Idle
  <2>2. 0 < cursor[w] /\ saved[w] <= cursor[w] /\ cursor[w] <= tip[w]
    BY <1>1, <2>1 DEF CursorsPlaced
  <2>3. saved'[w] = cursor[w]
    <3>1. {saved[w], cursor[w]} \in SUBSET Nat /\ {saved[w], cursor[w]} # {}
          /\ \A n \in {saved[w], cursor[w]} : n <= cursor[w]
      BY <1>0, <2>2
    <3>2. /\ Max({saved[w], cursor[w]}) \in {saved[w], cursor[w]}
          /\ cursor[w] <= Max({saved[w], cursor[w]})
      BY <1>0, <3>1, MaxOfBounded
    <3>3. saved'[w] = Max({saved[w], cursor[w]})
      BY <1>0, <1>10 DEF Save
    <3> QED
      BY <1>0, <2>2, <3>2, <3>3
  <2>4. anchor'[w] = IF anchor[w] < 0 THEN cursor[w] ELSE anchor[w]
    BY <1>0, <1>10 DEF Save
  <2>5. CursorsPlaced(w)'
    BY <1>0, <1>1, <2>1, <2>2, <2>3 DEF CursorsPlaced
  <2>6. Written(w)'
    <3> SUFFICES ASSUME NEW e \in Events(w), anchor'[w] < at[e], at[e] <= cursor[w]
                 PROVE  row'[e].status # "none"
      BY <1>1, <2>1 DEF Written, Events
    <3>1. ~(anchor[w] < 0)
      BY <1>0, <2>4
    <3> QED
      BY <1>0, <1>1, <2>4, <3>1 DEF Written
  <2>7. Spanned(w)'
    BY <1>3, <2>1 DEF Working, Acting
  <2> QED
    BY <2>5, <2>6, <2>7
<1>11. CASE Within(w)
  <2>1. cursor' = cursor /\ UNCHANGED cursors /\ tick'[w].pc # "save"
    BY <1>11 DEF Within, cursors, Working, Acting
  <2>2. Spanned(w)'
    <3> SUFFICES ASSUME ~tick[w].recovering PROVE Spanned(w)'
      BY <1>11 DEF Within, Spanned
    <3>1. /\ 0 < cursor[w] /\ cursor[w] <= tick[w].scannedTo /\ tick[w].scannedTo <= tip[w]
          /\ tick[w].drained =>
               \A e \in Events(w) : cursor[w] < at[e] /\ at[e] <= tick[w].scannedTo => Accounted(w, e)
      BY <1>1, <1>11 DEF Spanned, Within
    <3>2. /\ tick'[w].scannedTo = tick[w].scannedTo /\ tick'[w].drained = tick[w].drained
          /\ \A e \in Events(w) : Accounted(w, e) => Accounted(w, e)'
      BY <1>11 DEF Within
    <3>3. Events(w)' = Events(w)
      BY DEF Events
    <3> QED
      BY <1>1, <2>1, <3>1, <3>2, <3>3 DEF Spanned
  <2> QED
    BY <1>2, <2>1, <2>2
<1> QED
  BY <1>4, <1>5, <1>6, <1>7, <1>8, <1>9, <1>10, <1>11, StepKinds DEF ScanInv

(* Every step.                                                             *)
LEMMA ScanInvPreserved ==
    ASSUME ScanInv, [Next]_vars
    PROVE  ScanInv'
<1>0. /\ Typed /\ Typed'
      /\ \A w \in Watcher : CursorsPlaced(w) /\ Written(w) /\ Spanned(w)
      /\ \A e \in Event : row[e].status # "none" => row'[e].status # "none"
      /\ Home \in [Event -> Watcher]
  BY TypedPreserved, RowsStay, IntakeAssumption DEF ScanInv
<1> SUFFICES \A v \in Watcher : CursorsPlaced(v)' /\ Written(v)' /\ Spanned(v)'
  BY <1>0 DEF ScanInv
<1>1. ASSUME NEW v \in Watcher, UNCHANGED chain, tick'[v] = tick[v], saved'[v] = saved[v],
             cursor'[v] = cursor[v], anchor'[v] = anchor[v]
      PROVE  CursorsPlaced(v)' /\ Written(v)' /\ Spanned(v)'
  <2>1. at' = at /\ tip' = tip /\ Events(v)' = Events(v) /\ Events(v) \subseteq Event
    BY <1>1 DEF chain, Events
  <2>2. CursorsPlaced(v)'
    BY <1>0, <1>1, <2>1 DEF CursorsPlaced
  <2>3. Written(v)'
    BY <1>0, <1>1, <2>1 DEF Written
  <2>4. \A e \in Events(v) : Accounted(v, e) => Accounted(v, e)'
    BY <1>0, <1>1, <2>1 DEF Accounted
  <2>5. Spanned(v)'
    BY <1>0, <1>1, <2>1, <2>4 DEF Spanned
  <2> QED
    BY <2>2, <2>3, <2>5
<1>2. ASSUME NEW w \in Watcher, Step(w) PROVE \A v \in Watcher : CursorsPlaced(v)' /\ Written(v)' /\ Spanned(v)'
  <2> SUFFICES ASSUME NEW v \in Watcher PROVE CursorsPlaced(v)' /\ Written(v)' /\ Spanned(v)'
    OBVIOUS
  <2>1. CASE v = w
    BY <1>2, <2>1, ScanStep
  <2>2. CASE v # w
    BY <1>0, <1>1, <1>2, <2>2, StepShared, StepLoop, StepCursors
  <2> QED
    BY <2>1, <2>2
<1>3. ASSUME NEW w \in Watcher, Fail(w) \/ Widen(w)
      PROVE  \A v \in Watcher : CursorsPlaced(v)' /\ Written(v)' /\ Spanned(v)'
  <2> SUFFICES ASSUME NEW v \in Watcher PROVE CursorsPlaced(v)' /\ Written(v)' /\ Spanned(v)'
    OBVIOUS
  <2>1. CASE v = w
    <3>0. /\ saved[w] \in Nat /\ cursor[w] \in Nat /\ tip[w] \in Nat /\ at \in [Event -> Nat]
          /\ cursor \in [Watcher -> Nat] /\ tick \in [Watcher -> TickState]
          /\ anchor[w] \in Nat \cup {-1}
      BY <1>0 DEF Typed, TypeOK
    <3>1. /\ at' = at /\ tip' = tip /\ saved' = saved /\ anchor' = anchor /\ row' = row
          /\ cursor'[w] \in {cursor[w], saved[w]} /\ tick'[w].pc = "idle"
      BY <1>3, <3>0 DEF Fail, Widen, chain, outbox, Idle
    <3>2. CursorsPlaced(w)'
      BY <1>0, <3>0, <3>1 DEF CursorsPlaced
    <3>3. cursor'[w] <= cursor[w]
      BY <1>0, <3>0, <3>1 DEF CursorsPlaced
    <3>4. Written(w)'
      <4> SUFFICES ASSUME anchor[w] >= 0, NEW e \in Events(w), anchor[w] < at[e], at[e] <= cursor'[w]
                   PROVE  row[e].status # "none"
        BY <3>1 DEF Written, Events
      <4>1. at[e] \in Nat /\ cursor'[w] \in Nat
        BY <3>0, <3>1 DEF Events
      <4>2. at[e] <= cursor[w]
        BY <3>0, <3>3, <4>1
      <4> QED
        BY <1>0, <4>2 DEF Written
    <3>5. Spanned(w)'
      BY <3>1 DEF Spanned, Working, Acting
    <3> QED
      BY <2>1, <3>2, <3>4, <3>5
  <2>2. CASE v # w
    BY <1>0, <1>1, <1>3, <2>2, StepShared, StepLoop, StepCursors
  <2> QED
    BY <2>1, <2>2
<1>4. ASSUME NEW w \in Watcher, Happen(w)
      PROVE  \A v \in Watcher : CursorsPlaced(v)' /\ Written(v)' /\ Spanned(v)'
  <2>1. PICK S \in SUBSET {e \in Events(w) : at[e] = 0} :
          /\ tip' = [tip EXCEPT ![w] = @ + (IF w = "gram" THEN Lt ELSE 1)]
          /\ at' = [e \in Event |-> IF e \in S THEN tip'[w] ELSE at[e]]
    BY <1>4 DEF Happen
  <2>2. at \in [Event -> Nat] /\ tip \in [Watcher -> Nat]
    BY <1>0 DEF Typed, TypeOK
  <2>3. tip'[w] \in Nat /\ tip'[w] > tip[w] /\ \A v \in Watcher : tip'[v] \in Nat /\ tip[v] <= tip'[v]
    BY <2>1, <2>2 DEF Lt
  <2>4. UNCHANGED <<row, cursors, tick>>
    BY <1>4 DEF Happen, outbox
  <2> SUFFICES ASSUME NEW v \in Watcher PROVE CursorsPlaced(v)' /\ Written(v)' /\ Spanned(v)'
    OBVIOUS
  <2>5. ASSUME NEW e \in Events(v), at'[e] <= tip[v] PROVE at'[e] = at[e]
    BY <2>1, <2>2, <2>3, <2>5 DEF Events
  <2>6. /\ saved[v] \in Nat /\ cursor[v] \in Nat /\ tick[v].scannedTo \in Nat
        /\ \A e \in Events(v) : at'[e] \in Nat
    <3>1. \A e \in Events(v) : e \in Event
      BY DEF Events
    <3> QED
      BY <1>0, <2>1, <2>2, <2>3, <3>1 DEF Typed, TypeOK, TickState
  <2>7. CursorsPlaced(v)'
    <3>1. saved' = saved /\ cursor' = cursor /\ anchor' = anchor /\ tick' = tick
      BY <2>4 DEF cursors
    <3>2. CursorsPlaced(v) /\ tip[v] \in Nat /\ tip'[v] \in Nat /\ tip[v] <= tip'[v]
      BY <1>0, <2>2, <2>3
    <3> QED
      BY <2>6, <3>1, <3>2 DEF CursorsPlaced
  <2>8. cursor[v] <= tip[v] /\ tip[v] \in Nat
    BY <1>0, <2>2 DEF CursorsPlaced
  <2>9. Written(v)'
    <3> SUFFICES ASSUME anchor[v] >= 0, NEW e \in Events(v), anchor[v] < at'[e], at'[e] <= cursor[v]
                 PROVE  row[e].status # "none"
      BY <2>4 DEF Written, Events, cursors
    <3>1. at'[e] = at[e]
      BY <2>5, <2>6, <2>8
    <3> QED
      BY <1>0, <3>1 DEF Written
  <2>10. Spanned(v)'
    <3> SUFFICES ASSUME tick[v].pc \in Working, ~tick[v].recovering PROVE Spanned(v)'
      BY <2>4 DEF Spanned
    <3>1. /\ 0 < cursor[v] /\ cursor[v] <= tick[v].scannedTo /\ tick[v].scannedTo <= tip[v]
          /\ tick[v].drained =>
               \A e \in Events(v) : cursor[v] < at[e] /\ at[e] <= tick[v].scannedTo => Accounted(v, e)
      BY <1>0 DEF Spanned
    <3>2. tick[v].scannedTo <= tip'[v]
      BY <2>3, <2>6, <2>8, <3>1
    <3>3. ASSUME tick[v].drained, NEW e \in Events(v), cursor[v] < at'[e], at'[e] <= tick[v].scannedTo
          PROVE  Accounted(v, e)'
      <4>1. at'[e] = at[e]
        BY <2>5, <2>6, <2>8, <3>1, <3>3
      <4>2. Accounted(v, e)
        BY <3>1, <3>3, <4>1
      <4> QED
        BY <2>4, <4>2 DEF Accounted
    <3> QED
      BY <2>4, <3>1, <3>2, <3>3 DEF Spanned, Events, cursors
  <2> QED
    BY <2>7, <2>9, <2>10
<1>5. CASE \/ \E e \in Event : GrowStale(e)
           \/ DayPasses \/ RateWindowPasses \/ Unpause \/ UNCHANGED vars
  <2>1. UNCHANGED <<chain, cursors, tick>>
    BY <1>5 DEF GrowStale, DayPasses, RateWindowPasses, Unpause, vars
  <2> QED
    BY <1>1, <2>1 DEF cursors
<1> QED
  BY <1>2, <1>3, <1>4, <1>5 DEF Next

(* Once the gram wallet has a transaction to start from, whatever crashes, *)
(* truncated scans, widened windows and replays there were, no event above *)
(* a watcher's first cursor and up to its durable one is without a row     *)
(* (viz-watcher, gram-watcher and solana-watcher index.ts).  With an empty *)
(* wallet this is false: the watcher starts over until it has a cursor.    *)
THEOREM NothingIsSkipped ==
    ASSUME EmptyWallet = FALSE
    PROVE  Spec => []NothingSkipped
<1>1. ASSUME Init PROVE ScanInv
  <2>1. Typed
    BY <1>1, InitTyped
  <2>2. ASSUME NEW w \in Watcher
        PROVE  saved[w] = 0 /\ cursor[w] = 0 /\ anchor[w] = -1 /\ tick[w].pc = "idle"
               /\ tip[w] = IF w = "gram" THEN 2 ELSE 1
    BY <1>1 DEF Init, Idle, Lt
  <2>3. \A w \in Watcher : CursorsPlaced(w) /\ Written(w) /\ Spanned(w)
    BY <2>2 DEF CursorsPlaced, Written, Spanned, Working, Acting
  <2> QED
    BY <2>1, <2>3 DEF ScanInv
<1>2. ScanInv /\ [Next]_vars => ScanInv'
  BY ScanInvPreserved
<1>3. ASSUME ScanInv PROVE NothingSkipped
  <2> SUFFICES ASSUME NEW e \in Event, 0 <= anchor[Home[e]], anchor[Home[e]] < at[e], at[e] <= saved[Home[e]]
               PROVE  row[e].status # "none"
    BY DEF NothingSkipped
  <2> DEFINE w == Home[e]
  <2>1. w \in Watcher /\ e \in Events(w)
    BY IntakeAssumption DEF Events
  <2> HIDE DEF w
  <2>2. saved[w] \in Nat /\ cursor[w] \in Nat /\ at[e] \in Nat /\ anchor[w] \in Int /\ saved[w] <= cursor[w] /\ Written(w)
    BY <1>3, <2>1 DEF ScanInv, CursorsPlaced, Typed, TypeOK
  <2>3. anchor[w] >= 0 /\ anchor[w] < at[e] /\ at[e] <= cursor[w]
    BY <2>2 DEF w
  <2> QED
    BY <2>1, <2>2, <2>3 DEF Written
<1> QED
  BY <1>1, <1>2, <1>3, PTL DEF Spec

-----------------------------------------------------------------------------
(* One decision per row.                                                   *)

(* A watcher writes the rows of its own events only.                       *)
LEMMA StepRows ==
    ASSUME Typed, NEW w \in Watcher, Step(w) \/ Fail(w) \/ Widen(w),
           NEW d \in Event, Home[d] # w
    PROVE  row'[d] = row[d] /\ (d \in stale' <=> d \in stale)
<1>0. /\ row \in [Event -> Row]
      /\ tick[w].todo \subseteq Events(w)
      /\ tick[w].pc \in Acting => tick[w].action \in Events(w)
      /\ d \notin Events(w)
  BY DEF Typed, TypeOK, OwnEvents, Events
<1>1. ASSUME NEW e \in Events(w), NEW s, NEW err, enqueue(e, s, err) PROVE row'[d] = row[d]
  BY <1>0, <1>1 DEF enqueue
<1>2. ASSUME NEW e \in Event, TakeBurn(w, e) PROVE row'[d] = row[d] /\ stale' = stale
  BY <1>0, <1>1, <1>2 DEF TakeBurn, NextUp
<1>3. CASE w = "viz" /\ VizStep
  <2>1. CASE HoldRate
    BY <1>0, <1>1, <1>3, <2>1 DEF HoldRate, Acting
  <2>2. CASE EnqueueDeposit
    BY <1>0, <1>1, <1>3, <2>2 DEF EnqueueDeposit, Acting
  <2>3. ASSUME NEW e \in Event, TakeUnusable(e) PROVE row'[d] = row[d] /\ stale' = stale
    BY <1>0, <1>1, <1>3, <2>3 DEF TakeUnusable, NextUp
  <2>4. ASSUME NEW e \in Event, TakeDeposit(e) PROVE row'[d] = row[d] /\ stale' = stale
    BY <2>4 DEF TakeDeposit, outbox
  <2> QED
    BY <1>3, <2>1, <2>2, <2>3, <2>4 DEF VizStep
<1>4. CASE w = "gram" /\ Classify
  BY <1>0, <1>4 DEF Classify, Acting
<1>5. CASE Settle(w)
  BY <1>0, <1>5 DEF Settle, Acting
<1>6. CASE \/ Tick(w) \/ Recover(w) \/ ColdStart(w) \/ Scan(w) \/ Reserve(w) \/ PauseNow(w)
           \/ Advance(w) \/ Truncated(w) \/ Save(w) \/ Fail(w) \/ Widen(w)
  BY <1>6 DEF Tick, Recover, ColdStart, Scan, Reserve, PauseNow, Advance, Truncated, Save, Fail, Widen, outbox
<1> QED
  BY <1>2, <1>3, <1>4, <1>5, <1>6 DEF Step

(* enqueue leaves the rows that exist as they are.                         *)
LEMMA EnqueueKeeps ==
    ASSUME row \in [Event -> Row], NEW e \in Event, NEW s, NEW err, enqueue(e, s, err)
    PROVE  /\ \A d \in Event : row[d].status # "none" => row'[d] = row[d]
           /\ First(e) => row'[e].status = s
  BY DEF enqueue, First

(* A watcher's own step keeps the row it decides on SEEN until it decides, *)
(* and the rows it has left to recover.                                    *)
LEMMA UndecidedStep ==
    ASSUME Typed, NEW w \in Watcher, Undecided(w), Step(w) \/ Fail(w) \/ Widen(w)
    PROVE  Undecided(w)'
<1>0. /\ tick \in [Watcher -> TickState] /\ row \in [Event -> Row] /\ Events(w) \subseteq Event
      /\ Events(w)' = Events(w) /\ None \notin Event
      /\ tick[w].todo \subseteq Events(w)
      /\ tick[w].pc \in Acting => tick[w].action \in Events(w)
  BY IntakeAssumption DEF Typed, TypeOK, OwnEvents, Events
<1>1. /\ \A e \in Events(w) : e \in stale => row[e].status = "SEEN"
      /\ tick[w].pc \in {"classify", "reserve", "settle"} => row[tick[w].action].status = "SEEN"
      /\ tick[w].pc = "classify" => tick[w].action \notin stale
      /\ tick[w].pc = "scan" => ~tick[w].recovering
      /\ tick[w].pc \in Working /\ tick[w].recovering => tick[w].todo \subseteq stale
      /\ tick[w].pc \in Acting /\ tick[w].recovering => tick[w].action \notin tick[w].todo
  BY DEF Undecided
<1> DEFINE R == tick[w]
           T == tick'[w]
<1>2. ASSUME UNCHANGED outbox, T.pc \in {"idle", "scan", "save"}, T.pc = "scan" => ~T.recovering
      PROVE  Undecided(w)'
  BY <1>0, <1>1, <1>2 DEF Undecided, outbox, Working, Acting
<1>3. CASE Tick(w)
  <2>1. UNCHANGED outbox
    BY <1>3 DEF Tick
  <2>2. PICK left \in SUBSET (Events(w) \cap stale) :
            tick' = [tick EXCEPT ![w].pc = IF left = {} THEN "scan" ELSE "rows",
                                 ![w].recovering = left # {}, ![w].todo = left]
    BY <1>3 DEF Tick
  <2>3. T.pc \in {"scan", "rows"} /\ T.todo = left /\ (T.pc = "scan" => ~T.recovering)
    <3>1. CASE left = {}
      <4>1. tick' = [tick EXCEPT ![w].pc = "scan", ![w].recovering = FALSE, ![w].todo = left]
        BY <2>2, <3>1
      <4>2. T.pc = "scan" /\ T.recovering = FALSE /\ T.todo = left
        BY <1>0, <4>1
      <4> QED
        BY <4>2
    <3>2. CASE left # {}
      <4>1. tick' = [tick EXCEPT ![w].pc = "rows", ![w].recovering = TRUE, ![w].todo = left]
        BY <2>2, <3>2
      <4> QED
        BY <1>0, <4>1
    <3> QED
      BY <3>1, <3>2
  <2> QED
    BY <1>0, <1>1, <2>1, <2>3 DEF Undecided, outbox, Working, Acting
<1>4. CASE Recover(w)
  <2>1. UNCHANGED outbox /\ R.pc = "rows" /\ R.recovering
    BY <1>4 DEF Recover
  <2>2. ASSUME NEW e \in R.todo, tick' = [tick EXCEPT ![w].todo = @ \ {e}, ![w].action = e, ![w].pc = "reserve"]
        PROVE  Undecided(w)'
    <3>1. T.todo = R.todo \ {e} /\ T.action = e /\ T.pc = "reserve"
      BY <1>0, <2>2
    <3>2. e \in stale /\ R.todo \subseteq stale /\ row[e].status = "SEEN"
      BY <1>0, <1>1, <2>1, <2>2 DEF Working
    <3> QED
      BY <1>0, <1>1, <2>1, <3>1, <3>2 DEF Undecided, outbox, Working, Acting
  <2>3. ASSUME tick' = [tick EXCEPT ![w].recovering = FALSE, ![w].pc = "scan"] PROVE Undecided(w)'
    <3>1. T.pc = "scan" /\ T.recovering = FALSE
      BY <1>0, <2>3
    <3> QED
      BY <1>2, <2>1, <3>1
  <2> QED
    BY <1>4, <2>2, <2>3 DEF Recover
<1>5. CASE ColdStart(w) \/ Advance(w)
  <2>1. tick' = [tick EXCEPT ![w].pc = "save"] /\ UNCHANGED outbox
    BY <1>5 DEF ColdStart, Advance
  <2>2. T.pc = "save"
    BY <1>0, <2>1
  <2> QED
    BY <1>2, <2>1, <2>2
<1>6. CASE Save(w) \/ Fail(w) \/ Widen(w)
  <2>1. T.pc = "idle" /\ UNCHANGED outbox
    BY <1>0, <1>6 DEF Save, Fail, Widen, Idle
  <2> QED
    BY <1>2, <2>1
<1>7. CASE Truncated(w)
  <2>1. T.pc = "idle" /\ UNCHANGED outbox
    BY <1>0, <1>7 DEF Truncated, Idle
  <2> QED
    BY <1>2, <2>1
<1>8. CASE Scan(w)
  <2>1. UNCHANGED outbox
    BY <1>8 DEF Scan
  <2>2. CASE tick' = [tick EXCEPT ![w] = Idle]
    <3>1. T.pc = "idle"
      BY <1>0, <2>2 DEF Idle
    <3> QED
      BY <1>2, <2>1, <3>1
  <2>3. CASE tick' = [tick EXCEPT ![w].pc = "rows", ![w].todo = Window(w).rows,
                                  ![w].scannedTo = Window(w).to, ![w].drained = Window(w).drained]
    <3>1. T.pc = "rows" /\ T.recovering = R.recovering
      BY <1>0, <2>3
    <3>2. ~R.recovering
      BY <1>1, <1>8 DEF Scan
    <3> QED
      BY <1>0, <1>1, <2>1, <3>1, <3>2 DEF Undecided, outbox, Working, Acting
  <2> QED
    BY <1>8, <2>2, <2>3 DEF Scan
<1>9. ASSUME NEW e \in Events(w), NEW st, NEW err, enqueue(e, st, err), stale' = stale
      PROVE  /\ \A d \in Events(w) : d \in stale' => row'[d].status = "SEEN"
             /\ First(e) => row'[e].status = st /\ e \notin stale'
  BY <1>0, <1>1, <1>9, EnqueueKeeps DEF First
<1>10. ASSUME NEW e \in Event, TakeBurn(w, e) PROVE Undecided(w)'
  <2>1. /\ R.pc = "rows" /\ ~R.recovering /\ e \in Events(w)
        /\ enqueue(e, "SEEN", "none") /\ stale' = stale
    BY <1>0, <1>10 DEF TakeBurn, NextUp
  <2>2. CASE /\ First(e)
             /\ \E pc \in {"classify", "reserve"} :
                    tick' = [tick EXCEPT ![w].todo = @ \ {e}, ![w].action = e, ![w].pc = pc]
    <3>1. T.action = e /\ T.pc \in {"classify", "reserve"} /\ T.recovering = R.recovering
      BY <1>0, <2>2
    <3> QED
      BY <1>0, <1>9, <2>1, <2>2, <3>1 DEF Undecided
  <2>3. CASE tick' = [tick EXCEPT ![w].todo = @ \ {e}]
    <3>1. T.pc = R.pc /\ T.recovering = R.recovering
      BY <1>0, <2>3
    <3> QED
      BY <1>0, <1>9, <2>1, <3>1 DEF Undecided, Acting
  <2> QED
    BY <1>10, <2>2, <2>3 DEF TakeBurn
<1>11. CASE w = "viz" /\ HoldRate
  <2>1. /\ R.pc = "overRate" /\ R.action \in Events(w)
        /\ enqueue(R.action, "HELD", "RATE_LIMITED") /\ stale' = stale
    BY <1>0, <1>11 DEF HoldRate, Acting
  <2>2. T.pc = "rows" /\ T.recovering = R.recovering /\ T.todo = R.todo
    BY <1>0, <1>11 DEF HoldRate
  <2> QED
    BY <1>0, <1>1, <1>9, <2>1, <2>2 DEF Undecided, Working, Acting
<1>12. CASE w = "viz" /\ EnqueueDeposit
  <2>1. /\ R.pc = "enqueue" /\ R.action \in Events(w)
        /\ enqueue(R.action, "SEEN", "none") /\ stale' = stale
    BY <1>0, <1>12 DEF EnqueueDeposit, Acting
  <2>2. CASE First(R.action) /\ tick' = [tick EXCEPT !["viz"].pc = "reserve"]
    <3>1. T.pc = "reserve" /\ T.action = R.action /\ T.recovering = R.recovering /\ T.todo = R.todo
      BY <1>0, <1>12, <2>2
    <3> QED
      BY <1>0, <1>1, <1>9, <2>1, <2>2, <3>1 DEF Undecided, Working, Acting
  <2>3. CASE tick' = [tick EXCEPT !["viz"].pc = "rows", !["viz"].action = None]
    <3>1. T.pc = "rows" /\ T.recovering = R.recovering /\ T.todo = R.todo
      BY <1>0, <1>12, <2>3
    <3> QED
      BY <1>0, <1>1, <1>9, <2>1, <3>1 DEF Undecided, Working, Acting
  <2> QED
    BY <1>12, <2>2, <2>3 DEF EnqueueDeposit
<1>13. ASSUME w = "viz", NEW e \in Event, TakeUnusable(e) PROVE Undecided(w)'
  <2>1. /\ R.pc = "rows" /\ ~R.recovering /\ e \in Events(w)
        /\ enqueue(e, "HELD", "INVALID_DESTINATION") /\ stale' = stale
    BY <1>0, <1>13 DEF TakeUnusable, NextUp
  <2>2. T.pc = R.pc /\ T.recovering = R.recovering
    BY <1>0, <1>13 DEF TakeUnusable
  <2> QED
    BY <1>0, <1>9, <2>1, <2>2 DEF Undecided, Acting
<1>14. ASSUME w = "viz", NEW e \in Event, TakeDeposit(e) PROVE Undecided(w)'
  <2>1. R.pc = "rows" /\ ~R.recovering /\ UNCHANGED outbox
    BY <1>14 DEF TakeDeposit, NextUp
  <2>2. T.pc \in {"overRate", "enqueue"} /\ T.recovering = R.recovering
    BY <1>0, <1>14 DEF TakeDeposit
  <2> QED
    BY <1>0, <1>1, <2>1, <2>2 DEF Undecided, outbox
<1>15. CASE w = "gram" /\ Classify
  <2>1. R.pc = "classify" /\ stale' = stale /\ R.action \in Events(w) /\ R.action \notin stale
    BY <1>0, <1>1, <1>15 DEF Classify, Acting
  <2>2. CASE tick' = [tick EXCEPT !["gram"].pc = "reserve"] /\ UNCHANGED row
    <3>1. T.pc = "reserve" /\ T.action = R.action /\ T.recovering = R.recovering /\ T.todo = R.todo
      BY <1>0, <1>15, <2>2
    <3> QED
      BY <1>0, <1>1, <2>1, <2>2, <3>1 DEF Undecided, Working, Acting
  <2>3. CASE /\ row' = [row EXCEPT ![R.action] = [status |-> "HELD", lastError |-> "RETURN_INVALID_DEST"]]
             /\ tick' = [tick EXCEPT !["gram"].pc = "rows", !["gram"].action = None]
    <3>1. T.pc = "rows" /\ T.recovering = R.recovering /\ T.todo = R.todo
      BY <1>0, <1>15, <2>3
    <3>2. \A d \in Events(w) : d \in stale => row'[d].status = "SEEN"
      BY <1>0, <1>1, <2>1, <2>3
    <3> QED
      BY <1>0, <1>1, <2>1, <3>1, <3>2 DEF Undecided, Working, Acting
  <2> QED
    BY <1>15, <2>2, <2>3 DEF Classify
<1>16. CASE Reserve(w)
  <2>1. R.pc = "reserve" /\ UNCHANGED outbox
    BY <1>16 DEF Reserve
  <2>2. PICK d : tick' = [tick EXCEPT ![w].pc = "settle", ![w].decision = d]
    BY <1>16 DEF Reserve
  <2>3. T.pc = "settle" /\ T.action = R.action /\ T.recovering = R.recovering /\ T.todo = R.todo
    BY <1>0, <2>2
  <2> QED
    BY <1>0, <1>1, <2>1, <2>3 DEF Undecided, outbox, Working, Acting
<1>17. CASE Settle(w)
  <2>1. R.pc = "settle" /\ stale' = stale \ {R.action} /\ R.action \in Events(w)
    BY <1>0, <1>17 DEF Settle, Acting
  <2>2. \A d \in Event : d # R.action => row'[d] = row[d]
    BY <1>0, <1>17 DEF Settle
  <2>3. CASE tick' = [tick EXCEPT ![w].pc = "pause"]
    <3>1. T.pc = "pause" /\ T.action = R.action /\ T.recovering = R.recovering /\ T.todo = R.todo
      BY <1>0, <2>3
    <3> QED
      BY <1>0, <1>1, <2>1, <2>2, <3>1 DEF Undecided, Working, Acting
  <2>4. CASE tick' = [tick EXCEPT ![w].pc = "rows", ![w].action = None, ![w].decision = "ok"]
    <3>1. T.pc = "rows" /\ T.recovering = R.recovering /\ T.todo = R.todo
      BY <1>0, <2>4
    <3> QED
      BY <1>0, <1>1, <2>1, <2>2, <3>1 DEF Undecided, Working, Acting
  <2> QED
    BY <1>17, <2>3, <2>4 DEF Settle
<1>18. CASE PauseNow(w)
  <2>1. R.pc = "pause" /\ UNCHANGED outbox
    BY <1>18 DEF PauseNow
  <2>2. T.pc = "rows" /\ T.recovering = R.recovering /\ T.todo = R.todo
    BY <1>0, <1>18 DEF PauseNow
  <2> QED
    BY <1>0, <1>1, <2>1, <2>2 DEF Undecided, outbox, Working, Acting
<1> QED
  BY <1>3, <1>4, <1>5, <1>6, <1>7, <1>8, <1>10, <1>11, <1>12, <1>13, <1>14, <1>15, <1>16, <1>17, <1>18
     DEF Step, VizStep

-----------------------------------------------------------------------------
(* The shared window.                                                      *)

(* The amounts of a sequence of reservations.                              *)
Amounts(q) == [i \in DOMAIN q |-> Amount[q[i]]]

(* What a sequence of events and its amounts are.                          *)
LEMMA AmountsTyped ==
    ASSUME NEW q \in Seq(Event)
    PROVE  /\ DOMAIN q = 1..Len(q) /\ Len(q) \in Nat /\ IsFiniteSet(DOMAIN q)
           /\ DOMAIN Amounts(q) = DOMAIN q
           /\ \A i \in DOMAIN q : q[i] \in Event /\ Amounts(q)[i] = Amount[q[i]] /\ Amounts(q)[i] \in Nat
           /\ SumFunction(Amounts(q)) \in Nat
<1>1. DOMAIN q = 1..Len(q) /\ Len(q) \in Nat /\ \A i \in DOMAIN q : q[i] \in Event
  OBVIOUS
<1>2. IsFiniteSet(DOMAIN q)
  BY <1>1, FS_Interval
<1>3. DOMAIN Amounts(q) = DOMAIN q /\ \A i \in DOMAIN q : Amounts(q)[i] = Amount[q[i]] /\ Amounts(q)[i] \in Nat
  BY <1>1, IntakeAssumption DEF Amounts
<1>4. SumFunctionOnSet(Amounts(q), DOMAIN q) \in Nat
  BY <1>2, <1>3, SumFewer
<1> QED
  BY <1>1, <1>2, <1>3, <1>4 DEF SumFunction

(* A reservation adds its amount.                                          *)
LEMMA AmountsAppend ==
    ASSUME NEW q \in Seq(Event), NEW e \in Event
    PROVE  /\ SumFunction(Amounts(Append(q, e))) = SumFunction(Amounts(q)) + Amount[e]
           /\ ToSet(Append(q, e)) = ToSet(q) \cup {e}
<1> DEFINE p == Append(q, e)
           n == Len(q)
           f == Amounts(q)
           g == Amounts(p)
<1>1. /\ p \in Seq(Event) /\ n \in Nat /\ DOMAIN q = 1..n /\ DOMAIN p = 1..(n + 1)
      /\ p[n + 1] = e /\ \A i \in 1..n : p[i] = q[i]
  OBVIOUS
<1>2. /\ DOMAIN f = 1..n /\ DOMAIN g = 1..(n + 1) /\ IsFiniteSet(1..n)
      /\ \A i \in 1..n : f[i] = Amount[q[i]] /\ f[i] \in Nat
      /\ \A i \in 1..(n + 1) : g[i] = Amount[p[i]] /\ g[i] \in Nat
  <2>1. p \in Seq(Event)
    BY <1>1
  <2>2. /\ DOMAIN f = DOMAIN q /\ DOMAIN g = DOMAIN p /\ IsFiniteSet(DOMAIN q)
        /\ \A i \in DOMAIN q : f[i] = Amount[q[i]] /\ f[i] \in Nat
        /\ \A i \in DOMAIN p : g[i] = Amount[p[i]] /\ g[i] \in Nat
    <3> HIDE DEF p
    <3> QED
      BY <2>1, AmountsTyped
  <2> QED
    BY <1>1, <2>2
<1>3. ToSet(p) = ToSet(q) \cup {e}
  <2>1. \A i \in 1..(n + 1) : i \in 1..n \/ i = n + 1
    BY <1>1
  <2>2. n + 1 \in 1..(n + 1) /\ \A i \in 1..n : i \in 1..(n + 1)
    BY <1>1
  <2> HIDE DEF p, n
  <2>3. ToSet(p) = {p[i] : i \in 1..(n + 1)} /\ ToSet(q) = {q[i] : i \in 1..n}
    BY <1>1 DEF ToSet
  <2> QED
    BY <1>1, <2>1, <2>2, <2>3
<1> HIDE DEF f, g, p, n
<1>4. \A i \in 1..n : f[i] \in Int /\ f[i] = g[i]
  <2>1. \A i \in 1..n : i \in 1..(n + 1)
    BY <1>1
  <2>2. \A i \in 1..n : g[i] = Amount[p[i]] /\ f[i] = Amount[q[i]] /\ f[i] \in Nat
    BY <1>2, <2>1
  <2> QED
    BY <1>1, <2>2
<1>5. SumFunctionOnSet(f, 1..n) = SumFunctionOnSet(g, 1..n)
  <2> DEFINE D == 1..n
  <2>1. IsFiniteSet(D) /\ \A i \in D : f[i] \in Int /\ f[i] = g[i]
    BY <1>2, <1>4
  <2> HIDE DEF D
  <2>2. SumFunctionOnSet(f, D) = SumFunctionOnSet(g, D)
    BY <2>1, SumEqual
  <2> QED
    BY <2>2 DEF D
<1>6. 1..(n + 1) = (1..n) \cup {n + 1} /\ n + 1 \notin 1..n /\ n + 1 \in 1..(n + 1)
  BY <1>1
<1>7. SumFunctionOnSet(g, (1..n) \cup {n + 1}) = g[n + 1] + SumFunctionOnSet(g, 1..n)
  <2>1. \A i \in (1..n) \cup {n + 1} : g[i] \in Int
    BY <1>2, <1>6
  <2> QED
    BY <1>2, <1>6, <2>1, SumAdd
<1>8. g[n + 1] = Amount[e] /\ g[n + 1] \in Nat
  BY <1>1, <1>2, <1>6
<1>9. SumFunctionOnSet(f, 1..n) \in Int
  BY <1>2, <1>4, SumType
<1>10. SumFunction(g) = SumFunction(f) + Amount[e]
  <2>1. SumFunction(g) = SumFunctionOnSet(g, (1..n) \cup {n + 1}) /\ SumFunction(f) = SumFunctionOnSet(f, 1..n)
    BY <1>2, <1>6 DEF SumFunction
  <2>2. Amount[e] \in Nat
    BY <1>8
  <2> QED
    BY <1>5, <1>7, <1>8, <1>9, <2>1, <2>2
<1> QED
  BY <1>3, <1>10 DEF f, g, p

(* An expiry does not add anything.                                        *)
LEMMA AmountsTail ==
    ASSUME NEW q \in Seq(Event), q # <<>>
    PROVE  /\ SumFunction(Amounts(Tail(q))) <= SumFunction(Amounts(q))
           /\ ToSet(q) = {Head(q)} \cup ToSet(Tail(q)) /\ Head(q) \in Event
<1> DEFINE p == Tail(q)
           n == Len(q)
           f == Amounts(p)
           g == Amounts(q)
<1>1. /\ p \in Seq(Event) /\ n \in Nat /\ n > 0 /\ DOMAIN q = 1..n /\ DOMAIN p = 1..(n - 1)
      /\ Head(q) = q[1] /\ \A i \in 1..(n - 1) : p[i] = q[i + 1]
  OBVIOUS
<1>2. /\ DOMAIN f = 1..(n - 1) /\ DOMAIN g = 1..n /\ IsFiniteSet(1..n) /\ IsFiniteSet(1..(n - 1))
      /\ \A i \in 1..(n - 1) : f[i] = Amount[p[i]] /\ f[i] \in Nat
      /\ \A i \in 1..n : g[i] = Amount[q[i]] /\ g[i] \in Nat
  <2>1. p \in Seq(Event)
    BY <1>1
  <2>2. /\ DOMAIN f = DOMAIN p /\ DOMAIN g = DOMAIN q /\ IsFiniteSet(DOMAIN q) /\ IsFiniteSet(DOMAIN p)
        /\ \A i \in DOMAIN p : f[i] = Amount[p[i]] /\ f[i] \in Nat
        /\ \A i \in DOMAIN q : g[i] = Amount[q[i]] /\ g[i] \in Nat
    <3> HIDE DEF p
    <3> QED
      BY <2>1, AmountsTyped
  <2> QED
    BY <1>1, <2>2
<1> HIDE DEF f, g, p, n
<1>3. ToSet(q) = {Head(q)} \cup ToSet(p) /\ Head(q) \in Event
  <2>1. \A i \in 1..n : i = 1 \/ (i - 1 \in 1..(n - 1) /\ (i - 1) + 1 = i)
    BY <1>1
  <2>2. 1 \in 1..n /\ \A i \in 1..(n - 1) : i + 1 \in 1..n
    BY <1>1
  <2>3. ToSet(p) = {p[i] : i \in 1..(n - 1)} /\ ToSet(q) = {q[i] : i \in 1..n}
    BY <1>1 DEF ToSet
  <2>4. \A i \in 1..n : q[i] = Head(q) \/ q[i] \in ToSet(p)
    BY <1>1, <2>1, <2>3
  <2>5. ToSet(p) \subseteq ToSet(q) /\ Head(q) \in ToSet(q)
    BY <1>1, <2>2, <2>3
  <2>6. Head(q) \in Event
    BY <1>1, <2>2
  <2> QED
    BY <2>3, <2>4, <2>5, <2>6
<1> DEFINE I == 2..n
           k == [i \in I |-> i - 1]
<1>4. I \in SUBSET (1..n) /\ IsFiniteSet(I)
  BY <1>1, <1>2, FS_Subset
<1>5. \A i \in 1..(n - 1) : f[i] \in Nat /\ \E j \in I : k[j] = i
  <2> SUFFICES ASSUME NEW i \in 1..(n - 1) PROVE f[i] \in Nat /\ \E j \in I : k[j] = i
    OBVIOUS
  <2>1. i + 1 \in I /\ (i + 1) - 1 = i
    BY <1>1
  <2>2. k[i + 1] = i
    BY <2>1
  <2> QED
    BY <1>2, <2>1, <2>2
<1>6. \A j \in I : g[j] \in Nat /\ (k[j] \in 1..(n - 1) => g[j] = f[k[j]])
  <2> SUFFICES ASSUME NEW j \in I PROVE g[j] \in Nat /\ g[j] = f[k[j]]
    OBVIOUS
  <2>1. j \in 1..n /\ j - 1 \in 1..(n - 1) /\ (j - 1) + 1 = j /\ k[j] = j - 1
    BY <1>1
  <2>2. p[j - 1] = q[j]
    BY <1>1, <2>1
  <2> QED
    BY <1>2, <2>1, <2>2
<1> HIDE DEF I, k
<1>7. SumFunctionOnSet(f, 1..(n - 1)) <= SumFunctionOnSet(g, I)
  <2> DEFINE D == 1..(n - 1)
  <2>1. IsFiniteSet(D) /\ IsFiniteSet(I)
    BY <1>2, <1>4
  <2>2. \A x \in D : f[x] \in Nat /\ \E i \in I : k[i] = x
    BY <1>5
  <2>3. \A i \in I : g[i] \in Nat /\ (k[i] \in D => g[i] = f[k[i]])
    BY <1>6
  <2> HIDE DEF D
  <2>4. SumFunctionOnSet(f, D) <= SumFunctionOnSet(g, I)
    BY <2>1, <2>2, <2>3, SumCovered
  <2> QED
    BY <2>4 DEF D
<1>8. SumFunctionOnSet(g, I) <= SumFunctionOnSet(g, 1..n) /\ SumFunctionOnSet(g, I) \in Nat
  BY <1>2, <1>4, SumFewer
<1>9. SumFunctionOnSet(f, 1..(n - 1)) \in Int /\ SumFunctionOnSet(g, 1..n) \in Int
  <2>1. (\A i \in 1..(n - 1) : f[i] \in Int) /\ (\A i \in 1..n : g[i] \in Int)
    BY <1>2
  <2> QED
    BY <1>2, <2>1, SumType
<1>10. SumFunction(f) <= SumFunction(g)
  BY <1>2, <1>7, <1>8, <1>9 DEF SumFunction
<1> QED
  BY <1>3, <1>10 DEF f, g, p

(* A set of reserved events weighs no more than the window.                *)
LEMMA AmountsCover ==
    ASSUME NEW q \in Seq(Event), NEW S \in SUBSET ToSet(q)
    PROVE  SumFunctionOnSet(Amount, S) <= SumFunction(Amounts(q))
<1>1. /\ IsFiniteSet(DOMAIN q) /\ DOMAIN Amounts(q) = DOMAIN q
      /\ \A i \in DOMAIN q : q[i] \in Event /\ Amounts(q)[i] = Amount[q[i]] /\ Amounts(q)[i] \in Nat
  BY AmountsTyped
<1>2. S \subseteq Event /\ \A x \in S : \E i \in DOMAIN q : q[i] = x
  BY <1>1 DEF ToSet
<1>3. IsFiniteSet(S) /\ \A x \in S : Amount[x] \in Nat
  BY <1>2, IntakeAssumption, FS_Subset
<1>4. SumFunctionOnSet(Amount, S) <= SumFunctionOnSet(Amounts(q), DOMAIN q)
  BY <1>1, <1>2, <1>3, SumCovered
<1> QED
  BY <1>1, <1>4 DEF SumFunction

(* Only a reservation asks for a verdict.                                  *)
LEMMA OnlyReserveSettles ==
    ASSUME Typed, NEW w \in Watcher, Step(w) \/ Fail(w) \/ Widen(w), ~Reserve(w)
    PROVE  tick'[w].pc # "settle" /\ capWin' = capWin /\ (spent' = spent \/ Settle(w))
<1>0. tick \in [Watcher -> TickState]
  BY DEF Typed, TypeOK
<1>1. capWin' = capWin /\ (spent' = spent \/ Settle(w))
  BY DEF Step, VizStep, Tick, Recover, ColdStart, Scan, TakeBurn, HoldRate, EnqueueDeposit, TakeUnusable,
     TakeDeposit, Classify, Settle, PauseNow, Advance, Truncated, Save, Fail, Widen, windows
<1> SUFFICES tick'[w].pc # "settle"
  BY <1>1
<1>2. CASE Tick(w)
  <2>1. PICK pc \in {"scan", "rows"}, b \in BOOLEAN, left \in SUBSET Event :
             tick' = [tick EXCEPT ![w].pc = pc, ![w].recovering = b, ![w].todo = left]
    BY <1>2 DEF Tick, Events
  <2> QED
    BY <1>0, <2>1
<1>3. CASE Recover(w)
  <2>1. ASSUME NEW e, tick' = [tick EXCEPT ![w].todo = @ \ {e}, ![w].action = e, ![w].pc = "reserve"]
        PROVE  tick'[w].pc # "settle"
    BY <1>0, <2>1
  <2>2. ASSUME tick' = [tick EXCEPT ![w].recovering = FALSE, ![w].pc = "scan"]
        PROVE  tick'[w].pc # "settle"
    BY <1>0, <2>2
  <2> QED
    BY <1>3, <2>1, <2>2 DEF Recover
<1>4. CASE ColdStart(w) \/ Advance(w)
  <2>1. tick' = [tick EXCEPT ![w].pc = "save"]
    BY <1>4 DEF ColdStart, Advance
  <2> QED
    BY <1>0, <2>1
<1>5. CASE Save(w) \/ Fail(w) \/ Widen(w)
  BY <1>0, <1>5 DEF Save, Fail, Widen, Idle
<1>6. CASE Truncated(w)
  BY <1>0, <1>6 DEF Truncated, Idle
<1>7. CASE Scan(w)
  <2>1. CASE tick' = [tick EXCEPT ![w] = Idle]
    BY <1>0, <2>1 DEF Idle
  <2>2. CASE tick' = [tick EXCEPT ![w].pc = "rows", ![w].todo = Window(w).rows,
                                  ![w].scannedTo = Window(w).to, ![w].drained = Window(w).drained]
    BY <1>0, <2>2
  <2> QED
    BY <1>7, <2>1, <2>2 DEF Scan
<1>8. ASSUME NEW e \in Event, TakeBurn(w, e) PROVE tick'[w].pc # "settle"
  BY <1>0, <1>8 DEF TakeBurn, NextUp
<1>9. CASE w = "viz" /\ VizStep
  <2>1. CASE HoldRate
    BY <1>0, <1>9, <2>1 DEF HoldRate
  <2>2. CASE EnqueueDeposit
    BY <1>0, <1>9, <2>2 DEF EnqueueDeposit
  <2>3. ASSUME NEW e \in Event, TakeUnusable(e) PROVE tick'[w].pc # "settle"
    BY <1>0, <1>9, <2>3 DEF TakeUnusable, NextUp
  <2>4. ASSUME NEW e \in Event, TakeDeposit(e) PROVE tick'[w].pc # "settle"
    BY <1>0, <1>9, <2>4 DEF TakeDeposit
  <2> QED
    BY <1>9, <2>1, <2>2, <2>3, <2>4 DEF VizStep
<1>10. CASE w = "gram" /\ Classify
  <2>1. CASE tick' = [tick EXCEPT !["gram"].pc = "reserve"]
    BY <1>0, <1>10, <2>1
  <2>2. CASE tick' = [tick EXCEPT !["gram"].pc = "rows", !["gram"].action = None]
    BY <1>0, <1>10, <2>2
  <2> QED
    BY <1>10, <2>1, <2>2 DEF Classify
<1>11. CASE Settle(w)
  BY <1>0, <1>11 DEF Settle
<1>12. CASE PauseNow(w)
  BY <1>0, <1>12 DEF PauseNow
<1> QED
  BY <1>2, <1>3, <1>4, <1>5, <1>6, <1>7, <1>8, <1>9, <1>10, <1>11, <1>12 DEF Step

(* The window stays within the cap and keeps covering what was queued.     *)
LEMMA WindowCovers ==
    ASSUME LimiterInv, [Next]_vars
    PROVE  (\A v \in Watcher : Covered(v)') /\ spent' \subseteq ToSet(capWin') /\ WindowTotal' <= Cap
<1>0. /\ capWin \in Seq(Event) /\ spent \subseteq ToSet(capWin) /\ WindowTotal <= Cap
      /\ \A v \in Watcher : Covered(v)
      /\ tick \in [Watcher -> TickState] /\ Amount \in [Event -> Nat]
      /\ Cap \in Nat /\ PerTx \in Nat /\ ReviewAbove \in Nat
  BY IntakeAssumption DEF LimiterInv, Typed, TypeOK
<1>1. WindowTotal = SumFunction(Amounts(capWin)) /\ WindowTotal' = SumFunction(Amounts(capWin'))
  BY DEF WindowTotal, Amounts
<1>2. ASSUME capWin' = capWin, spent' = spent,
             \A v \in Watcher : tick'[v] = tick[v] \/ tick'[v].pc # "settle"
      PROVE  (\A v \in Watcher : Covered(v)') /\ spent' \subseteq ToSet(capWin') /\ WindowTotal' <= Cap
  BY <1>0, <1>1, <1>2 DEF Covered
<1>3. ASSUME NEW w \in Watcher, Reserve(w)
      PROVE  (\A v \in Watcher : Covered(v)') /\ spent' \subseteq ToSet(capWin') /\ WindowTotal' <= Cap
  <2> DEFINE e == tick[w].action
             room == Amount[e] <= PerTx /\ Fits(e)
  <2>1. e \in Event
    BY <1>3 DEF Reserve, LimiterInv, Typed, OwnEvents, Acting, Events
  <2>2. /\ capWin' = IF room THEN Append(capWin, e) ELSE capWin
        /\ spent' = spent
    BY <1>3 DEF Reserve
  <2>3. PICK d : /\ tick' = [tick EXCEPT ![w].pc = "settle", ![w].decision = d]
                 /\ d = "ok" => room /\ ~(Amount[e] > ReviewAbove)
    <3> DEFINE verdict == IF Amount[e] > PerTx THEN "OVER_PER_TX"
                          ELSE IF ~Fits(e) THEN "OVER_24H"
                          ELSE IF Amount[e] > ReviewAbove THEN "NEEDS_MANUAL_REVIEW" ELSE "ok"
    <3>1. tick' = [tick EXCEPT ![w].pc = "settle", ![w].decision = verdict]
      BY <1>3 DEF Reserve
    <3>2. Amount[e] \in Nat
      BY <1>0, <2>1
    <3>3. ~(Amount[e] > PerTx) => Amount[e] <= PerTx
      BY <1>0, <3>2
    <3>4. verdict = "ok" => room /\ ~(Amount[e] > ReviewAbove)
      BY <3>3
    <3> HIDE DEF verdict, room, e
    <3> QED
      BY <3>1, <3>4
  <2>4. tick'[w].decision = d /\ tick'[w].action = e /\ \A v \in Watcher : v # w => tick'[v] = tick[v]
    BY <1>0, <2>3
  <2>5. Amount[e] \in Nat
    BY <1>0, <2>1
  <2>6. ToSet(capWin) \subseteq ToSet(capWin') /\ (room => e \in ToSet(capWin')) /\ WindowTotal' <= Cap
    <3>1. CASE room
      <4>1. capWin' = Append(capWin, e) /\ WindowTotal + Amount[e] <= Cap
        BY <2>2, <3>1 DEF Fits
      <4>2. SumFunction(Amounts(Append(capWin, e))) = SumFunction(Amounts(capWin)) + Amount[e]
            /\ ToSet(Append(capWin, e)) = ToSet(capWin) \cup {e}
        BY <1>0, <2>1, AmountsAppend
      <4> HIDE DEF e, room
      <4> QED
        BY <1>1, <4>1, <4>2
    <3>2. CASE ~room
      BY <1>0, <1>1, <2>2, <3>2
    <3> QED
      BY <3>1, <3>2
  <2>7. Covered(w)'
    <3> SUFFICES ASSUME d = "ok"
                 PROVE  e \in ToSet(capWin') /\ Amount[e] <= PerTx /\ Amount[e] <= ReviewAbove
      BY <2>4 DEF Covered
    <3>1. Amount[e] <= PerTx /\ ~(Amount[e] > ReviewAbove) /\ e \in ToSet(capWin')
      BY <2>3, <2>6
    <3> HIDE DEF e
    <3> QED
      BY <1>0, <2>5, <3>1
  <2>8. ASSUME NEW v \in Watcher, v # w PROVE Covered(v)'
    BY <1>0, <2>4, <2>6, <2>8 DEF Covered
  <2> QED
    BY <1>0, <2>2, <2>6, <2>7, <2>8
<1>4. ASSUME NEW w \in Watcher, Step(w) \/ Fail(w) \/ Widen(w), ~Reserve(w)
      PROVE  (\A v \in Watcher : Covered(v)') /\ spent' \subseteq ToSet(capWin') /\ WindowTotal' <= Cap
  <2>1. /\ tick'[w].pc # "settle" /\ capWin' = capWin /\ (spent' = spent \/ Settle(w))
        /\ \A v \in Watcher : v # w => tick'[v] = tick[v]
    BY <1>4, OnlyReserveSettles, StepLoop DEF LimiterInv
  <2>2. CASE spent' = spent
    BY <1>2, <2>1, <2>2
  <2>3. CASE Settle(w)
    <3>1. spent' \subseteq ToSet(capWin)
      BY <1>0, <2>3 DEF Settle, Covered
    <3>2. (\A v \in Watcher : Covered(v)') /\ WindowTotal' <= Cap
      BY <1>0, <1>1, <2>1 DEF Covered
    <3> QED
      BY <2>1, <3>1, <3>2
  <2> QED
    BY <2>1, <2>2, <2>3
<1>5. CASE DayPasses
  <2>1. /\ capWin # <<>> /\ capWin' = Tail(capWin) /\ tick' = tick
        /\ \A w \in Watcher : tick[w].pc # "settle"
        /\ spent' = IF Head(capWin) \in ToSet(Tail(capWin)) THEN spent ELSE spent \ {Head(capWin)}
    BY <1>5 DEF DayPasses
  <2>2. /\ SumFunction(Amounts(Tail(capWin))) <= SumFunction(Amounts(capWin))
        /\ ToSet(capWin) = {Head(capWin)} \cup ToSet(Tail(capWin))
    BY <1>0, <2>1, AmountsTail
  <2>3. spent' \subseteq ToSet(capWin')
    BY <1>0, <2>1, <2>2
  <2>4. Tail(capWin) \in Seq(Event)
    BY <1>0, <2>1
  <2>5. SumFunction(Amounts(Tail(capWin))) \in Nat /\ SumFunction(Amounts(capWin)) \in Nat
    BY <1>0, <2>4, AmountsTyped
  <2>6. WindowTotal' <= Cap
    BY <1>0, <1>1, <2>1, <2>2, <2>5
  <2> QED
    BY <2>1, <2>3, <2>6 DEF Covered
<1>6. CASE \/ \E w \in Watcher : Happen(w)
           \/ \E e \in Event : GrowStale(e)
           \/ RateWindowPasses \/ Unpause \/ UNCHANGED vars
  <2>1. UNCHANGED <<capWin, spent, tick>>
    BY <1>6 DEF Happen, GrowStale, RateWindowPasses, Unpause, vars, windows
  <2> QED
    BY <1>2, <2>1
<1> QED
  BY <1>3, <1>4, <1>5, <1>6 DEF Next

(* The rows under decision, every step.                                    *)
LEMMA LimiterInvPreserved ==
    ASSUME LimiterInv, [Next]_vars
    PROVE  LimiterInv'
<1>0. Typed /\ Typed' /\ \A w \in Watcher : Undecided(w)
  BY TypedPreserved DEF LimiterInv
<1> SUFFICES \A v \in Watcher : Undecided(v)'
  BY <1>0, WindowCovers DEF LimiterInv
<1> SUFFICES ASSUME NEW v \in Watcher PROVE Undecided(v)'
  OBVIOUS
<1>1. Events(v)' = Events(v) /\ Events(v) \subseteq Event /\ Undecided(v)
      /\ (tick[v].pc \in Acting => tick[v].action \in Events(v)) /\ tick[v].todo \subseteq Events(v)
  BY <1>0 DEF Events, Typed, OwnEvents
<1>2. ASSUME NEW w \in Watcher, Step(w) \/ Fail(w) \/ Widen(w) PROVE Undecided(v)'
  <2>1. CASE v = w
    BY <1>0, <1>2, <2>1, UndecidedStep
  <2>2. CASE v # w
    <3>1. tick'[v] = tick[v]
      BY <1>0, <1>2, <2>2, StepLoop
    <3>2. \A d \in Events(v) : row'[d] = row[d] /\ (d \in stale' <=> d \in stale)
      <4>1. \A d \in Events(v) : d \in Event /\ Home[d] # w
        BY <2>2 DEF Events
      <4> QED
        BY <1>0, <1>2, <4>1, StepRows
    <3> QED
      BY <1>1, <3>1, <3>2 DEF Undecided, Acting
  <2> QED
    BY <2>1, <2>2
<1>3. ASSUME NEW e \in Event, GrowStale(e) PROVE Undecided(v)'
  <2>1. /\ row[e].status = "SEEN" /\ stale' = stale \cup {e} /\ UNCHANGED <<row, tick>>
        /\ tick[Home[e]].action # e
    BY <1>3 DEF GrowStale
  <2>2. tick[v].pc = "classify" => tick[v].action # e
    BY <1>1, <2>1 DEF Acting, Events
  <2> QED
    BY <1>1, <2>1, <2>2 DEF Undecided
<1>4. CASE \/ \E w \in Watcher : Happen(w)
           \/ DayPasses \/ RateWindowPasses \/ Unpause \/ UNCHANGED vars
  <2>1. UNCHANGED <<row, stale, tick>>
    BY <1>4 DEF Happen, DayPasses, RateWindowPasses, Unpause, vars, outbox
  <2> QED
    BY <1>1, <2>1 DEF Undecided
<1> QED
  BY <1>2, <1>3, <1>4 DEF Next

-----------------------------------------------------------------------------
(* The three watchers are one limiter.                                     *)

(* The limiter's total is the community modules' sum.                      *)
LEMMA LimiterTotal ==
    ASSUME NEW S PROVE Limiter!Total(S) = SumFunctionOnSet(Amount, S)
<1>1. Limiter!Total(S) = Partial(Amount, S)[S]
  BY DEF Limiter!Total, Limiter!SumFunctionOnSet, Limiter!FoldFunctionOnSet, Limiter!MapThenFoldSet, Partial, Adds, Pick
<1> QED
  BY <1>1, SumIsPartial

(* The limiter's view of a row that is written.                            *)
LEMMA VerdictOf ==
    ASSUME NEW e \in Event
    PROVE  /\ row[e].status = "QUEUED" => Verdict[e] = "queued"
           /\ row[e].status = "HELD" => Verdict[e] = "held"
           /\ row[e].status \in {"none", "SEEN"} => Verdict[e] = "open"
           /\ row'[e].status = "QUEUED" => Verdict'[e] = "queued"
           /\ row'[e].status = "HELD" => Verdict'[e] = "held"
           /\ row'[e].status \in {"none", "SEEN"} => Verdict'[e] = "open"
  BY DEF Verdict

(* Rows of equal status look alike.                                        *)
LEMMA VerdictSame ==
    ASSUME NEW e \in Event, row'[e].status = row[e].status
    PROVE  Verdict'[e] = Verdict[e]
  BY DEF Verdict

(* One row decided, the others untouched.                                  *)
LEMMA VerdictChange ==
    ASSUME NEW e \in Event, row[e].status \in {"none", "SEEN"},
           \A d \in Event : d # e => row'[d] = row[d]
    PROVE  /\ Verdict[e] = "open"
           /\ row'[e].status = "QUEUED" => Verdict' = [Verdict EXCEPT ![e] = "queued"]
           /\ row'[e].status = "HELD" => Verdict' = [Verdict EXCEPT ![e] = "held"]
           /\ row'[e].status \in {"none", "SEEN"} => Verdict' = Verdict
<1>1. \A d \in Event : d # e => Verdict'[d] = Verdict[d]
  BY VerdictSame
<1>2. DOMAIN Verdict = Event /\ DOMAIN Verdict' = Event
  BY DEF Verdict
<1>3. /\ Verdict = [d \in Event |-> Verdict[d]] /\ Verdict' = [d \in Event |-> Verdict'[d]]
  BY DEF Verdict
<1>4. /\ Verdict[e] = "open"
      /\ row'[e].status = "QUEUED" => Verdict'[e] = "queued"
      /\ row'[e].status = "HELD" => Verdict'[e] = "held"
      /\ row'[e].status \in {"none", "SEEN"} => Verdict'[e] = "open"
  BY VerdictOf
<1> DEFINE V == Verdict
           W == Verdict'
<1> HIDE DEF V, W
<1>5. ASSUME NEW x, W[e] = x PROVE W = [V EXCEPT ![e] = x]
  BY <1>1, <1>2, <1>3, <1>5 DEF V, W
<1>6. ASSUME W[e] = V[e] PROVE W = V
  BY <1>1, <1>3, <1>6 DEF V, W
<1> QED
  BY <1>4, <1>5, <1>6 DEF V, W

(* enqueue on the limiter's side: a verdict is given to a new row only.    *)
LEMMA EnqueueIsVerdict ==
    ASSUME row \in [Event -> Row], NEW e \in Event, NEW s \in {"SEEN", "HELD"}, NEW err,
           enqueue(e, s, err), spent' = spent
    PROVE  Limiter!Hold(e) \/ UNCHANGED <<Verdict, spent>>
<1>1. CASE ~First(e)
  <2>1. row' = row
    BY <1>1 DEF enqueue
  <2> QED
    BY <2>1 DEF Verdict
<1>2. CASE First(e)
  <2>1. row' = [row EXCEPT ![e] = [status |-> s, lastError |-> err]] /\ row[e].status = "none"
    BY <1>2 DEF enqueue, First
  <2>2. row'[e].status = s /\ \A d \in Event : d # e => row'[d] = row[d]
    BY <2>1
  <2> QED
    BY <2>1, <2>2, VerdictChange DEF Limiter!Hold
<1> QED
  BY <1>1, <1>2

(* Each step of the watchers is a step of the limiter, or none.            *)
LEMMA StepIsLimiterStep ==
    ASSUME LimiterInv, [Next]_vars
    PROVE  [Limiter!Next]_(Limiter!vars)
<1>0. /\ row \in [Event -> Row] /\ capWin \in Seq(Event) /\ spent \subseteq ToSet(capWin)
      /\ WindowTotal <= Cap /\ Cap \in Nat
      /\ \A w \in Watcher : tick[w].pc \in Acting => tick[w].action \in Event
      /\ Amount \in [Event -> Nat] /\ PerTx \in Nat /\ ReviewAbove \in Nat
  BY IntakeAssumption DEF LimiterInv, Typed, TypeOK, OwnEvents, Events
<1> DEFINE Same == UNCHANGED <<Verdict, spent>>
           Goal == Same \/ \E e \in Event : Limiter!Queue(e) \/ Limiter!Hold(e) \/ Limiter!Expire(e)
<1> SUFFICES Goal
  BY DEF Limiter!Next, Limiter!vars
<1>1. ASSUME UNCHANGED <<row, spent>> PROVE Goal
  BY <1>1 DEF Verdict
<1>2. ASSUME NEW e \in Event, NEW s \in {"SEEN", "HELD"}, NEW err, enqueue(e, s, err), spent' = spent
      PROVE  Goal
  BY <1>0, <1>2, EnqueueIsVerdict
<1> HIDE DEF Goal
<1>3. ASSUME NEW w \in Watcher, NEW e \in Event, TakeBurn(w, e) PROVE Goal
  BY <1>2, <1>3 DEF TakeBurn, windows
<1>4. ASSUME "viz" \in Watcher, HoldRate PROVE Goal
  BY <1>0, <1>2, <1>4 DEF HoldRate, windows, Acting
<1>5. ASSUME "viz" \in Watcher, EnqueueDeposit PROVE Goal
  BY <1>0, <1>2, <1>5 DEF EnqueueDeposit, windows, Acting
<1>6. ASSUME NEW e \in Event, TakeUnusable(e) PROVE Goal
  BY <1>2, <1>6 DEF TakeUnusable, windows
<1>7. ASSUME "gram" \in Watcher, Classify PROVE Goal
  <2> DEFINE e == tick["gram"].action
  <2>1. e \in Event /\ row[e].status = "SEEN" /\ spent' = spent
    BY <1>0, <1>7 DEF Classify, windows, Acting, LimiterInv, Undecided
  <2>2. CASE UNCHANGED row
    BY <1>1, <2>1, <2>2
  <2>3. CASE row' = [row EXCEPT ![e] = [status |-> "HELD", lastError |-> "RETURN_INVALID_DEST"]]
    <3>1. row'[e].status = "HELD" /\ \A d \in Event : d # e => row'[d] = row[d]
      BY <1>0, <2>1, <2>3
    <3>2. Limiter!Hold(e)
      <4> HIDE DEF e
      <4> QED
        BY <2>1, <3>1, VerdictChange DEF Limiter!Hold
    <3> QED
      BY <2>1, <3>2 DEF Goal
  <2> QED
    BY <1>7, <2>2, <2>3 DEF Classify
<1>8. ASSUME NEW w \in Watcher, Settle(w) PROVE Goal
  <2> DEFINE e == tick[w].action
  <2>1. e \in Event /\ row[e].status = "SEEN"
    BY <1>0, <1>8 DEF Settle, Acting, LimiterInv, Undecided
  <2>2. \A d \in Event : d # e => row'[d] = row[d]
    BY <1>0, <1>8 DEF Settle
  <2>3. CASE tick[w].decision = "ok"
    <3>1. row'[e].status = "QUEUED" /\ spent' = spent \cup {e}
      BY <1>0, <1>8, <2>1, <2>3 DEF Settle
    <3>2. e \in ToSet(capWin) /\ Amount[e] <= PerTx /\ Amount[e] <= ReviewAbove
      BY <1>8, <2>3 DEF Settle, LimiterInv, Covered
    <3>3. Amount[e] <= Min({PerTx, ReviewAbove})
      BY <1>0, <3>2, MinOfTwo
    <3>4. SumFunctionOnSet(Amount, spent \cup {e}) <= Cap
      <4>1. spent \cup {e} \in SUBSET ToSet(capWin)
        BY <1>0, <3>2
      <4>2. SumFunctionOnSet(Amount, spent \cup {e}) <= SumFunction(Amounts(capWin))
        BY <1>0, <4>1, AmountsCover
      <4>3. SumFunction(Amounts(capWin)) <= Cap /\ SumFunction(Amounts(capWin)) \in Nat
        BY <1>0, AmountsTyped DEF WindowTotal, Amounts
      <4>4. SumFunctionOnSet(Amount, spent \cup {e}) \in Int
        <5>1. spent \cup {e} \subseteq Event
          BY <2>1 DEF LimiterInv, Typed, TypeOK
        <5>2. IsFiniteSet(spent \cup {e}) /\ \A x \in spent \cup {e} : Amount[x] \in Int
          BY <1>0, <5>1, IntakeAssumption, FS_Subset
        <5> QED
          BY <5>2, SumType
      <4> QED
        BY <1>0, <4>2, <4>3, <4>4
    <3> HIDE DEF e
    <3>5. Verdict[e] = "open" /\ Verdict' = [Verdict EXCEPT ![e] = "queued"]
      BY <2>1, <2>2, <3>1, VerdictChange
    <3>6. Limiter!Queue(e)
      BY <3>1, <3>3, <3>4, <3>5, LimiterTotal DEF Limiter!Queue
    <3> QED
      BY <2>1, <3>6 DEF Goal
  <2>4. CASE tick[w].decision # "ok"
    <3>1. row'[e].status = "HELD" /\ spent' = spent
      BY <1>0, <1>8, <2>1, <2>4 DEF Settle
    <3> HIDE DEF e
    <3>2. Limiter!Hold(e)
      BY <2>1, <2>2, <3>1, VerdictChange DEF Limiter!Hold
    <3> QED
      BY <2>1, <3>2 DEF Goal
  <2> QED
    BY <2>3, <2>4
<1>9. CASE DayPasses
  <2>1. Head(capWin) \in Event
    BY <1>0, <1>9, AmountsTail DEF DayPasses
  <2>2. Verdict' = Verdict
    BY <1>9 DEF DayPasses, outbox, Verdict
  <2>3. spent' = spent \/ spent' = spent \ {Head(capWin)}
    BY <1>9 DEF DayPasses
  <2> QED
    BY <2>1, <2>2, <2>3 DEF Goal, Limiter!Expire
<1>10. ASSUME NEW w \in Watcher,
              \/ Tick(w) \/ Recover(w) \/ ColdStart(w) \/ Scan(w) \/ Reserve(w) \/ PauseNow(w)
              \/ Advance(w) \/ Truncated(w) \/ Save(w) \/ Fail(w) \/ Widen(w) \/ Happen(w)
       PROVE  Goal
  <2>1. UNCHANGED <<row, spent>>
    BY <1>10 DEF Tick, Recover, ColdStart, Scan, Reserve, PauseNow, Advance, Truncated, Save, Fail, Widen,
       Happen, outbox, windows
  <2> QED
    BY <1>1, <2>1
<1>11. ASSUME NEW e \in Event, TakeDeposit(e) \/ GrowStale(e) PROVE Goal
  BY <1>1, <1>11 DEF TakeDeposit, GrowStale, outbox, windows
<1>12. CASE RateWindowPasses \/ Unpause \/ UNCHANGED vars
  BY <1>1, <1>12 DEF RateWindowPasses, Unpause, vars, outbox, windows
<1> QED
  BY <1>3, <1>4, <1>5, <1>6, <1>7, <1>8, <1>9, <1>10, <1>11, <1>12 DEF Next, Step, VizStep

(* For any number of events, any caps and any interleaving, crash or       *)
(* recovery, the watcher processes implement the abstract limiter: one     *)
(* verdict per event, for good, and what is queued within a day is within  *)
(* the cap (capBreaker.ts, outbox reserveCapWindow).                       *)
THEOREM WatchersAreOneLimiter == Spec => OneLimiter
<1>1. ASSUME Init PROVE LimiterInv /\ Limiter!Init
  <2>1. Typed
    BY <1>1, InitTyped
  <2>2. /\ capWin = <<>> /\ spent = {} /\ stale = {}
        /\ \A w \in Watcher : tick[w].pc = "idle"
        /\ row = [e \in Event |-> NoRow]
    BY <1>1 DEF Init, Idle
  <2>3. \A w \in Watcher : Undecided(w) /\ Covered(w)
    BY <2>2 DEF Undecided, Covered, Working, Acting
  <2>4. WindowTotal <= Cap
    <3>1. DOMAIN capWin = {} /\ DOMAIN Amounts(capWin) = {}
      BY <2>2 DEF Amounts
    <3>2. SumFunction(Amounts(capWin)) = 0
      BY <3>1, SumEmpty DEF SumFunction
    <3>3. WindowTotal = 0
      BY <3>2 DEF WindowTotal, Amounts
    <3> QED
      BY <3>3, IntakeAssumption
  <2>5. Limiter!Init
    BY <2>2 DEF Limiter!Init, Verdict, NoRow
  <2> QED
    BY <2>1, <2>2, <2>3, <2>4, <2>5 DEF LimiterInv
<1>2. LimiterInv /\ [Next]_vars => LimiterInv'
  BY LimiterInvPreserved
<1>3. LimiterInv /\ [Next]_vars => [Limiter!Next]_(Limiter!vars)
  BY StepIsLimiterStep
<1> QED
  BY <1>1, <1>2, <1>3, PTL DEF Spec, OneLimiter, Limiter!Spec
=============================================================================
