--------------------------- MODULE DeliveryProofs ---------------------------
(***************************************************************************)
(* The outbox, for any number of deposits, burns, drives and faults.       *)
(***************************************************************************)
EXTENDS Delivery, TLAPS

(* Row ids.                                                                *)
LEMMA RowParts ==
    ASSUME NEW r \in Row
    PROVE  /\ r = <<r[1], r[2]>>
           /\ \/ r[1] \in PegIn /\ r[1] \notin PegOut /\ r[2] \in {"in", "fee", "refund"}
              \/ r[1] \in PegOut /\ r[1] \notin PegIn /\ r[2] \in {"out", "return"}
           /\ r[2] = "in" => r = In(r[1])
           /\ r[2] = "fee" => r = Fee(r[1])
           /\ r[2] = "refund" => r = Refund(r[1])
           /\ r[2] = "out" => r = Out(r[1])
           /\ r[2] = "return" => r = Return(r[1])
           /\ r # None
BY DeliveryAssumption DEF Row, In, Fee, Refund, Out, Return

LEMMA RowIds ==
    /\ \A p \in PegIn : /\ p \notin PegOut
                        /\ In(p) \in Row /\ In(p)[1] = p /\ In(p)[2] = "in"
                        /\ Fee(p) \in Row /\ Fee(p)[1] = p /\ Fee(p)[2] = "fee"
                        /\ Refund(p) \in Row /\ Refund(p)[1] = p /\ Refund(p)[2] = "refund"
                        /\ Repay(p) = Refund(p)
    /\ \A q \in PegOut : /\ q \notin PegIn
                         /\ Out(q) \in Row /\ Out(q)[1] = q /\ Out(q)[2] = "out"
                         /\ Return(q) \in Row /\ Return(q)[1] = q /\ Return(q)[2] = "return"
                         /\ Repay(q) = Return(q)
BY DeliveryAssumption DEF Row, In, Fee, Refund, Out, Return, Repay

LEMMA RepayIsRow == \A x \in PegIn \cup PegOut : Repay(x) \in Row
BY RowIds

LEMMA Switches ==
    /\ MaxFaults \in Nat /\ None \notin Drive /\ None \notin Row
    /\ {TimelyDrives, LateMints, FlipCrashes, QuietRedirect, SeenCrashes} \subseteq BOOLEAN
BY DeliveryAssumption DEF Row

-----------------------------------------------------------------------------
(* What a step does to one row, one drive and the tick. *)

Drives == [row : Row \cup {None}, step : {"idle", "check", "build", "wait", "ok", "failed"}]

Becomes(r, s) ==
    /\ status' \in [Row -> Status]
    /\ status'[r] = s
    /\ \A o \in Row : o # r => status'[o] = status[o]
DriveBecomes(d, row, step) ==
    /\ drive' \in [Drive -> Drives]
    /\ drive'[d].row = row /\ drive'[d].step = step
    /\ \A o \in Drive : o # d => drive'[o] = drive[o]
TickBecomes(pc, row, d, todo) ==
    /\ disp' \in Tick
    /\ disp'.pc = pc /\ disp'.row = row /\ disp'.drive = d /\ disp'.todo = todo

LEMMA SetStatusBecomes ==
    ASSUME TypeOK, NEW r \in Row, NEW s \in Status, SetStatus(r, s)
    PROVE  Becomes(r, s)
BY DEF TypeOK, SetStatus, Becomes

LEMMA EnqueueBecomes ==
    ASSUME TypeOK, NEW r \in Row, NEW s \in Status, Enqueue(r, s)
    PROVE  Becomes(r, IF status[r] = "ABSENT" THEN s ELSE status[r])
BY DEF TypeOK, Enqueue, Becomes

LEMMA DriveFields ==
    ASSUME TypeOK, NEW d \in Drive
    PROVE  /\ drive \in [Drive -> Drives] /\ drive[d] \in Drives
           /\ drive[d].row \in Row \cup {None}
           /\ drive[d].step \in {"idle", "check", "build", "wait", "ok", "failed"}
<1>1. drive \in [Drive -> Drives] /\ drive[d] \in Drives
  BY DEF TypeOK, Drives
<1> QED
  BY <1>1 DEF Drives

LEMMA StepBecomes ==
    ASSUME TypeOK, NEW d \in Drive, NEW step \in {"idle", "check", "build", "wait", "ok", "failed"},
           drive' = [drive EXCEPT ![d].step = step]
    PROVE  DriveBecomes(d, drive[d].row, step)
<1> DEFINE e == [row |-> drive[d].row, step |-> step]
<1>1. e \in Drives
  BY DriveFields DEF Drives
<1>2. drive \in [Drive -> Drives] /\ drive[d] \in Drives
  BY DriveFields
<1>3. drive'[d] = e
  BY <1>2 DEF Drives
<1>4. drive' = [o \in Drive |-> drive'[o]] /\ \A o \in Drive : o # d => drive'[o] = drive[o]
  BY <1>2
<1>5. e.row = drive[d].row /\ e.step = step
  OBVIOUS
<1> HIDE DEF e
<1> QED
  BY <1>1, <1>2, <1>3, <1>4, <1>5 DEF DriveBecomes

LEMMA NewDriveBecomes ==
    ASSUME TypeOK, NEW d \in Drive, NEW e \in Drives, drive' = [drive EXCEPT ![d] = e]
    PROVE  DriveBecomes(d, e.row, e.step)
<1>1. drive \in [Drive -> Drives]
  BY DriveFields
<1> QED
  BY <1>1 DEF DriveBecomes

LEMMA NoDriveFits == NoDrive \in Drives /\ NoDrive.row = None /\ NoDrive.step = "idle"
BY DEF NoDrive, Drives

LEMMA DriveDropped ==
    ASSUME TypeOK, NEW d \in Drive, drive' = [drive EXCEPT ![d] = NoDrive]
    PROVE  DriveBecomes(d, None, "idle")
BY NewDriveBecomes, NoDriveFits

LEMMA TickFields ==
    ASSUME TypeOK
    PROVE  /\ disp \in Tick
           /\ disp.pc \in {"idle", "tick", "flip", "deliver", "await", "follow"}
           /\ disp.row \in Row \cup {None} /\ disp.drive \in Drive \cup {None}
           /\ disp.todo \in SUBSET Row /\ disp.planned \in Status
BY DEF TypeOK, Tick

LEMMA TickFits ==
    ASSUME NEW pc \in {"idle", "tick", "flip", "deliver", "await", "follow"},
           NEW row \in Row \cup {None}, NEW d \in Drive \cup {None}, NEW todo \in SUBSET Row,
           NEW planned \in Status,
           disp' = [pc |-> pc, row |-> row, drive |-> d, todo |-> todo, planned |-> planned]
    PROVE  TickBecomes(pc, row, d, todo) /\ disp'.planned = planned
BY DEF TickBecomes, Tick

LEMMA NoTickFits == NoTick \in Tick
BY DEF NoTick, Tick, Status

-----------------------------------------------------------------------------
(* The invariant that holds whatever the deployment guarantees.  RowSound: *)
(* what has to be true for row r to have status s.                         *)

RowSound(r, s) ==
    /\ s = "CONFIRMED" => r \in landed
    /\ s = "HELD" => r[2] \in {"in", "out"} /\ nature[r[1]].kind = "lost"
    /\ s = "REFUNDED" /\ r[2] \in {"in", "out"} => nature[r[1]].dust \/ Repay(r[1]) \in landed
    /\ s # "ABSENT" => /\ r[2] = "fee" => In(r[1]) \in landed
                       /\ r[2] = "return" => nature[r[1]].kind = "lost"

(* Rows are sound; what landed was pinned, and only a row that is there is *)
(* pinned.                                                                 *)
RowsInv ==
    \A r \in Row :
        /\ RowSound(r, status[r])
        /\ pinned[r] => status[r] # "ABSENT"
        /\ r \in landed => pinned[r] /\ CanLand(r)

(* A drive is about a row that is there, and answers ok only if it landed. *)
DrivesInv ==
    \A d \in Drive :
        drive[d].step # "idle" =>
            /\ drive[d].row \in Row /\ status[drive[d].row] # "ABSENT"
            /\ drive[d].step = "ok" => drive[d].row \in landed

(* The tick works on rows that are there; the drive it awaits is about its *)
(* row; the transition it follows up is justified.                         *)
TickInv ==
    /\ disp.pc \in {"flip", "await", "follow"} => disp.row \in Row /\ status[disp.row] # "ABSENT"
    /\ \A r \in disp.todo : status[r] # "ABSENT"
    /\ disp.drive # None => /\ disp.pc = "await"
                            /\ drive[disp.drive].row = disp.row /\ drive[disp.drive].step # "idle"
    /\ disp.pc = "follow" => /\ disp.planned = "CONFIRMED" => disp.row \in landed
                             /\ disp.planned = "REFUNDING" => disp.row[2] = "in"

OutboxInv == TypeOK /\ RowsInv /\ DrivesInv /\ TickInv

(* No row disappears.                                                      *)
Kept == \A r \in Row : status[r] # "ABSENT" => status'[r] # "ABSENT"

LEMMA RowsKept ==
    ASSUME RowsInv, nature' = nature, landed \subseteq landed', landed' \subseteq Row, Kept,
           \A r \in Row : status'[r] = status[r] \/ RowSound(r, status'[r]),
           \A r \in Row : (pinned[r] => pinned'[r]) /\ (pinned'[r] => pinned[r] \/ status'[r] # "ABSENT"),
           \A r \in landed' : r \in landed \/ (pinned[r] /\ CanLand(r))
    PROVE  RowsInv'
<1> SUFFICES ASSUME NEW r \in Row
             PROVE  (RowSound(r, status[r]) /\ (pinned[r] => status[r] # "ABSENT")
                     /\ (r \in landed => pinned[r] /\ CanLand(r)))'
  BY DEF RowsInv
<1>1. RowSound(r, status'[r])
  BY DEF RowsInv
<1>2. (RowSound(r, status[r]))'
  BY <1>1 DEF RowSound
<1>3. pinned'[r] => status'[r] # "ABSENT"
  BY DEF RowsInv, Kept
<1>4. r \in landed' => pinned'[r] /\ CanLand(r)'
  BY DEF RowsInv, CanLand
<1> QED
  BY <1>2, <1>3, <1>4

(* The step of one row.                                                    *)
LEMMA RowMoves ==
    ASSUME OutboxInv, UNCHANGED <<nature, landed>>, NEW r \in Row, NEW s, Becomes(r, s),
           RowSound(r, s), s # "ABSENT", pinned' \in [Row -> BOOLEAN],
           \A o \in Row : (pinned[o] => pinned'[o]) /\ (pinned'[o] => pinned[o] \/ o = r)
    PROVE  RowsInv' /\ Kept
<1>1. Kept
  BY DEF Kept, Becomes
<1>2. landed \subseteq Row
  BY DEF OutboxInv, TypeOK
<1> QED
  BY <1>1, <1>2, RowsKept DEF OutboxInv, Becomes

LEMMA RowsStay ==
    ASSUME OutboxInv, UNCHANGED <<nature, landed, status, pinned>>
    PROVE  RowsInv' /\ Kept
<1>1. Kept
  BY DEF Kept
<1>2. landed \subseteq Row
  BY DEF OutboxInv, TypeOK
<1> QED
  BY <1>1, <1>2, RowsKept DEF OutboxInv

LEMMA DrivesStay ==
    ASSUME OutboxInv, Kept, landed \subseteq landed', UNCHANGED drive
    PROVE  DrivesInv'
BY DEF OutboxInv, DrivesInv, Kept

LEMMA DriveMoves ==
    ASSUME OutboxInv, Kept, landed \subseteq landed', NEW d \in Drive, NEW row, NEW step,
           DriveBecomes(d, row, step),
           step # "idle" => row \in Row /\ status'[row] # "ABSENT",
           step = "ok" => row \in landed'
    PROVE  DrivesInv'
BY DEF OutboxInv, DrivesInv, Kept, DriveBecomes

LEMMA TickStays ==
    ASSUME OutboxInv, Kept, landed \subseteq landed', UNCHANGED disp,
           disp.drive # None => /\ drive'[disp.drive].row = drive[disp.drive].row
                                /\ drive'[disp.drive].step # "idle"
    PROVE  TickInv'
<1>1. disp.todo \in SUBSET Row
  BY TickFields DEF OutboxInv
<1> QED
  BY <1>1 DEF OutboxInv, TickInv, Kept

LEMMA TypesKept ==
    ASSUME TypeOK, nature' = nature, status' \in [Row -> Status], pinned' \in [Row -> BOOLEAN],
           windowOver' \in [PegIn -> BOOLEAN], landed' \subseteq Row, disp' \in Tick,
           drive' \in [Drive -> Drives], paused' \in BOOLEAN, redirected' \subseteq PegIn,
           faults' = faults \/ Fault
    PROVE  TypeOK'
<1>1. faults' \in 0..MaxFaults
  BY Switches DEF TypeOK, Fault
<1> QED
  BY <1>1 DEF TypeOK, Drives

LEMMA InitHolds == Init => OutboxInv
<1> SUFFICES ASSUME Init PROVE OutboxInv
  OBVIOUS
<1>1. pinned \in [Row -> BOOLEAN] /\ windowOver \in [PegIn -> BOOLEAN] /\ paused \in BOOLEAN
  BY Zenon DEF Init
<1>2. TypeOK
  BY <1>1, NoTickFits, NoDriveFits, Switches DEF Init, TypeOK, Status, Drives
<1>3. \A r \in Row : status[r] = "ABSENT" /\ ~pinned[r] /\ r \notin landed
  BY DEF Init
<1>4. RowsInv
  BY <1>3 DEF RowsInv, RowSound
<1>5. DrivesInv /\ TickInv
  BY DEF Init, DrivesInv, TickInv, NoDrive, NoTick
<1> QED
  BY <1>2, <1>4, <1>5 DEF OutboxInv

-----------------------------------------------------------------------------
(* What each action does, in these terms. *)

LEMMA DetectDoes ==
    ASSUME TypeOK, NEW r \in Row, Detect(r)
    PROVE  /\ r[2] \in {"in", "out"} /\ status[r] = "ABSENT"
           /\ \E s \in {"HELD", "QUEUED"} :
                Becomes(r, s) /\ (s = "HELD" => nature[r[1]].kind = "lost")
           /\ UNCHANGED <<nature, pinned, windowOver, landed, disp, drive, paused, redirected>>
           /\ faults' = faults \/ Fault
<1>1. r[2] \in {"in", "out"} /\ status[r] = "ABSENT"
  BY DEF Detect
<1>2. \E s \in {"HELD", "QUEUED"} : Enqueue(r, s) /\ (s = "HELD" => nature[r[1]].kind = "lost")
  BY DEF Detect
<1>3. \E s \in {"HELD", "QUEUED"} : Becomes(r, s) /\ (s = "HELD" => nature[r[1]].kind = "lost")
  BY <1>1, <1>2, EnqueueBecomes DEF Status
<1> QED
  BY <1>1, <1>3 DEF Detect

LEMMA ReturnHeldDoes ==
    ASSUME OutboxInv, NEW r \in Row, ReturnHeld(r)
    PROVE  /\ disp.pc = "tick" /\ status[r] = "HELD" /\ r[1] \in PegIn \cup PegOut
           /\ r[2] \in {"in", "out"} /\ nature[r[1]].kind = "lost"
           /\ \/ nature[r[1]].dust /\ Becomes(r, "REFUNDED") /\ disp' = disp
              \/ /\ ~nature[r[1]].dust
                 /\ Becomes(Repay(r[1]), IF status[Repay(r[1])] = "ABSENT" THEN "QUEUED"
                                         ELSE status[Repay(r[1])])
                 /\ TickBecomes("flip", r, None, {})
           /\ UNCHANGED <<nature, pinned, windowOver, landed, drive, paused, redirected, faults>>
<1>1. TypeOK /\ r[1] \in PegIn \cup PegOut /\ Repay(r[1]) \in Row
  BY RowParts, RepayIsRow DEF OutboxInv
<1>2. status[r] = "HELD" /\ r[2] \in {"in", "out"} /\ nature[r[1]].kind = "lost"
  BY DEF ReturnHeld, OutboxInv, RowsInv, RowSound
<1>3. CASE nature[r[1]].dust
  <2>1. Becomes(r, "REFUNDED")
    BY <1>1, <1>3, SetStatusBecomes DEF ReturnHeld, Status
  <2> QED
    BY <1>1, <1>2, <1>3, <2>1 DEF ReturnHeld
<1>4. CASE ~nature[r[1]].dust
  <2>1. Becomes(Repay(r[1]), IF status[Repay(r[1])] = "ABSENT" THEN "QUEUED" ELSE status[Repay(r[1])])
    BY <1>1, <1>4, EnqueueBecomes DEF ReturnHeld, Status
  <2>2. disp' = [pc |-> "flip", row |-> r, drive |-> None, todo |-> {}, planned |-> "QUEUED"]
    BY <1>4 DEF ReturnHeld, NoTick
  <2>3. TickBecomes("flip", r, None, {})
    BY <2>2, TickFits DEF Status
  <2> QED
    BY <1>1, <1>2, <1>4, <2>1, <2>3 DEF ReturnHeld
<1> QED
  BY <1>3, <1>4

LEMMA FlipHeldDoes ==
    ASSUME OutboxInv, FlipHeld
    PROVE  /\ disp.pc = "flip" /\ disp.row \in Row
           /\ Becomes(disp.row, "REFUNDING") /\ TickBecomes("tick", None, None, {})
           /\ UNCHANGED <<nature, pinned, windowOver, landed, drive, paused, redirected, faults>>
<1>1. disp.pc = "flip" /\ disp.row \in Row /\ TypeOK
  BY DEF FlipHeld, OutboxInv, TickInv
<1>2. Becomes(disp.row, "REFUNDING")
  BY <1>1, SetStatusBecomes DEF FlipHeld, Status
<1>3. disp' = [pc |-> "tick", row |-> None, drive |-> None, todo |-> {}, planned |-> "QUEUED"]
  BY DEF FlipHeld, NoTick
<1>4. TickBecomes("tick", None, None, {})
  BY <1>3, TickFits DEF Status
<1> QED
  BY <1>1, <1>2, <1>4 DEF FlipHeld

LEMMA ReadDueDoes ==
    ASSUME TypeOK, ReadDue
    PROVE  /\ disp.pc = "tick" /\ \A r \in Row : status[r] # "HELD"
           /\ \/ TickBecomes("idle", None, None, {})
              \/ TickBecomes("deliver", None, None, {r \in Row : status[r] = "QUEUED"})
           /\ UNCHANGED <<nature, rowVars, windowOver, landed, drive, paused, redirected, faults>>
<1> DEFINE due == {r \in Row : status[r] = "QUEUED"}
<1>1. due \in SUBSET Row
  OBVIOUS
<1>2. \/ disp' = [pc |-> "idle", row |-> None, drive |-> None, todo |-> {}, planned |-> "QUEUED"]
      \/ disp' = [pc |-> "deliver", row |-> None, drive |-> None, todo |-> due, planned |-> "QUEUED"]
  BY DEF ReadDue, NoTick
<1> HIDE DEF due
<1>3. TickBecomes("idle", None, None, {}) \/ TickBecomes("deliver", None, None, due)
  BY <1>1, <1>2, TickFits DEF Status
<1> QED
  BY <1>3 DEF ReadDue, due

LEMMA SubmitDoes ==
    ASSUME TypeOK, NEW r \in Row, NEW d \in Drive, Submit(r, d)
    PROVE  /\ disp.pc = "deliver" /\ r \in disp.todo /\ drive[d] = NoDrive
           /\ Becomes(r, "BROADCAST") /\ DriveBecomes(d, r, "check")
           /\ TickBecomes("await", r, d, disp.todo \ {r})
           /\ UNCHANGED <<nature, pinned, windowOver, landed, paused, redirected, faults>>
<1>1. Becomes(r, "BROADCAST")
  BY SetStatusBecomes DEF Submit, Status
<1>2. DriveBecomes(d, r, "check")
  <2> DEFINE e == [row |-> r, step |-> "check"]
  <2>1. e \in Drives /\ e.row = r /\ e.step = "check"
    BY DEF Drives
  <2>2. drive' = [drive EXCEPT ![d] = e]
    BY DEF Submit
  <2> HIDE DEF e
  <2> QED
    BY <2>1, <2>2, NewDriveBecomes
<1>3. disp' = [pc |-> "await", row |-> r, drive |-> d, todo |-> disp.todo \ {r}, planned |-> disp.planned]
  BY TickFields DEF Submit, Tick
<1>4. disp.todo \ {r} \in SUBSET Row /\ disp.planned \in Status
  BY TickFields
<1>5. TickBecomes("await", r, d, disp.todo \ {r})
  BY <1>3, <1>4, TickFits
<1> QED
  BY <1>1, <1>2, <1>5 DEF Submit

LEMMA ForgetDrive ==
    ASSUME TypeOK, disp' = [disp EXCEPT !.drive = None]
    PROVE  TickBecomes(disp.pc, disp.row, None, disp.todo) /\ disp'.planned = disp.planned
<1>1. disp' = [pc |-> disp.pc, row |-> disp.row, drive |-> None, todo |-> disp.todo, planned |-> disp.planned]
  BY TickFields DEF Tick
<1> QED
  BY <1>1, TickFields, TickFits

LEMMA TransitionDoes ==
    ASSUME OutboxInv, Transition
    PROVE  LET r == disp.row
               delivered == disp.drive # None /\ drive[disp.drive].step = "ok"
               next == PlanTransition(r, delivered)
           IN  /\ disp.pc = "await" /\ r \in Row
               /\ disp.drive # None => drive[disp.drive].step \in {"ok", "failed"} /\ disp.drive \in Drive
               /\ Becomes(r, next) /\ next \in {"CONFIRMED", "REFUNDING", "QUEUED"}
               /\ pinned' = [pinned EXCEPT ![r] = @ \/ delivered]
               /\ IF disp.drive # None THEN DriveBecomes(disp.drive, None, "idle") ELSE drive' = drive
               /\ TickBecomes("follow", r, None, disp.todo) /\ disp'.planned = next
               /\ UNCHANGED <<nature, windowOver, landed, paused, redirected, faults>>
<1> DEFINE r == disp.row
           delivered == disp.drive # None /\ drive[disp.drive].step = "ok"
           next == PlanTransition(r, delivered)
<1>1. disp.pc = "await" /\ r \in Row /\ TypeOK
  BY DEF Transition, OutboxInv, TickInv
<1>2. next \in {"CONFIRMED", "REFUNDING", "QUEUED"}
  BY DEF PlanTransition
<1>3. Becomes(r, next)
  <2>1. SetStatus(r, next)
    BY DEF Transition
  <2> HIDE DEF next
  <2> QED
    BY <1>1, <1>2, <2>1, SetStatusBecomes DEF Status
<1>4. disp.drive # None => drive[disp.drive].step \in {"ok", "failed"} /\ disp.drive \in Drive
  BY <1>1, TickFields DEF Transition
<1>5. IF disp.drive # None THEN DriveBecomes(disp.drive, None, "idle") ELSE drive' = drive
  BY <1>1, <1>4, DriveDropped DEF Transition
<1>6. disp' = [pc |-> "follow", row |-> r, drive |-> None, todo |-> disp.todo, planned |-> next]
  <2>1. disp' = [disp EXCEPT !.pc = "follow", !.drive = None, !.planned = next]
    BY DEF Transition
  <2> HIDE DEF next
  <2> QED
    BY <1>1, <2>1, TickFields DEF Tick
<1>7. TickBecomes("follow", r, None, disp.todo) /\ disp'.planned = next
  <2> HIDE DEF next
  <2> QED
    BY <1>1, <1>2, <1>6, TickFields, TickFits DEF Status
<1>8. /\ pinned' = [pinned EXCEPT ![r] = @ \/ delivered]
      /\ UNCHANGED <<nature, windowOver, landed, paused, redirected, faults>>
  BY DEF Transition
<1> QED
  BY <1>1, <1>2, <1>3, <1>4, <1>5, <1>7, <1>8

LEMMA FollowDoes ==
    ASSUME OutboxInv, Follow
    PROVE  LET r == disp.row
               x == r[1]
               s == disp.planned
               queued(child) == IF status[child] = "ABSENT" THEN "QUEUED" ELSE status[child]
           IN  /\ disp.pc = "follow" /\ r \in Row
               /\ \/ s = "CONFIRMED" /\ r = In(x) /\ x \in PegIn /\ Becomes(Fee(x), queued(Fee(x)))
                  \/ s = "REFUNDING" /\ r = In(x) /\ x \in PegIn /\ nature[x].dust /\ Becomes(r, "REFUNDED")
                  \/ /\ s = "REFUNDING" /\ r = In(x) /\ x \in PegIn /\ ~nature[x].dust
                     /\ Becomes(Refund(x), queued(Refund(x)))
                  \/ s = "CONFIRMED" /\ r = Refund(x) /\ x \in PegIn /\ Becomes(In(x), "REFUNDED")
                  \/ s = "CONFIRMED" /\ r = Return(x) /\ x \in PegOut /\ Becomes(Out(x), "REFUNDED")
                  \/ s # "REFUNDING" /\ (s = "CONFIRMED" => r[2] \in {"fee", "out"}) /\ status' = status
               /\ TickBecomes("idle", None, None, {}) \/ TickBecomes("deliver", None, None, disp.todo)
               /\ UNCHANGED <<nature, pinned, windowOver, landed, drive, paused, redirected, faults>>
<1> DEFINE r == disp.row
           x == r[1]
           s == disp.planned
           queued(child) == IF status[child] = "ABSENT" THEN "QUEUED" ELSE status[child]
<1>1. disp.pc = "follow" /\ r \in Row /\ TypeOK /\ (s = "REFUNDING" => r[2] = "in")
  BY DEF Follow, OutboxInv, TickInv
<1>2. FollowUp(r, s)
  BY DEF Follow
<1>3. TickBecomes("idle", None, None, {}) \/ TickBecomes("deliver", None, None, disp.todo)
  <2>1. \/ disp' = [pc |-> "idle", row |-> None, drive |-> None, todo |-> {}, planned |-> "QUEUED"]
        \/ disp' = [pc |-> "deliver", row |-> None, drive |-> None, todo |-> disp.todo, planned |-> "QUEUED"]
    BY DEF Follow, NoTick
  <2> QED
    BY <1>1, <2>1, TickFields, TickFits DEF Status
<1>4. UNCHANGED <<nature, pinned, windowOver, landed, drive, paused, redirected, faults>>
  BY DEF Follow
<1> HIDE DEF r, s
<1>5. \/ x \in PegIn /\ r[2] \in {"in", "fee", "refund"} /\ x \notin PegOut
      \/ x \in PegOut /\ r[2] \in {"out", "return"} /\ x \notin PegIn
  BY <1>1, RowParts
<1>6. CASE s = "CONFIRMED" /\ r[2] = "in"
  <2>1. r = In(x) /\ x \in PegIn /\ Fee(x) \in Row
    BY <1>1, <1>5, <1>6, RowParts, RowIds
  <2>2. Enqueue(Fee(x), "QUEUED")
    BY <1>2, <1>6 DEF FollowUp
  <2>3. Becomes(Fee(x), queued(Fee(x)))
    BY <1>1, <2>1, <2>2, EnqueueBecomes DEF Status
  <2> QED
    BY <1>1, <1>3, <1>4, <1>6, <2>1, <2>3 DEF r, s
<1>7. CASE s = "REFUNDING" /\ nature[x].dust
  <2>1. r = In(x) /\ x \in PegIn
    BY <1>1, <1>5, <1>7, RowParts
  <2>2. SetStatus(r, "REFUNDED")
    BY <1>2, <1>7 DEF FollowUp
  <2>3. Becomes(r, "REFUNDED")
    BY <1>1, <2>2, SetStatusBecomes DEF Status
  <2> QED
    BY <1>1, <1>3, <1>4, <1>7, <2>1, <2>3 DEF r, s
<1>8. CASE s = "REFUNDING" /\ ~nature[x].dust
  <2>1. r = In(x) /\ x \in PegIn /\ Refund(x) \in Row
    BY <1>1, <1>5, <1>8, RowParts, RowIds
  <2>2. Enqueue(Refund(x), "QUEUED")
    BY <1>2, <1>8 DEF FollowUp
  <2>3. Becomes(Refund(x), queued(Refund(x)))
    BY <1>1, <2>1, <2>2, EnqueueBecomes DEF Status
  <2> QED
    BY <1>1, <1>3, <1>4, <1>8, <2>1, <2>3 DEF r, s
<1>9. CASE s = "CONFIRMED" /\ r[2] = "refund"
  <2>1. r = Refund(x) /\ x \in PegIn /\ In(x) \in Row
    BY <1>1, <1>5, <1>9, RowParts, RowIds
  <2>2. SetStatus(In(x), "REFUNDED")
    BY <1>2, <1>9 DEF FollowUp
  <2>3. Becomes(In(x), "REFUNDED")
    BY <1>1, <2>1, <2>2, SetStatusBecomes DEF Status
  <2> QED
    BY <1>1, <1>3, <1>4, <1>9, <2>1, <2>3 DEF r, s
<1>10. CASE s = "CONFIRMED" /\ r[2] = "return"
  <2>1. r = Return(x) /\ x \in PegOut /\ Out(x) \in Row
    BY <1>1, <1>5, <1>10, RowParts, RowIds
  <2>2. SetStatus(Out(x), "REFUNDED")
    BY <1>2, <1>10 DEF FollowUp
  <2>3. Becomes(Out(x), "REFUNDED")
    BY <1>1, <2>1, <2>2, SetStatusBecomes DEF Status
  <2> QED
    BY <1>1, <1>3, <1>4, <1>10, <2>1, <2>3 DEF r, s
<1>11. CASE s # "REFUNDING" /\ (s = "CONFIRMED" => r[2] \in {"fee", "out"})
  <2>1. status' = status
    BY <1>2, <1>11 DEF FollowUp
  <2> QED
    BY <1>1, <1>3, <1>4, <1>11, <2>1 DEF r, s
<1> QED
  BY <1>5, <1>6, <1>7, <1>8, <1>9, <1>10, <1>11

LEMMA CheckDoes ==
    ASSUME TypeOK, NEW d \in Drive, CheckExecuted(d)
    PROVE  /\ drive[d].step = "check"
           /\ \E step \in {"failed", "build", "ok"} :
                /\ DriveBecomes(d, drive[d].row, step)
                /\ step = "ok" => pinned[drive[d].row] /\ drive[d].row \in landed
           /\ UNCHANGED <<nature, rowVars, windowOver, landed, disp, paused, redirected>>
           /\ faults' = faults \/ Fault
<1>1. \E step \in {"failed", "build", "ok"} :
         /\ drive' = [drive EXCEPT ![d].step = step]
         /\ step = "ok" => pinned[drive[d].row] /\ drive[d].row \in landed
  BY DEF CheckExecuted
<1>2. \E step \in {"failed", "build", "ok"} :
         /\ DriveBecomes(d, drive[d].row, step)
         /\ step = "ok" => pinned[drive[d].row] /\ drive[d].row \in landed
  BY <1>1, StepBecomes
<1> QED
  BY <1>2 DEF CheckExecuted

LEMMA PinDoes ==
    ASSUME OutboxInv, NEW d \in Drive, Pin(d)
    PROVE  LET r == drive[d].row
           IN  /\ drive[d].step = "build" /\ r \in Row
               /\ \/ DriveBecomes(d, r, "failed") /\ UNCHANGED rowVars
                  \/ /\ DriveBecomes(d, r, "wait") /\ pinned' = [pinned EXCEPT ![r] = TRUE]
                     /\ r[2] = "in" => nature[r[1]].kind = "payable"
                     /\ Becomes(r, "BROADCAST") \/ (status' = status /\ pinned[r] /\ ~IsRelease(r))
               /\ UNCHANGED <<nature, windowOver, landed, disp, paused, redirected, faults>>
<1> DEFINE r == drive[d].row
<1>1. drive[d].step = "build" /\ r \in Row /\ TypeOK
  BY DEF Pin, OutboxInv, DrivesInv
<1>2. CASE r[2] = "in" /\ nature[r[1]].kind # "payable"
  <2>1. drive' = [drive EXCEPT ![d].step = "failed"] /\ UNCHANGED rowVars
    BY <1>2 DEF Pin
  <2>2. DriveBecomes(d, r, "failed")
    BY <1>1, <2>1, StepBecomes
  <2> QED
    BY <1>1, <2>1, <2>2 DEF Pin
<1>3. CASE ~(r[2] = "in" /\ nature[r[1]].kind # "payable")
  <2>1. /\ drive' = [drive EXCEPT ![d].step = "wait"] /\ pinned' = [pinned EXCEPT ![r] = TRUE]
        /\ SetStatus(r, "BROADCAST") \/ (status' = status /\ pinned[r] /\ ~IsRelease(r))
    BY <1>3 DEF Pin
  <2>2. DriveBecomes(d, r, "wait")
    BY <1>1, <2>1, StepBecomes
  <2>3. Becomes(r, "BROADCAST") \/ (status' = status /\ pinned[r] /\ ~IsRelease(r))
    BY <1>1, <2>1, SetStatusBecomes DEF Status
  <2> QED
    BY <1>1, <1>3, <2>1, <2>2, <2>3 DEF Pin
<1> QED
  BY <1>2, <1>3

LEMMA BootDoes ==
    ASSUME TypeOK, CoordinatorBoot
    PROVE  LET go == {p \in PegIn : Redirectable(p)}
           IN  /\ QuietRedirect /\ go # {} => disp = NoTick
               /\ \A d \in Drive : drive[d] # NoDrive => MayLose(drive[d].row)
               /\ drive' \in [Drive -> Drives] /\ \A d \in Drive : drive'[d] = NoDrive
               /\ TickBecomes(disp.pc, disp.row, None, disp.todo) /\ disp'.planned = disp.planned
               /\ status' \in [Row -> Status]
               /\ \A r \in Row :
                    /\ r[1] \notin go => status'[r] = status[r]
                    /\ r[1] \in go =>
                         /\ r[2] = "in" => status'[r] = "QUEUED"
                         /\ r[2] = "refund" => status'[r] = IF status[r] = "ABSENT" THEN "ABSENT" ELSE "FAILED"
                         /\ r[2] \notin {"in", "refund"} => status'[r] = status[r]
               /\ redirected' = redirected \cup go \cup {p \in PegIn : Decided(p)}
               /\ UNCHANGED <<nature, pinned, windowOver, landed, paused>> /\ Fault
<1> DEFINE go == {p \in PegIn : Redirectable(p)}
<1>1. /\ QuietRedirect /\ go # {} => disp = NoTick
      /\ \A d \in Drive : drive[d] # NoDrive => MayLose(drive[d].row)
      /\ drive' = [d \in Drive |-> NoDrive]
      /\ disp' = [disp EXCEPT !.drive = None]
      /\ redirected' = redirected \cup go \cup {p \in PegIn : Decided(p)}
      /\ UNCHANGED <<nature, pinned, windowOver, landed, paused>> /\ Fault
      /\ status' = [r \in Row |-> IF r[1] \notin go THEN status[r]
                                  ELSE IF r = In(r[1]) THEN "QUEUED"
                                  ELSE IF r = Refund(r[1]) /\ status[r] # "ABSENT" THEN "FAILED"
                                  ELSE status[r]]
  BY DEF CoordinatorBoot
<1> HIDE DEF go
<1>2. drive' \in [Drive -> Drives] /\ \A d \in Drive : drive'[d] = NoDrive
  BY <1>1, NoDriveFits
<1>3. TickBecomes(disp.pc, disp.row, None, disp.todo) /\ disp'.planned = disp.planned
  BY <1>1, ForgetDrive
<1>4. status' \in [Row -> Status]
  BY <1>1 DEF TypeOK, Status
<1>5. ASSUME NEW r \in Row
      PROVE  /\ r[2] = "in" <=> r = In(r[1])
             /\ r[2] = "refund" <=> r = Refund(r[1])
    BY RowParts DEF In, Refund
<1>6. ASSUME NEW r \in Row
      PROVE  /\ r[1] \notin go => status'[r] = status[r]
             /\ r[1] \in go =>
                  /\ r[2] = "in" => status'[r] = "QUEUED"
                  /\ r[2] = "refund" => status'[r] = IF status[r] = "ABSENT" THEN "ABSENT" ELSE "FAILED"
                  /\ r[2] \notin {"in", "refund"} => status'[r] = status[r]
  BY <1>1, <1>5
<1> QED
  BY <1>1, <1>2, <1>3, <1>4, <1>6 DEF go

-----------------------------------------------------------------------------
(* The invariant, action by action. *)

LEMMA BecomesTypes ==
    ASSUME NEW r, NEW s, Becomes(r, s)
    PROVE  status' \in [Row -> Status]
BY DEF Becomes

LEMMA PinTypes ==
    ASSUME TypeOK, NEW r \in Row, NEW b \in BOOLEAN, pinned' = [pinned EXCEPT ![r] = @ \/ b]
    PROVE  /\ pinned' \in [Row -> BOOLEAN]
           /\ \A o \in Row : (pinned[o] => pinned'[o]) /\ (pinned'[o] => pinned[o] \/ (o = r /\ b))
BY DEF TypeOK

(* Steps that leave tick and drives alone and write one row.               *)
LEMMA OneRowKeeps ==
    ASSUME OutboxInv, NEW r \in Row, NEW s, Becomes(r, s), RowSound(r, s), s # "ABSENT",
           UNCHANGED <<nature, pinned, windowOver, landed, disp, drive, paused, redirected>>,
           faults' = faults \/ Fault
    PROVE  OutboxInv'
<1>1. TypeOK /\ pinned \in [Row -> BOOLEAN]
  BY DEF OutboxInv, TypeOK
<1>2. RowsInv' /\ Kept
  BY <1>1, RowMoves
<1>3. DrivesInv'
  BY <1>2, DrivesStay
<1>4. TickInv'
  BY <1>2, TickStays DEF OutboxInv, TickInv
<1>5. TypeOK'
  BY <1>1, BecomesTypes, TypesKept DEF TypeOK, Drives
<1> QED
  BY <1>2, <1>3, <1>4, <1>5 DEF OutboxInv

(* Steps that leave rows and landings alone.                               *)
LEMMA NoRowKeeps ==
    ASSUME OutboxInv, UNCHANGED <<nature, status, pinned, landed>>, disp' \in Tick,
           drive' \in [Drive -> Drives], windowOver' \in [PegIn -> BOOLEAN], paused' \in BOOLEAN,
           redirected' \subseteq PegIn, faults' = faults \/ Fault, DrivesInv', TickInv'
    PROVE  OutboxInv'
<1>1. TypeOK
  BY DEF OutboxInv
<1>2. TypeOK'
  BY <1>1, TypesKept DEF TypeOK
<1> QED
  BY <1>2, RowsStay DEF OutboxInv

LEMMA WatcherKeeps ==
    ASSUME OutboxInv, NEW r \in Row, Detect(r) \/ RecoverOrphan(r)
    PROVE  OutboxInv'
<1>1. TypeOK
  BY DEF OutboxInv
<1>2. CASE Detect(r)
  <2>1. PICK s \in {"HELD", "QUEUED"} : Becomes(r, s) /\ (s = "HELD" => nature[r[1]].kind = "lost")
    BY <1>1, <1>2, DetectDoes
  <2>2. RowSound(r, s)
    BY <1>1, <1>2, <2>1, DetectDoes DEF RowSound
  <2> QED
    BY <1>1, <1>2, <2>1, <2>2, DetectDoes, OneRowKeeps
<1>3. CASE RecoverOrphan(r)
  <2>1. Becomes(r, "QUEUED") /\ status[r] = "BROADCAST"
    BY <1>1, <1>3, SetStatusBecomes DEF RecoverOrphan, Status
  <2>2. RowSound(r, "QUEUED")
    BY <2>1 DEF OutboxInv, RowsInv, RowSound
  <2> QED
    BY <1>3, <2>1, <2>2, OneRowKeeps DEF RecoverOrphan
<1> QED
  BY <1>2, <1>3

LEMMA QuietKeeps ==
    ASSUME OutboxInv, (\E p \in PegIn : WindowEnds(p)) \/ Pause \/ Unpause \/ UNCHANGED vars
    PROVE  OutboxInv'
<1>1. TypeOK /\ disp \in Tick /\ drive \in [Drive -> Drives]
  BY DEF OutboxInv, TypeOK, Drives
<1>2. /\ UNCHANGED <<nature, status, pinned, landed, disp, drive, redirected>>
      /\ faults' = faults \/ Fault
  BY DEF WindowEnds, Pause, Unpause, vars, rowVars
<1>3. windowOver' \in [PegIn -> BOOLEAN] /\ paused' \in BOOLEAN
  <2>1. windowOver \in [PegIn -> BOOLEAN] /\ paused \in BOOLEAN
    BY <1>1 DEF TypeOK
  <2> QED
    BY <2>1, Zenon DEF WindowEnds, Pause, Unpause, vars
<1>4. Kept
  BY <1>2 DEF Kept
<1>5. DrivesInv' /\ TickInv'
  BY <1>2, <1>4, DrivesStay, TickStays DEF OutboxInv, TickInv
<1> QED
  BY <1>1, <1>2, <1>3, <1>5, NoRowKeeps DEF TypeOK

LEMMA TickPartKeeps ==
    ASSUME OutboxInv, StartTick \/ ReadDue \/ StopWaiting \/ DispatcherCrash
    PROVE  OutboxInv'
<1>1. TypeOK /\ drive \in [Drive -> Drives] /\ windowOver \in [PegIn -> BOOLEAN]
      /\ paused \in BOOLEAN /\ redirected \subseteq PegIn
  BY DEF OutboxInv, TypeOK, Drives
<1>2. /\ UNCHANGED <<nature, status, pinned, windowOver, landed, drive, paused, redirected>>
      /\ faults' = faults \/ Fault
  BY DEF StartTick, ReadDue, StopWaiting, DispatcherCrash, rowVars
<1>3. Kept
  BY <1>2 DEF Kept
<1>4. DrivesInv'
  BY <1>2, <1>3, DrivesStay
<1>5. CASE TickBecomes("idle", None, None, {}) \/ TickBecomes("tick", None, None, {})
  BY <1>1, <1>2, <1>4, <1>5, NoRowKeeps DEF TickBecomes, TickInv
<1>6. CASE ReadDue /\ TickBecomes("deliver", None, None, {r \in Row : status[r] = "QUEUED"})
  BY <1>1, <1>2, <1>4, <1>6, NoRowKeeps DEF TickBecomes, TickInv
<1>7. CASE StopWaiting
  <2>1. TickBecomes(disp.pc, disp.row, None, disp.todo) /\ disp'.planned = disp.planned /\ disp.pc = "await"
    BY <1>1, <1>7, ForgetDrive DEF StopWaiting
  <2>2. TickInv'
    BY <1>2, <2>1 DEF TickBecomes, TickInv, OutboxInv
  <2> QED
    BY <1>1, <1>2, <1>4, <2>1, <2>2, NoRowKeeps DEF TickBecomes
<1>8. ASSUME StartTick \/ DispatcherCrash
      PROVE  TickBecomes("idle", None, None, {}) \/ TickBecomes("tick", None, None, {})
  <2>1. \/ disp' = [pc |-> "idle", row |-> None, drive |-> None, todo |-> {}, planned |-> "QUEUED"]
        \/ disp' = [pc |-> "tick", row |-> None, drive |-> None, todo |-> {}, planned |-> "QUEUED"]
    BY <1>8 DEF StartTick, DispatcherCrash, NoTick
  <2> QED
    BY <2>1, TickFits DEF Status
<1> QED
  BY <1>1, <1>5, <1>6, <1>7, <1>8, ReadDueDoes

(* Steps that write one row and move the tick.                             *)
LEMMA RowAndTickKeeps ==
    ASSUME OutboxInv, NEW r \in Row, NEW s, Becomes(r, s), RowSound(r, s), s # "ABSENT",
           pinned' \in [Row -> BOOLEAN],
           \A o \in Row : (pinned[o] => pinned'[o]) /\ (pinned'[o] => pinned[o] \/ o = r),
           UNCHANGED <<nature, windowOver, landed, paused, redirected, faults>>,
           disp' \in Tick, drive' \in [Drive -> Drives], Kept => DrivesInv' /\ TickInv'
    PROVE  OutboxInv'
<1>1. TypeOK
  BY DEF OutboxInv
<1>2. RowsInv' /\ Kept
  BY RowMoves
<1>3. TypeOK'
  BY <1>1, BecomesTypes, TypesKept DEF TypeOK
<1> QED
  BY <1>2, <1>3 DEF OutboxInv

LEMMA ReturnHeldKeeps ==
    ASSUME OutboxInv, NEW r \in Row, ReturnHeld(r)
    PROVE  OutboxInv'
<1>1. TypeOK /\ drive \in [Drive -> Drives] /\ pinned \in [Row -> BOOLEAN]
  BY DEF OutboxInv, TypeOK, Drives
<1> DEFINE x == r[1]
           child == Repay(x)
           s == IF status[child] = "ABSENT" THEN "QUEUED" ELSE status[child]
<1>2. x \in PegIn \cup PegOut /\ child \in Row /\ child[1] = x /\ child[2] \in {"refund", "return"}
  BY ReturnHeldDoes, RowIds
<1>3. /\ r[2] \in {"in", "out"} /\ nature[x].kind = "lost" /\ status[r] = "HELD" /\ disp.pc = "tick"
      /\ UNCHANGED <<nature, pinned, windowOver, landed, drive, paused, redirected, faults>>
  BY ReturnHeldDoes
<1>4. CASE nature[x].dust /\ Becomes(r, "REFUNDED") /\ disp' = disp
  <2>1. RowSound(r, "REFUNDED")
    BY <1>3, <1>4 DEF RowSound
  <2> QED
    BY <1>3, <1>4, <2>1, OneRowKeeps
<1>5. CASE Becomes(child, s) /\ TickBecomes("flip", r, None, {})
  <2>1. RowSound(child, status[child])
    BY <1>2 DEF OutboxInv, RowsInv
  <2>2. RowSound(child, s) /\ s # "ABSENT"
    <3>1. CASE s = "QUEUED"
      BY <1>2, <1>3, <3>1 DEF RowSound
    <3>2. CASE s # "QUEUED"
      BY <2>1, <3>2
    <3> QED
      BY <3>1, <3>2
  <2> HIDE DEF child, s, x
  <2>3. ASSUME Kept PROVE DrivesInv' /\ TickInv'
    BY <1>3, <1>5, <2>3, DrivesStay DEF TickInv, TickBecomes, Kept
  <2> QED
    BY <1>1, <1>2, <1>3, <1>5, <2>2, <2>3, RowAndTickKeeps DEF TickBecomes
<1> QED
  BY <1>4, <1>5, ReturnHeldDoes

LEMMA FlipHeldKeeps ==
    ASSUME OutboxInv, FlipHeld
    PROVE  OutboxInv'
<1>1. TypeOK /\ drive \in [Drive -> Drives] /\ pinned \in [Row -> BOOLEAN]
  BY DEF OutboxInv, TypeOK, Drives
<1>2. disp.row \in Row /\ status[disp.row] # "ABSENT"
  BY FlipHeldDoes DEF OutboxInv, TickInv
<1>3. RowSound(disp.row, "REFUNDING")
  BY <1>2 DEF OutboxInv, RowsInv, RowSound
<1>4. ASSUME Kept PROVE DrivesInv' /\ TickInv'
  BY <1>4, FlipHeldDoes, DrivesStay DEF TickInv, TickBecomes
<1> QED
  BY <1>1, <1>2, <1>3, <1>4, FlipHeldDoes, RowAndTickKeeps DEF TickBecomes

LEMMA SubmitKeeps ==
    ASSUME OutboxInv, NEW r \in Row, NEW d \in Drive, Submit(r, d)
    PROVE  OutboxInv'
<1>1. TypeOK /\ pinned \in [Row -> BOOLEAN] /\ disp.todo \in SUBSET Row
  BY TickFields DEF OutboxInv, TypeOK
<1>2. /\ disp.pc = "deliver" /\ r \in disp.todo /\ Becomes(r, "BROADCAST")
      /\ DriveBecomes(d, r, "check") /\ TickBecomes("await", r, d, disp.todo \ {r})
      /\ UNCHANGED <<nature, pinned, windowOver, landed, paused, redirected, faults>>
  BY <1>1, SubmitDoes
<1>3. status[r] # "ABSENT"
  BY <1>2 DEF OutboxInv, TickInv
<1>4. RowSound(r, "BROADCAST")
  BY <1>3 DEF OutboxInv, RowsInv, RowSound
<1>5. status'[r] # "ABSENT"
  BY <1>2 DEF Becomes
<1>6. ASSUME Kept PROVE DrivesInv' /\ TickInv'
  <2>1. DrivesInv'
    BY <1>2, <1>5, <1>6, DriveMoves
  <2>2. TickInv'
    BY <1>1, <1>2, <1>5, <1>6 DEF TickInv, OutboxInv, TickBecomes, DriveBecomes, Kept
  <2> QED
    BY <2>1, <2>2
<1> QED
  BY <1>1, <1>2, <1>4, <1>6, RowAndTickKeeps DEF TickBecomes, DriveBecomes

LEMMA TransitionKeeps ==
    ASSUME OutboxInv, Transition
    PROVE  OutboxInv'
<1> DEFINE r == disp.row
           delivered == disp.drive # None /\ drive[disp.drive].step = "ok"
           next == PlanTransition(r, delivered)
<1>1. TypeOK /\ drive \in [Drive -> Drives] /\ pinned \in [Row -> BOOLEAN] /\ disp.todo \in SUBSET Row
  BY TickFields DEF OutboxInv, TypeOK, Drives
<1>2. /\ disp.pc = "await" /\ r \in Row
      /\ disp.drive # None => disp.drive \in Drive
      /\ Becomes(r, next) /\ next \in {"CONFIRMED", "REFUNDING", "QUEUED"}
      /\ pinned' = [pinned EXCEPT ![r] = @ \/ delivered]
      /\ IF disp.drive # None THEN DriveBecomes(disp.drive, None, "idle") ELSE drive' = drive
      /\ TickBecomes("follow", r, None, disp.todo) /\ disp'.planned = next
      /\ UNCHANGED <<nature, windowOver, landed, paused, redirected, faults>>
  BY TransitionDoes
<1>3. status[r] # "ABSENT"
  BY <1>2 DEF OutboxInv, TickInv
<1>4. delivered => r \in landed
  BY <1>2 DEF OutboxInv, TickInv, DrivesInv
<1>5. /\ next = "CONFIRMED" => delivered
      /\ next = "REFUNDING" => r[2] = "in"
  BY DEF PlanTransition
<1>6. delivered \in BOOLEAN
  OBVIOUS
<1> HIDE DEF next, r, delivered
<1>7. RowSound(r, next)
  BY <1>2, <1>3, <1>4, <1>5 DEF OutboxInv, RowsInv, RowSound
<1>8. /\ pinned' \in [Row -> BOOLEAN]
      /\ \A o \in Row : (pinned[o] => pinned'[o]) /\ (pinned'[o] => pinned[o] \/ o = r)
  BY <1>1, <1>2, <1>6, PinTypes
<1>9. drive' \in [Drive -> Drives]
  BY <1>1, <1>2 DEF DriveBecomes
<1>10. ASSUME Kept PROVE DrivesInv' /\ TickInv'
  <2>1. DrivesInv'
    BY <1>2, <1>10, DriveMoves, DrivesStay
  <2>2. TickInv'
    BY <1>1, <1>2, <1>3, <1>4, <1>5, <1>10 DEF TickInv, OutboxInv, TickBecomes, Kept
  <2> QED
    BY <2>1, <2>2
<1> QED
  BY <1>2, <1>7, <1>8, <1>9, <1>10, RowAndTickKeeps DEF TickBecomes

LEMMA FollowKeeps ==
    ASSUME OutboxInv, Follow
    PROVE  OutboxInv'
<1> DEFINE r == disp.row
           x == r[1]
           s == disp.planned
           queued(child) == IF status[child] = "ABSENT" THEN "QUEUED" ELSE status[child]
<1>1. TypeOK /\ drive \in [Drive -> Drives] /\ pinned \in [Row -> BOOLEAN] /\ disp.todo \in SUBSET Row
  BY TickFields DEF OutboxInv, TypeOK, Drives
<1>2. /\ r \in Row /\ status[r] # "ABSENT" /\ (s = "CONFIRMED" => r \in landed)
  BY FollowDoes DEF OutboxInv, TickInv
<1>3. /\ TickBecomes("idle", None, None, {}) \/ TickBecomes("deliver", None, None, disp.todo)
      /\ UNCHANGED <<nature, pinned, windowOver, landed, drive, paused, redirected, faults>>
  BY FollowDoes
<1>4. ASSUME Kept PROVE DrivesInv' /\ TickInv'
  <2>1. DrivesInv'
    BY <1>3, <1>4, DrivesStay
  <2>2. TickInv'
    BY <1>1, <1>3, <1>4 DEF TickInv, OutboxInv, TickBecomes, Kept
  <2> QED
    BY <2>1, <2>2
<1>5. ASSUME NEW o \in Row, NEW t, Becomes(o, t), RowSound(o, t), t # "ABSENT"
      PROVE  OutboxInv'
  BY <1>1, <1>3, <1>4, <1>5, RowAndTickKeeps DEF TickBecomes
<1>6. ASSUME NEW o \in Row, RowSound(o, "QUEUED")
      PROVE  RowSound(o, queued(o)) /\ queued(o) # "ABSENT"
  BY <1>6 DEF OutboxInv, RowsInv
<1> HIDE DEF queued
<1>7. CASE s = "CONFIRMED" /\ r = In(x) /\ x \in PegIn /\ Becomes(Fee(x), queued(Fee(x)))
  <2>1. Fee(x) \in Row /\ RowSound(Fee(x), "QUEUED")
    BY <1>2, <1>7, RowIds DEF RowSound
  <2> QED
    BY <1>5, <1>6, <1>7, <2>1
<1>8. CASE s = "REFUNDING" /\ r = In(x) /\ x \in PegIn /\ nature[x].dust /\ Becomes(r, "REFUNDED")
  <2>1. RowSound(r, "REFUNDED")
    BY <1>2, <1>8, RowIds DEF RowSound
  <2> QED
    BY <1>2, <1>5, <1>8, <2>1
<1>9. CASE s = "REFUNDING" /\ x \in PegIn /\ Becomes(Refund(x), queued(Refund(x)))
  <2>1. Refund(x) \in Row /\ RowSound(Refund(x), "QUEUED")
    BY <1>9, RowIds DEF RowSound
  <2> QED
    BY <1>5, <1>6, <1>9, <2>1
<1>10. CASE s = "CONFIRMED" /\ r = Refund(x) /\ x \in PegIn /\ Becomes(In(x), "REFUNDED")
  <2>1. In(x) \in Row /\ RowSound(In(x), "REFUNDED")
    BY <1>2, <1>10, RowIds DEF RowSound
  <2> QED
    BY <1>5, <1>10, <2>1
<1>11. CASE s = "CONFIRMED" /\ r = Return(x) /\ x \in PegOut /\ Becomes(Out(x), "REFUNDED")
  <2>1. Out(x) \in Row /\ RowSound(Out(x), "REFUNDED")
    BY <1>2, <1>11, RowIds DEF RowSound
  <2> QED
    BY <1>5, <1>11, <2>1
<1>12. CASE status' = status
  <2>1. Becomes(r, status[r])
    BY <1>1, <1>2, <1>12 DEF Becomes, TypeOK
  <2>2. RowSound(r, status[r])
    BY <1>2 DEF OutboxInv, RowsInv
  <2> QED
    BY <1>2, <1>5, <2>1, <2>2
<1> QED
  BY <1>7, <1>8, <1>9, <1>10, <1>11, <1>12, FollowDoes DEF queued

LEMMA DriveKeeps ==
    ASSUME OutboxInv, NEW d \in Drive, CheckExecuted(d) \/ Confirm(d) \/ DriveFails(d) \/ PollEnds(d) \/ DropResult(d)
    PROVE  OutboxInv'
<1>1. /\ TypeOK /\ disp \in Tick /\ windowOver \in [PegIn -> BOOLEAN] /\ paused \in BOOLEAN
      /\ redirected \subseteq PegIn
  BY DEF OutboxInv, TypeOK
<1>2. /\ UNCHANGED <<nature, status, pinned, windowOver, landed, disp, paused, redirected>>
      /\ faults' = faults \/ Fault
  BY DEF CheckExecuted, Confirm, DriveFails, PollEnds, DropResult, rowVars
<1>3. Kept
  BY <1>2 DEF Kept
<1>4. CASE DropResult(d)
  <2>1. DriveBecomes(d, None, "idle") /\ disp.drive # d
    BY <1>1, <1>4, DriveDropped DEF DropResult
  <2>2. DrivesInv'
    BY <1>2, <1>3, <2>1, DriveMoves
  <2>3. TickInv'
    BY <1>1, <1>2, <1>3, <2>1, TickFields, TickStays DEF OutboxInv, TickInv, DriveBecomes
  <2> QED
    BY <1>1, <1>2, <2>1, <2>2, <2>3, NoRowKeeps DEF DriveBecomes
<1>5. ASSUME NEW step \in {"build", "ok", "failed"}, drive[d].step # "idle", DriveBecomes(d, drive[d].row, step),
             step = "ok" => drive[d].row \in landed
      PROVE  OutboxInv'
  <2>1. DrivesInv'
    BY <1>2, <1>3, <1>5, DriveMoves DEF OutboxInv, DrivesInv
  <2>2. TickInv'
    BY <1>1, <1>2, <1>3, <1>5, TickFields, TickStays DEF OutboxInv, TickInv, DriveBecomes
  <2> QED
    BY <1>1, <1>2, <1>5, <2>1, <2>2, NoRowKeeps DEF DriveBecomes
<1>6. CASE CheckExecuted(d)
  BY <1>1, <1>5, <1>6, CheckDoes
<1>7. CASE Confirm(d)
  <2>1. drive[d].step = "wait" /\ DriveBecomes(d, drive[d].row, "ok") /\ drive[d].row \in landed
    BY <1>1, <1>7, StepBecomes DEF Confirm
  <2> QED
    BY <1>5, <2>1
<1>8. CASE DriveFails(d) \/ PollEnds(d)
  <2>1. drive[d].step # "idle" /\ DriveBecomes(d, drive[d].row, "failed")
    BY <1>1, <1>8, StepBecomes DEF DriveFails, PollEnds
  <2> QED
    BY <1>5, <2>1
<1> QED
  BY <1>4, <1>6, <1>7, <1>8

LEMMA PinKeeps ==
    ASSUME OutboxInv, NEW d \in Drive, Pin(d)
    PROVE  OutboxInv'
<1> DEFINE r == drive[d].row
<1>1. TypeOK /\ disp \in Tick /\ pinned \in [Row -> BOOLEAN] /\ windowOver \in [PegIn -> BOOLEAN]
      /\ paused \in BOOLEAN /\ redirected \subseteq PegIn
  BY DEF OutboxInv, TypeOK
<1>2. /\ drive[d].step = "build" /\ r \in Row
      /\ UNCHANGED <<nature, windowOver, landed, disp, paused, redirected, faults>>
  BY PinDoes
<1>3. status[r] # "ABSENT"
  BY <1>2 DEF OutboxInv, DrivesInv
<1>4. ASSUME Kept, NEW step \in {"wait", "failed"}, DriveBecomes(d, r, step)
      PROVE  DrivesInv' /\ TickInv'
  <2>1. DrivesInv'
    BY <1>2, <1>3, <1>4, DriveMoves DEF Kept
  <2>2. TickInv'
    BY <1>1, <1>2, <1>4, TickFields, TickStays DEF OutboxInv, TickInv, DriveBecomes
  <2> QED
    BY <2>1, <2>2
<1>5. CASE DriveBecomes(d, r, "failed") /\ UNCHANGED rowVars
  <2>1. UNCHANGED <<status, pinned>> /\ Kept
    BY <1>5 DEF rowVars, Kept
  <2> QED
    BY <1>1, <1>2, <1>4, <1>5, <2>1, NoRowKeeps DEF DriveBecomes
<1>6. ASSUME NEW s, DriveBecomes(d, r, "wait"), pinned' = [pinned EXCEPT ![r] = TRUE],
             Becomes(r, s), RowSound(r, s), s # "ABSENT"
      PROVE  OutboxInv'
  <2>1. /\ pinned' \in [Row -> BOOLEAN]
        /\ \A o \in Row : (pinned[o] => pinned'[o]) /\ (pinned'[o] => pinned[o] \/ o = r)
    BY <1>1, <1>2, <1>6
  <2> QED
    BY <1>1, <1>2, <1>4, <1>6, <2>1, RowAndTickKeeps DEF DriveBecomes
<1>7. RowSound(r, "BROADCAST") /\ RowSound(r, status[r])
  BY <1>2, <1>3 DEF OutboxInv, RowsInv, RowSound
<1>8. status' = status => Becomes(r, status[r])
  BY <1>1, <1>2 DEF Becomes, TypeOK
<1> QED
  BY <1>3, <1>5, <1>6, <1>7, <1>8, PinDoes

LEMMA LandKeeps ==
    ASSUME OutboxInv, NEW r \in Row, Land(r)
    PROVE  OutboxInv'
<1>1. TypeOK /\ drive \in [Drive -> Drives] /\ landed' = landed \cup {r} /\ pinned[r] /\ CanLand(r)
  BY DEF OutboxInv, TypeOK, Drives, Land
<1>2. UNCHANGED <<nature, status, pinned, windowOver, disp, drive, paused, redirected, faults>>
  BY DEF Land, rowVars
<1>3. Kept /\ landed \subseteq landed' /\ landed' \subseteq Row
  BY <1>1, <1>2 DEF Kept, TypeOK
<1>4. RowsInv'
  BY <1>1, <1>2, <1>3, RowsKept DEF OutboxInv
<1>5. DrivesInv' /\ TickInv'
  BY <1>2, <1>3, DrivesStay, TickStays DEF OutboxInv, TickInv
<1>6. TypeOK'
  BY <1>1, <1>2, <1>3, TypesKept DEF TypeOK
<1> QED
  BY <1>4, <1>5, <1>6 DEF OutboxInv

LEMMA BootKeeps ==
    ASSUME OutboxInv, CoordinatorBoot
    PROVE  OutboxInv'
<1> DEFINE go == {p \in PegIn : Redirectable(p)}
<1>1. TypeOK /\ landed \subseteq Row /\ disp.todo \in SUBSET Row
  BY TickFields DEF OutboxInv, TypeOK
<1>2. /\ drive' \in [Drive -> Drives] /\ \A d \in Drive : drive'[d] = NoDrive
      /\ TickBecomes(disp.pc, disp.row, None, disp.todo) /\ disp'.planned = disp.planned
      /\ status' \in [Row -> Status]
      /\ redirected' = redirected \cup go \cup {p \in PegIn : Decided(p)}
      /\ UNCHANGED <<nature, pinned, windowOver, landed, paused>> /\ Fault
  BY <1>1, BootDoes
<1>3. \A r \in Row : /\ r[1] \notin go => status'[r] = status[r]
                     /\ r[1] \in go =>
                         /\ r[2] = "in" => status'[r] = "QUEUED"
                         /\ r[2] = "refund" => status'[r] = IF status[r] = "ABSENT" THEN "ABSENT" ELSE "FAILED"
                         /\ r[2] \notin {"in", "refund"} => status'[r] = status[r]
  BY <1>1, BootDoes
<1> HIDE DEF go
<1>4. ASSUME NEW r \in Row
      PROVE  \/ status'[r] = status[r]
             \/ r[2] \in {"in", "refund"} /\ status'[r] \in {"QUEUED", "FAILED"}
  BY <1>3
<1>5. Kept
  BY <1>4 DEF Kept
<1>6. \A r \in Row : status'[r] = status[r] \/ RowSound(r, status'[r])
  BY <1>4 DEF RowSound
<1>7. RowsInv'
  BY <1>1, <1>2, <1>5, <1>6, RowsKept DEF OutboxInv
<1>8. DrivesInv'
  BY <1>2, NoDriveFits DEF DrivesInv
<1>9. TickInv'
  BY <1>1, <1>2, <1>5 DEF TickInv, TickBecomes, OutboxInv, Kept
<1>10. redirected' \subseteq PegIn
  BY <1>1, <1>2 DEF TypeOK, go
<1>11. TypeOK'
  BY <1>1, <1>2, <1>10, TypesKept DEF TypeOK, TickBecomes
<1> QED
  BY <1>7, <1>8, <1>9, <1>11 DEF OutboxInv

LEMMA StepKeeps == OutboxInv /\ [Next]_vars => OutboxInv'
<1> SUFFICES ASSUME OutboxInv, [Next]_vars PROVE OutboxInv'
  OBVIOUS
<1>1. ASSUME NEW r \in Row, Detect(r) \/ RecoverOrphan(r) \/ Land(r) PROVE OutboxInv'
  BY <1>1, WatcherKeeps, LandKeeps
<1>2. CASE (\E p \in PegIn : WindowEnds(p)) \/ Pause \/ Unpause \/ UNCHANGED vars
  BY <1>2, QuietKeeps
<1>3. CASE StartTick \/ ReadDue \/ StopWaiting \/ DispatcherCrash
  BY <1>3, TickPartKeeps
<1>4. ASSUME NEW r \in Row, ReturnHeld(r) \/ \E d \in Drive : Submit(r, d) PROVE OutboxInv'
  BY <1>4, ReturnHeldKeeps, SubmitKeeps
<1>5. CASE FlipHeld \/ Transition \/ Follow
  BY <1>5, FlipHeldKeeps, TransitionKeeps, FollowKeeps
<1>6. ASSUME NEW d \in Drive, DriveStep(d) \/ DriveFails(d) PROVE OutboxInv'
  BY <1>6, DriveKeeps, PinKeeps DEF DriveStep
<1>7. CASE CoordinatorBoot
  BY <1>7, BootKeeps
<1> QED
  BY <1>1, <1>2, <1>3, <1>4, <1>5, <1>6, <1>7 DEF Next, TickStep

-----------------------------------------------------------------------------
(* What holds whatever the deployment guarantees. *)

LEMMA OutboxInvariant == Spec => []OutboxInv
BY InitHolds, StepKeeps, PTL DEF Spec

(* A row reported CONFIRMED was executed on its chain, whatever late       *)
(* drives, lost answers, crashes and restarts do to it.                    *)
THEOREM ConfirmedWasExecuted == Spec => []ConfirmedIsExecuted
<1>1. OutboxInv => ConfirmedIsExecuted
  BY DEF OutboxInv, RowsInv, RowSound, ConfirmedIsExecuted
<1> QED
  BY <1>1, OutboxInvariant, PTL

(* A deposit or burn closed as REFUNDED was paid back, unless it was dust. *)
THEOREM RefundedWasRepaid == Spec => []RefundedIsRepaid
<1>1. ASSUME OutboxInv, NEW x \in PegIn \cup PegOut,
             status[IF x \in PegIn THEN In(x) ELSE Out(x)] = "REFUNDED"
      PROVE  nature[x].dust \/ Repay(x) \in landed
  <2>1. CASE x \in PegIn
    BY <1>1, <2>1, RowIds DEF OutboxInv, RowsInv, RowSound
  <2>2. CASE x \in PegOut
    BY <1>1, <2>2, RowIds DEF OutboxInv, RowsInv, RowSound
  <2> QED
    BY <2>1, <2>2
<1>2. OutboxInv => RefundedIsRepaid
  BY <1>1 DEF RefundedIsRepaid
<1> QED
  BY <1>2, OutboxInvariant, PTL

(* The fee of a deposit leaves the gateway account only after its mint.    *)
THEOREM SweepAfterMint == Spec => []SweepOnlyAfterMint
<1>1. OutboxInv => SweepOnlyAfterMint
  BY RowIds DEF OutboxInv, RowsInv, RowSound, SweepOnlyAfterMint
<1> QED
  BY <1>1, OutboxInvariant, PTL

(* A burn is either released on VIZ or returned as wVIZ, never both.       *)
THEOREM NeverBothWays == Spec => []ReleaseXorReturn
<1>1. ASSUME OutboxInv, NEW q \in PegOut, Out(q) \in landed, Return(q) \in landed
      PROVE  FALSE
  <2>1. CanLand(Out(q)) /\ status[Return(q)] # "ABSENT"
    BY <1>1, RowIds DEF OutboxInv, RowsInv
  <2>2. nature[q].kind # "lost"
    BY <1>1, <2>1, RowIds DEF CanLand
  <2>3. nature[q].kind = "lost"
    BY <1>1, <2>1, RowIds DEF OutboxInv, RowsInv, RowSound
  <2> QED
    BY <2>2, <2>3
<1>2. OutboxInv => ReleaseXorReturn
  BY <1>1 DEF ReleaseXorReturn
<1> QED
  BY <1>2, OutboxInvariant, PTL

-----------------------------------------------------------------------------
(* What the deployment has to guarantee for the rest: the dispatcher       *)
(* outlasts every drive and redirects are applied between two ticks.  Then *)
(* a row belongs to one worker at a time.                                  *)

Parent(x) == IF x \in PegIn THEN In(x) ELSE Out(x)

(* A drive has its row, BROADCAST, to itself.                              *)
OneDrive ==
    \A d \in Drive :
        drive[d].step # "idle" =>
            /\ status[drive[d].row] = "BROADCAST"
            /\ \A e \in Drive : drive[e].step # "idle" /\ drive[e].row = drive[d].row => e = d

(* The rows of the tick are as the tick left or read them.                 *)
TickOwns ==
    /\ disp.pc = "flip" => status[disp.row] = "HELD" /\ status[Repay(disp.row[1])] = "QUEUED"
    /\ disp.todo # {} => disp.pc \in {"deliver", "await", "follow"}
    /\ \A r \in disp.todo : status[r] = "QUEUED"
    /\ disp.pc = "await" =>
         /\ status[disp.row] = "BROADCAST"
         /\ disp.drive = None => \A d \in Drive : drive[d].step # "idle" => drive[d].row # disp.row
    /\ disp.pc = "follow" =>
         /\ status[disp.row] = disp.planned /\ disp.planned \in {"CONFIRMED", "REFUNDING", "QUEUED"}
         /\ disp.planned = "REFUNDING" => status[Refund(disp.row[1])] \in {"ABSENT", "FAILED"}

(* A deposit or burn that is still to be delivered, or was, has no         *)
(* repayment but one that a redirect abandoned; one that is held has none  *)
(* on its way.                                                             *)
Family(x) ==
    /\ status[Repay(x)] \in {"ABSENT", "QUEUED", "BROADCAST", "CONFIRMED", "FAILED"}
    /\ status[Repay(x)] = "FAILED" => x \in redirected /\ ~pinned[Repay(x)]
    /\ status[Parent(x)] = "ABSENT" => status[Repay(x)] = "ABSENT"
    /\ status[Parent(x)] \in {"QUEUED", "BROADCAST", "CONFIRMED"} => status[Repay(x)] \in {"ABSENT", "FAILED"}
    /\ status[Parent(x)] = "HELD" => /\ status[Repay(x)] \in {"ABSENT", "QUEUED"}
                                     /\ status[Repay(x)] = "QUEUED" => disp.pc \in {"idle", "tick", "flip"}
Families == \A x \in PegIn \cup PegOut : Family(x)

FlowInv == OutboxInv /\ OneDrive /\ TickOwns /\ Families

(* Without late mints, a mint that landed is recorded or still awaited.    *)
AwaitsMint(p) ==
    /\ disp.pc = "await" /\ disp.row = In(p) /\ disp.drive # None
    /\ drive[disp.drive].step \in {"wait", "ok"}
Heard(p) == In(p) \in landed => status[In(p)] = "CONFIRMED" \/ AwaitsMint(p)
MintHeard == \A p \in PegIn : Heard(p)

(* A REFUNDING deposit or burn has its repayment under way.                *)
Cared(x) ==
    status[Parent(x)] = "REFUNDING" =>
        \/ status[Repay(x)] \in {"QUEUED", "BROADCAST"}
        \/ disp.pc = "follow" /\ disp.row \in {Parent(x), Repay(x)}
        \/ x \in redirected

LEMMA FamilyIds ==
    ASSUME NEW x \in PegIn \cup PegOut
    PROVE  /\ Parent(x) \in Row /\ Parent(x)[1] = x /\ Parent(x)[2] \in {"in", "out"}
           /\ Repay(x) \in Row /\ Repay(x)[1] = x /\ Repay(x)[2] \in {"refund", "return"}
BY RowIds DEF Parent

LEMMA RowInFamily ==
    ASSUME NEW r \in Row
    PROVE  /\ r[1] \in PegIn \cup PegOut
           /\ r[2] \in {"in", "out"} => r = Parent(r[1])
           /\ r[2] \in {"refund", "return"} => r = Repay(r[1])
BY RowParts DEF Parent, Repay

LEMMA FamilyStays ==
    ASSUME NEW x \in PegIn \cup PegOut, Family(x),
           status'[Parent(x)] = status[Parent(x)], status'[Repay(x)] = status[Repay(x)],
           pinned'[Repay(x)] => pinned[Repay(x)] \/ status[Repay(x)] # "FAILED", redirected \subseteq redirected',
           \/ disp.pc \in {"idle", "tick", "flip"} => disp'.pc \in {"idle", "tick", "flip"}
           \/ status[Parent(x)] # "HELD"
    PROVE  Family(x)'
<1>1. Parent(x)' = Parent(x) /\ Repay(x)' = Repay(x)
  BY DEF Parent, Repay
<1> QED
  BY DEF Family, Parent, Repay, In, Out, Refund, Return

(* Steps that change neither rows nor tick nor drives.                     *)
LEMMA QuietFlows ==
    ASSUME FlowInv, UNCHANGED <<status, pinned, disp, drive, redirected>>
    PROVE  (OneDrive /\ TickOwns /\ Families)'
<1>1. (OneDrive /\ TickOwns)'
  BY DEF FlowInv, OneDrive, TickOwns, Repay, Refund, Return
<1>2. Families'
  BY FamilyStays DEF FlowInv, Families
<1> QED
  BY <1>1, <1>2

LEMMA DetectFlows ==
    ASSUME FlowInv, NEW r \in Row, Detect(r)
    PROVE  (OneDrive /\ TickOwns /\ Families)'
<1>0. OutboxInv /\ TypeOK
  BY DEF FlowInv, OutboxInv
<1>1. PICK s \in {"HELD", "QUEUED"} : Becomes(r, s)
  BY <1>0, DetectDoes
<1>2. /\ r[2] \in {"in", "out"} /\ status[r] = "ABSENT"
      /\ UNCHANGED <<pinned, disp, drive, redirected>>
  BY <1>0, DetectDoes
<1>3. \A o \in Row : status[o] # "ABSENT" => status'[o] = status[o]
  BY <1>1, <1>2 DEF Becomes
<1>4. OneDrive'
  BY <1>0, <1>2, <1>3 DEF FlowInv, OneDrive, OutboxInv, DrivesInv
<1>5. TickOwns'
  <2>1. disp.todo \in SUBSET Row
    BY <1>0, TickFields
  <2>2. \A o \in Row : o[2] \in {"refund", "return"} => status'[o] = status[o]
    BY <1>1, <1>2 DEF Becomes
  <2>3. disp.row \in Row => /\ disp.row[1] \in PegIn => Refund(disp.row[1]) \in Row /\ Refund(disp.row[1])[2] = "refund"
                            /\ Repay(disp.row[1]) \in Row /\ Repay(disp.row[1])[2] \in {"refund", "return"}
    BY RowInFamily, FamilyIds, RowIds
  <2>4. disp.pc = "follow" /\ disp.planned = "REFUNDING" => disp.row \in Row /\ disp.row[1] \in PegIn
    BY <1>0, RowParts DEF OutboxInv, TickInv
  <2> QED
    BY <1>0, <1>2, <1>3, <2>1, <2>2, <2>3, <2>4 DEF FlowInv, TickOwns, OutboxInv, TickInv, Repay, Refund, Return
<1>6. Families'
  <2> SUFFICES ASSUME NEW x \in PegIn \cup PegOut PROVE Family(x)'
    BY DEF Families
  <2>1. Family(x)
    BY DEF FlowInv, Families
  <2>2. status'[Repay(x)] = status[Repay(x)]
    BY <1>1, <1>2, FamilyIds DEF Becomes
  <2>3. CASE r # Parent(x)
    <3>1. status'[Parent(x)] = status[Parent(x)]
      BY <1>1, <2>3, FamilyIds DEF Becomes
    <3> QED
      BY <1>2, <2>1, <2>2, <3>1, FamilyStays
  <2>4. CASE r = Parent(x)
    <3>1. status'[Parent(x)] \in {"HELD", "QUEUED"} /\ status[Repay(x)] = "ABSENT"
      BY <1>1, <1>2, <2>1, <2>4 DEF Becomes, Family
    <3> QED
      BY <1>2, <2>1, <2>2, <3>1 DEF Family, Parent, Repay, In, Out, Refund, Return
  <2> QED
    BY <2>3, <2>4
<1> QED
  BY <1>4, <1>5, <1>6

(* One row moves from a status no drive has; the tick keeps its own.       *)
LEMMA IdleRowMoves ==
    ASSUME OneDrive, DrivesInv, NEW r \in Row, NEW s, Becomes(r, s), UNCHANGED drive,
           status[r] # "BROADCAST" \/ (\A d \in Drive : drive[d].row # r)
    PROVE  OneDrive'
BY DEF OneDrive, DrivesInv, Becomes

(* One row of family x moves.                                              *)
LEMMA FamilyMoves ==
    ASSUME Families, NEW r \in Row, NEW s, Becomes(r, s), UNCHANGED <<pinned, redirected>>,
           r[2] \in {"in", "out", "refund", "return"} => Family(r[1])',
           disp.pc \in {"idle", "tick", "flip"} => disp'.pc \in {"idle", "tick", "flip"}
    PROVE  Families'
<1> SUFFICES ASSUME NEW x \in PegIn \cup PegOut PROVE Family(x)'
  BY DEF Families
<1>1. CASE r \in {Parent(x), Repay(x)}
  BY <1>1, FamilyIds
<1>2. CASE r \notin {Parent(x), Repay(x)}
  <2>1. status'[Parent(x)] = status[Parent(x)] /\ status'[Repay(x)] = status[Repay(x)]
    BY <1>2, FamilyIds DEF Becomes
  <2> QED
    BY <2>1, FamilyStays DEF Families
<1> QED
  BY <1>1, <1>2

(* Family(x) after a step, in terms of the new values.                     *)
LEMMA FamilyAfter ==
    ASSUME NEW x \in PegIn \cup PegOut,
           status'[Repay(x)] \in {"ABSENT", "QUEUED", "BROADCAST", "CONFIRMED", "FAILED"},
           status'[Repay(x)] = "FAILED" => x \in redirected' /\ ~pinned'[Repay(x)],
           status'[Parent(x)] = "ABSENT" => status'[Repay(x)] = "ABSENT",
           status'[Parent(x)] \in {"QUEUED", "BROADCAST", "CONFIRMED"} => status'[Repay(x)] \in {"ABSENT", "FAILED"},
           status'[Parent(x)] = "HELD" =>
               /\ status'[Repay(x)] \in {"ABSENT", "QUEUED"}
               /\ status'[Repay(x)] = "QUEUED" => disp'.pc \in {"idle", "tick", "flip"}
    PROVE  Family(x)'
BY DEF Family, Parent, Repay, In, Out, Refund, Return

LEMMA RecoverFlows ==
    ASSUME TimelyDrives, FlowInv, NEW r \in Row, RecoverOrphan(r)
    PROVE  (OneDrive /\ TickOwns /\ Families)'
<1>0. OutboxInv /\ TypeOK
  BY DEF FlowInv, OutboxInv
<1>1. /\ Becomes(r, "QUEUED") /\ status[r] = "BROADCAST" /\ disp.pc = "tick"
      /\ \A d \in Drive : drive[d].row # r
      /\ UNCHANGED <<pinned, disp, drive, redirected>>
  BY <1>0, SetStatusBecomes DEF RecoverOrphan, Status
<1>2. OneDrive'
  BY <1>0, <1>1, IdleRowMoves DEF FlowInv, OutboxInv
<1>3. TickOwns'
  BY <1>1 DEF FlowInv, TickOwns
<1>4. Families'
  <2>1. ASSUME r[2] \in {"in", "out", "refund", "return"} PROVE Family(r[1])'
    <3> DEFINE x == r[1]
    <3>1. x \in PegIn \cup PegOut /\ r \in {Parent(x), Repay(x)}
      BY <2>1, RowInFamily
    <3>2. Family(x)
      BY <3>1 DEF FlowInv, Families
    <3>3. /\ Parent(x) \in Row /\ Repay(x) \in Row /\ Parent(x) # Repay(x)
      BY <3>1, FamilyIds
    <3> HIDE DEF x
    <3>4. CASE r = Parent(x)
      <4>1. status'[Parent(x)] = "QUEUED" /\ status'[Repay(x)] = status[Repay(x)]
        BY <1>1, <3>3, <3>4 DEF Becomes
      <4>2. status[Repay(x)] \in {"ABSENT", "FAILED"} /\ (status[Repay(x)] = "FAILED" => x \in redirected /\ ~pinned[Repay(x)])
        BY <1>1, <3>2, <3>4 DEF Family
      <4>3. Family(x)'
        BY <1>1, <3>1, <4>1, <4>2, FamilyAfter
      <4> QED
        BY <4>3 DEF x
    <3>5. CASE r = Repay(x)
      <4>1. status'[Repay(x)] = "QUEUED" /\ status'[Parent(x)] = status[Parent(x)]
        BY <1>1, <3>3, <3>5 DEF Becomes
      <4>2. status[Parent(x)] \notin {"ABSENT", "HELD", "QUEUED", "BROADCAST", "CONFIRMED"}
        BY <1>1, <3>2, <3>5 DEF Family
      <4>3. Family(x)'
        BY <3>1, <4>1, <4>2, FamilyAfter
      <4> QED
        BY <4>3 DEF x
    <3> QED
      BY <3>1, <3>4, <3>5
  <2> QED
    BY <1>1, <2>1, FamilyMoves DEF FlowInv
<1> QED
  BY <1>2, <1>3, <1>4

LEMMA TickPartFlows ==
    ASSUME TimelyDrives, FlowInv, StartTick \/ ReadDue \/ StopWaiting \/ DispatcherCrash
    PROVE  (OneDrive /\ TickOwns /\ Families)'
<1>0. TypeOK
  BY DEF FlowInv, OutboxInv
<1>1. UNCHANGED <<status, pinned, drive, redirected>> /\ ~StopWaiting
  BY DEF StartTick, ReadDue, StopWaiting, DispatcherCrash, rowVars
<1>2. OneDrive'
  BY <1>1 DEF FlowInv, OneDrive
<1>3. CASE StartTick \/ DispatcherCrash
  <2>1. disp'.pc \in {"idle", "tick"} /\ disp'.todo = {}
    BY <1>3 DEF StartTick, DispatcherCrash, NoTick
  <2> QED
    BY <1>1, <1>2, <2>1, FamilyStays DEF FlowInv, TickOwns, Families
<1>4. CASE ReadDue
  <2>1. /\ \A r \in Row : status[r] # "HELD"
        /\ disp'.pc \in {"idle", "deliver"} /\ (disp'.todo # {} => disp'.pc = "deliver")
        /\ \A r \in disp'.todo : status[r] = "QUEUED"
    BY <1>0, <1>4, ReadDueDoes DEF TickBecomes
  <2>2. TickOwns'
    BY <1>1, <2>1 DEF TickOwns
  <2>3. Families'
    BY <1>1, <2>1, FamilyStays, FamilyIds DEF FlowInv, Families
  <2> QED
    BY <1>2, <2>2, <2>3
<1> QED
  BY <1>1, <1>3, <1>4

LEMMA ReturnHeldFlows ==
    ASSUME FlowInv, NEW r \in Row, ReturnHeld(r)
    PROVE  (OneDrive /\ TickOwns /\ Families)'
<1>0. OutboxInv /\ OneDrive /\ DrivesInv /\ Families /\ TickOwns
  BY DEF FlowInv, OutboxInv
<1> DEFINE x == r[1]
<1>1. /\ disp.pc = "tick" /\ status[r] = "HELD" /\ r = Parent(x) /\ x \in PegIn \cup PegOut
      /\ UNCHANGED <<pinned, drive, redirected>> /\ Family(x)
  BY <1>0, ReturnHeldDoes, RowInFamily DEF Families
<1>2. Repay(x) \in Row /\ Repay(x) # r /\ status[Repay(x)] \in {"ABSENT", "QUEUED"}
  BY <1>1, FamilyIds DEF Family
<1>3. CASE Becomes(r, "REFUNDED") /\ disp' = disp
  <2>1. OneDrive' /\ TickOwns'
    BY <1>0, <1>1, <1>3, IdleRowMoves DEF TickOwns
  <2>2. Family(x)'
    BY <1>1, <1>2, <1>3, FamilyAfter DEF Becomes, Family
  <2> QED
    BY <1>0, <1>1, <1>3, <2>1, <2>2, FamilyMoves
<1>4. CASE Becomes(Repay(x), "QUEUED") /\ TickBecomes("flip", r, None, {})
  <2>1. OneDrive'
    BY <1>0, <1>1, <1>2, <1>4, IdleRowMoves
  <2>2. status'[r] = "HELD" /\ status'[Repay(x)] = "QUEUED" /\ disp'.pc = "flip" /\ disp'.row = r /\ disp'.todo = {}
    BY <1>1, <1>2, <1>4 DEF Becomes, TickBecomes
  <2>3. TickOwns'
    BY <2>2 DEF TickOwns, Repay, Refund, Return
  <2>4. Family(x)'
    BY <1>1, <1>2, <2>2, FamilyAfter
  <2>5. Repay(x)[1] = x
    BY <1>1, FamilyIds
  <2> QED
    BY <1>0, <1>1, <1>2, <1>4, <2>1, <2>2, <2>3, <2>4, <2>5, FamilyMoves
<1>5. \/ Becomes(r, "REFUNDED") /\ disp' = disp
      \/ Becomes(Repay(x), "QUEUED") /\ TickBecomes("flip", r, None, {})
  BY <1>0, <1>2, ReturnHeldDoes
<1> QED
  BY <1>3, <1>4, <1>5

LEMMA FlipHeldFlows ==
    ASSUME FlowInv, FlipHeld
    PROVE  (OneDrive /\ TickOwns /\ Families)'
<1>0. OutboxInv /\ OneDrive /\ DrivesInv /\ Families /\ TickOwns
  BY DEF FlowInv, OutboxInv
<1>r. PICK r \in Row : r = disp.row
  BY <1>0, FlipHeldDoes
<1> DEFINE x == r[1]
<1>1. /\ disp.pc = "flip" /\ Becomes(r, "REFUNDING") /\ TickBecomes("tick", None, None, {})
      /\ UNCHANGED <<pinned, drive, redirected>> /\ status[r] = "HELD" /\ status[Repay(x)] = "QUEUED"
  BY <1>0, <1>r, FlipHeldDoes DEF TickOwns
<1>2. r = Parent(x) /\ x \in PegIn \cup PegOut
  BY <1>0, <1>1, RowInFamily DEF OutboxInv, RowsInv, RowSound
<1>3. Repay(x) \in Row /\ Repay(x) # r
  BY <1>2, FamilyIds
<1>4. OneDrive'
  BY <1>0, <1>1, IdleRowMoves
<1>5. TickOwns'
  BY <1>1 DEF TickOwns, TickBecomes
<1>6. status'[Parent(x)] = "REFUNDING" /\ status'[Repay(x)] = "QUEUED"
  BY <1>1, <1>2, <1>3 DEF Becomes
<1>7. Family(x)'
  BY <1>2, <1>6, FamilyAfter
<1> QED
  BY <1>0, <1>1, <1>4, <1>5, <1>7, FamilyMoves DEF TickBecomes

LEMMA SubmitFlows ==
    ASSUME FlowInv, NEW r \in Row, NEW d \in Drive, Submit(r, d)
    PROVE  (OneDrive /\ TickOwns /\ Families)'
<1>0. OutboxInv /\ OneDrive /\ DrivesInv /\ Families /\ TickOwns /\ TypeOK /\ disp.todo \in SUBSET Row
  BY TickFields DEF FlowInv, OutboxInv
<1>1. /\ disp.pc = "deliver" /\ r \in disp.todo /\ Becomes(r, "BROADCAST")
      /\ DriveBecomes(d, r, "check") /\ TickBecomes("await", r, d, disp.todo \ {r})
      /\ UNCHANGED <<pinned, redirected>>
  BY <1>0, SubmitDoes
<1>2. status[r] = "QUEUED" /\ d # None
  BY <1>0, <1>1, Switches DEF TickOwns
<1>3. OneDrive'
  BY <1>0, <1>1, <1>2 DEF OneDrive, DrivesInv, Becomes, DriveBecomes
<1>4. TickOwns'
  BY <1>0, <1>1, <1>2 DEF TickOwns, Becomes, TickBecomes
<1>5. ASSUME r[2] \in {"in", "out", "refund", "return"} PROVE Family(r[1])'
  <2> DEFINE x == r[1]
  <2>1. /\ x \in PegIn \cup PegOut /\ r \in {Parent(x), Repay(x)} /\ Family(x)
        /\ Parent(x) \in Row /\ Repay(x) \in Row /\ Parent(x) # Repay(x)
    BY <1>0, <1>5, RowInFamily, FamilyIds DEF Families
  <2> HIDE DEF x
  <2>2. CASE r = Parent(x)
    <3>1. status'[Parent(x)] = "BROADCAST" /\ status'[Repay(x)] = status[Repay(x)]
      BY <1>1, <2>1, <2>2 DEF Becomes
    <3>2. status[Repay(x)] \in {"ABSENT", "FAILED"} /\ (status[Repay(x)] = "FAILED" => x \in redirected /\ ~pinned[Repay(x)])
      BY <1>2, <2>1, <2>2 DEF Family
    <3>3. Family(x)'
      BY <1>1, <2>1, <3>1, <3>2, FamilyAfter
    <3> QED
      BY <3>3 DEF x
  <2>3. CASE r = Repay(x)
    <3>1. status'[Repay(x)] = "BROADCAST" /\ status'[Parent(x)] = status[Parent(x)]
      BY <1>1, <2>1, <2>3 DEF Becomes
    <3>2. status[Parent(x)] \notin {"ABSENT", "HELD", "QUEUED", "BROADCAST", "CONFIRMED"}
      BY <1>1, <1>2, <2>1, <2>3 DEF Family
    <3>3. Family(x)'
      BY <2>1, <3>1, <3>2, FamilyAfter
    <3> QED
      BY <3>3 DEF x
  <2> QED
    BY <2>1, <2>2, <2>3
<1> QED
  BY <1>0, <1>1, <1>3, <1>4, <1>5, FamilyMoves

LEMMA TransitionFlows ==
    ASSUME FlowInv, Transition
    PROVE  (OneDrive /\ TickOwns /\ Families)'
<1>0. OutboxInv /\ OneDrive /\ DrivesInv /\ TickInv /\ Families /\ TickOwns /\ TypeOK /\ disp.todo \in SUBSET Row
  BY TickFields DEF FlowInv, OutboxInv
<1>r. PICK r \in Row : r = disp.row
  BY <1>0, TransitionDoes
<1> DEFINE delivered == disp.drive # None /\ drive[disp.drive].step = "ok"
<1>s. PICK s \in {"CONFIRMED", "REFUNDING", "QUEUED"} : s = PlanTransition(r, delivered)
  BY <1>0, <1>r, TransitionDoes
<1>1. /\ disp.pc = "await" /\ disp.row = r /\ (disp.drive # None => disp.drive \in Drive)
      /\ Becomes(r, s) /\ pinned' = [pinned EXCEPT ![r] = @ \/ delivered]
      /\ IF disp.drive # None THEN DriveBecomes(disp.drive, None, "idle") ELSE drive' = drive
      /\ TickBecomes("follow", r, None, disp.todo) /\ disp'.planned = s
      /\ UNCHANGED redirected
  BY <1>0, <1>r, <1>s, TransitionDoes
<1>2. s = "REFUNDING" => r[2] = "in"
  BY <1>s DEF PlanTransition
<1>3. status[r] = "BROADCAST"
  BY <1>0, <1>1 DEF TickOwns
<1>4. \A o \in Row : o # r => pinned'[o] = pinned[o]
  BY <1>0, <1>1 DEF TypeOK
<1> HIDE DEF delivered
<1>5. \A e \in Drive : drive'[e].step # "idle" => drive'[e] = drive[e] /\ drive[e].row # r
  <2>1. CASE disp.drive = None
    BY <1>0, <1>1, <2>1 DEF TickOwns
  <2>2. CASE disp.drive # None
    <3>1. drive[disp.drive].row = r /\ drive[disp.drive].step # "idle" /\ disp.drive \in Drive
      BY <1>0, <1>1, <2>2 DEF TickInv
    <3>2. DriveBecomes(disp.drive, None, "idle")
      BY <1>1, <2>2
    <3> QED
      BY <1>0, <3>1, <3>2 DEF OneDrive, DriveBecomes
  <2> QED
    BY <2>1, <2>2
<1>6. OneDrive'
  BY <1>0, <1>1, <1>5 DEF OneDrive, DrivesInv, Becomes
<1>7. /\ r[1] \in PegIn \cup PegOut /\ Family(r[1])
      /\ Parent(r[1]) \in Row /\ Repay(r[1]) \in Row /\ Parent(r[1]) # Repay(r[1])
  BY <1>0, RowInFamily, FamilyIds DEF Families
<1>8. s = "REFUNDING" => r = Parent(r[1]) /\ Refund(r[1]) = Repay(r[1])
  BY <1>2, <1>7, RowInFamily, RowParts, RowIds
<1>9. TickOwns'
  <2>1. s = "REFUNDING" => status'[Refund(r[1])] \in {"ABSENT", "FAILED"}
    <3> SUFFICES ASSUME s = "REFUNDING" PROVE status'[Refund(r[1])] \in {"ABSENT", "FAILED"}
      OBVIOUS
    <3>1. status[Repay(r[1])] \in {"ABSENT", "FAILED"}
      BY <1>3, <1>7, <1>8 DEF Family
    <3>2. status'[Repay(r[1])] = status[Repay(r[1])]
      BY <1>1, <1>7, <1>8 DEF Becomes
    <3> QED
      BY <1>8, <3>1, <3>2
  <2>2. status'[r] = s /\ \A o \in disp.todo : status'[o] = "QUEUED"
    BY <1>0, <1>1, <1>3 DEF Becomes, TickOwns
  <2>3. /\ disp'.pc = "follow" /\ disp'.row = r /\ disp'.todo = disp.todo /\ disp'.planned = s
    BY <1>1 DEF TickBecomes
  <2> QED
    BY <2>1, <2>2, <2>3 DEF TickOwns, Refund
<1>10. Families'
  <2> SUFFICES ASSUME NEW x \in PegIn \cup PegOut PROVE Family(x)'
    BY DEF Families
  <2>1. /\ Family(x) /\ Parent(x) \in Row /\ Repay(x) \in Row /\ Parent(x) # Repay(x)
        /\ Repay(x)[2] \in {"refund", "return"}
    BY <1>0, FamilyIds DEF Families
  <2>2. CASE r \notin {Parent(x), Repay(x)}
    <3>1. /\ status'[Parent(x)] = status[Parent(x)] /\ status'[Repay(x)] = status[Repay(x)]
          /\ pinned'[Repay(x)] = pinned[Repay(x)]
      BY <1>1, <1>4, <2>1, <2>2 DEF Becomes
    <3> QED
      BY <1>1, <2>1, <3>1, FamilyStays
  <2>3. CASE r = Parent(x)
    <3>1. status'[Parent(x)] = s /\ status'[Repay(x)] = status[Repay(x)] /\ pinned'[Repay(x)] = pinned[Repay(x)]
      BY <1>1, <1>4, <2>1, <2>3 DEF Becomes
    <3>2. status[Repay(x)] \in {"ABSENT", "FAILED"} /\ (status[Repay(x)] = "FAILED" => x \in redirected /\ ~pinned[Repay(x)])
      BY <1>3, <2>1, <2>3 DEF Family
    <3> QED
      BY <1>1, <3>1, <3>2, FamilyAfter
  <2>4. CASE r = Repay(x)
    <3>1. status'[Repay(x)] = s /\ s # "REFUNDING" /\ status'[Parent(x)] = status[Parent(x)]
      BY <1>1, <1>2, <2>1, <2>4 DEF Becomes
    <3>2. status[Parent(x)] \notin {"ABSENT", "HELD", "QUEUED", "BROADCAST", "CONFIRMED"}
      BY <1>3, <2>1, <2>4 DEF Family
    <3> QED
      BY <3>1, <3>2, FamilyAfter
  <2> QED
    BY <2>2, <2>3, <2>4
<1> QED
  BY <1>6, <1>9, <1>10

LEMMA FollowFlows ==
    ASSUME FlowInv, Follow
    PROVE  (OneDrive /\ TickOwns /\ Families)'
<1>0. OutboxInv /\ OneDrive /\ DrivesInv /\ Families /\ TickOwns /\ TypeOK /\ disp.todo \in SUBSET Row
  BY TickFields DEF FlowInv, OutboxInv
<1>r. PICK r \in Row : r = disp.row
  BY <1>0, FollowDoes
<1> DEFINE x == r[1]
           queued(child) == IF status[child] = "ABSENT" THEN "QUEUED" ELSE status[child]
<1>1. /\ disp.pc = "follow" /\ disp.row = r
      /\ TickBecomes("idle", None, None, {}) \/ TickBecomes("deliver", None, None, disp.todo)
      /\ UNCHANGED <<pinned, drive, redirected>>
  BY <1>0, <1>r, FollowDoes
<1>2. status[r] = disp.planned
  BY <1>0, <1>1 DEF TickOwns
<1>3. x \in PegIn \cup PegOut /\ Family(x)
  BY <1>0, RowInFamily DEF Families
<1>4. ASSUME NEW o \in Row, NEW s, Becomes(o, s), o[2] \in {"in", "out", "refund", "return"} => Family(o[1])',
             status[o] # "BROADCAST" \/ s = "BROADCAST", status[o] # "QUEUED" \/ s = "QUEUED"
      PROVE  (OneDrive /\ TickOwns /\ Families)'
  <2>1. OneDrive'
    BY <1>0, <1>1, <1>4 DEF OneDrive, DrivesInv, Becomes
  <2>2. TickOwns'
    BY <1>0, <1>1, <1>4 DEF TickOwns, TickBecomes, Becomes
  <2>3. Families'
    BY <1>0, <1>1, <1>4, FamilyMoves
  <2> QED
    BY <2>1, <2>2, <2>3
<1>5. CASE x \in PegIn /\ Becomes(Fee(x), queued(Fee(x)))
  <2>1. Fee(x) \in Row /\ Fee(x)[2] = "fee"
    BY <1>5, RowIds
  <2> QED
    BY <1>4, <1>5, <2>1
<1>6. ASSUME disp.planned = "REFUNDING", r = In(x), x \in PegIn, nature[x].dust, Becomes(r, "REFUNDED")
      PROVE  (OneDrive /\ TickOwns /\ Families)'
  <2>1. r = Parent(x) /\ Repay(x) \in Row /\ Repay(x) # r
    BY <1>6, FamilyIds DEF Parent
  <2>2. status'[Parent(x)] = "REFUNDED" /\ status'[Repay(x)] = status[Repay(x)]
    BY <1>6, <2>1 DEF Becomes
  <2>3. Family(x)'
    BY <1>1, <1>3, <2>2, FamilyAfter DEF Family
  <2> QED
    BY <1>2, <1>4, <1>6, <2>3
<1>7. ASSUME disp.planned = "REFUNDING", r = In(x), x \in PegIn, Becomes(Refund(x), queued(Refund(x)))
      PROVE  (OneDrive /\ TickOwns /\ Families)'
  <2>1. r = Parent(x) /\ Repay(x) = Refund(x) /\ Refund(x) \in Row /\ Refund(x) # r /\ Refund(x)[1] = x
    BY <1>7, FamilyIds, RowIds DEF Parent
  <2>2. status[Refund(x)] \in {"ABSENT", "FAILED"}
    BY <1>0, <1>1, <1>7 DEF TickOwns
  <2>3. status'[Parent(x)] = "REFUNDING" /\ status'[Repay(x)] = queued(Repay(x))
    BY <1>2, <1>7, <2>1 DEF Becomes
  <2>4. Family(x)'
    BY <1>1, <1>3, <2>1, <2>2, <2>3, FamilyAfter DEF Family
  <2> QED
    BY <1>4, <1>7, <2>1, <2>2, <2>4
<1>8. ASSUME disp.planned = "CONFIRMED", r = Repay(x), Becomes(Parent(x), "REFUNDED")
      PROVE  (OneDrive /\ TickOwns /\ Families)'
  <2>1. Parent(x) \in Row /\ Parent(x) # r /\ Parent(x)[1] = x
    BY <1>3, <1>8, FamilyIds
  <2>2. status[Parent(x)] \notin {"ABSENT", "HELD", "QUEUED", "BROADCAST", "CONFIRMED"}
    BY <1>2, <1>3, <1>8 DEF Family
  <2>3. status'[Parent(x)] = "REFUNDED" /\ status'[Repay(x)] = "CONFIRMED"
    BY <1>2, <1>8, <2>1 DEF Becomes
  <2>4. Family(x)'
    BY <1>3, <2>3, FamilyAfter
  <2> QED
    BY <1>4, <1>8, <2>1, <2>2, <2>4
<1>9. CASE status' = status
  <2>1. OneDrive'
    BY <1>0, <1>1, <1>9 DEF OneDrive
  <2>2. TickOwns'
    BY <1>0, <1>1, <1>9 DEF TickOwns, TickBecomes
  <2>3. Families'
    BY <1>0, <1>1, <1>9, FamilyStays DEF Families
  <2> QED
    BY <2>1, <2>2, <2>3
<1>10. \/ x \in PegIn /\ Becomes(Fee(x), queued(Fee(x)))
       \/ disp.planned = "REFUNDING" /\ r = In(x) /\ x \in PegIn /\ nature[x].dust /\ Becomes(r, "REFUNDED")
       \/ disp.planned = "REFUNDING" /\ r = In(x) /\ x \in PegIn /\ Becomes(Refund(x), queued(Refund(x)))
       \/ disp.planned = "CONFIRMED" /\ r = Refund(x) /\ x \in PegIn /\ Becomes(In(x), "REFUNDED")
       \/ disp.planned = "CONFIRMED" /\ r = Return(x) /\ x \in PegOut /\ Becomes(Out(x), "REFUNDED")
       \/ status' = status
  BY <1>0, <1>r, FollowDoes
<1>11. /\ x \in PegIn => Refund(x) = Repay(x) /\ In(x) = Parent(x)
       /\ x \in PegOut => Return(x) = Repay(x) /\ Out(x) = Parent(x)
  BY RowIds DEF Parent
<1> HIDE DEF queued, x
<1> QED
  BY <1>5, <1>6, <1>7, <1>8, <1>9, <1>10, <1>11

(* A drive keeps its row through its steps, and gives it up at the end.    *)
LEMMA DriveStepFlows ==
    ASSUME FlowInv, NEW d \in Drive, NEW row, NEW step, DriveBecomes(d, row, step),
           step # "idle" => row = drive[d].row /\ drive[d].step # "idle",
           UNCHANGED <<disp, redirected>>, \A r \in Row : status'[r] = status[r],
           \A r \in Row : pinned'[r] => pinned[r] \/ status[r] # "FAILED"
    PROVE  (OneDrive /\ TickOwns /\ Families)'
<1>0. OutboxInv /\ OneDrive /\ DrivesInv /\ TickInv /\ Families /\ TickOwns /\ TypeOK /\ disp.todo \in SUBSET Row
  BY TickFields DEF FlowInv, OutboxInv
<1>1. OneDrive'
  BY <1>0 DEF OneDrive, DrivesInv, DriveBecomes
<1>2. /\ disp.pc \in {"flip", "follow"} => disp.row \in Row /\ Repay(disp.row[1]) \in Row
      /\ disp.pc = "follow" /\ disp.planned = "REFUNDING" => Refund(disp.row[1]) \in Row
  BY <1>0, RowInFamily, FamilyIds, RowParts, RowIds DEF TickInv
<1>3. TickOwns'
  BY <1>0, <1>2 DEF TickOwns, TickInv, DriveBecomes, Repay, Refund, Return
<1>4. Families'
  BY <1>0, FamilyStays, FamilyIds DEF Families
<1> QED
  BY <1>1, <1>3, <1>4

(* With the row to itself, a drive that pins finds it BROADCAST already.   *)
LEMMA PinWritesNoStatus ==
    ASSUME FlowInv, NEW d \in Drive, Pin(d)
    PROVE  /\ \A r \in Row : status'[r] = status[r]
           /\ \A r \in Row : pinned'[r] => pinned[r] \/ status[r] # "FAILED"
<1>0. OutboxInv /\ TypeOK
  BY DEF FlowInv, OutboxInv
<1> DEFINE r == drive[d].row
<1>1. r \in Row /\ status[r] = "BROADCAST"
  BY <1>0, PinDoes DEF FlowInv, OneDrive
<1>2. \/ UNCHANGED rowVars
      \/ pinned' = [pinned EXCEPT ![r] = TRUE] /\ (Becomes(r, "BROADCAST") \/ status' = status)
  BY <1>0, PinDoes
<1> HIDE DEF r
<1> QED
  BY <1>0, <1>1, <1>2 DEF rowVars, Becomes, TypeOK

LEMMA DrivesFlow ==
    ASSUME FlowInv, NEW d \in Drive, DriveStep(d) \/ DriveFails(d)
    PROVE  (OneDrive /\ TickOwns /\ Families)'
<1>0. OutboxInv /\ TypeOK
  BY DEF FlowInv, OutboxInv
<1>1. CASE CheckExecuted(d)
  BY <1>0, <1>1, CheckDoes, DriveStepFlows DEF rowVars
<1>2. CASE Pin(d)
  BY <1>0, <1>2, PinDoes, PinWritesNoStatus, DriveStepFlows
<1>3. CASE Confirm(d)
  <2>1. DriveBecomes(d, drive[d].row, "ok") /\ drive[d].step # "idle"
    BY <1>0, <1>3, StepBecomes DEF Confirm
  <2> QED
    BY <1>3, <2>1, DriveStepFlows DEF Confirm, rowVars
<1>4. CASE PollEnds(d) \/ DriveFails(d)
  <2>1. DriveBecomes(d, drive[d].row, "failed") /\ drive[d].step # "idle"
    BY <1>0, <1>4, StepBecomes DEF PollEnds, DriveFails
  <2> QED
    BY <1>4, <2>1, DriveStepFlows DEF PollEnds, DriveFails, rowVars
<1>5. CASE DropResult(d)
  <2>1. DriveBecomes(d, None, "idle")
    BY <1>0, <1>5, DriveDropped DEF DropResult
  <2> QED
    BY <1>5, <2>1, DriveStepFlows DEF DropResult, rowVars
<1> QED
  BY <1>1, <1>2, <1>3, <1>4, <1>5 DEF DriveStep

LEMMA BootFlows ==
    ASSUME QuietRedirect, FlowInv, CoordinatorBoot
    PROVE  (OneDrive /\ TickOwns /\ Families)'
<1>0. OutboxInv /\ Families /\ TickInv /\ TickOwns /\ TypeOK /\ disp.todo \in SUBSET Row
  BY TickFields DEF FlowInv, OutboxInv
<1> DEFINE go == {p \in PegIn : Redirectable(p)}
<1>1. /\ go # {} => disp = NoTick
      /\ \A d \in Drive : drive'[d] = NoDrive
      /\ TickBecomes(disp.pc, disp.row, None, disp.todo) /\ disp'.planned = disp.planned
      /\ redirected' = redirected \cup go \cup {p \in PegIn : Decided(p)}
      /\ pinned' = pinned
      /\ \A r \in Row : /\ r[1] \notin go => status'[r] = status[r]
                        /\ r[1] \in go =>
                            /\ r[2] = "in" => status'[r] = "QUEUED"
                            /\ r[2] = "refund" => status'[r] = IF status[r] = "ABSENT" THEN "ABSENT" ELSE "FAILED"
                            /\ r[2] \notin {"in", "refund"} => status'[r] = status[r]
  BY <1>0, BootDoes
<1>2. \A p \in go : p \in PegIn /\ ~pinned[Refund(p)]
  BY DEF Redirectable
<1> HIDE DEF go
<1>3. \A d \in Drive : drive'[d].step = "idle"
  BY <1>1, NoDriveFits
<1>4. OneDrive'
  BY <1>3 DEF OneDrive
<1>5. TickOwns'
  <2>1. CASE go # {}
    <3>1. disp.pc = "idle" /\ disp.todo = {}
      BY <1>1, <2>1 DEF NoTick
    <3> QED
      BY <1>1, <3>1 DEF TickOwns, TickBecomes
  <2>2. CASE go = {}
    <3>1. \A r \in Row : status'[r] = status[r]
      BY <1>1, <2>2
    <3>2. /\ disp.pc \in {"flip", "follow"} => disp.row \in Row /\ Repay(disp.row[1]) \in Row
          /\ disp.pc = "follow" /\ disp.planned = "REFUNDING" => Refund(disp.row[1]) \in Row
      BY <1>0, RowInFamily, FamilyIds, RowParts, RowIds DEF TickInv
    <3> QED
      BY <1>0, <1>1, <1>3, <3>1, <3>2 DEF TickOwns, TickInv, TickBecomes, Repay, Refund, Return
  <2> QED
    BY <2>1, <2>2
<1>6. Families'
  <2> SUFFICES ASSUME NEW x \in PegIn \cup PegOut PROVE Family(x)'
    BY DEF Families
  <2>1. Family(x)
    BY <1>0 DEF Families
  <2>2. CASE x \notin go
    BY <1>1, <2>1, <2>2, FamilyIds, FamilyStays DEF TickBecomes
  <2>3. CASE x \in go
    <3>1. /\ Parent(x) \in Row /\ Parent(x)[1] = x /\ Parent(x)[2] = "in"
          /\ Repay(x) \in Row /\ Repay(x)[1] = x /\ Repay(x)[2] = "refund" /\ ~pinned[Repay(x)]
      BY <1>2, <2>3, RowIds DEF Parent
    <3>2. status'[Parent(x)] = "QUEUED" /\ status'[Repay(x)] \in {"ABSENT", "FAILED"} /\ x \in redirected'
      BY <1>1, <2>3, <3>1
    <3> QED
      BY <1>1, <3>1, <3>2, FamilyAfter
  <2> QED
    BY <2>2, <2>3
<1> QED
  BY <1>4, <1>5, <1>6

LEMMA FlowInit == Init => FlowInv
<1> SUFFICES ASSUME Init PROVE FlowInv
  OBVIOUS
<1>1. OneDrive /\ TickOwns
  BY DEF Init, OneDrive, TickOwns, NoDrive, NoTick
<1>2. Families
  BY FamilyIds DEF Init, Families, Family
<1> QED
  BY <1>1, <1>2, InitHolds DEF FlowInv

LEMMA FlowStep ==
    ASSUME TimelyDrives, QuietRedirect, FlowInv, [Next]_vars
    PROVE  FlowInv'
<1> SUFFICES (OneDrive /\ TickOwns /\ Families)'
  BY StepKeeps DEF FlowInv
<1>1. ASSUME NEW r \in Row, Detect(r) \/ RecoverOrphan(r) PROVE (OneDrive /\ TickOwns /\ Families)'
  BY <1>1, DetectFlows, RecoverFlows
<1>2. CASE (\E p \in PegIn : WindowEnds(p)) \/ Pause \/ Unpause \/ UNCHANGED vars \/ (\E r \in Row : Land(r))
  <2>1. UNCHANGED <<status, pinned, disp, drive, redirected>>
    BY <1>2 DEF WindowEnds, Pause, Unpause, vars, Land, rowVars
  <2> QED
    BY <2>1, QuietFlows
<1>3. CASE StartTick \/ ReadDue \/ StopWaiting \/ DispatcherCrash
  BY <1>3, TickPartFlows
<1>4. ASSUME NEW r \in Row, ReturnHeld(r) \/ \E d \in Drive : Submit(r, d)
      PROVE  (OneDrive /\ TickOwns /\ Families)'
  BY <1>4, ReturnHeldFlows, SubmitFlows
<1>5. CASE FlipHeld \/ Transition \/ Follow
  BY <1>5, FlipHeldFlows, TransitionFlows, FollowFlows
<1>6. ASSUME NEW d \in Drive, DriveStep(d) \/ DriveFails(d) PROVE (OneDrive /\ TickOwns /\ Families)'
  BY <1>6, DrivesFlow
<1>7. CASE CoordinatorBoot
  BY <1>7, BootFlows
<1> QED
  BY <1>1, <1>2, <1>3, <1>4, <1>5, <1>6, <1>7 DEF Next, TickStep

LEMMA FlowInvariant ==
    ASSUME TimelyDrives, QuietRedirect
    PROVE  Spec => []FlowInv
<1>1. FlowInv /\ [Next]_vars => FlowInv'
  BY FlowStep
<1> QED
  BY <1>1, FlowInit, PTL DEF Spec

-----------------------------------------------------------------------------
(* No deposit is both minted and refunded, when in addition a mint whose   *)
(* attempt was given up cannot land later.                                 *)

LEMMA MintNotLost ==
    ASSUME ~LateMints, NEW p \in PegIn, In(p) \in landed
    PROVE  ~MayLose(In(p))
BY RowIds DEF MayLose, In

(* A step that leaves the deposit's row and the tick's wait as they are.   *)
LEMMA HeardStays ==
    ASSUME NEW p \in PegIn, Heard(p), In(p) \in landed' => In(p) \in landed,
           status[In(p)] = "CONFIRMED" => status'[In(p)] = "CONFIRMED",
           In(p) \in landed /\ AwaitsMint(p) => AwaitsMint(p)' \/ status'[In(p)] = "CONFIRMED"
    PROVE  Heard(p)'
BY DEF Heard, In

LEMMA HeardByRows ==
    ASSUME FlowInv, NEW p \in PegIn, Heard(p), NEW r \in Row, Detect(r) \/ RecoverOrphan(r) \/ Land(r),
           ~LateMints
    PROVE  Heard(p)'
<1>0. TypeOK /\ TickInv /\ In(p) \in Row /\ In(p)[2] = "in"
  BY RowIds DEF FlowInv, OutboxInv
<1>1. CASE Detect(r)
  <2>1. status[r] = "ABSENT" /\ (\E s : Becomes(r, s)) /\ UNCHANGED <<landed, disp, drive>>
    BY <1>0, <1>1, DetectDoes
  <2>2. status[In(p)] = "CONFIRMED" => status'[In(p)] = "CONFIRMED"
    BY <1>0, <2>1 DEF Becomes
  <2> QED
    BY <2>1, <2>2, HeardStays DEF AwaitsMint, In
<1>2. CASE RecoverOrphan(r)
  <2>1. status[r] = "BROADCAST" /\ Becomes(r, "QUEUED") /\ UNCHANGED <<landed, disp, drive>>
    BY <1>0, <1>2, SetStatusBecomes DEF RecoverOrphan, Status
  <2>2. status[In(p)] = "CONFIRMED" => status'[In(p)] = "CONFIRMED"
    BY <1>0, <2>1 DEF Becomes
  <2> QED
    BY <2>1, <2>2, HeardStays DEF AwaitsMint, In
<1>3. CASE Land(r)
  <2>1. UNCHANGED <<status, disp, drive>> /\ landed' = landed \cup {r}
    BY <1>3 DEF Land, rowVars
  <2>2. CASE r # In(p)
    BY <2>1, <2>2, HeardStays DEF AwaitsMint, In
  <2>3. CASE r = In(p)
    <3>1. disp.row = In(p) /\ disp.drive # None /\ drive[disp.drive].step = "wait" /\ disp.pc = "await"
      BY <1>0, <1>3, <2>3 DEF Land, TickInv
    <3> QED
      BY <2>1, <3>1 DEF Heard, AwaitsMint, In
  <2> QED
    BY <2>2, <2>3
<1> QED
  BY <1>1, <1>2, <1>3

LEMMA HeardByTick ==
    ASSUME FlowInv, TimelyDrives, ~LateMints, NEW p \in PegIn, Heard(p),
           StartTick \/ ReadDue \/ StopWaiting \/ DispatcherCrash
    PROVE  Heard(p)'
<1>1. UNCHANGED <<status, drive, landed>> /\ ~StopWaiting
  BY DEF StartTick, ReadDue, StopWaiting, DispatcherCrash, rowVars
<1>2. ~(In(p) \in landed /\ AwaitsMint(p))
  BY <1>1, MintNotLost DEF StartTick, ReadDue, DispatcherCrash, AwaitsMint
<1> QED
  BY <1>1, <1>2, HeardStays

LEMMA HeardByReturn ==
    ASSUME FlowInv, NEW p \in PegIn, Heard(p), NEW r \in Row,
           ReturnHeld(r) \/ FlipHeld \/ \E d \in Drive : Submit(r, d)
    PROVE  Heard(p)'
<1>0. OutboxInv /\ TypeOK /\ TickOwns /\ In(p) \in Row /\ In(p)[2] = "in"
  BY RowIds DEF FlowInv, OutboxInv
<1>1. CASE ReturnHeld(r)
  <2>1. disp.pc = "tick" /\ UNCHANGED landed
    BY <1>0, <1>1, ReturnHeldDoes
  <2>2. status[In(p)] = "CONFIRMED" => status'[In(p)] = "CONFIRMED"
    <3>1. /\ status[r] = "HELD" /\ Repay(r[1]) \in Row /\ Repay(r[1]) # In(p)
          /\ (\E s : Becomes(r, s)) \/ (\E s : Becomes(Repay(r[1]), s))
      BY <1>0, <1>1, ReturnHeldDoes, FamilyIds
    <3> QED
      BY <1>0, <3>1 DEF Becomes
  <2> QED
    BY <2>1, <2>2, HeardStays DEF AwaitsMint
<1>2. CASE FlipHeld
  <2>1. PICK o \in Row : o = disp.row
    BY <1>0, <1>2, FlipHeldDoes
  <2>2. disp.pc = "flip" /\ status[o] = "HELD" /\ Becomes(o, "REFUNDING") /\ UNCHANGED landed
    BY <1>0, <1>2, <2>1, FlipHeldDoes DEF TickOwns
  <2>3. status[In(p)] = "CONFIRMED" => status'[In(p)] = "CONFIRMED"
    BY <1>0, <2>2 DEF Becomes
  <2> QED
    BY <2>2, <2>3, HeardStays DEF AwaitsMint
<1>3. CASE \E d \in Drive : Submit(r, d)
  <2>1. disp.pc = "deliver" /\ status[r] = "QUEUED" /\ Becomes(r, "BROADCAST") /\ UNCHANGED landed
    BY <1>0, <1>3, SubmitDoes DEF TickOwns
  <2>2. status[In(p)] = "CONFIRMED" => status'[In(p)] = "CONFIRMED"
    BY <1>0, <2>1 DEF Becomes
  <2> QED
    BY <2>1, <2>2, HeardStays DEF AwaitsMint
<1> QED
  BY <1>1, <1>2, <1>3

(* The answer to an awaited mint that landed can only be "ok".             *)
LEMMA HeardByTransition ==
    ASSUME FlowInv, NEW p \in PegIn, Heard(p), Transition
    PROVE  Heard(p)'
<1>0. OutboxInv /\ TickOwns /\ In(p) \in Row
  BY RowIds DEF FlowInv
<1>r. PICK r \in Row : r = disp.row
  BY <1>0, TransitionDoes
<1> DEFINE delivered == disp.drive # None /\ drive[disp.drive].step = "ok"
<1>1. /\ disp.pc = "await" /\ Becomes(r, PlanTransition(r, delivered)) /\ UNCHANGED landed
      /\ disp.drive # None => drive[disp.drive].step \in {"ok", "failed"}
  BY <1>0, <1>r, TransitionDoes
<1>2. status[r] = "BROADCAST"
  BY <1>0, <1>1, <1>r DEF TickOwns
<1>3. status[In(p)] = "CONFIRMED" => status'[In(p)] = "CONFIRMED"
  BY <1>0, <1>1, <1>2 DEF Becomes
<1>4. AwaitsMint(p) => status'[In(p)] = "CONFIRMED"
  <2> SUFFICES ASSUME AwaitsMint(p) PROVE status'[In(p)] = "CONFIRMED"
    OBVIOUS
  <2>1. r = In(p) /\ delivered
    BY <1>1, <1>r DEF AwaitsMint
  <2>2. PlanTransition(r, delivered) = "CONFIRMED"
    BY <2>1 DEF PlanTransition
  <2> QED
    BY <1>1, <2>1, <2>2 DEF Becomes
<1> QED
  BY <1>1, <1>3, <1>4, HeardStays

LEMMA HeardByFollow ==
    ASSUME FlowInv, NEW p \in PegIn, Heard(p), Follow
    PROVE  Heard(p)'
<1>0. OutboxInv /\ TickOwns /\ Families /\ In(p) \in Row /\ In(p)[2] = "in" /\ In(p)[1] = p
  BY RowIds DEF FlowInv
<1>r. PICK r \in Row : r = disp.row
  BY <1>0, FollowDoes
<1> DEFINE x == r[1]
<1>1. disp.pc = "follow" /\ UNCHANGED landed /\ status[r] = disp.planned
  BY <1>0, <1>r, FollowDoes DEF TickOwns
<1>2. \/ x \in PegIn /\ \E s : Becomes(Fee(x), s)
      \/ x \in PegIn /\ \E s : Becomes(Refund(x), s)
      \/ status[r] = "REFUNDING" /\ Becomes(r, "REFUNDED")
      \/ status[r] = "CONFIRMED" /\ r = Refund(x) /\ x \in PegIn /\ Becomes(In(x), "REFUNDED")
      \/ x \in PegOut /\ Becomes(Out(x), "REFUNDED")
      \/ status' = status
  BY <1>0, <1>1, <1>r, FollowDoes
<1>3. x \in PegIn /\ r = Refund(x) /\ status[r] = "CONFIRMED" => status[In(x)] # "CONFIRMED"
  BY <1>0, RowIds DEF Families, Family, Parent
<1>4. /\ x \in PegIn => Fee(x) # In(p) /\ Refund(x) # In(p)
      /\ x \in PegOut => Out(x) # In(p)
  BY <1>0, RowIds
<1> HIDE DEF x
<1>5. status[In(p)] = "CONFIRMED" => status'[In(p)] = "CONFIRMED"
  BY <1>0, <1>2, <1>3, <1>4 DEF Becomes
<1> QED
  BY <1>1, <1>5, HeardStays DEF AwaitsMint

(* A drive whose mint landed is neither failed nor dropped.                *)
LEMMA HeardByDrive ==
    ASSUME FlowInv, ~LateMints, NEW p \in PegIn, Heard(p), NEW d \in Drive, DriveStep(d) \/ DriveFails(d)
    PROVE  Heard(p)'
<1>0. OutboxInv /\ TypeOK /\ TickInv /\ In(p) \in Row
  BY RowIds DEF FlowInv, OutboxInv
<1>1. UNCHANGED <<landed, disp>> /\ \A r \in Row : status'[r] = status[r]
  BY PinWritesNoStatus DEF DriveStep, CheckExecuted, Pin, Confirm, PollEnds, DropResult, DriveFails, rowVars
<1>2. \A e \in Drive : e # d => drive'[e] = drive[e]
  BY <1>0, DriveFields DEF DriveStep, CheckExecuted, Pin, Confirm, PollEnds, DropResult, DriveFails
<1>3. ASSUME AwaitsMint(p), In(p) \in landed PROVE AwaitsMint(p)'
  <2>1. disp.drive \in Drive /\ drive[disp.drive].row = In(p) /\ drive[disp.drive].step \in {"wait", "ok"}
    BY <1>0, <1>3, TickFields DEF AwaitsMint, TickInv
  <2>2. CASE d # disp.drive
    BY <1>1, <1>2, <1>3, <2>1, <2>2 DEF AwaitsMint, In
  <2>3. CASE d = disp.drive
    <3>1. Confirm(d)
      BY <1>3, <2>1, <2>3, MintNotLost
      DEF DriveStep, CheckExecuted, Pin, PollEnds, DropResult, DriveFails
    <3>2. drive'[d].step = "ok"
      BY <1>0, <3>1, StepBecomes DEF Confirm, DriveBecomes
    <3> QED
      BY <1>1, <1>3, <2>3, <3>2 DEF AwaitsMint, In
  <2> QED
    BY <2>2, <2>3
<1> QED
  BY <1>0, <1>1, <1>3, HeardStays

LEMMA HeardByBoot ==
    ASSUME FlowInv, ~LateMints, NEW p \in PegIn, Heard(p), CoordinatorBoot
    PROVE  Heard(p)'
<1>0. TypeOK /\ TickInv /\ In(p) \in Row /\ In(p)[1] = p
  BY RowIds DEF FlowInv, OutboxInv
<1>1. /\ \A d \in Drive : drive[d] # NoDrive => MayLose(drive[d].row)
      /\ ~Redirectable(p) => status'[In(p)] = status[In(p)]
      /\ UNCHANGED landed
  BY <1>0, BootDoes
<1>2. status[In(p)] = "CONFIRMED" => status'[In(p)] = "CONFIRMED"
  BY <1>1 DEF Redirectable
<1>3. ~(In(p) \in landed /\ AwaitsMint(p))
  <2> SUFFICES ASSUME In(p) \in landed, AwaitsMint(p) PROVE FALSE
    OBVIOUS
  <2>1. disp.drive \in Drive /\ drive[disp.drive].row = In(p) /\ drive[disp.drive].step \in {"wait", "ok"}
    BY <1>0, TickFields DEF AwaitsMint, TickInv
  <2>2. drive[disp.drive] # NoDrive
    BY <2>1, NoDriveFits
  <2> QED
    BY <1>1, <2>1, <2>2, MintNotLost
<1> QED
  BY <1>1, <1>2, <1>3, HeardStays

LEMMA HeardStep ==
    ASSUME TimelyDrives, QuietRedirect, ~LateMints, FlowInv, MintHeard, [Next]_vars
    PROVE  MintHeard'
<1> SUFFICES ASSUME NEW p \in PegIn PROVE Heard(p)'
  BY DEF MintHeard
<1>0. Heard(p)
  BY DEF MintHeard
<1>1. CASE \E r \in Row : Detect(r) \/ RecoverOrphan(r) \/ Land(r)
  BY <1>0, <1>1, HeardByRows
<1>2. CASE (\E q \in PegIn : WindowEnds(q)) \/ Pause \/ Unpause \/ UNCHANGED vars
  <2>1. UNCHANGED <<status, landed, disp, drive>>
    BY <1>2 DEF WindowEnds, Pause, Unpause, vars, rowVars
  <2> QED
    BY <1>0, <2>1 DEF Heard, AwaitsMint, In
<1>3. CASE StartTick \/ ReadDue \/ StopWaiting \/ DispatcherCrash
  BY <1>0, <1>3, HeardByTick
<1>4. CASE \E r \in Row : ReturnHeld(r) \/ \E d \in Drive : Submit(r, d)
  BY <1>0, <1>4, HeardByReturn
<1>5. CASE FlipHeld
  BY <1>0, <1>5, HeardByReturn, RowIds
<1>6. CASE Transition \/ Follow
  BY <1>0, <1>6, HeardByTransition, HeardByFollow
<1>7. CASE \E d \in Drive : DriveStep(d) \/ DriveFails(d)
  BY <1>0, <1>7, HeardByDrive
<1>8. CASE CoordinatorBoot
  BY <1>0, <1>8, HeardByBoot
<1> QED
  BY <1>1, <1>2, <1>3, <1>4, <1>5, <1>6, <1>7, <1>8 DEF Next, TickStep

(* A deposit is never both minted and refunded, however many faults there  *)
(* are, provided the dispatcher outlasts every drive, an abandoned mint    *)
(* does not land later, and redirects are applied between two ticks.       *)
THEOREM NeverMintedAndRefunded ==
    ASSUME TimelyDrives, QuietRedirect, ~LateMints
    PROVE  Spec => []RefundExcludesMint
<1>1. Init => MintHeard
  BY DEF Init, MintHeard, Heard
<1>2. FlowInv /\ MintHeard /\ [Next]_vars => FlowInv' /\ MintHeard'
  BY FlowStep, HeardStep
<1>3. FlowInv /\ MintHeard => RefundExcludesMint
  <2> SUFFICES ASSUME FlowInv, MintHeard, NEW p \in PegIn, In(p) \in landed, Refund(p) \in landed
               PROVE  FALSE
    BY DEF RefundExcludesMint
  <2>1. status[In(p)] \in {"CONFIRMED", "BROADCAST"}
    BY DEF MintHeard, Heard, AwaitsMint, FlowInv, TickOwns
  <2>2. status[Refund(p)] \in {"ABSENT", "FAILED"} /\ (status[Refund(p)] = "FAILED" => ~pinned[Refund(p)])
    BY <2>1, RowIds DEF FlowInv, Families, Family, Parent
  <2>3. pinned[Refund(p)] /\ status[Refund(p)] # "ABSENT"
    BY RowIds DEF FlowInv, OutboxInv, RowsInv
  <2> QED
    BY <2>2, <2>3
<1> QED
  BY <1>1, <1>2, <1>3, FlowInit, PTL DEF Spec

-----------------------------------------------------------------------------
(* No REFUNDING parent is stranded, when in addition the dispatcher does   *)
(* not stop between a row's new status and its follow-up.                  *)

LEMMA CaredStays ==
    ASSUME NEW x \in PegIn \cup PegOut, Cared(x),
           status'[Parent(x)] = status[Parent(x)] \/ status'[Parent(x)] # "REFUNDING",
           status'[Repay(x)] = status[Repay(x)] \/ status'[Repay(x)] \in {"QUEUED", "BROADCAST"},
           redirected \subseteq redirected',
           disp.pc = "follow" => disp'.pc = "follow" /\ disp'.row = disp.row
    PROVE  Cared(x)'
BY DEF Cared, Parent, Repay, In, Out, Refund, Return

LEMMA CaredByRows ==
    ASSUME FlowInv, NEW x \in PegIn \cup PegOut, Cared(x), NEW r \in Row, Detect(r) \/ RecoverOrphan(r)
    PROVE  Cared(x)'
<1>0. /\ TypeOK /\ Parent(x) \in Row /\ Repay(x) \in Row /\ Parent(x) # Repay(x)
      /\ Repay(x)[2] \in {"refund", "return"}
  BY FamilyIds DEF FlowInv, OutboxInv
<1>1. CASE Detect(r)
  <2>1. /\ r[2] \in {"in", "out"} /\ UNCHANGED <<disp, redirected>>
        /\ \E s \in {"HELD", "QUEUED"} : Becomes(r, s)
    BY <1>0, <1>1, DetectDoes
  <2> QED
    BY <1>0, <2>1, CaredStays DEF Becomes
<1>2. CASE RecoverOrphan(r)
  <2>1. Becomes(r, "QUEUED") /\ UNCHANGED <<disp, redirected>>
    BY <1>0, <1>2, SetStatusBecomes DEF RecoverOrphan, Status
  <2> QED
    BY <1>0, <2>1, CaredStays DEF Becomes
<1> QED
  BY <1>1, <1>2

LEMMA CaredByTick ==
    ASSUME FlowInv, TimelyDrives, ~FlipCrashes, NEW x \in PegIn \cup PegOut, Cared(x),
           StartTick \/ ReadDue \/ StopWaiting \/ DispatcherCrash
    PROVE  Cared(x)'
<1>1. UNCHANGED <<status, redirected>> /\ disp.pc # "follow"
  BY DEF StartTick, ReadDue, StopWaiting, DispatcherCrash, rowVars
<1> QED
  BY <1>1, CaredStays

LEMMA CaredByReturn ==
    ASSUME FlowInv, NEW x \in PegIn \cup PegOut, Cared(x), NEW r \in Row,
           ReturnHeld(r) \/ FlipHeld \/ \E d \in Drive : Submit(r, d)
    PROVE  Cared(x)'
<1>0. /\ OutboxInv /\ TypeOK /\ TickOwns /\ Parent(x) \in Row /\ Repay(x) \in Row /\ Parent(x) # Repay(x)
      /\ Parent(x)[1] = x /\ Repay(x)[1] = x /\ Repay(x)[2] \in {"refund", "return"}
      /\ Parent(x)[2] \in {"in", "out"}
  BY FamilyIds DEF FlowInv, OutboxInv
<1>1. CASE ReturnHeld(r)
  <2>1. disp.pc = "tick" /\ UNCHANGED redirected /\ r[1] \in PegIn \cup PegOut /\ r[2] \in {"in", "out"}
    BY <1>0, <1>1, ReturnHeldDoes
  <2>2. CASE Becomes(r, "REFUNDED")
    BY <1>0, <2>1, <2>2, CaredStays DEF Becomes
  <2>3. CASE Becomes(Repay(r[1]), IF status[Repay(r[1])] = "ABSENT" THEN "QUEUED" ELSE status[Repay(r[1])])
    <3>1. Repay(r[1])[2] \in {"refund", "return"}
      BY <2>1, FamilyIds
    <3> QED
      BY <1>0, <2>1, <2>3, <3>1, CaredStays DEF Becomes
  <2> QED
    BY <1>0, <1>1, <2>2, <2>3, ReturnHeldDoes
<1>2. CASE FlipHeld
  <2>1. PICK o \in Row : o = disp.row
    BY <1>0, <1>2, FlipHeldDoes
  <2>2. /\ disp.pc = "flip" /\ Becomes(o, "REFUNDING") /\ UNCHANGED redirected
        /\ status[o] = "HELD" /\ status[Repay(o[1])] = "QUEUED"
    BY <1>0, <1>2, <2>1, FlipHeldDoes DEF TickOwns
  <2>3. o[2] \in {"in", "out"}
    BY <1>0, <2>2 DEF OutboxInv, RowsInv, RowSound
  <2>4. CASE o = Parent(x)
    <3>1. status'[Repay(x)] = "QUEUED"
      BY <1>0, <2>2, <2>4 DEF Becomes
    <3> QED
      BY <3>1 DEF Cared, Repay, Refund, Return
  <2>5. CASE o # Parent(x)
    BY <1>0, <2>2, <2>3, <2>5, CaredStays DEF Becomes
  <2> QED
    BY <2>4, <2>5
<1>3. CASE \E d \in Drive : Submit(r, d)
  <2>1. disp.pc = "deliver" /\ Becomes(r, "BROADCAST") /\ UNCHANGED redirected
    BY <1>0, <1>3, SubmitDoes
  <2> QED
    BY <1>0, <2>1, CaredStays DEF Becomes
<1> QED
  BY <1>1, <1>2, <1>3

LEMMA CaredByTransition ==
    ASSUME FlowInv, NEW x \in PegIn \cup PegOut, Cared(x), Transition
    PROVE  Cared(x)'
<1>0. OutboxInv /\ Parent(x) \in Row /\ Repay(x) \in Row
  BY FamilyIds DEF FlowInv
<1>r. PICK r \in Row : r = disp.row
  BY <1>0, TransitionDoes
<1>1. /\ disp.pc = "await" /\ UNCHANGED redirected /\ disp'.pc = "follow" /\ disp'.row = r
      /\ \A o \in Row : o # r => status'[o] = status[o]
  BY <1>0, <1>r, TransitionDoes DEF TickBecomes, Becomes
<1>2. CASE r \in {Parent(x), Repay(x)}
  BY <1>1, <1>2 DEF Cared, Parent, Repay, In, Out, Refund, Return
<1>3. CASE r \notin {Parent(x), Repay(x)}
  BY <1>0, <1>1, <1>3, CaredStays
<1> QED
  BY <1>2, <1>3

(* The follow-up enqueues the refund of a row it left REFUNDING, or closes *)
(* the parent; the refund it finds can only be one a redirect abandoned.   *)
LEMMA CaredByFollow ==
    ASSUME FlowInv, NEW x \in PegIn \cup PegOut, Cared(x), Follow
    PROVE  Cared(x)'
<1>0. /\ OutboxInv /\ TickOwns /\ Family(x)
      /\ Parent(x) \in Row /\ Parent(x)[1] = x /\ Parent(x)[2] \in {"in", "out"}
      /\ Repay(x) \in Row /\ Repay(x)[1] = x /\ Repay(x)[2] \in {"refund", "return"}
  BY FamilyIds DEF FlowInv, Families
<1>r. PICK r \in Row : r = disp.row
  BY <1>0, FollowDoes
<1> DEFINE y == r[1]
           queued(child) == IF status[child] = "ABSENT" THEN "QUEUED" ELSE status[child]
<1>s. PICK s \in {"CONFIRMED", "REFUNDING", "QUEUED"} : s = disp.planned
  BY <1>0, FollowDoes DEF TickOwns
<1>1. /\ disp.pc = "follow" /\ UNCHANGED redirected /\ status[r] = s
      /\ s = "REFUNDING" => status[Refund(y)] \in {"ABSENT", "FAILED"}
  BY <1>0, <1>r, <1>s, FollowDoes DEF TickOwns
<1>2. \/ s = "CONFIRMED" /\ r = In(y) /\ y \in PegIn /\ Becomes(Fee(y), queued(Fee(y)))
      \/ s = "REFUNDING" /\ r = In(y) /\ y \in PegIn /\ Becomes(In(y), "REFUNDED")
      \/ s = "REFUNDING" /\ r = In(y) /\ y \in PegIn /\ Becomes(Refund(y), queued(Refund(y)))
      \/ s = "CONFIRMED" /\ r = Refund(y) /\ y \in PegIn /\ Becomes(In(y), "REFUNDED")
      \/ s = "CONFIRMED" /\ r = Return(y) /\ y \in PegOut /\ Becomes(Out(y), "REFUNDED")
      \/ s # "REFUNDING" /\ (s = "CONFIRMED" => r[2] \in {"fee", "out"}) /\ status' = status
  BY <1>0, <1>r, <1>s, FollowDoes
<1>3. CASE r \notin {Parent(x), Repay(x)}
  <2>1. status'[Parent(x)] = status[Parent(x)] /\ status'[Repay(x)] = status[Repay(x)]
    <3>1. /\ y \in PegIn => /\ In(y) \in Row /\ In(y)[2] = "in" /\ In(y)[1] = y /\ (y = x => In(y) = Parent(x))
                            /\ Refund(y) \in Row /\ Refund(y)[1] = y /\ (y = x => Refund(y) = Repay(x))
                            /\ Fee(y) \in Row /\ Fee(y)[2] = "fee"
          /\ y \in PegOut => /\ Out(y) \in Row /\ Out(y)[1] = y /\ (y = x => Out(y) = Parent(x))
                             /\ Return(y) \in Row /\ Return(y)[1] = y /\ (y = x => Return(y) = Repay(x))
      BY RowIds DEF Parent
    <3> HIDE DEF y
    <3> QED
      BY <1>0, <1>2, <1>3, <3>1 DEF Becomes
  <2>2. status[Parent(x)] = "REFUNDING" => status[Repay(x)] \in {"QUEUED", "BROADCAST"} \/ x \in redirected
    BY <1>3, <1>r DEF Cared
  <2> QED
    BY <1>1, <2>1, <2>2 DEF Cared, Parent, Repay, In, Out, Refund, Return
<1>4. CASE r = Parent(x)
  <2>1. y = x /\ r[2] \in {"in", "out"} /\ (x \in PegIn => Repay(x) = Refund(x) /\ Parent(x) = In(x) /\ r[2] = "in")
    BY <1>0, <1>4, RowIds DEF Parent
  <2>2. status'[Parent(x)] = "REFUNDING" => x \in PegIn /\ Becomes(Repay(x), queued(Repay(x))) /\ s = "REFUNDING"
    <3>1. x \in PegIn => Fee(x) \in Row /\ Fee(x) # r /\ Refund(x) # r /\ Return(x) # r
      BY <2>1, RowIds DEF Return
    <3>2. x \in PegOut => r # In(x) /\ r # Refund(x) /\ r # Return(x)
      BY <1>4, <2>1, RowIds DEF Parent, In, Refund, Return, Out
    <3>3. r = Refund(x) \/ r = Return(x) => FALSE
      BY <2>1 DEF Refund, Return
    <3> QED
      BY <1>1, <1>2, <1>4, <2>1, <3>1, <3>2, <3>3 DEF Becomes
  <2>3. status'[Parent(x)] = "REFUNDING" => status'[Repay(x)] = "QUEUED" \/ x \in redirected
    BY <1>0, <1>1, <2>1, <2>2 DEF Becomes, Family
  <2> QED
    BY <1>1, <2>3 DEF Cared, Parent, Repay, In, Out, Refund, Return
<1>5. CASE r = Repay(x)
  <2>1. y = x /\ r[2] \in {"refund", "return"}
    BY <1>0, <1>5
  <2>2. x \in PegIn => r = Refund(x) /\ Parent(x) = In(x)
    BY <1>5, RowIds DEF Parent
  <2>3. x \in PegOut => r = Return(x) /\ Parent(x) = Out(x) /\ x \notin PegIn
    BY <1>5, RowIds DEF Parent
  <2>4. \/ status'[Parent(x)] = "REFUNDED"
        \/ s = "QUEUED" /\ status' = status
    BY <1>2, <2>1, <2>2, <2>3 DEF Becomes, In
  <2>5. \/ status'[Parent(x)] = "REFUNDED"
        \/ status'[Repay(x)] = "QUEUED"
    BY <1>1, <1>5, <2>4
  <2> QED
    BY <2>5 DEF Cared, Parent, Repay, In, Out, Refund, Return
<1> QED
  BY <1>3, <1>4, <1>5

LEMMA CaredByBoot ==
    ASSUME FlowInv, NEW x \in PegIn \cup PegOut, Cared(x), CoordinatorBoot
    PROVE  Cared(x)'
<1>0. /\ TypeOK /\ Parent(x) \in Row /\ Parent(x)[1] = x /\ Repay(x) \in Row /\ Repay(x)[1] = x
      /\ (x \in PegIn => Parent(x)[2] = "in")
  BY FamilyIds, RowIds DEF FlowInv, OutboxInv, Parent
<1> DEFINE go == {p \in PegIn : Redirectable(p)}
<1>1. /\ x \notin go => status'[Parent(x)] = status[Parent(x)] /\ status'[Repay(x)] = status[Repay(x)]
      /\ x \in go => status'[Parent(x)] = "QUEUED"
      /\ redirected \subseteq redirected' /\ disp'.pc = disp.pc /\ disp'.row = disp.row
  BY <1>0, BootDoes DEF TickBecomes
<1>2. CASE x \in go
  BY <1>1, <1>2 DEF Cared, Parent, In, Out
<1>3. CASE x \notin go
  BY <1>1, <1>3, CaredStays
<1> QED
  BY <1>2, <1>3

LEMMA CaredStep ==
    ASSUME TimelyDrives, QuietRedirect, ~FlipCrashes, FlowInv, [Next]_vars,
           NEW x \in PegIn \cup PegOut, Cared(x)
    PROVE  Cared(x)'
<1>1. CASE \E r \in Row : Detect(r) \/ RecoverOrphan(r)
  BY <1>1, CaredByRows
<1>2. CASE (\E q \in PegIn : WindowEnds(q)) \/ Pause \/ Unpause \/ UNCHANGED vars \/ (\E r \in Row : Land(r))
  <2>1. UNCHANGED <<status, disp, redirected>>
    BY <1>2 DEF WindowEnds, Pause, Unpause, vars, Land, rowVars
  <2> QED
    BY <2>1, CaredStays
<1>3. CASE StartTick \/ ReadDue \/ StopWaiting \/ DispatcherCrash
  BY <1>3, CaredByTick
<1>4. CASE \E r \in Row : ReturnHeld(r) \/ \E d \in Drive : Submit(r, d)
  BY <1>4, CaredByReturn
<1>5. CASE FlipHeld
  BY <1>5, CaredByReturn, FamilyIds
<1>6. CASE Transition \/ Follow
  BY <1>6, CaredByTransition, CaredByFollow
<1>7. CASE \E d \in Drive : DriveStep(d) \/ DriveFails(d)
  <2>1. UNCHANGED <<disp, redirected>> /\ \A r \in Row : status'[r] = status[r]
    BY <1>7, PinWritesNoStatus
    DEF DriveStep, CheckExecuted, Pin, Confirm, PollEnds, DropResult, DriveFails, rowVars
  <2> QED
    BY <2>1, CaredStays, FamilyIds
<1>8. CASE CoordinatorBoot
  BY <1>8, CaredByBoot
<1> QED
  BY <1>1, <1>2, <1>3, <1>4, <1>5, <1>6, <1>7, <1>8 DEF Next, TickStep

(* A REFUNDING deposit or burn always has its repayment under way, however *)
(* many faults there are, provided the dispatcher outlasts every drive and *)
(* is not stopped between a row's status and its follow-up, and redirects  *)
(* are applied between two ticks.                                          *)
THEOREM NeverStranded ==
    ASSUME TimelyDrives, QuietRedirect, ~FlipCrashes
    PROVE  Spec => []NotStranded
<1> DEFINE AllCared == \A x \in PegIn \cup PegOut : Cared(x)
<1>1. Init => AllCared
  BY FamilyIds DEF Init, Cared
<1>2. FlowInv /\ AllCared /\ [Next]_vars => FlowInv' /\ AllCared'
  BY FlowStep, CaredStep
<1>3. AllCared => NotStranded
  BY DEF NotStranded, Cared, Parent
<1> HIDE DEF AllCared
<1> QED
  BY <1>1, <1>2, <1>3, FlowInit, PTL DEF Spec
=============================================================================
