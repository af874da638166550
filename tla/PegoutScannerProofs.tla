------------------------ MODULE PegoutScannerProofs -------------------------
(***************************************************************************)
(* The scanner acts on chain between two writes to the outbox.  Three      *)
(* arguments: that a burn is sent for a transfer only while none is known  *)
(* of or may be on its way; that each deposit account therefore holds      *)
(* exactly the transfers to it that were not burned; and that the shared   *)
(* cap is overrun by one peg-out at most.                                  *)
(***************************************************************************)
EXTENDS PegoutScanner, Sums

Working == {"guard", "burn", "record", "checkpoint", "queue"}
Status == {"none", "SEEN", "QUEUED", "HELD", "CONFIRMED"}

(* The variables the arguments are about.                                  *)
Typed ==
    /\ sent \in [Transfer -> Nat]
    /\ inflight \subseteq [transfer : Transfer, try : Nat]
    /\ burned \subseteq [transfer : Transfer, try : Nat]
    /\ row \in [Transfer -> [status : Status, txid : Nat]]
    /\ stale \subseteq Transfer
    /\ capSum \in Int
    /\ scan = [pc |-> scan.pc, batch |-> scan.batch, todo |-> scan.todo, cur |-> scan.cur]
    /\ scan.pc \in {"idle", "recover", "next", "rows"} \cup Working
    /\ scan.todo \subseteq Transfer
    /\ scan.pc \in Working => scan.cur \in Transfer

(* A transfer without a row has no burn, on its way or landed; what there  *)
(* is of it is its latest try, and the checkpoint names that one.          *)
BurnsHaveRows ==
    /\ \A b \in inflight \cup burned : row[b.transfer].status # "none" /\ b.try = sent[b.transfer]
    /\ \A t \in Transfer : row[t].txid \in {0, sent[t]}

(* A stale row is nobody's current one, and no burn of it is on its way:   *)
(* what the chain says of its checkpoint is final.                         *)
StaleIsSettled ==
    /\ \A t \in stale : row[t].status = "SEEN"
    /\ \A b \in inflight : b.transfer \notin stale
    /\ scan.pc = "recover" => scan.todo \subseteq stale
    /\ scan.pc \in Working => scan.cur \notin stale

(* Between the claim and the burn the row is SEEN and nothing was sent.    *)
NothingSentYet ==
    scan.pc \in {"guard", "burn"} =>
        /\ row[scan.cur].status = "SEEN" /\ row[scan.cur].txid = 0
        /\ \A b \in inflight \cup burned : b.transfer # scan.cur

BurnInv == Typed /\ BurnsHaveRows /\ StaleIsSettled /\ NothingSentYet

(* The transfers to d that no burn has taken out again.                    *)
Unburned(d) == {t \in Arrived : To[t] = d /\ \A b \in burned : b.transfer # t}

(* A burn is on its way or has landed, never both; a row is made only for  *)
(* what arrived; nothing is burned for a parked row.                       *)
Kept ==
    /\ history \in [Account -> Seq(({"transfer"} \X Transfer) \cup ({"burn"} \X [transfer : Transfer, try : Nat]))]
    /\ inflight \cap burned = {}
    /\ \A t \in Transfer : row[t].status # "none" => t \in Arrived
    /\ scan.pc \in {"rows"} \cup Working => scan.todo \subseteq Arrived
    /\ scan.pc \in Working => scan.cur \in Arrived
    /\ \A b \in inflight \cup burned : row[b.transfer].status # "HELD"

(* A deposit account holds the transfers to it that were not burned.       *)
Balanced ==
    /\ balance \in [Account -> Int]
    /\ \A d \in Account : balance[d] = SumFunctionOnSet(Amount, Unburned(d))

(* Until the burn is recorded, its peg-out still fitted when the window    *)
(* was asked, and others only fill the window up.                          *)
CapInv ==
    /\ OvershootIsOne
    /\ scan.pc \in {"burn", "record"} => capSum <= Cap

(* Every step of the scanner, the chain and the watchers keeps the types.  *)
LEMMA TypedPreserved ==
    ASSUME Typed, [Next]_vars
    PROVE  Typed'
<1> USE PegoutAssumption DEF Typed, Working, Status
<1>1. CASE Tick
  BY <1>1 DEF Tick, chain, Idle, Back, NoRow, registry, Visible
<1>2. CASE List
  BY <1>2 DEF List, chain, Idle, Back, NoRow, registry, Visible
<1>3. CASE Open
  BY <1>3 DEF Open, chain, Idle, Back, NoRow, registry, Visible
<1>4. CASE Guard
  <2>1. CASE scan' = [scan EXCEPT !.pc = "burn"] /\ UNCHANGED row
    BY <1>4, <2>1 DEF Guard, chain
  <2>2. CASE row' = [row EXCEPT ![scan.cur].status = "HELD"] /\ scan' = Back
    <3>1. row' \in [Transfer -> [status : Status, txid : Nat]]
      BY <1>4, <2>2 DEF Guard
    <3> QED
      BY <1>4, <2>2, <3>1 DEF Guard, chain, Back
  <2> QED
    BY <1>4, <2>1, <2>2 DEF Guard
<1>5. CASE Burn
  BY <1>5 DEF Burn, chain, Idle, Back, NoRow, registry, Visible
<1>6. CASE BurnFails
  <2>1. scan.cur \in Transfer
    BY <1>6 DEF BurnFails
  <2>2. row' = [row EXCEPT ![scan.cur] = NoRow] /\ scan' = Back
        /\ UNCHANGED <<burned, stale, capSum>>
    BY <1>6 DEF BurnFails
  <2>3. \/ UNCHANGED <<sent, inflight>>
        \/ /\ sent' = [sent EXCEPT ![scan.cur] = @ + 1]
           /\ inflight' = inflight \cup {[transfer |-> scan.cur, try |-> sent'[scan.cur]]}
    BY <1>6 DEF BurnFails
  <2>4. row' \in [Transfer -> [status : Status, txid : Nat]]
    BY <2>1, <2>2 DEF NoRow
  <2>5. sent' \in [Transfer -> Nat] /\ inflight' \subseteq [transfer : Transfer, try : Nat]
    BY <2>1, <2>3
  <2> QED
    BY <2>2, <2>4, <2>5 DEF Back
<1>7. CASE Record
  BY <1>7 DEF Record, chain, Idle, Back, NoRow, registry, Visible
<1>8. CASE Checkpoint
  BY <1>8 DEF Checkpoint, chain, Idle, Back, NoRow, registry, Visible
<1>9. CASE Queue
  BY <1>9 DEF Queue, chain, Idle, Back, NoRow, registry, Visible
<1>10. CASE Touch
  BY <1>10 DEF Touch, chain, Idle, Back, NoRow, registry, Visible
<1>11. CASE Fail
  BY <1>11 DEF Fail, chain, Idle, Back, NoRow, registry, Visible
<1>12. CASE OthersReserve
  BY <1>12 DEF OthersReserve, chain, Idle, Back, NoRow, registry, Visible
<1>13. CASE Unpause
  BY <1>13 DEF Unpause, chain, Idle, Back, NoRow, registry, Visible
<1>14. ASSUME NEW t \in Transfer, Recover(t) PROVE Typed'
  <2>1. scan' = [scan EXCEPT !.todo = @ \ {t}] /\ UNCHANGED <<chain, capSum>>
    BY <1>14 DEF Recover
  <2>2. \/ row' = [row EXCEPT ![t].status = "QUEUED"] /\ stale' = stale \ {t}
        \/ row' = [row EXCEPT ![t] = NoRow] /\ stale' = stale \ {t}
        \/ UNCHANGED <<row, stale>>
    <3>1. classifySeenRecovery(t) \in {"REQUEUE", "RELEASE", "ALERT"}
      BY DEF classifySeenRecovery
    <3> QED
      BY <1>14, <3>1 DEF Recover
  <2>3. row' \in [Transfer -> [status : Status, txid : Nat]] /\ stale' \subseteq Transfer
    <3>1. CASE row' = [row EXCEPT ![t].status = "QUEUED"] /\ stale' = stale \ {t}
      BY <3>1
    <3>2. CASE row' = [row EXCEPT ![t] = NoRow] /\ stale' = stale \ {t}
      BY <3>2 DEF NoRow
    <3> QED
      BY <2>2, <3>1, <3>2
  <2> QED
    BY <2>1, <2>3 DEF chain
<1>15. ASSUME NEW t \in Transfer, Claim(t) PROVE Typed'
  <2>1. row' = [row EXCEPT ![t] = [status |-> "SEEN", txid |-> 0]] \/ row' = row
    BY <1>15 DEF Claim
  <2>2. row' \in [Transfer -> [status : Status, txid : Nat]]
    BY <1>15, <2>1
  <2>3. \/ scan' = [scan EXCEPT !.todo = @ \ {t}, !.cur = t, !.pc = "guard"]
        \/ scan.pc = "rows" /\ scan' = [scan EXCEPT !.todo = @ \ {t}]
    BY <1>15 DEF Claim
  <2>4. UNCHANGED <<sent, inflight, burned, stale, capSum>>
    BY <1>15 DEF Claim, chain
  <2>5. CASE scan' = [scan EXCEPT !.todo = @ \ {t}, !.cur = t, !.pc = "guard"]
    BY <1>15, <2>2, <2>4, <2>5
  <2>6. CASE scan.pc = "rows" /\ scan' = [scan EXCEPT !.todo = @ \ {t}]
    BY <2>2, <2>4, <2>6
  <2> QED
    BY <2>3, <2>5, <2>6
<1>16. ASSUME NEW t \in Transfer, Arrive(t) PROVE Typed'
  BY <1>16 DEF Arrive, chain, Idle, Back, NoRow, registry, Visible
<1>17. ASSUME NEW t \in Transfer, GrowStale(t) PROVE Typed'
  BY <1>17 DEF GrowStale, chain, Idle, Back, NoRow, registry, Visible
<1>18. ASSUME NEW t \in Transfer, Release(t) PROVE Typed'
  BY <1>18 DEF Release, chain, Idle, Back, NoRow, registry, Visible
<1>19. ASSUME NEW d \in Account, Register(d) PROVE Typed'
  BY <1>19 DEF Register, chain, Idle, Back, NoRow, registry, Visible
<1>20. ASSUME NEW b \in inflight, Land(b) PROVE Typed'
  BY <1>20 DEF Land, chain, Idle, Back, NoRow, registry, Visible
<1>21. ASSUME NEW b \in inflight, Drop(b) PROVE Typed'
  BY <1>21 DEF Drop, chain, Idle, Back, NoRow, registry, Visible
<1>22. CASE UNCHANGED vars
  BY <1>22 DEF vars, chain, registry
<1> QED
  BY <1>1, <1>2, <1>3, <1>4, <1>5, <1>6, <1>7, <1>8, <1>9, <1>10, <1>11, <1>12, <1>13, <1>14, <1>15, <1>16, <1>17, <1>18, <1>19, <1>20, <1>21, <1>22 DEF Next, ScannerStep
(* The invariant's other parts, action by action.                          *)
LEMMA BurnInvPreserved ==
    ASSUME LateFailures = FALSE, BurnInv, [Next]_vars
    PROVE  BurnInv'
<1>0. Typed /\ Typed'
  BY TypedPreserved DEF BurnInv
<1> DEFINE Parts == BurnsHaveRows /\ StaleIsSettled /\ NothingSentYet
<1> SUFFICES Parts'
  BY <1>0 DEF BurnInv
<1> USE DEF Parts, BurnInv, Typed, Working, Status, BurnsHaveRows, StaleIsSettled, NothingSentYet
<1>1. CASE Tick
  BY <1>1, <1>0 DEF Tick, chain, Idle
<1>2. CASE List
  BY <1>2, <1>0 DEF List, chain
<1>3. CASE Open
  BY <1>3, <1>0 DEF Open, chain, Idle
<1>4. CASE Guard
  <2>0. scan.pc = "guard" /\ UNCHANGED <<sent, inflight, burned, stale>>
    BY <1>4 DEF Guard, chain
  <2>1. CASE scan' = [scan EXCEPT !.pc = "burn"] /\ UNCHANGED row
    BY <1>0, <2>0, <2>1
  <2>2. CASE row' = [row EXCEPT ![scan.cur].status = "HELD"] /\ scan' = Back
    BY <1>0, <2>0, <2>2 DEF Back
  <2> QED
    BY <1>4, <2>1, <2>2 DEF Guard
<1>5. CASE Burn
  BY <1>5, <1>0 DEF Burn
<1>6. CASE BurnFails
  BY <1>6, <1>0 DEF BurnFails, Back, NoRow
<1>7. CASE Record
  BY <1>7, <1>0 DEF Record, chain
<1>8. CASE Checkpoint
  BY <1>8, <1>0 DEF Checkpoint, chain
<1>9. CASE Queue
  BY <1>9, <1>0 DEF Queue, chain, Back
<1>10. CASE Touch
  BY <1>10, <1>0 DEF Touch, chain
<1>11. CASE Fail
  BY <1>11, <1>0 DEF Fail, chain, Idle
<1>12. CASE OthersReserve
  BY <1>12, <1>0 DEF OthersReserve, chain
<1>13. CASE Unpause
  BY <1>13, <1>0 DEF Unpause, chain
<1>14. ASSUME NEW t \in Transfer, Recover(t) PROVE Parts'
  <2>0. /\ scan.pc = "recover" /\ t \in stale
        /\ scan' = [scan EXCEPT !.todo = @ \ {t}]
        /\ UNCHANGED <<sent, inflight, burned>>
    BY <1>14 DEF Recover, chain
  <2>1. CASE classifySeenRecovery(t) = "REQUEUE"
    <3>1. row' = [row EXCEPT ![t].status = "QUEUED"] /\ stale' = stale \ {t}
      BY <1>14, <2>1 DEF Recover
    <3> QED
      BY <1>0, <2>0, <3>1
  <2>2. CASE classifySeenRecovery(t) = "RELEASE"
    <3>1. row' = [row EXCEPT ![t] = NoRow] /\ stale' = stale \ {t}
      BY <1>14, <2>2 DEF Recover
    <3>2. row[t].txid = sent[t] /\ [transfer |-> t, try |-> row[t].txid] \notin burned
      BY <2>2 DEF classifySeenRecovery
    <3>3. \A b \in inflight \cup burned : b.transfer # t
      BY <2>0, <3>2
    <3> QED
      BY <1>0, <2>0, <3>1, <3>3 DEF NoRow
  <2>3. CASE classifySeenRecovery(t) = "ALERT"
    <3>1. UNCHANGED <<row, stale>>
      BY <1>14, <2>3 DEF Recover
    <3> QED
      BY <1>0, <2>0, <3>1
  <2> QED
    BY <2>1, <2>2, <2>3 DEF classifySeenRecovery
<1>15. ASSUME NEW t \in Transfer, Claim(t) PROVE Parts'
  <2>0. /\ scan.pc = "rows" /\ t \in scan.todo
        /\ UNCHANGED <<sent, inflight, burned, stale>>
    BY <1>15 DEF Claim, chain
  <2>1. CASE /\ row[t].status = "none"
             /\ row' = [row EXCEPT ![t] = [status |-> "SEEN", txid |-> 0]]
             /\ scan' = [scan EXCEPT !.todo = @ \ {t}, !.cur = t, !.pc = "guard"]
    BY <1>0, <2>0, <2>1
  <2>2. CASE scan' = [scan EXCEPT !.todo = @ \ {t}] /\ UNCHANGED row
    BY <1>0, <2>0, <2>2
  <2> QED
    BY <1>15, <2>1, <2>2 DEF Claim
<1>16. ASSUME NEW t \in Transfer, Arrive(t) PROVE Parts'
  BY <1>16, <1>0 DEF Arrive
<1>17. ASSUME NEW t \in Transfer, GrowStale(t) PROVE Parts'
  BY <1>17, <1>0 DEF GrowStale, chain
<1>18. ASSUME NEW t \in Transfer, Release(t) PROVE Parts'
  BY <1>18, <1>0 DEF Release, chain
<1>19. ASSUME NEW d \in Account, Register(d) PROVE Parts'
  BY <1>19, <1>0 DEF Register, chain
<1>20. ASSUME NEW b \in inflight, Land(b) PROVE Parts'
  BY <1>20, <1>0 DEF Land
<1>21. ASSUME NEW b \in inflight, Drop(b) PROVE Parts'
  BY <1>21, <1>0 DEF Drop
<1>22. CASE UNCHANGED vars
  BY <1>22 DEF vars, chain, registry
<1> QED
  BY <1>1, <1>2, <1>3, <1>4, <1>5, <1>6, <1>7, <1>8, <1>9, <1>10, <1>11, <1>12, <1>13, <1>14, <1>15, <1>16, <1>17, <1>18, <1>19, <1>20, <1>21, <1>22 DEF Next, ScannerStep

(* With a burn that either fails before it is sent or is recorded, no      *)
(* transfer is burned twice, wherever the scanner crashes and however      *)
(* often it looks again (pegout-scanner index.ts, seenRecovery.ts).        *)
THEOREM NeverBurnedTwice ==
    ASSUME LateFailures = FALSE
    PROVE  Spec => []BurnedOnce
<1>1. Init => BurnInv
  BY PegoutAssumption
     DEF Init, Idle, NoRow, BurnInv, Typed, Working, Status, BurnsHaveRows, StaleIsSettled, NothingSentYet
<1>2. BurnInv /\ [Next]_vars => BurnInv'
  BY BurnInvPreserved
<1>3. BurnInv => BurnedOnce
  BY DEF BurnInv, Typed, BurnsHaveRows, BurnedOnce
<1> QED
  BY <1>1, <1>2, <1>3, PTL DEF Spec

(* An account's history after one more entry.                              *)
LEMMA EntryAdded ==
    ASSUME NEW E, NEW h \in Seq(E), NEW e \in E
    PROVE  /\ DOMAIN Append(h, e) = DOMAIN h \cup {Len(h) + 1} /\ Append(h, e)[Len(h) + 1] = e
           /\ \A i \in DOMAIN h : Append(h, e)[i] = h[i]
OBVIOUS

(* What a step does to the transfers on chain.                             *)
LEMMA ArrivedGrows ==
    ASSUME BurnInv, Kept, [Next]_vars
    PROVE  /\ history' \in [Account -> Seq(({"transfer"} \X Transfer) \cup ({"burn"} \X [transfer : Transfer, try : Nat]))]
           /\ \/ \E t \in Transfer : Arrive(t) /\ Arrived' = Arrived \cup {t}
              \/ \E b \in inflight : Land(b) /\ Arrived' = Arrived
              \/ /\ UNCHANGED <<balance, burned>> /\ Arrived' = Arrived
                 /\ \A t \in Transfer : ~Arrive(t)
                 /\ \A b \in inflight : ~Land(b)
<1> DEFINE Entry == ({"transfer"} \X Transfer) \cup ({"burn"} \X [transfer : Transfer, try : Nat])
<1>0. history \in [Account -> Seq(Entry)] /\ To \in [Transfer -> Account]
      /\ inflight \subseteq [transfer : Transfer, try : Nat]
  BY PegoutAssumption DEF Kept, BurnInv, Typed
<1>1. ASSUME NEW t \in Transfer, Arrive(t)
      PROVE  history' \in [Account -> Seq(Entry)] /\ Arrived' = Arrived \cup {t}
  <2> DEFINE e == <<"transfer", t>>
  <2>1. history' = [history EXCEPT ![To[t]] = Append(@, e)] /\ e \in Entry
    BY <1>1 DEF Arrive
  <2>2. history[To[t]] \in Seq(Entry) /\ To[t] \in Account
    BY <1>0
  <2>3. Append(history[To[t]], e) \in Seq(Entry)
    BY <2>1, <2>2
  <2>4. history' \in [Account -> Seq(Entry)]
    BY <1>0, <2>1, <2>3
  <2>5. ASSUME NEW u \in Transfer
        PROVE (\E i \in DOMAIN history'[To[u]] : history'[To[u]][i] = <<"transfer", u>>)
              <=> u = t \/ \E i \in DOMAIN history[To[u]] : history[To[u]][i] = <<"transfer", u>>
    <3>1. CASE To[u] = To[t]
      <4> DEFINE h == history[To[t]]
      <4>1. h \in Seq(Entry) /\ history'[To[u]] = Append(h, e) /\ history[To[u]] = h
        BY <1>0, <2>1, <2>2, <3>1
      <4>2. DOMAIN Append(h, e) = DOMAIN h \cup {Len(h) + 1} /\ Append(h, e)[Len(h) + 1] = e
            /\ \A i \in DOMAIN h : Append(h, e)[i] = h[i]
        <5> HIDE DEF h, e, Entry
        <5> QED
          BY <2>1, <4>1, EntryAdded
      <4>3. (e = <<"transfer", u>>) <=> u = t
        OBVIOUS
      <4> HIDE DEF h, e
      <4> QED
        BY <4>1, <4>2, <4>3
    <3>2. CASE To[u] # To[t]
      BY <1>0, <2>1, <3>2
    <3> QED
      BY <3>1, <3>2
  <2> QED
    BY <2>4, <2>5 DEF Arrived
<1>2. ASSUME NEW b \in inflight, Land(b)
      PROVE  history' \in [Account -> Seq(Entry)] /\ Arrived' = Arrived
  <2> DEFINE e == <<"burn", b>>
             d == To[b.transfer]
  <2>1. history' = [history EXCEPT ![d] = Append(@, e)] /\ e \in Entry
    BY <1>0, <1>2 DEF Land
  <2>2. history[d] \in Seq(Entry) /\ d \in Account
    BY <1>0
  <2>3. Append(history[d], e) \in Seq(Entry)
    BY <2>1, <2>2
  <2>4. history' \in [Account -> Seq(Entry)]
    BY <1>0, <2>1, <2>3
  <2>5. ASSUME NEW u \in Transfer
        PROVE (\E i \in DOMAIN history'[To[u]] : history'[To[u]][i] = <<"transfer", u>>)
              <=> \E i \in DOMAIN history[To[u]] : history[To[u]][i] = <<"transfer", u>>
    <3>1. CASE To[u] = d
      <4> DEFINE h == history[d]
      <4>1. h \in Seq(Entry) /\ history'[To[u]] = Append(h, e) /\ history[To[u]] = h
        BY <1>0, <2>1, <2>2, <3>1
      <4>2. DOMAIN Append(h, e) = DOMAIN h \cup {Len(h) + 1} /\ Append(h, e)[Len(h) + 1] = e
            /\ \A i \in DOMAIN h : Append(h, e)[i] = h[i]
        <5> HIDE DEF h, e, Entry
        <5> QED
          BY <2>1, <4>1, EntryAdded
      <4>3. e # <<"transfer", u>>
        OBVIOUS
      <4> HIDE DEF h, e
      <4> QED
        BY <4>1, <4>2, <4>3
    <3>2. CASE To[u] # d
      BY <1>0, <2>1, <3>2
    <3> QED
      BY <3>1, <3>2
  <2> QED
    BY <2>4, <2>5 DEF Arrived
<1>3. ASSUME \A t \in Transfer : ~Arrive(t), \A b \in inflight : ~Land(b)
      PROVE  UNCHANGED <<history, balance, burned>>
  BY <1>3 DEF Next, ScannerStep, vars, chain, Tick, List, Open, Guard, Burn, BurnFails, Record,
     Checkpoint, Queue, Touch, Recover, Claim, Fail, OthersReserve, Unpause, Register, GrowStale,
     Release, Drop
<1>4. UNCHANGED history => Arrived' = Arrived /\ history' \in [Account -> Seq(Entry)]
  BY <1>0 DEF Arrived
<1> QED
  BY <1>1, <1>2, <1>3, <1>4

(* What Kept needs of every action.                                        *)
LEMMA KeptPreserved ==
    ASSUME LateFailures = FALSE, BurnInv, Kept, [Next]_vars
    PROVE  Kept'
<1>0. Typed /\ Typed' /\ Arrived \subseteq Arrived' /\ Arrived \subseteq Transfer
  BY TypedPreserved, ArrivedGrows DEF BurnInv, Arrived
<1>H. history' \in [Account -> Seq(({"transfer"} \X Transfer) \cup ({"burn"} \X [transfer : Transfer, try : Nat]))]
  BY ArrivedGrows
<1> DEFINE Parts ==
      /\ inflight \cap burned = {}
      /\ \A t \in Transfer : row[t].status # "none" => t \in Arrived
      /\ scan.pc \in {"rows"} \cup Working => scan.todo \subseteq Arrived
      /\ scan.pc \in Working => scan.cur \in Arrived
      /\ \A b \in inflight \cup burned : row[b.transfer].status # "HELD"
<1>P. Parts
  BY DEF Kept
<1> SUFFICES Parts'
  BY <1>H DEF Kept
<1> HIDE DEF Parts
<1>V. \A d : Visible(d) \subseteq Arrived
  BY DEF Visible, Arrived
<1> USE DEF Parts, Typed, Working, Status
<1>1. CASE Tick \/ List \/ Fail \/ Unpause \/ OthersReserve
  <2>1. UNCHANGED <<inflight, burned, row>> /\ (scan'.pc \notin {"rows"} \cup Working \/ scan' = scan)
    <3>1. CASE Tick
      BY <3>1 DEF Tick, chain, Idle
    <3>2. CASE List
      BY <1>0, <3>2 DEF List, chain
    <3>3. CASE Fail
      BY <3>3 DEF Fail, chain, Idle
    <3>4. CASE Unpause \/ OthersReserve
      BY <3>4 DEF Unpause, OthersReserve, chain
    <3> QED
      BY <1>1, <3>1, <3>2, <3>3, <3>4
  <2> QED
    BY <1>0, <1>P, <2>1
<1>3. CASE Open
  BY <1>3, <1>0, <1>P, <1>V DEF Open, chain, Idle
<1>4. CASE Guard
  <2>0. scan.pc = "guard" /\ UNCHANGED <<inflight, burned>>
    BY <1>4 DEF Guard, chain
  <2>1. CASE scan' = [scan EXCEPT !.pc = "burn"] /\ UNCHANGED row
    BY <1>0, <1>P, <2>0, <2>1
  <2>2. CASE row' = [row EXCEPT ![scan.cur].status = "HELD"] /\ scan' = Back
    <3>1. row[scan.cur].status = "SEEN" /\ \A b \in inflight \cup burned : b.transfer # scan.cur
      BY <2>0 DEF BurnInv, NothingSentYet
    <3> QED
      BY <1>0, <1>P, <2>0, <2>2, <3>1 DEF Back
  <2> QED
    BY <1>4, <2>1, <2>2 DEF Guard
<1>5. CASE Burn
  <2>1. row[scan.cur].status = "SEEN" /\ \A b \in inflight \cup burned : b.transfer # scan.cur
    BY <1>5 DEF Burn, BurnInv, NothingSentYet
  <2> QED
    BY <1>5, <1>0, <1>P, <2>1 DEF Burn
<1>6. CASE BurnFails
  <2>1. /\ scan.pc = "burn" /\ UNCHANGED <<inflight, burned>>
        /\ row' = [row EXCEPT ![scan.cur] = NoRow] /\ scan' = Back
    BY <1>6 DEF BurnFails
  <2> QED
    BY <1>0, <1>P, <2>1 DEF Back, NoRow
<1>7. CASE Record
  BY <1>7, <1>0, <1>P DEF Record, chain
<1>8. CASE Checkpoint
  BY <1>8, <1>0, <1>P DEF Checkpoint, chain
<1>9. CASE Queue
  <2>1. scan.pc = "queue" /\ UNCHANGED <<inflight, burned>> /\ scan' = Back
        /\ row' = [row EXCEPT ![scan.cur].status = "QUEUED"]
    BY <1>9 DEF Queue, chain
  <2> QED
    BY <1>0, <1>P, <2>1 DEF Back
<1>10. CASE Touch
  BY <1>10, <1>0, <1>P DEF Touch, chain
<1>14. ASSUME NEW t \in Transfer, Recover(t) PROVE Parts'
  <2>0. /\ scan.pc = "recover" /\ t \in stale /\ row[t].status = "SEEN"
        /\ scan' = [scan EXCEPT !.todo = @ \ {t}]
        /\ UNCHANGED <<inflight, burned>>
    BY <1>14 DEF Recover, chain, BurnInv, StaleIsSettled
  <2>1. scan'.pc = "recover"
    BY <1>0, <2>0
  <2>2. CASE row' = [row EXCEPT ![t].status = "QUEUED"]
    BY <1>0, <1>P, <2>0, <2>1, <2>2
  <2>3. CASE row' = [row EXCEPT ![t] = NoRow]
    BY <1>0, <1>P, <2>0, <2>1, <2>3 DEF NoRow
  <2>4. CASE UNCHANGED row
    BY <1>0, <1>P, <2>0, <2>1, <2>4
  <2>5. classifySeenRecovery(t) \in {"REQUEUE", "RELEASE", "ALERT"}
    BY DEF classifySeenRecovery
  <2> QED
    BY <1>14, <2>2, <2>3, <2>4, <2>5 DEF Recover
<1>15. ASSUME NEW t \in Transfer, Claim(t) PROVE Parts'
  <2>0. /\ scan.pc = "rows" /\ t \in scan.todo /\ t \in Arrived
        /\ UNCHANGED <<inflight, burned>>
    BY <1>15, <1>P DEF Claim, chain
  <2>1. CASE /\ row' = [row EXCEPT ![t] = [status |-> "SEEN", txid |-> 0]]
             /\ scan' = [scan EXCEPT !.todo = @ \ {t}, !.cur = t, !.pc = "guard"]
    BY <1>0, <1>P, <2>0, <2>1
  <2>2. CASE scan' = [scan EXCEPT !.todo = @ \ {t}] /\ UNCHANGED row
    BY <1>0, <1>P, <2>0, <2>2
  <2> QED
    BY <1>15, <2>1, <2>2 DEF Claim
<1>16. ASSUME NEW t \in Transfer, Arrive(t) PROVE Parts'
  BY <1>16, <1>0, <1>P DEF Arrive
<1>17. ASSUME NEW t \in Transfer, GrowStale(t) PROVE Parts'
  BY <1>17, <1>0, <1>P DEF GrowStale, chain
<1>18. ASSUME NEW t \in Transfer, Release(t) PROVE Parts'
  BY <1>18, <1>0, <1>P DEF Release, chain
<1>19. ASSUME NEW d \in Account, Register(d) PROVE Parts'
  BY <1>19, <1>0, <1>P DEF Register, chain
<1>20. ASSUME NEW b \in inflight, Land(b) PROVE Parts'
  BY <1>20, <1>0, <1>P DEF Land
<1>21. ASSUME NEW b \in inflight, Drop(b) PROVE Parts'
  BY <1>21, <1>0, <1>P DEF Drop
<1>22. CASE UNCHANGED vars
  BY <1>22, <1>0, <1>P DEF vars, chain, registry
<1> QED
  BY <1>1, <1>3, <1>4, <1>5, <1>6, <1>7, <1>8, <1>9, <1>10, <1>14, <1>15, <1>16, <1>17, <1>18, <1>19, <1>20, <1>21, <1>22 DEF Next, ScannerStep

(* An arrival adds its amount to its account, a burn that lands takes its  *)
(* transfer's amount out, and nothing else touches a balance.              *)
LEMMA BalancedPreserved ==
    ASSUME BurnInv, Kept, Balanced, [Next]_vars
    PROVE  Balanced'
<1>0. /\ Arrived \subseteq Transfer /\ IsFiniteSet(Transfer) /\ IsFiniteSet(Arrived)
      /\ Amount \in [Transfer -> Nat] /\ To \in [Transfer -> Account]
      /\ balance \in [Account -> Int]
  BY PegoutAssumption, FS_Subset DEF Arrived, Balanced
<1>1. \A d \in Account : Unburned(d) \subseteq Transfer /\ IsFiniteSet(Unburned(d))
  BY <1>0, FS_Subset DEF Unburned
<1>2. ASSUME NEW t \in Transfer, Arrive(t), Arrived' = Arrived \cup {t} PROVE Balanced'
  <2>1. /\ t \notin Arrived /\ burned' = burned
        /\ balance' = [balance EXCEPT ![To[t]] = @ + Amount[t]]
    BY <1>2 DEF Arrive
  <2>2. \A b \in burned : b.transfer # t
    BY <2>1 DEF BurnInv, BurnsHaveRows, Kept, Typed
  <2>3. Unburned(To[t])' = Unburned(To[t]) \cup {t} /\ t \notin Unburned(To[t])
    BY <1>2, <2>1, <2>2 DEF Unburned
  <2>4. \A d \in Account \ {To[t]} : Unburned(d)' = Unburned(d)
    BY <1>2, <2>1 DEF Unburned
  <2>5. SumFunctionOnSet(Amount, Unburned(To[t]) \cup {t}) = Amount[t] + SumFunctionOnSet(Amount, Unburned(To[t]))
    <3>1. \A x \in Unburned(To[t]) \cup {t} : Amount[x] \in Int
      BY <1>0, <1>1
    <3> QED
      BY <1>0, <1>1, <2>3, <3>1, SumAdd
  <2>6. balance'[To[t]] = SumFunctionOnSet(Amount, Unburned(To[t])')
    <3>1. balance'[To[t]] = balance[To[t]] + Amount[t]
      BY <1>0, <2>1
    <3>2. balance[To[t]] = SumFunctionOnSet(Amount, Unburned(To[t])) /\ balance[To[t]] \in Int /\ Amount[t] \in Int
      BY <1>0 DEF Balanced
    <3> QED
      BY <2>3, <2>5, <3>1, <3>2
  <2>7. \A d \in Account \ {To[t]} : balance'[d] = SumFunctionOnSet(Amount, Unburned(d)')
    BY <1>0, <2>1, <2>4 DEF Balanced
  <2>8. balance' \in [Account -> Int]
    BY <1>0, <2>1
  <2> QED
    BY <2>6, <2>7, <2>8 DEF Balanced
<1>3. ASSUME NEW b \in inflight, Land(b), Arrived' = Arrived PROVE Balanced'
  <2> DEFINE t == b.transfer
  <2>1. /\ t \in Transfer /\ burned' = burned \cup {b}
        /\ balance' = [balance EXCEPT ![To[t]] = @ - Amount[t]]
    BY <1>3 DEF Land, BurnInv, Typed
  <2>2. t \in Arrived
    BY <2>1 DEF BurnInv, BurnsHaveRows, Kept
  <2>3. \A c \in burned : c.transfer # t
    <3> SUFFICES ASSUME NEW c \in burned, c.transfer = t PROVE FALSE
      OBVIOUS
    <3>1. c = b
      BY DEF BurnInv, Typed, BurnsHaveRows
    <3> QED
      BY <3>1 DEF Kept
  <2> HIDE DEF t
  <2>4. t \in Unburned(To[t]) /\ Unburned(To[t])' = Unburned(To[t]) \ {t}
    BY <1>3, <2>1, <2>2, <2>3 DEF Unburned, t
  <2>5. \A d \in Account \ {To[t]} : Unburned(d)' = Unburned(d)
    BY <1>3, <2>1 DEF Unburned, t
  <2>6. SumFunctionOnSet(Amount, Unburned(To[t])) = Amount[t] + SumFunctionOnSet(Amount, Unburned(To[t]) \ {t})
        /\ SumFunctionOnSet(Amount, Unburned(To[t]) \ {t}) \in Int
    <3>1. \A x \in Unburned(To[t]) : Amount[x] \in Int
      BY <1>0, <1>1, <2>1
    <3>2. IsFiniteSet(Unburned(To[t])) /\ IsFiniteSet(Unburned(To[t]) \ {t})
      BY <1>0, <1>1, <2>1, FS_RemoveElement
    <3> QED
      BY <2>4, <3>1, <3>2, SumTake, SumType
  <2>7. balance'[To[t]] = SumFunctionOnSet(Amount, Unburned(To[t])')
    <3>1. balance'[To[t]] = balance[To[t]] - Amount[t]
      BY <1>0, <2>1
    <3>2. balance[To[t]] = SumFunctionOnSet(Amount, Unburned(To[t])) /\ balance[To[t]] \in Int /\ Amount[t] \in Int
      BY <1>0, <2>1 DEF Balanced
    <3> QED
      BY <2>4, <2>6, <3>1, <3>2
  <2>8. \A d \in Account \ {To[t]} : balance'[d] = SumFunctionOnSet(Amount, Unburned(d)')
    BY <1>0, <2>1, <2>5 DEF Balanced
  <2>9. balance' \in [Account -> Int]
    BY <1>0, <2>1
  <2> QED
    BY <2>7, <2>8, <2>9 DEF Balanced
<1>4. CASE UNCHANGED <<balance, burned>> /\ Arrived' = Arrived
  BY <1>4 DEF Balanced, Unburned
<1> QED
  BY <1>2, <1>3, <1>4, ArrivedGrows

(* A transfer that is parked, or not claimed yet, is still in its deposit  *)
(* account in full, whatever was burned there for others and wherever the  *)
(* scanner crashed: it can be sent back (pegout-scanner index.ts, holdRow  *)
(* before any burn).  The account holds exactly what was not burned; a     *)
(* parked or unclaimed row has no burn.                                    *)
THEOREM ParkedIsStillThere ==
    ASSUME LateFailures = FALSE
    PROVE  Spec => []HeldIsThere
<1> DEFINE Inv == BurnInv /\ Kept /\ Balanced
<1>1. ASSUME Init PROVE Inv
  <2>1. BurnInv
    BY <1>1, PegoutAssumption
       DEF Init, Idle, NoRow, BurnInv, Typed, Working, Status, BurnsHaveRows, StaleIsSettled, NothingSentYet
  <2>2. Arrived = {}
    BY <1>1, PegoutAssumption DEF Init, Arrived
  <2>3. Kept
    BY <1>1 DEF Init, Idle, NoRow, Kept, Working
  <2>4. Balanced
    <3>1. \A d \in Account : Unburned(d) = {}
      BY <2>2 DEF Unburned
    <3>2. balance = [d \in Account |-> 0]
      BY <1>1 DEF Init
    <3>3. SumFunctionOnSet(Amount, {}) = 0
      BY SumEmpty
    <3>4. \A d \in Account : balance[d] = SumFunctionOnSet(Amount, Unburned(d))
      BY <3>1, <3>2, <3>3
    <3> QED
      BY <3>2, <3>4 DEF Balanced
  <2> QED
    BY <2>1, <2>3, <2>4
<1>2. Inv /\ [Next]_vars => Inv'
  BY BurnInvPreserved, KeptPreserved, BalancedPreserved
<1>3. ASSUME Inv PROVE HeldIsThere
  <2> SUFFICES ASSUME NEW d \in Account
               PROVE SumFunctionOnSet(Amount,
                         {t \in Arrived : To[t] = d /\ row[t].status \in {"none", "HELD"}
                                          /\ ~\E b \in inflight : b.transfer = t}) <= balance[d]
    BY DEF HeldIsThere
  <2> DEFINE P == {t \in Arrived : To[t] = d /\ row[t].status \in {"none", "HELD"}
                                    /\ ~\E b \in inflight : b.transfer = t}
  <2>1. P \subseteq Unburned(d)
    BY <1>3 DEF Unburned, BurnInv, BurnsHaveRows, Kept
  <2>2. Unburned(d) \subseteq Transfer /\ IsFiniteSet(Unburned(d))
    BY PegoutAssumption, FS_Subset DEF Unburned, Arrived
  <2>3. \A x \in Unburned(d) : Amount[x] \in Nat
    BY PegoutAssumption, <2>2
  <2>4. SumFunctionOnSet(Amount, P) <= SumFunctionOnSet(Amount, Unburned(d))
    <3>1. P \in SUBSET Unburned(d)
      BY <2>1
    <3> HIDE DEF P
    <3> QED
      BY <2>2, <2>3, <3>1, SumFewer
  <2> QED
    BY <1>3, <2>4 DEF Balanced, P
<1> QED
  BY <1>1, <1>2, <1>3, PTL DEF Spec

(* The shared window holds at most one peg-out more than the cap, although *)
(* other watchers reserve between the check and the record, and whatever   *)
(* fails (breaker.check, breaker.record).                                  *)
THEOREM CapOvershootIsOne == Spec => []OvershootIsOne
<1> DEFINE Inv == Typed /\ CapInv
<1>1. Init => Inv
  BY PegoutAssumption DEF Init, Idle, NoRow, Typed, Working, Status, CapInv, OvershootIsOne
<1>2. ASSUME Inv, [Next]_vars PROVE Inv'
  <2>1. Typed'
    BY <1>2, TypedPreserved
  <2>2. Cap \in Int /\ \A t \in Transfer : Amount[t] \in Nat
    BY PegoutAssumption
  <2> SUFFICES CapInv'
    BY <2>1
  <2> USE DEF Typed, Working, CapInv, OvershootIsOne
  <2>3. CASE Guard
    <3>1. capSum' = capSum /\ scan.cur \in Transfer
      BY <1>2, <2>3 DEF Guard
    <3>2. scan'.pc = "rows" \/ (scan'.pc = "burn" /\ capSum + Amount[scan.cur] <= Cap)
      BY <1>2, <2>3 DEF Guard, Back
    <3>3. scan'.pc = "burn" => capSum <= Cap
      BY <1>2, <2>2, <3>1, <3>2
    <3>4. scan'.pc # "record"
      BY <3>2
    <3> QED
      BY <1>2, <3>1, <3>3, <3>4
  <2>4. CASE Burn
    BY <1>2, <2>4 DEF Burn
  <2>5. CASE Record
    <3>1. scan.cur \in Transfer /\ capSum <= Cap /\ capSum' = capSum + Amount[scan.cur]
      BY <1>2, <2>5 DEF Record
    <3>2. scan'.pc = "checkpoint"
      BY <1>2, <2>5 DEF Record
    <3>3. capSum' <= Cap + Amount[scan.cur]
      BY <1>2, <2>2, <3>1
    <3> QED
      BY <3>1, <3>2, <3>3
  <2>6. CASE OthersReserve
    <3>1. capSum' <= Cap
      BY <1>2, <2>2, <2>6 DEF OthersReserve
    <3> QED
      BY <3>1
  <2>7. ASSUME capSum' = capSum, scan'.pc \notin {"burn", "record"} \/ scan' = scan
        PROVE  CapInv'
    BY <1>2, <2>7
  <2>8. CASE Tick \/ List \/ Open \/ BurnFails \/ Checkpoint \/ Queue \/ Touch \/ Fail
    <3>1. capSum' = capSum
      BY <2>8 DEF Tick, List, Open, BurnFails, Checkpoint, Queue, Touch, Fail
    <3>2. scan'.pc \notin {"burn", "record"}
      <4>0. CASE Open
        BY <1>2, <4>0 DEF Open, Idle
      <4>1. CASE Tick
        BY <4>1 DEF Tick, Idle
      <4>5. CASE Fail
        BY <4>5 DEF Fail, Idle
      <4>2. CASE List
        BY <1>2, <4>2 DEF List
      <4>3. CASE BurnFails \/ Queue
        BY <1>2, <4>3 DEF BurnFails, Queue, Back
      <4>4. CASE Checkpoint \/ Touch
        BY <1>2, <4>4 DEF Checkpoint, Touch
      <4> QED
        BY <2>8, <4>0, <4>1, <4>2, <4>3, <4>4, <4>5
    <3> QED
      BY <2>7, <3>1, <3>2
  <2>9. ASSUME NEW t \in Transfer, Recover(t) \/ Claim(t) PROVE CapInv'
    BY <1>2, <2>7, <2>9 DEF Recover, Claim
  <2>10. ASSUME NEW t \in Transfer, Arrive(t) \/ GrowStale(t) \/ Release(t) PROVE CapInv'
    BY <1>2, <2>7, <2>10 DEF Arrive, GrowStale, Release
  <2>11. CASE Unpause \/ UNCHANGED vars \/ \E d \in Account : Register(d)
    <3>1. capSum' = capSum /\ scan' = scan
      BY <2>11 DEF Unpause, Register, vars
    <3> QED
      BY <2>7, <3>1
  <2>12. ASSUME NEW b \in inflight, Land(b) \/ Drop(b) PROVE CapInv'
    BY <1>2, <2>7, <2>12 DEF Land, Drop
  <2> QED
    BY <1>2, <2>3, <2>4, <2>5, <2>6, <2>8, <2>9, <2>10, <2>11, <2>12 DEF Next, ScannerStep
<1> QED
  BY <1>1, <1>2, PTL DEF Spec, CapInv
=============================================================================
