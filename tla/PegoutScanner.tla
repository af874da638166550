--------------------------- MODULE PegoutScanner ----------------------------
(***************************************************************************)
(* The Solana peg-out scanner and the lookup service that feeds it.  A     *)
(* user sends wVIZ to the deposit account derived from a VIZ name; the     *)
(* scanner visits the registered accounts in turn, claims each transfer in *)
(* the outbox, burns it there, checkpoints the burn's signature on the row *)
(* and hands the row over for the VIZ release.  Unlike the watchers it     *)
(* ACTS after the claim, so what a crash leaves behind has to be looked up *)
(* on chain.                                                               *)
(*                                                                         *)
(* A burn is the pair of the transfer it is meant for and its try; the     *)
(* deposit program only checks that the account holds the amount.  Burn    *)
(* transactions carry a recent blockhash: one that has not landed when its *)
(* row is stale never will.                                                *)
(***************************************************************************)
EXTENDS Integers, Sequences, FiniteSets, FiniteSetsExt, SequencesExt

CONSTANTS
    Transfer,      \* incoming transfers to deposit accounts
    Account,       \* VIZ names, each with a deposit account of its own
    To,            \* To[t]: the name whose deposit account t pays
    Amount,        \* Amount[t]
    Exists,        \* VIZ accounts that exist
    Short,         \* names of at most MAX_VIZ_ACCOUNT_BYTES
    None,
    Cap,           \* the rolling 24 h cap; also the per-tx limit
    MaxSignatures, \* newest signatures of a deposit account one scan reads
    Batch,         \* scanAddressBatch
    LateFailures,  \* the burn's try block may fail after the burn was sent
    MaxTries,      \* bound: burns sent for one transfer
    MaxFaults,     \* bound: crashes, exceptions, dropped burns
    MaxOthers      \* bound: what other watchers reserve of the cap

ASSUME PegoutAssumption ==
    /\ IsFiniteSet(Transfer) /\ IsFiniteSet(Account)
    /\ None \notin Transfer \cup Account
    /\ To \in [Transfer -> Account]
    /\ Amount \in [Transfer -> Nat \ {0}]
    /\ Exists \subseteq Account /\ Short \subseteq Account
    /\ Cap \in Nat /\ MaxSignatures \in Nat /\ Batch \in Nat \ {0}
    /\ LateFailures \in BOOLEAN
    /\ MaxTries \in Nat \ {0} /\ MaxFaults \in Nat /\ MaxOthers \in Nat

VARIABLES
    history,  \* history[d]: transfers and burns of d's deposit account, oldest first
    balance,  \* balance[d]: wVIZ in it
    sent,     \* sent[t]: burns sent for t so far
    inflight, \* burns that may still land
    burned,   \* burns that landed
    row,      \* row[t]: status and burn checkpoint (0 for none) of t's outbox row
    stale,    \* rows that have been SEEN for STALE_SEEN_MS
    alerted,  \* rows handed to a human
    capSum,   \* what the shared 24 h window holds
    others,   \* how much of it other watchers reserved
    fresh,    \* registered deposit addresses that were never scanned
    order,    \* the other ones, by scan_time
    paused,   \* the gateway is paused
    scan,     \* the scanner's loop
    faults

chain == <<history, balance, sent, inflight, burned>>
registry == <<fresh, order>>
vars == <<chain, row, stale, alerted, capSum, others, registry, paused, scan, faults>>

NoRow == [status |-> "none", txid |-> 0]
Idle == [pc |-> "idle", batch |-> <<>>, todo |-> {}, cur |-> None]

Init ==
    /\ history = [d \in Account |-> <<>>]
    /\ balance = [d \in Account |-> 0]
    /\ sent = [t \in Transfer |-> 0]
    /\ inflight = {}
    /\ burned = {}
    /\ row = [t \in Transfer |-> NoRow]
    /\ stale = {}
    /\ alerted = {}
    /\ capSum = 0
    /\ others = 0
    /\ fresh = {}
    /\ order = <<>>
    /\ paused = FALSE
    /\ scan = Idle
    /\ faults = 0

-----------------------------------------------------------------------------
(* The chain, the clock and the rest of the gateway (external). *)

Arrived == {t \in Transfer : \E i \in DOMAIN history[To[t]] : history[To[t]][i] = <<"transfer", t>>}

Arrive(t) ==
    /\ t \notin Arrived
    /\ history' = [history EXCEPT ![To[t]] = Append(@, <<"transfer", t>>)]
    /\ balance' = [balance EXCEPT ![To[t]] = @ + Amount[t]]
    /\ UNCHANGED <<sent, inflight, burned, row, stale, alerted, capSum, others, registry, paused, scan, faults>>

\* burn_deposit: the program burns the amount from the deposit account.
Land(b) ==
    LET d == To[b.transfer] IN
    /\ d \in Short /\ balance[d] >= Amount[b.transfer]
    /\ balance' = [balance EXCEPT ![d] = @ - Amount[b.transfer]]
    /\ history' = [history EXCEPT ![d] = Append(@, <<"burn", b>>)]
    /\ burned' = burned \cup {b}
    /\ inflight' = inflight \ {b}
    /\ UNCHANGED <<sent, row, stale, alerted, capSum, others, registry, paused, scan, faults>>

\* Dropped by the network, or failed for want of balance.
Drop(b) ==
    /\ faults < MaxFaults \/ balance[To[b.transfer]] < Amount[b.transfer]
    /\ inflight' = inflight \ {b}
    /\ faults' = IF faults < MaxFaults THEN faults + 1 ELSE faults
    /\ UNCHANGED <<history, balance, sent, burned, row, stale, alerted, capSum, others, registry, paused, scan>>

\* STALE_SEEN_MS outlive a burn's blockhash.
GrowStale(t) ==
    /\ row[t].status = "SEEN" /\ t \notin stale /\ scan.cur # t
    /\ ~\E b \in inflight : b.transfer = t
    /\ stale' = stale \cup {t}
    /\ UNCHANGED <<chain, row, alerted, capSum, others, registry, paused, scan, faults>>

\* Delivery.tla's part: signers check the transfer, not the burn, and the
\* VIZ goes out.
Release(t) ==
    /\ row[t].status = "QUEUED"
    /\ row' = [row EXCEPT ![t].status = "CONFIRMED"]
    /\ UNCHANGED <<chain, stale, alerted, capSum, others, registry, paused, scan, faults>>

OthersReserve ==
    /\ others < MaxOthers /\ capSum < Cap
    /\ capSum' = capSum + 1
    /\ others' = others + 1
    /\ UNCHANGED <<chain, row, stale, alerted, registry, paused, scan, faults>>

\* An operator resumes the gateway.
Unpause ==
    /\ paused
    /\ paused' = FALSE
    /\ UNCHANGED <<chain, row, stale, alerted, capSum, others, registry, scan, faults>>

-----------------------------------------------------------------------------
(* The lookup service, and the coordinator's public mirror of it. *)

\* No address for a name the deposit program refuses or VIZ does not know:
\* what is sent there could never be released.
resolveDepositAddress(d) == d \in Short /\ d \in Exists

Registered == fresh \cup Range(order)

\* registerDepositAddress: a row that is there stays as it is.
Register(d) ==
    /\ resolveDepositAddress(d)
    /\ d \notin Registered
    /\ fresh' = fresh \cup {d}
    /\ UNCHANGED <<chain, row, stale, alerted, capSum, others, order, paused, scan, faults>>

-----------------------------------------------------------------------------
(* Rows an earlier loop left in SEEN. *)

\* The next loop; its list of stale rows is read first.
Tick ==
    /\ scan.pc = "idle"
    /\ ~paused
    /\ scan' = [Idle EXCEPT !.pc = "recover", !.todo = stale \ alerted]
    /\ UNCHANGED <<chain, row, stale, alerted, capSum, others, registry, paused, faults>>

\* No checkpoint: nobody knows.  Otherwise ask the chain for the signature.
classifySeenRecovery(t) ==
    IF row[t].txid = 0 THEN "ALERT"
    ELSE IF [transfer |-> t, try |-> row[t].txid] \in burned THEN "REQUEUE" ELSE "RELEASE"

Recover(t) ==
    /\ scan.pc = "recover" /\ t \in scan.todo
    /\ scan' = [scan EXCEPT !.todo = @ \ {t}]
    /\ CASE classifySeenRecovery(t) = "REQUEUE" ->
              row' = [row EXCEPT ![t].status = "QUEUED"] /\ stale' = stale \ {t} /\ UNCHANGED alerted
         [] classifySeenRecovery(t) = "RELEASE" ->
              row' = [row EXCEPT ![t] = NoRow] /\ stale' = stale \ {t} /\ UNCHANGED alerted
         [] classifySeenRecovery(t) = "ALERT" ->
              alerted' = alerted \cup {t} /\ UNCHANGED <<row, stale>>
    /\ UNCHANGED <<chain, capSum, others, registry, paused, faults>>

-----------------------------------------------------------------------------
(* One address of the batch. *)

\* incomingTransfersTo: the transfers among the newest signatures.
Visible(d) ==
    {t \in Transfer : To[t] = d /\ \E i \in DOMAIN history[d] :
        history[d][i] = <<"transfer", t>> /\ i + MaxSignatures > Len(history[d])}

\* depositAddressesForScan: those never scanned first, in any order, then
\* those whose scan is longest ago.
forScan ==
    LET limit(q) == SubSeq(q, 1, IF Batch < Len(q) THEN Batch ELSE Len(q))
    IN  {limit(p \o order) : p \in SetToSeqs(fresh)}

\* The stale rows are done with: the loop's list of addresses is read.
List ==
    /\ scan.pc = "recover" /\ scan.todo = {}
    /\ \E batch \in forScan : scan' = [scan EXCEPT !.pc = "next", !.batch = batch]
    /\ UNCHANGED <<chain, row, stale, alerted, capSum, others, registry, paused, faults>>

\* The next address of the list, or the end of the loop.
Open ==
    /\ scan.pc = "next"
    /\ scan' = IF scan.batch = <<>> THEN Idle
               ELSE [scan EXCEPT !.pc = "rows", !.todo = Visible(Head(scan.batch))]
    /\ UNCHANGED <<chain, row, stale, alerted, capSum, others, registry, paused, faults>>

\* Seeded fault: whether the claim inserted a row is not asked.
ClaimAgain(t) ==
    /\ scan.pc = "rows" /\ t \in scan.todo
    /\ row' = [row EXCEPT ![t] = [status |-> "SEEN", txid |-> 0]]
    /\ scan' = [scan EXCEPT !.todo = @ \ {t}, !.cur = t, !.pc = "guard"]
    /\ UNCHANGED <<chain, stale, alerted, capSum, others, registry, paused, faults>>

\* Claim first; a transfer with a row is left to its row.
Claim(t) ==
    /\ scan.pc = "rows" /\ t \in scan.todo
    /\ IF row[t].status = "none"
       THEN /\ row' = [row EXCEPT ![t] = [status |-> "SEEN", txid |-> 0]]
            /\ scan' = [scan EXCEPT !.todo = @ \ {t}, !.cur = t, !.pc = "guard"]
       ELSE /\ scan' = [scan EXCEPT !.todo = @ \ {t}]
            /\ UNCHANGED row
    /\ UNCHANGED <<chain, stale, alerted, capSum, others, registry, paused, faults>>

Back == [scan EXCEPT !.pc = "rows", !.cur = None]

\* Seeded fault: the cap is not asked.
GuardAccount ==
    /\ scan.pc = "guard"
    /\ IF To[scan.cur] \in Exists
       THEN scan' = [scan EXCEPT !.pc = "burn"] /\ UNCHANGED row
       ELSE /\ row' = [row EXCEPT ![scan.cur].status = "HELD"]
            /\ scan' = Back
    /\ UNCHANGED <<chain, stale, alerted, capSum, others, registry, paused, faults>>

\* breaker.check (nothing is reserved) and guardPegOut: no burn above the
\* cap or for an account that cannot be paid.  A full window also pauses
\* the gateway.
Guard ==
    LET fits == capSum + Amount[scan.cur] <= Cap IN
    /\ scan.pc = "guard"
    /\ IF fits /\ To[scan.cur] \in Exists
       THEN scan' = [scan EXCEPT !.pc = "burn"] /\ UNCHANGED row
       ELSE /\ row' = [row EXCEPT ![scan.cur].status = "HELD"]
            /\ scan' = Back
    /\ paused' = (paused \/ (Amount[scan.cur] <= Cap /\ ~fits))
    /\ UNCHANGED <<chain, stale, alerted, capSum, others, registry, faults>>

\* burnFromDeposit: preflight wants the balance; then the burn is on its
\* way, whatever becomes of it.
Burn ==
    /\ scan.pc = "burn"
    /\ sent[scan.cur] < MaxTries
    /\ balance[To[scan.cur]] >= Amount[scan.cur]
    /\ sent' = [sent EXCEPT ![scan.cur] = @ + 1]
    /\ inflight' = inflight \cup {[transfer |-> scan.cur, try |-> sent'[scan.cur]]}
    /\ scan' = [scan EXCEPT !.pc = "record"]
    /\ UNCHANGED <<history, balance, burned, row, stale, alerted, capSum, others, registry, paused, faults>>

\* The try block throws: the claim is deleted and the next scan starts
\* over.  The request may have reached the network all the same, or the
\* burn was sent and one of the three writes after it throws.
BurnFails ==
    /\ \/ /\ scan.pc = "burn" /\ balance[To[scan.cur]] < Amount[scan.cur]
          /\ UNCHANGED <<sent, inflight, faults>>
       \/ /\ faults < MaxFaults /\ faults' = faults + 1
          /\ \/ scan.pc = "burn" /\ UNCHANGED <<sent, inflight>>
             \/ /\ LateFailures /\ scan.pc = "burn" /\ sent[scan.cur] < MaxTries
                /\ sent' = [sent EXCEPT ![scan.cur] = @ + 1]
                /\ inflight' = inflight \cup {[transfer |-> scan.cur, try |-> sent'[scan.cur]]}
             \/ /\ LateFailures /\ scan.pc \in {"record", "checkpoint", "queue"}
                /\ UNCHANGED <<sent, inflight>>
    /\ row' = [row EXCEPT ![scan.cur] = NoRow]
    /\ scan' = Back
    /\ UNCHANGED <<history, balance, burned, stale, alerted, capSum, others, registry, paused>>

\* Seeded fault: reserved like any other peg-out, and parked if that fails.
RecordOrHold ==
    /\ scan.pc = "record"
    /\ IF capSum + Amount[scan.cur] <= Cap
       THEN /\ capSum' = capSum + Amount[scan.cur]
            /\ scan' = [scan EXCEPT !.pc = "checkpoint"] /\ UNCHANGED row
       ELSE /\ row' = [row EXCEPT ![scan.cur].status = "HELD"]
            /\ scan' = Back /\ UNCHANGED capSum
    /\ UNCHANGED <<chain, stale, alerted, others, registry, paused, faults>>

\* breaker.record: what was burned counts, cap or not.
Record ==
    /\ scan.pc = "record"
    /\ capSum' = capSum + Amount[scan.cur]
    /\ scan' = [scan EXCEPT !.pc = "checkpoint"]
    /\ UNCHANGED <<chain, row, stale, alerted, others, registry, paused, faults>>

\* The burn's signature goes onto the row, still SEEN,
Checkpoint ==
    /\ scan.pc = "checkpoint"
    /\ row' = [row EXCEPT ![scan.cur].txid = sent[scan.cur]]
    /\ scan' = [scan EXCEPT !.pc = "queue"]
    /\ UNCHANGED <<chain, stale, alerted, capSum, others, registry, paused, faults>>

\* and the row is handed to the dispatcher.
Queue ==
    /\ scan.pc = "queue"
    /\ row' = [row EXCEPT ![scan.cur].status = "QUEUED"]
    /\ scan' = Back
    /\ UNCHANGED <<chain, stale, alerted, capSum, others, registry, paused, faults>>

\* Seeded fault: the scan time is not stamped.
TouchNothing ==
    /\ scan.pc = "rows" /\ scan.todo = {}
    /\ scan' = [scan EXCEPT !.pc = "next", !.batch = Tail(@)]
    /\ UNCHANGED <<chain, row, stale, alerted, capSum, others, registry, paused, faults>>

\* touchDepositScan: the address goes to the end of the queue.
Touch ==
    LET d == Head(scan.batch) IN
    /\ scan.pc = "rows" /\ scan.todo = {}
    /\ fresh' = fresh \ {d}
    /\ order' = Append(SelectSeq(order, LAMBDA e : e # d), d)
    /\ scan' = [scan EXCEPT !.pc = "next", !.batch = Tail(@)]
    /\ UNCHANGED <<chain, row, stale, alerted, capSum, others, paused, faults>>

\* The process dies, or a call outside the burn's try block throws: the
\* loop starts over with what the store has.
Fail ==
    /\ scan.pc # "idle" /\ faults < MaxFaults
    /\ scan' = Idle
    /\ faults' = faults + 1
    /\ UNCHANGED <<chain, row, stale, alerted, capSum, others, registry, paused>>

ScannerStep ==
    \/ Tick \/ List \/ Open \/ Guard \/ Burn \/ BurnFails \/ Record \/ Checkpoint \/ Queue \/ Touch
    \/ \E t \in Transfer : Recover(t) \/ Claim(t)

Next ==
    \/ ScannerStep \/ Fail \/ OthersReserve \/ Unpause
    \/ \E d \in Account : Register(d)
    \/ \E t \in Transfer : Arrive(t) \/ GrowStale(t) \/ Release(t)
    \/ \E b \in inflight : Land(b) \/ Drop(b)

Spec == Init /\ [][Next]_vars

(* The scanner's loop runs on, clocks run on, an operator ends a pause,    *)
(* queued rows are delivered and a burn lands or is dropped.               *)
Fairness ==
    /\ WF_vars(ScannerStep) /\ WF_vars(Unpause)
    /\ \A t \in Transfer : WF_vars(GrowStale(t)) /\ WF_vars(Release(t))
    /\ WF_vars(\E b \in inflight : Land(b) \/ Drop(b))

FairSpec == Spec /\ Fairness

-----------------------------------------------------------------------------
(* Properties. *)

Burns == [transfer : Transfer, try : 1..MaxTries]

TypeOK ==
    /\ history \in [Account -> Seq(({"transfer"} \X Transfer) \cup ({"burn"} \X Burns))]
    /\ balance \in [Account -> Nat]
    /\ sent \in [Transfer -> 0..MaxTries]
    /\ inflight \subseteq Burns /\ burned \subseteq Burns
    /\ row \in [Transfer -> [status : {"none", "SEEN", "QUEUED", "HELD", "CONFIRMED"},
                             txid : 0..MaxTries]]
    /\ stale \subseteq Transfer /\ alerted \subseteq Transfer
    /\ capSum \in Nat /\ others \in Nat
    /\ fresh \subseteq Account /\ order \in Seq(Account) /\ paused \in BOOLEAN
    /\ scan \in [pc : {"idle", "recover", "next", "rows", "guard", "burn", "record", "checkpoint", "queue"},
                 batch : Seq(Account), todo : SUBSET Transfer, cur : Transfer \cup {None}]
    /\ faults \in Nat

(* No transfer is burned twice, whatever crashes lie between the claim and *)
(* the checkpoint: a second burn would take another user's wVIZ from the   *)
(* same deposit account.                                                   *)
BurnedOnce ==
    \A b, c \in inflight \cup burned : b.transfer = c.transfer => b = c

(* What is parked or not yet claimed can be given back: its wVIZ is still  *)
(* in the deposit account, next to whatever is burned for other transfers. *)
HeldIsThere ==
    \A d \in Account :
        SumFunctionOnSet(Amount, {t \in Arrived : To[t] = d /\ row[t].status \in {"none", "HELD"}
                                                   /\ ~\E b \in inflight : b.transfer = t})
            <= balance[d]

(* Checking the cap and recording the burn are two steps, so other         *)
(* watchers can fill the window in between; one peg-out is the most the    *)
(* scanner goes over.                                                      *)
OvershootIsOne ==
    capSum <= Cap \/ \E t \in Transfer : capSum <= Cap + Amount[t]

(* Every transfer to a registered address, were it there before the        *)
(* registration, is released, parked or in a human's hands eventually:     *)
(* scanning by scan_time reaches every address, whoever else registers.    *)
Served ==
    \A t \in Transfer :
        (t \in Arrived /\ To[t] \in Registered) ~>
            (row[t].status \in {"CONFIRMED", "HELD"} \/ t \in alerted)

(* `MUST run BEFORE the VIZ release so circulating supply drops first':    *)
(* what is released on VIZ has been burned on Solana.                      *)
SupplyDropsFirst ==
    \A t \in Transfer : row[t].status = "CONFIRMED" => \E b \in burned : b.transfer = t
=============================================================================
