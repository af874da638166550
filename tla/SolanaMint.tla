----------------------------- MODULE SolanaMint -----------------------------
(***************************************************************************)
(* Solana mints: the dispatcher delivers queued peg-ins one at a time, a   *)
(* /submit call of the coordinator looks for an earlier mint, reads the    *)
(* durable nonce, collects every signature of the committed signing subset *)
(* and sends the transaction.  A call the dispatcher gave up on keeps      *)
(* running beside the next one.                                            *)
(*                                                                         *)
(* The nonce account is a counter: a transaction names the value it was    *)
(* built with and lands only while that value is current, advancing it.    *)
(* A transaction is the pair of its action (the memo) and its nonce; the   *)
(* rest of the message is a function of the action.  The nonce stands for  *)
(* the signature a row stores as txid.                                     *)
(***************************************************************************)
EXTENDS Naturals, Sequences, FiniteSets

CONSTANTS
    Action,      \* Solana peg-ins
    Signer,      \* the committed signing subset: all of them must sign
    Call,        \* /submit calls that can be running at once
    None,
    ScanWindow,  \* newest landed transactions mintByActionId reads
    MaxFaults    \* bound: crashes and lost transactions

ASSUME SolanaMintAssumption ==
    /\ IsFiniteSet(Action) /\ IsFiniteSet(Signer) /\ IsFiniteSet(Call)
    /\ Signer # {}
    /\ None \notin Action \cup Call
    /\ ScanWindow \in Nat /\ MaxFaults \in Nat

VARIABLES
    nonce,     \* the nonce account's current value
    inflight,  \* transactions sent and still able to land
    landed,    \* transactions that landed, oldest first
    ledger,    \* ledger[s][a]: the nonce s has signed a with, 0 for none
    row,       \* row[a]: status, attempts (saturating at 1) and txid of the outbox row
    call,      \* call[c]: a /submit call
    waiting,   \* the call the dispatcher waits for
    refused,   \* history: a signer took a proposal for a replay
    faults

network == <<nonce, inflight, landed>>
vars == <<network, ledger, row, call, waiting, refused, faults>>

Free == [pc |-> "free", action |-> None, nonce |-> 0, asked |-> {}, signed |-> {}, txid |-> 0]

Init ==
    /\ nonce = 1
    /\ inflight = {}
    /\ landed = <<>>
    /\ ledger = [s \in Signer |-> [a \in Action |-> 0]]
    /\ row = [a \in Action |-> [status |-> "QUEUED", attempts |-> 0, txid |-> 0]]
    /\ call = [c \in Call |-> Free]
    /\ waiting = None
    /\ refused = FALSE
    /\ faults = 0

-----------------------------------------------------------------------------
(* The dispatcher. *)

\* A due row goes to BROADCAST before the coordinator is called.
Deliver(a, c) ==
    /\ waiting = None /\ call[c].pc = "free"
    /\ row[a].status = "QUEUED"
    /\ row' = [row EXCEPT ![a].status = "BROADCAST"]
    /\ call' = [call EXCEPT ![c] = [Free EXCEPT !.pc = "check", !.action = a]]
    /\ waiting' = c
    /\ UNCHANGED <<network, ledger, refused, faults>>

\* planTransition after a failure: another try, or the end of the window.
Retry(a) ==
    \E st \in {"QUEUED", "REFUNDING"} :
        row' = [row EXCEPT ![a].status = st, ![a].attempts = 1]

\* The answer, if the dispatcher still waits for it.  txid 0 is a failure.
Reply(c) ==
    /\ call[c].pc = "reply"
    /\ call' = [call EXCEPT ![c] = Free]
    /\ IF waiting = c
       THEN /\ IF call[c].txid # 0
               THEN row' = [row EXCEPT ![call[c].action].status = "CONFIRMED",
                                       ![call[c].action].txid = call[c].txid]
               ELSE Retry(call[c].action)
            /\ waiting' = None
       ELSE UNCHANGED <<row, waiting>>
    /\ UNCHANGED <<network, ledger, refused, faults>>

\* submitTimeoutMs: the dispatcher gives up, the call goes on.
TimeOut ==
    /\ waiting # None /\ call[waiting].pc # "free"
    /\ Retry(call[waiting].action)
    /\ waiting' = None
    /\ UNCHANGED <<network, ledger, call, refused, faults>>

\* The dispatcher crashes while it waits: the row stays in BROADCAST,
CrashDispatcher ==
    /\ waiting # None /\ faults < MaxFaults
    /\ waiting' = None
    /\ faults' = faults + 1
    /\ UNCHANGED <<network, ledger, row, call, refused>>

\* and is requeued once it is stale, counted as an attempt.
RecoverOrphan(a) ==
    /\ row[a].status = "BROADCAST"
    /\ \A c \in Call : waiting = c => call[c].action # a
    /\ row' = [row EXCEPT ![a].status = "QUEUED", ![a].attempts = 1]
    /\ UNCHANGED <<network, ledger, call, waiting, refused, faults>>

-----------------------------------------------------------------------------
(* The coordinator's call. *)

\* mintByActionId: the mint of a among the newest landed transactions.
Found(a) ==
    {landed[i].nonce : i \in {j \in DOMAIN landed :
        landed[j].action = a /\ j + ScanWindow > Len(landed)}}

\* actionExecuted: a stored txid, or on a retry the scan.
Check(c) ==
    /\ call[c].pc = "check"
    /\ LET a == call[c].action
           known == IF row[a].txid # 0 THEN {row[a].txid}
                    ELSE IF row[a].attempts > 0 THEN Found(a) ELSE {}
       IN  \/ \E n \in known : call' = [call EXCEPT ![c].pc = "reply", ![c].txid = n]
           \/ known = {} /\ call' = [call EXCEPT ![c].pc = "build"]
    /\ UNCHANGED <<network, ledger, row, waiting, refused, faults>>

\* buildMintProposal: whatever nonce is current now.
Build(c) ==
    /\ call[c].pc = "build"
    /\ call' = [call EXCEPT ![c].pc = "sign", ![c].nonce = nonce]
    /\ UNCHANGED <<network, ledger, row, waiting, refused, faults>>

\* Seeded fault: the ledger is written but never compared.
MaySignAgain(s, a, n) == TRUE

\* assertNotReplay: a signer signs one message per action.
MaySign(s, a, n) == ledger[s][a] \in {0, n}

\* One signer after the other; one that is offline gives nothing.
Ask(c, s) ==
    /\ call[c].pc = "sign" /\ s \notin call[c].asked
    /\ LET a == call[c].action
           n == call[c].nonce
       IN  \/ /\ MaySign(s, a, n)
              /\ ledger' = [ledger EXCEPT ![s][a] = n]
              /\ call' = [call EXCEPT ![c].asked = @ \cup {s}, ![c].signed = @ \cup {s}]
              /\ UNCHANGED refused
           \/ /\ ~MaySign(s, a, n)
              /\ refused' = TRUE
              /\ call' = [call EXCEPT ![c].asked = @ \cup {s}]
              /\ UNCHANGED ledger
           \/ /\ call' = [call EXCEPT ![c].asked = @ \cup {s}]
              /\ UNCHANGED <<ledger, refused>>
    /\ UNCHANGED <<network, row, waiting, faults>>

\* Every signature is there: send, if preflight finds the nonce current.
Submit(c) ==
    /\ call[c].pc = "sign" /\ call[c].signed = Signer
    /\ IF call[c].nonce = nonce
       THEN /\ inflight' = inflight \cup {[action |-> call[c].action, nonce |-> nonce]}
            /\ call' = [call EXCEPT ![c].pc = "confirm"]
       ELSE /\ call' = [call EXCEPT ![c].pc = "reply"]
            /\ UNCHANGED inflight
    /\ UNCHANGED <<nonce, landed, ledger, row, waiting, refused, faults>>

\* Threshold not met.
GiveUp(c) ==
    /\ call[c].pc = "sign" /\ call[c].asked = Signer /\ call[c].signed # Signer
    /\ call' = [call EXCEPT ![c].pc = "reply"]
    /\ UNCHANGED <<network, ledger, row, waiting, refused, faults>>

\* confirmSignature returns when the transaction is confirmed and also when
\* polling times out: either way the signature is the answer.
Confirm(c) ==
    /\ call[c].pc = "confirm"
    /\ call' = [call EXCEPT ![c].pc = "reply", ![c].txid = call[c].nonce]
    /\ UNCHANGED <<network, ledger, row, waiting, refused, faults>>

\* The coordinator dies with all its calls; the dispatcher's request fails.
CrashCoordinator ==
    /\ \E c \in Call : call[c].pc # "free"
    /\ faults < MaxFaults
    /\ call' = [c \in Call |-> IF c = waiting
                              THEN [Free EXCEPT !.pc = "reply", !.action = call[c].action]
                              ELSE Free]
    /\ faults' = faults + 1
    /\ UNCHANGED <<network, ledger, row, waiting, refused>>

-----------------------------------------------------------------------------
(* The network (external). *)

\* A transaction with the current nonce lands and advances it, which kills
\* every other one built with that value.
Land(t) ==
    /\ t.nonce = nonce
    /\ landed' = Append(landed, t)
    /\ nonce' = nonce + 1
    /\ inflight' = inflight \ {u \in inflight : u.nonce = nonce}
    /\ UNCHANGED <<ledger, row, call, waiting, refused, faults>>

Lose(t) ==
    /\ faults < MaxFaults
    /\ inflight' = inflight \ {t}
    /\ faults' = faults + 1
    /\ UNCHANGED <<nonce, landed, ledger, row, call, waiting, refused>>

Next ==
    \/ \E a \in Action : RecoverOrphan(a) \/ \E c \in Call : Deliver(a, c)
    \/ \E c \in Call : \/ Check(c) \/ Build(c) \/ Submit(c) \/ GiveUp(c) \/ Confirm(c) \/ Reply(c)
                       \/ \E s \in Signer : Ask(c, s)
    \/ TimeOut \/ CrashDispatcher \/ CrashCoordinator
    \/ \E t \in inflight : Land(t) \/ Lose(t)

Spec == Init /\ [][Next]_vars

-----------------------------------------------------------------------------
(* Properties. *)

Tx == [action : Action, nonce : Nat \ {0}]

TypeOK ==
    /\ nonce \in Nat \ {0}
    /\ inflight \subseteq Tx
    /\ landed \in Seq(Tx)
    /\ ledger \in [Signer -> [Action -> Nat]]
    /\ row \in [Action -> [status : {"QUEUED", "BROADCAST", "CONFIRMED", "REFUNDING"},
                           attempts : {0, 1}, txid : Nat]]
    /\ call \in [Call -> [pc : {"free", "check", "build", "sign", "confirm", "reply"},
                          action : Action \cup {None}, nonce : Nat,
                          asked : SUBSET Signer, signed : SUBSET Signer, txid : Nat]]
    /\ waiting \in Call \cup {None}
    /\ refused \in BOOLEAN
    /\ faults \in Nat

(* No peg-in is minted twice, although a retry reads a new nonce, the scan *)
(* is bounded and may run just before the earlier mint lands, and calls    *)
(* for the same row overlap: what carries it is the signers' ledger.       *)
MintedOnce ==
    \A i, j \in DOMAIN landed : landed[i].action = landed[j].action => i = j

(* The txid a row stores is the transaction that minted it or still can:   *)
(* no other transaction of the action ever lands.                          *)
TxidIsTheMint ==
    \A a \in Action : row[a].txid # 0 =>
        /\ \A i \in DOMAIN landed : landed[i].action = a => landed[i].nonce = row[a].txid
        /\ \A t \in inflight : t.action = a => t.nonce = row[a].txid

(* `The honest coordinator pins the durable-nonce message per action and   *)
(* reuses it on every re-drive': its own retries are never refused.        *)
NeverRefused == ~refused
=============================================================================
