---------------------------- MODULE ReplayLedger ----------------------------
(***************************************************************************)
(* The signer-side replay ledger for ONE VIZ release action, the signers'  *)
(* concurrent /approve handlers, and the VIZ chain that lands a release    *)
(* once enough operators signed the same body.                             *)
(*                                                                         *)
(* The ledger row and the coordinator's pin are both keyed by the action   *)
(* id, so actions do not interact and one action is enough.                *)
(*                                                                         *)
(* The coordinator is untrusted: here it is not modelled at all, and any   *)
(* client may present any body to any signer at any time.  VizRelease adds *)
(* the real coordinator on top of these same actions.                      *)
(*                                                                         *)
(* Time.  A body carries its own expiration, and the code only ever        *)
(* compares "now" with it, so the clock is kept as the phase of each body: *)
(*   Unbuilt  - no such body exists yet                                    *)
(*   Fresh    - more than RELEASE_REUSE_MIN_REMAINING_MS of validity left  *)
(*   Closing  - still valid, but too little left for a new signing round   *)
(*   Expired  - head block time is past the expiration: it can never land  *)
(*   Dead     - head block time is past expiration + VIZ_EXPIRY_MARGIN_MS  *)
(***************************************************************************)
EXTENDS Naturals, FiniteSets

CONSTANTS
    Signer,                \* the operators' signers
    Threshold,             \* T of the federation (= the VIZ authority's threshold)
    Body,                  \* release bodies (transaction ids) that can be built
    Client,                \* concurrent /approve calls a signer may be serving
    None,                  \* no body
    SignerLookupMayFail    \* TRUE: a failed getTransaction reads as "not landed"

ASSUME SignerAssumption == IsFiniteSet(Signer)
ASSUME ThresholdAssumption ==
    /\ Threshold \in 1..Cardinality(Signer)
    /\ 2 * Threshold > Cardinality(Signer)
ASSUME NoneAssumption == None \notin Body
ASSUME LookupAssumption == SignerLookupMayFail \in BOOLEAN

Unbuilt == 0
Fresh   == 1
Closing == 2
Expired == 3
Dead    == 4

Stage == {"read", "first", "lost", "check", "replace", "sign", "signed"}

VARIABLES
    phase,     \* phase[b]: how far head time is relative to b's expiration
    landed,    \* bodies that became transfers on VIZ
    ledger,    \* ledger[s]: the signed_proposals row of signer s for the action
    claimed,   \* claimed[s]: every body s ever put into its ledger (history)
    signed,    \* signed[s]: the bodies s has released a signature over
    handler    \* handler[s][c]: the /approve call of client c at signer s

ledgerVars == <<phase, landed, ledger, claimed, signed, handler>>

Idle == [stage |-> "idle", body |-> None, prev |-> None]

Handlers == {Idle} \cup [stage : Stage, body : Body, prev : Body \cup {None}]

\* A set of operators whose signatures satisfy the gateway account's authority.
IsQuorum(Q) == Q \subseteq Signer /\ Cardinality(Q) >= Threshold

LedgerInit ==
    /\ phase = [b \in Body |-> Unbuilt]
    /\ landed = {}
    /\ ledger = [s \in Signer |-> None]
    /\ claimed = [s \in Signer |-> {}]
    /\ signed = [s \in Signer |-> {}]
    /\ handler = [s \in Signer |-> [c \in Client |-> Idle]]

-----------------------------------------------------------------------------
(* The VIZ chain and the bodies. *)

\* buildReleaseProposal: a new body with ten minutes of validity.
BuildBody(b) ==
    /\ phase[b] = Unbuilt
    /\ phase' = [phase EXCEPT ![b] = Fresh]
    /\ UNCHANGED <<landed, ledger, claimed, signed, handler>>

\* Head block time advances past the next of b's deadlines.
Age(b) ==
    /\ phase[b] \in Fresh..Expired
    /\ phase' = [phase EXCEPT ![b] = @ + 1]
    /\ UNCHANGED <<landed, ledger, claimed, signed, handler>>

\* A block includes b: still valid, not yet included, and carrying the
\* signatures of a quorum.  The chain knows nothing of action ids.
Land(b) ==
    /\ phase[b] \in {Fresh, Closing}
    /\ b \notin landed
    /\ IsQuorum({s \in Signer : b \in signed[s]})
    /\ landed' = landed \cup {b}
    /\ UNCHANGED <<phase, ledger, claimed, signed, handler>>

-----------------------------------------------------------------------------
(* One /approve handler: assertNotReplay, then validation and signing.      *)
(* Each await that reads or writes shared state ends a step.                *)

SetHandler(s, c, h) == handler' = [handler EXCEPT ![s] = [@ EXCEPT ![c] = h]]

At(h, stage) == [stage |-> stage, body |-> h.body, prev |-> h.prev]

\* Write the body into the signer's store row.
Claim(s, b) ==
    /\ ledger' = [ledger EXCEPT ![s] = b]
    /\ claimed' = [claimed EXCEPT ![s] = @ \cup {b}]

\* The request arrives and passes the pause check.
Receive(s, c, b) ==
    /\ handler[s][c].stage = "idle"
    /\ phase[b] # Unbuilt
    /\ SetHandler(s, c, [stage |-> "read", body |-> b, prev |-> None])
    /\ UNCHANGED <<phase, landed, ledger, claimed, signed>>

\* getSignedProposal: unseen action, identical key, or a different key.
ReadLedger(s, c) ==
    LET h == handler[s][c] IN
    /\ h.stage = "read"
    /\ SetHandler(s, c, [stage |-> IF ledger[s] = None THEN "first"
                                   ELSE IF ledger[s] = h.body THEN "sign"
                                   ELSE "check",
                         body |-> h.body, prev |-> ledger[s]])
    /\ UNCHANGED <<phase, landed, ledger, claimed, signed>>

\* Seeded fault: the claim is written without INSERT OR IGNORE.
BlindFirstClaim(s, c) ==
    LET h == handler[s][c] IN
    /\ h.stage = "first"
    /\ Claim(s, h.body)
    /\ SetHandler(s, c, At(h, "sign"))
    /\ UNCHANGED <<phase, landed, signed>>

\* putSignedProposal(..., null): claim, or lose the race to another handler.
FirstClaim(s, c) ==
    LET h == handler[s][c] IN
    /\ h.stage = "first"
    /\ \/ /\ ledger[s] = None
          /\ Claim(s, h.body)
          /\ SetHandler(s, c, At(h, "sign"))
       \/ /\ ledger[s] # None
          /\ SetHandler(s, c, At(h, "lost"))
          /\ UNCHANGED <<ledger, claimed>>
    /\ UNCHANGED <<phase, landed, signed>>

\* The race was lost: re-read the row.  Losing to the same key is harmless, to
\* a different one is a refusal.
LostClaim(s, c) ==
    LET h == handler[s][c] IN
    /\ h.stage = "lost"
    /\ SetHandler(s, c, IF ledger[s] = h.body THEN At(h, "sign") ELSE Idle)
    /\ UNCHANGED <<phase, landed, ledger, claimed, signed>>

\* Seeded fault: releaseLanded is not consulted.
LookupSkipped(b) == TRUE

\* releaseLanded as this signer's node answers it.  confirmReleaseByTxId
\* turns every error into "not found", so a failing node answers FALSE for a
\* release that did land.
LookupSaysNotLanded(b) == b \notin landed \/ SignerLookupMayFail

\* Seeded fault: the expiration of the previous body is not compared.
CheckPreviousAnyAge(s, c) ==
    LET h == handler[s][c] IN
    /\ h.stage = "check"
    /\ SetHandler(s, c, IF LookupSaysNotLanded(h.prev) THEN At(h, "replace") ELSE Idle)
    /\ UNCHANGED <<phase, landed, ledger, claimed, signed>>

\* A different body was signed before: go on only if that one is past its
\* expiration plus margin and did not land.
CheckPrevious(s, c) ==
    LET h == handler[s][c] IN
    /\ h.stage = "check"
    /\ \/ /\ phase[h.prev] = Dead
          /\ LookupSaysNotLanded(h.prev)
          /\ SetHandler(s, c, At(h, "replace"))
       \/ /\ phase[h.prev] # Dead \/ h.prev \in landed
          /\ SetHandler(s, c, Idle)
    /\ UNCHANGED <<phase, landed, ledger, claimed, signed>>

\* putSignedProposal(..., prev.key): compare-and-swap on the key that was read.
ReplaceClaim(s, c) ==
    LET h == handler[s][c] IN
    /\ h.stage = "replace"
    /\ \/ /\ ledger[s] = h.prev
          /\ Claim(s, h.body)
          /\ SetHandler(s, c, At(h, "sign"))
       \/ /\ ledger[s] # h.prev
          /\ SetHandler(s, c, Idle)
          /\ UNCHANGED <<ledger, claimed>>
    /\ UNCHANGED <<phase, landed, signed>>

\* routeApproval -> signVizRelease: the source re-validates, the signature is made.
SignBody(s, c) ==
    LET h == handler[s][c] IN
    /\ h.stage = "sign"
    /\ signed' = [signed EXCEPT ![s] = @ \cup {h.body}]
    /\ SetHandler(s, c, At(h, "signed"))
    /\ UNCHANGED <<phase, landed, ledger, claimed>>

\* The response leaves, whether or not the caller is still there.
Respond(s, c) ==
    /\ handler[s][c].stage = "signed"
    /\ SetHandler(s, c, Idle)
    /\ UNCHANGED <<phase, landed, ledger, claimed, signed>>

\* Any step of the handler may throw: an RPC error, a lagging node that still
\* shows the previous body as live, a source event it cannot re-read.
HandlerFails(s, c) ==
    /\ handler[s][c].stage \notin {"idle", "signed"}
    /\ SetHandler(s, c, Idle)
    /\ UNCHANGED <<phase, landed, ledger, claimed, signed>>

\* The signer process restarts: its handlers are gone, its store is not.
SignerCrash(s) ==
    /\ \E c \in Client : handler[s][c] # Idle
    /\ handler' = [handler EXCEPT ![s] = [c \in Client |-> Idle]]
    /\ UNCHANGED <<phase, landed, ledger, claimed, signed>>

HandlerStep(s, c) ==
    \/ ReadLedger(s, c)
    \/ FirstClaim(s, c)
    \/ LostClaim(s, c)
    \/ CheckPrevious(s, c)
    \/ ReplaceClaim(s, c)
    \/ SignBody(s, c)

LedgerNext ==
    \/ \E b \in Body : BuildBody(b) \/ Age(b) \/ Land(b)
    \/ \E s \in Signer : SignerCrash(s)
    \/ \E s \in Signer, c \in Client :
         \/ \E b \in Body : Receive(s, c, b)
         \/ HandlerStep(s, c)
         \/ Respond(s, c)
         \/ HandlerFails(s, c)

LedgerSpec == LedgerInit /\ [][LedgerNext]_ledgerVars

-----------------------------------------------------------------------------
(* Properties. *)

\* Every variable stays within its type.
LedgerTypeOK ==
    /\ phase \in [Body -> Unbuilt..Dead]
    /\ landed \subseteq Body
    /\ ledger \in [Signer -> Body \cup {None}]
    /\ claimed \in [Signer -> SUBSET Body]
    /\ signed \in [Signer -> SUBSET Body]
    /\ handler \in [Signer -> [Client -> Handlers]]

\* At most one body ever becomes a transfer, whatever the callers of /approve
\* present and however their handlers interleave (AUDIT.md T4; replayLedger.ts
\* header: "never a second live signature").
AtMostOneLanded == \A a, b \in landed : a = b

\* A signer never has signatures out on two bodies that can both still land:
\* of two different signed bodies at least one is past its expiration and
\* did not land.
OneLiveSignature ==
    \A s \in Signer : \A a, b \in signed[s] :
        a # b => \E x \in {a, b} : phase[x] = Dead /\ x \notin landed

\* The strengthening of AtMostOneLanded that every step preserves.  A body is
\* Gone once it can neither land nor have landed; a signer moves its claim
\* away only from a body that is Gone, so all its claims but the current one
\* are, and a handler about to sign or to replace still holds what it checked.
Gone(b) == phase[b] = Dead /\ b \notin landed

SignedIsClaimed == \A s \in Signer : signed[s] \subseteq claimed[s]

LedgerIsClaimed ==
    \A s \in Signer : /\ ledger[s] = None => claimed[s] = {}
                      /\ ledger[s] # None => ledger[s] \in claimed[s]

OldClaimsGone == \A s \in Signer : \A b \in claimed[s] : b # ledger[s] => Gone(b)

HandlersHold ==
    \A s \in Signer, c \in Client :
        LET h == handler[s][c] IN
        /\ h.stage \in {"check", "replace"} => h.prev \in Body
        /\ h.stage = "replace" => Gone(h.prev)
        /\ h.stage \in {"sign", "signed"} => h.body \in claimed[s]

LandedIsSigned == \A b \in landed : IsQuorum({s \in Signer : b \in signed[s]})

LedgerInv ==
    /\ LedgerTypeOK
    /\ SignedIsClaimed
    /\ LedgerIsClaimed
    /\ OldClaimsGone
    /\ HandlersHold
    /\ LandedIsSigned

\* The promise, as an abstract specification.
Promise == INSTANCE OneRelease WITH Body <- Body, landed <- landed
KeepsPromise == Promise!Spec

=============================================================================
