------------------------------ MODULE Rotation ------------------------------
(***************************************************************************)
(* Who holds the gateway's keys, and how the operators hand them over.     *)
(*                                                                         *)
(* A rotation starts with a proposal file: the new operator set and its    *)
(* threshold, the VIZ authority it was made against and the partial        *)
(* signatures collected so far.  The same file drives the VIZ account      *)
(* update, the order of the TON multisig and the handoff of the Solana     *)
(* mint; three command line tools, run by different operators at different *)
(* times, checkpoint what they did in one state file.  The deploy key's    *)
(* own hand-over (program upgrades, token metadata) is beside it.          *)
(*                                                                         *)
(* An operator stands for its three keys, an authority is a set of         *)
(* operators and a threshold.  Every operator reads and writes the same    *)
(* files.  Solana multisigs are fresh accounts, numbered as they are made, *)
(* so a handoff lands at most once without regard to its nonce.            *)
(***************************************************************************)
EXTENDS Naturals, Sequences, FiniteSets

CONSTANTS
    Operators,
    Proposal,     \* names of proposal files
    Wanted,       \* Wanted[p]: what its proposer asks for, [ops, th]
    Founding,     \* the authority all three chains start with
    NoProposal,
    MaxOrders,    \* bound: TON orders
    MaxMultisigs, \* bound: Solana multisigs, the first one included
    MaxDrafts,    \* bound: propose runs
    MaxFaults     \* bound: crashes of a command and expired orders

Authority(a) == a.ops \subseteq Operators /\ a.th \in Nat

ASSUME RotationAssumption ==
    /\ IsFiniteSet(Operators) /\ IsFiniteSet(Proposal)
    /\ NoProposal \notin Operators \cup Proposal
    /\ Authority(Founding) /\ Founding.th \in 1..Cardinality(Founding.ops)
    /\ DOMAIN Wanted = Proposal /\ \A p \in Proposal : Authority(Wanted[p])
    /\ {MaxOrders, MaxMultisigs, MaxDrafts, MaxFaults} \subseteq Nat

VARIABLES
    viz,       \* active authority of the gateway account
    ton,       \* signers and threshold of the TON multisig
    orders,    \* its update orders, by seqno
    multisigs, \* Solana multisigs, by the order they were created in
    mint,      \* the one that holds the mint and freeze authority
    file,      \* file[p]: the proposal file
    handoff,   \* handoff[p]: the Solana proposal file made from it
    pool,      \* account updates sent to VIZ and not yet applied
    running,   \* running[p]: the broadcast commands of p: how far the VIZ one is and
               \* the transaction it read, the multisig the Solana one handed over to
    state,     \* rotation-state.json
    manifest,  \* federation.json
    landed,    \* history: the proposals applied to VIZ and TON, the multisigs that held the mint
    deploy,    \* holders of the upgrade and the two metadata authorities
    drafts, faults

chains == <<viz, ton, orders, multisigs, mint, pool, landed>>
files == <<file, handoff, running, state, manifest>>
rotationVars == <<chains, files, deploy, drafts, faults>>

NoFile == [sigs |-> {}, pinned |-> Founding, expired |-> FALSE, made |-> FALSE, draft |-> 0]
NoTx == [proposal |-> NoProposal, draft |-> 0, sigs |-> {}]
NoHandoff == [old |-> 0, new |-> 0, sigs |-> {}]
NoState == [proposal |-> NoProposal, viz |-> FALSE, order |-> 0, ton |-> FALSE, multisig |-> 0, solana |-> FALSE]

RotationInit ==
    /\ viz = Founding /\ ton = Founding
    /\ orders = <<>>
    /\ multisigs = <<Founding>> /\ mint = 1
    /\ file = [p \in Proposal |-> NoFile]
    /\ handoff = [p \in Proposal |-> NoHandoff]
    /\ pool = {}
    /\ running = [p \in Proposal |-> [viz |-> "no", tx |-> NoTx, solana |-> 0]]
    /\ state = NoState
    /\ manifest = Founding
    /\ landed = [viz |-> {}, drafts |-> {}, ton |-> {}, solana |-> {}]
    /\ deploy = [upgrade |-> "payer", update |-> "payer", pointer |-> "payer"]
    /\ drafts = 0 /\ faults = 0

-----------------------------------------------------------------------------
(* The proposal and VIZ. *)

\* buildActiveAuthority: 1 <= threshold <= number of operators.
buildActiveAuthority(a) == a.th \in 1..Cardinality(a.ops)

\* Seeded fault: nobody may act on an old proposal.
ValidateUnexpired(p, skipExpiry) ==
    file[p].made /\ ~file[p].expired /\ buildActiveAuthority(Wanted[p])

\* validateProposal: the operation is the one newOperators/newThreshold
\* give; within the hour unless skipExpiry.
validateProposal(p, skipExpiry) ==
    /\ file[p].made
    /\ buildActiveAuthority(Wanted[p])
    /\ skipExpiry \/ ~file[p].expired

\* Bound: the deploy key's hand-over meets no rotation, so rotations are
\* explored after one deployment only.
Deployed == \A f \in DOMAIN deploy : deploy[f] = "vault"

\* propose pins the live authority and signs first; running it again
\* replaces the file.
Propose(p, o) ==
    /\ Deployed /\ drafts < MaxDrafts
    /\ ~file[p].made \/ file[p].expired
    /\ buildActiveAuthority(Wanted[p])
    /\ file' = [file EXCEPT ![p] = [sigs |-> {o}, pinned |-> viz, expired |-> FALSE,
                                      made |-> TRUE, draft |-> drafts + 1]]
    /\ drafts' = drafts + 1
    /\ UNCHANGED <<chains, handoff, running, state, manifest, deploy, faults>>

\* An operator who confirms the set adds a signature.
CoSign(p, o) ==
    /\ validateProposal(p, FALSE) /\ o \notin file[p].sigs
    /\ file' = [file EXCEPT ![p].sigs = @ \cup {o}]
    /\ UNCHANGED <<chains, handoff, running, state, manifest, deploy, drafts, faults>>

\* The hour is over; the chain drops what was not applied.
Expire(p) ==
    /\ file[p].made /\ ~file[p].expired
    /\ file' = [file EXCEPT ![p].expired = TRUE]
    /\ pool' = {t \in pool : t.proposal # p}
    /\ UNCHANGED <<viz, ton, orders, multisigs, mint, landed, handoff, running, state, manifest, deploy,
                   drafts, faults>>

\* broadcast viz reads the file once: enough partials for the NEW threshold,
\* and the live authority is still the pinned one.
CheckViz(p) ==
    /\ running[p].viz = "no"
    /\ validateProposal(p, FALSE)
    /\ Cardinality(file[p].sigs) >= Wanted[p].th
    /\ viz = file[p].pinned
    /\ running' = [running EXCEPT ![p].viz = "checked",
                      ![p].tx = [proposal |-> p, draft |-> file[p].draft, sigs |-> file[p].sigs]]
    /\ UNCHANGED <<chains, file, handoff, state, manifest, deploy, drafts, faults>>

\* All the partials it read are sent; the call waits for the block.  The
\* chain knows a transaction it has applied before, and drops an old one:
\* a file is only replaced once its hour is over.
SendViz(p) ==
    LET tx == running[p].tx IN
    /\ running[p].viz = "checked"
    /\ pool' = IF file[p].expired \/ tx.draft # file[p].draft \/ tx.draft \in landed.drafts THEN pool
               ELSE pool \cup {tx}
    /\ running' = [running EXCEPT ![p].viz = "sent", ![p].tx = NoTx]
    /\ UNCHANGED <<viz, ton, orders, multisigs, mint, landed, file, handoff, state, manifest, deploy, drafts, faults>>

\* The chain takes a minimal satisfying set of signatures and nothing more.
Accepts(t) == t.sigs \subseteq viz.ops /\ Cardinality(t.sigs) = viz.th

\* buildRotationOp: the account_update makes the set active and regular,
\* and leaves master alone.
buildRotationOp(p) == Wanted[p]

ApplyViz(t) ==
    /\ Accepts(t)
    /\ viz' = buildRotationOp(t.proposal)
    /\ pool' = {u \in pool : u.draft # t.draft}
    /\ landed' = [landed EXCEPT !.viz = @ \cup {t.proposal}, !.drafts = @ \cup {t.draft}]
    /\ running' = [running EXCEPT ![t.proposal].viz = IF @ = "sent" THEN "applied" ELSE @]
    /\ UNCHANGED <<ton, orders, multisigs, mint, file, handoff, state, manifest, deploy, drafts, faults>>

\* Seeded fault: the command reports success without the block.
StateVizEarly(p) ==
    /\ running[p].viz \in {"sent", "applied"}
    /\ state' = [NoState EXCEPT !.proposal = p, !.viz = TRUE]
    /\ running' = [running EXCEPT ![p].viz = "stated"]
    /\ UNCHANGED <<chains, file, handoff, manifest, deploy, drafts, faults>>

\* The state file is written as a new one,
StateViz(p) ==
    /\ running[p].viz = "applied"
    /\ state' = [NoState EXCEPT !.proposal = p, !.viz = TRUE]
    /\ running' = [running EXCEPT ![p].viz = "stated"]
    /\ UNCHANGED <<chains, file, handoff, manifest, deploy, drafts, faults>>

\* then the manifest.
ManifestViz(p) ==
    /\ running[p].viz = "stated"
    /\ manifest' = Wanted[p]
    /\ running' = [running EXCEPT ![p].viz = "no"]
    /\ UNCHANGED <<chains, file, handoff, state, deploy, drafts, faults>>

\* A refused update, a lost connection, a closed terminal.
FailViz(p) ==
    /\ running[p].viz # "no"
    /\ \/ /\ running[p].viz = "sent"
          /\ \A t \in pool : t.proposal = p => ~Accepts(t)
          /\ pool' = {t \in pool : t.proposal # p}
          /\ UNCHANGED faults
       \/ faults < MaxFaults /\ faults' = faults + 1 /\ UNCHANGED pool
    /\ running' = [running EXCEPT ![p].viz = "no", ![p].tx = NoTx]
    /\ UNCHANGED <<viz, ton, orders, multisigs, mint, landed, file, handoff, state, manifest, deploy, drafts>>

-----------------------------------------------------------------------------
(* TON. *)

mergeState(patch) ==
    [k \in DOMAIN state |-> IF k \in DOMAIN patch THEN patch[k] ELSE state[k]]

\* An order of multisig-v2 executes with its last approval, unless the
\* signer set it was made under is no longer in force.
Execute(n, order) ==
    LET ready == Cardinality(order.approvals) >= order.by.th /\ order.by = ton IN
    /\ orders' = [i \in 1..(IF n > Len(orders) THEN n ELSE Len(orders)) |->
                    IF i = n THEN [order EXCEPT !.done = ready] ELSE orders[i]]
    /\ ton' = IF ready THEN Wanted[order.proposal] ELSE ton
    /\ landed' = IF ready THEN [landed EXCEPT !.ton = @ \cup {order.proposal}] ELSE landed

\* submit-ton by a current signer, who approves with it.  Then the address
\* is checkpointed, if the process lives that long.
SubmitTon(p, o) ==
    /\ validateProposal(p, TRUE)
    /\ o \in ton.ops /\ Len(orders) < MaxOrders
    /\ Execute(Len(orders) + 1, [proposal |-> p, by |-> ton, approvals |-> {o}, done |-> FALSE, expired |-> FALSE])
    /\ \/ /\ state' = mergeState([proposal |-> p, order |-> Len(orders) + 1, ton |-> FALSE])
          /\ UNCHANGED faults
       \/ faults < MaxFaults /\ faults' = faults + 1 /\ UNCHANGED state
    /\ UNCHANGED <<viz, multisigs, mint, pool, file, handoff, running, manifest, deploy, drafts>>

\* approve-ton: the order's action is the one the proposal gives.
ApproveTon(p, n, o) ==
    /\ validateProposal(p, TRUE)
    /\ ~orders[n].done /\ ~orders[n].expired
    /\ Wanted[orders[n].proposal] = Wanted[p]
    /\ o \in orders[n].by.ops \ orders[n].approvals
    /\ Execute(n, [orders[n] EXCEPT !.approvals = @ \cup {o}])
    /\ UNCHANGED <<viz, multisigs, mint, pool, files, deploy, drafts, faults>>

ExpireOrder(n) ==
    /\ ~orders[n].done /\ ~orders[n].expired /\ faults < MaxFaults
    /\ orders' = [orders EXCEPT ![n].expired = TRUE]
    /\ faults' = faults + 1
    /\ UNCHANGED <<viz, ton, multisigs, mint, pool, landed, files, deploy, drafts>>

\* status compares the live multisig with the proposal.
StatusTon(p) ==
    /\ validateProposal(p, TRUE) /\ ~state.ton
    /\ ton = Wanted[p]
    /\ state' = mergeState([ton |-> TRUE])
    /\ UNCHANGED <<chains, file, handoff, running, manifest, deploy, drafts, faults>>

-----------------------------------------------------------------------------
(* Solana. *)

\* propose-solana creates the new multisig and pins the configured one.
ProposeSolana(p) ==
    /\ validateProposal(p, TRUE)
    /\ Len(multisigs) < MaxMultisigs
    /\ multisigs' = Append(multisigs, Wanted[p])
    /\ handoff' = [handoff EXCEPT ![p] = [old |-> mint, new |-> Len(multisigs) + 1, sigs |-> {}]]
    /\ UNCHANGED <<viz, ton, orders, mint, pool, landed, file, running, state, manifest, deploy, drafts, faults>>

readMultisigMembers(n) == multisigs[n]

\* validateHandoffProposal: the new multisig on chain is the master's set.
validateHandoffProposal(p) ==
    handoff[p].new # 0 /\ readMultisigMembers(handoff[p].new) = Wanted[p]

CoSignSolana(p, o) ==
    /\ validateProposal(p, TRUE) /\ validateHandoffProposal(p)
    /\ o \in readMultisigMembers(handoff[p].old).ops \ handoff[p].sigs
    /\ handoff' = [handoff EXCEPT ![p].sigs = @ \cup {o}]
    /\ UNCHANGED <<chains, file, running, state, manifest, deploy, drafts, faults>>

\* The message names every member of the old multisig as a signer, so the
\* cluster wants all their signatures.
HandoffAccepted(p) == handoff[p].sigs = readMultisigMembers(handoff[p].old).ops

\* broadcast-solana: checks, sends and waits; preflight refuses at once.
BroadcastSolana(p) ==
    /\ running[p].solana = 0
    /\ validateProposal(p, TRUE) /\ validateHandoffProposal(p)
    /\ Cardinality(handoff[p].sigs) >= Wanted[p].th
    /\ mint = handoff[p].old
    /\ HandoffAccepted(p)
    /\ mint' = handoff[p].new
    /\ landed' = [landed EXCEPT !.solana = @ \cup {handoff[p].new}]
    /\ running' = [running EXCEPT ![p].solana = handoff[p].new]
    /\ UNCHANGED <<viz, ton, orders, multisigs, pool, file, handoff, state, manifest, deploy, drafts, faults>>

\* The checkpoint names the multisig the command handed over to, whatever
\* the proposal file says by now.
StateSolana(p) ==
    /\ running[p].solana # 0
    /\ \/ state' = mergeState([proposal |-> p, multisig |-> running[p].solana, solana |-> TRUE]) /\ UNCHANGED faults
       \/ faults < MaxFaults /\ faults' = faults + 1 /\ UNCHANGED state
    /\ running' = [running EXCEPT ![p].solana = 0]
    /\ UNCHANGED <<chains, file, handoff, manifest, deploy, drafts>>

\* (status --commit has nothing left to record: the checkpoint it compares
\* the live authority with is only ever written together with the flag.)

-----------------------------------------------------------------------------
(* The deploy key's authorities. *)

evaluateUpgradeAuthority(expected) ==
    CASE deploy.upgrade = "none" -> "IMMUTABLE"
      [] deploy.upgrade = expected -> "SECURED"
      [] OTHER -> "UNSAFE"

\* enforceProgramAuthority: hand over what the payer holds to the configured
\* account, whatever it is.
EnforceProgramAuthority(expected) ==
    /\ drafts = 0
    /\ evaluateUpgradeAuthority(expected) = "UNSAFE" /\ deploy.upgrade = "payer"
    /\ deploy' = [deploy EXCEPT !.upgrade = expected]
    /\ UNCHANGED <<chains, files, drafts, faults>>

\* Seeded fault: the target's owner is not looked at.
AnyTarget(expected) == TRUE

\* isSplTokenMultisigAccount: such an account can never sign for metadata.
SigningTarget(expected) == expected # "multisig"

\* enforceMetadataAuthority: every unsafe field must be the payer's.
EnforceMetadataAuthority(expected) ==
    LET unsafe == {f \in {"update", "pointer"} : deploy[f] \notin {"none", expected}} IN
    /\ drafts = 0
    /\ unsafe # {} /\ \A f \in unsafe : deploy[f] = "payer"
    /\ SigningTarget(expected)
    /\ deploy' = [f \in DOMAIN deploy |-> IF f \in unsafe THEN expected ELSE deploy[f]]
    /\ UNCHANGED <<chains, files, drafts, faults>>

-----------------------------------------------------------------------------
TonStep(p) ==
    \/ \E o \in Operators : SubmitTon(p, o) \/ \E n \in DOMAIN orders : ApproveTon(p, n, o)
    \/ StatusTon(p)

SolanaStep(p) ==
    \/ ProposeSolana(p) \/ BroadcastSolana(p) \/ StateSolana(p)
    \/ \E o \in Operators : CoSignSolana(p, o)

VizStep(p) ==
    \/ CheckViz(p) \/ SendViz(p) \/ StateViz(p) \/ ManifestViz(p) \/ FailViz(p)
    \/ \E o \in Operators : CoSign(p, o)

RotationNext ==
    \/ \E p \in Proposal : \/ TonStep(p) \/ SolanaStep(p) \/ VizStep(p) \/ Expire(p)
                           \/ \E o \in Operators : Propose(p, o)
    \/ \E t \in pool : ApplyViz(t)
    \/ \E n \in DOMAIN orders : ExpireOrder(n)
    \/ \E e \in {"vault", "multisig"} : EnforceProgramAuthority(e) \/ EnforceMetadataAuthority(e)

RotationSpec == RotationInit /\ [][RotationNext]_rotationVars

(* The operators who agreed on a rotation run the TON and Solana commands  *)
(* until those say they are done.  Nothing else is fair: a VIZ proposal    *)
(* may simply expire.                                                      *)
FairRotationSpec == RotationSpec /\ \A p \in Proposal : WF_rotationVars(TonStep(p)) /\ WF_rotationVars(SolanaStep(p))

-----------------------------------------------------------------------------
(* Properties. *)

(* The checkpoints are true: what the state file calls done has happened   *)
(* on that chain, although it is written after the fact by tools that      *)
(* crash, overwrite and merge it.  (A proposal that asks for the set TON   *)
(* was founded with is done there before anybody submits an order.)        *)
FlagsEarned ==
    /\ state.viz => landed.viz # {}
    /\ state.ton => landed.ton # {} \/ \E p \in Proposal : file[p].made /\ Wanted[p] = Founding
    /\ state.solana => state.multisig \in landed.solana

(* No authority ends up where nobody can use it: every set a chain adopts  *)
(* can reach its own threshold, and the metadata authorities never go to   *)
(* an account that cannot sign.                                            *)
NoLockout ==
    /\ \A a \in {viz, ton, multisigs[mint], manifest} : a.th \in 1..Cardinality(a.ops)
    /\ deploy.update # "multisig" /\ deploy.pointer # "multisig"

(* A rotation that took effect on VIZ is carried through on TON and on     *)
(* Solana, even when the VIZ hour is over, an order expires or a command   *)
(* dies halfway; only another proposal gets in its way.                    *)
Completes ==
    \A p \in Proposal :
        (p \in landed.viz)
            ~> \/ ton = Wanted[p] /\ multisigs[mint] = Wanted[p]
               \/ \E q \in Proposal \ {p} : file[q].made

(* `once T partials are collected `rotate broadcast viz` rewrites the      *)
(* gateway's VIZ active authority': what the tool sends for the pinned     *)
(* authority, the chain accepts.                                           *)
ReadyIsAccepted ==
    \A t \in pool : viz = file[t.proposal].pinned => Accepts(t)

(* `Anti-rollback: the live active authority must still match propose-     *)
(* time': an update only replaces the authority it was made against.       *)
NoRollback ==
    [][\A t \in pool : ApplyViz(t) => viz = file[t.proposal].pinned]_rotationVars
=============================================================================
