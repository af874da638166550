-------------------------- MODULE VizReleaseProofs --------------------------
(***************************************************************************)
(* The replay ledger, for every federation, every number of bodies and     *)
(* concurrent calls, and any behaviour of the callers; and the coordinator *)
(* and the dispatcher on top of it: every step they take is a step         *)
(* ReplayLedger allows its callers, so what is proved of the ledger holds  *)
(* for the deployed system, a row is only marked CONFIRMED for a release   *)
(* that is on the chain, and what is on the chain is what the row records. *)
(***************************************************************************)
EXTENDS VizRelease, FiniteSetTheorems, TLAPS

\* Two sets of operators that can each authorise a VIZ transfer share one.
LEMMA QuorumsIntersect ==
    ASSUME NEW P, NEW Q, IsQuorum(P), IsQuorum(Q)
    PROVE  \E s \in Signer : s \in P /\ s \in Q
<1>1. P \subseteq Signer /\ Q \subseteq Signer
  BY DEF IsQuorum
<1>2. IsFiniteSet(P) /\ IsFiniteSet(Q) /\ IsFiniteSet(Signer)
  BY <1>1, SignerAssumption, FS_Subset
<1>3. Cardinality(P) \in Nat /\ Cardinality(Q) \in Nat /\ Cardinality(Signer) \in Nat
  BY <1>2, FS_CardinalityType
<1>4. Cardinality(P) + Cardinality(Q) > Cardinality(Signer)
  BY <1>3, ThresholdAssumption DEF IsQuorum
<1>5. P \cap Q # {}
  BY <1>1, <1>4, SignerAssumption, FS_MajoritiesIntersect
<1>. QED BY <1>1, <1>5

\* A quorum only grows when more operators sign.
LEMMA QuorumGrows ==
    ASSUME NEW P, NEW Q, IsQuorum(P), P \subseteq Q, Q \subseteq Signer
    PROVE  IsQuorum(Q)
<1>1. IsFiniteSet(Q)
  BY SignerAssumption, FS_Subset
<1>2. Cardinality(P) <= Cardinality(Q) /\ IsFiniteSet(P)
  BY <1>1, FS_Subset
<1>3. Cardinality(P) \in Nat /\ Cardinality(Q) \in Nat /\ Cardinality(Signer) \in Nat
  BY <1>1, <1>2, FS_CardinalityType, SignerAssumption
<1>. QED BY <1>2, <1>3, ThresholdAssumption DEF IsQuorum

\* A free slot of a signer's handler table is well typed.
LEMMA IdleType == Idle \in Handlers
BY DEF Handlers

\* What one handler's step does to the table of handlers.
LEMMA SetHandlerEffect ==
    ASSUME handler \in [Signer -> [Client -> Handlers]],
           NEW s \in Signer, NEW c \in Client, NEW h \in Handlers, SetHandler(s, c, h)
    PROVE  /\ handler' \in [Signer -> [Client -> Handlers]]
           /\ handler'[s][c] = h
           /\ \A t \in Signer, d \in Client :
                 <<t, d>> # <<s, c>> => handler'[t][d] = handler[t][d]
BY DEF SetHandler

\* Moving a running /approve handler to another stage keeps its body and the
\* key it read.
LEMMA AtType ==
    ASSUME NEW h \in Handlers, h.stage # "idle", NEW g \in Stage
    PROVE  /\ h.body \in Body /\ h.prev \in Body \cup {None} /\ h.stage \in Stage
           /\ At(h, g) \in Handlers
           /\ At(h, g).stage = g /\ At(h, g).body = h.body /\ At(h, g).prev = h.prev
BY DEF At, Handlers, Idle

\* What a claim does to the signer's row and to its history.
LEMMA ClaimEffect ==
    ASSUME LedgerTypeOK, NEW s \in Signer, NEW b \in Body, Claim(s, b)
    PROVE  /\ ledger' \in [Signer -> Body \cup {None}]
           /\ claimed' \in [Signer -> SUBSET Body]
           /\ ledger'[s] = b
           /\ claimed'[s] = claimed[s] \cup {b}
           /\ \A t \in Signer : t # s => ledger'[t] = ledger[t] /\ claimed'[t] = claimed[t]
<1>1. ledger' = [ledger EXCEPT ![s] = b]
  BY DEF Claim
<1>2. claimed' = [claimed EXCEPT ![s] = claimed[s] \cup {b}]
  BY DEF Claim
<1>3. ledger \in [Signer -> Body \cup {None}] /\ claimed \in [Signer -> SUBSET Body]
  BY DEF LedgerTypeOK
<1>4. claimed[s] \cup {b} \in SUBSET Body
  BY <1>3
<1>5. claimed' \in [Signer -> SUBSET Body]
  BY <1>2, <1>3, <1>4
<1>6. ledger' \in [Signer -> Body \cup {None}]
  BY <1>1, <1>3
<1>. QED BY <1>1, <1>2, <1>3, <1>5, <1>6

\* Every step of a handler, a signer or the chain keeps the types.
LEMMA LedgerTypeStep ==
    ASSUME LedgerTypeOK, [LedgerNext]_ledgerVars
    PROVE  LedgerTypeOK'
<1>1. ASSUME NEW b \in Body, BuildBody(b) \/ Age(b) \/ Land(b)
      PROVE  LedgerTypeOK'
  BY <1>1 DEF LedgerTypeOK, BuildBody, Age, Land, Unbuilt, Fresh, Expired, Dead
<1>2. ASSUME NEW s \in Signer, SignerCrash(s)
      PROVE  LedgerTypeOK'
  BY <1>2, IdleType DEF LedgerTypeOK, SignerCrash
<1>3. ASSUME NEW s \in Signer, NEW c \in Client,
             \/ \E b \in Body : Receive(s, c, b)
             \/ HandlerStep(s, c)
             \/ Respond(s, c)
             \/ HandlerFails(s, c)
      PROVE  LedgerTypeOK'
  <2>1. handler[s][c] \in Handlers
    BY DEF LedgerTypeOK
  <2>2. ASSUME handler[s][c].stage # "idle"
        PROVE  /\ handler[s][c].body \in Body
               /\ At(handler[s][c], "sign") \in Handlers
               /\ At(handler[s][c], "lost") \in Handlers
               /\ At(handler[s][c], "replace") \in Handlers
               /\ At(handler[s][c], "signed") \in Handlers
    BY <2>1, <2>2, AtType DEF Stage
  <2>3. \E h \in Handlers : SetHandler(s, c, h)
    <3>1. CASE \E b \in Body : Receive(s, c, b)
      BY <3>1 DEF Receive, Handlers, Stage
    <3>2. CASE ReadLedger(s, c)
      BY <3>2, <2>2 DEF ReadLedger, Handlers, Stage, LedgerTypeOK
    <3>3. CASE FirstClaim(s, c) \/ LostClaim(s, c) \/ CheckPrevious(s, c) \/ ReplaceClaim(s, c) \/ SignBody(s, c)
      BY <3>3, <2>2, IdleType DEF FirstClaim, LostClaim, CheckPrevious, ReplaceClaim, SignBody
    <3>4. CASE Respond(s, c) \/ HandlerFails(s, c)
      BY <3>4, IdleType DEF Respond, HandlerFails
    <3>. QED BY <1>3, <3>1, <3>2, <3>3, <3>4 DEF HandlerStep
  <2>4. handler' \in [Signer -> [Client -> Handlers]]
    BY <2>3, SetHandlerEffect DEF LedgerTypeOK
  <2>5. /\ phase' = phase /\ landed' = landed
        /\ ledger' \in [Signer -> Body \cup {None}]
        /\ claimed' \in [Signer -> SUBSET Body]
        /\ signed' \in [Signer -> SUBSET Body]
    <3>1. CASE FirstClaim(s, c) \/ ReplaceClaim(s, c)
      <4>1. handler[s][c].body \in Body
        BY <2>2, <3>1 DEF FirstClaim, ReplaceClaim
      <4>2. Claim(s, handler[s][c].body) \/ UNCHANGED <<ledger, claimed>>
        BY <3>1 DEF FirstClaim, ReplaceClaim
      <4>3. UNCHANGED <<phase, landed, signed>>
        BY <3>1 DEF FirstClaim, ReplaceClaim
      <4>. QED BY <4>1, <4>2, <4>3, ClaimEffect DEF LedgerTypeOK
    <3>2. CASE SignBody(s, c)
      BY <3>2, <2>2 DEF SignBody, LedgerTypeOK
    <3>3. CASE UNCHANGED <<phase, landed, ledger, claimed, signed>>
      BY <3>3 DEF LedgerTypeOK
    <3>. QED BY <1>3, <3>1, <3>2, <3>3
             DEF HandlerStep, Receive, ReadLedger, LostClaim, CheckPrevious, Respond, HandlerFails
  <2>. QED BY <2>4, <2>5 DEF LedgerTypeOK
<1>4. CASE UNCHANGED ledgerVars
  BY <1>4 DEF LedgerTypeOK, ledgerVars
<1>. QED BY <1>1, <1>2, <1>3, <1>4 DEF LedgerNext

\* The ledger, the handlers and the chain keep their types.
THEOREM LedgerTypeCorrect == LedgerSpec => []LedgerTypeOK
<1>1. LedgerInit => LedgerTypeOK
  BY IdleType DEF LedgerInit, LedgerTypeOK, Unbuilt, Dead
<1>2. LedgerTypeOK /\ [LedgerNext]_ledgerVars => LedgerTypeOK'
  BY LedgerTypeStep
<1>. QED BY <1>1, <1>2, PTL DEF LedgerSpec

-----------------------------------------------------------------------------
(* The inductive invariant. *)

\* A body a second quorum could still land, or that landed, excludes any other.
LEMMA LandAlone ==
    ASSUME LedgerInv, NEW b \in Body, Land(b)
    PROVE  landed = {}
<1>. SUFFICES ASSUME NEW a \in landed PROVE FALSE
  OBVIOUS
<1>1. IsQuorum({s \in Signer : b \in signed[s]}) /\ b \notin landed /\ phase[b] \in {Fresh, Closing}
  BY DEF Land
<1>2. IsQuorum({s \in Signer : a \in signed[s]})
  BY DEF LedgerInv, LandedIsSigned
<1>3. PICK s \in Signer : a \in signed[s] /\ b \in signed[s]
  BY <1>1, <1>2, QuorumsIntersect
<1>4. a \in claimed[s] /\ b \in claimed[s]
  BY <1>3 DEF LedgerInv, SignedIsClaimed
<1>5. a # b
  BY <1>1
<1>6. Gone(a) \/ Gone(b)
  BY <1>4, <1>5 DEF LedgerInv, OldClaimsGone
<1>. QED BY <1>1, <1>6 DEF Gone, Dead, Fresh, Closing

\* The invariant holds with empty ledgers and no body built.
LEMMA LedgerInvInit == LedgerInit => LedgerInv
<1>. SUFFICES ASSUME LedgerInit PROVE LedgerInv
  OBVIOUS
<1>1. LedgerTypeOK
  BY IdleType DEF LedgerInit, LedgerTypeOK, Unbuilt, Dead
<1>. QED BY <1>1 DEF LedgerInit, LedgerInv, SignedIsClaimed, LedgerIsClaimed, OldClaimsGone,
                     HandlersHold, LandedIsSigned, Idle

\* Chain steps: bodies that are Gone stay Gone, and what lands is signed.
LEMMA ChainKeepsInv ==
    ASSUME LedgerInv, LedgerTypeOK', NEW b \in Body, BuildBody(b) \/ Age(b) \/ Land(b)
    PROVE  LedgerInv'
<1>1. \A x \in Body : Gone(x) => Gone(x)'
  BY DEF BuildBody, Age, Land, Gone, LedgerInv, LedgerTypeOK, Unbuilt, Fresh, Closing, Expired, Dead
<1>2. UNCHANGED <<ledger, claimed, signed, handler>>
  BY DEF BuildBody, Age, Land
<1>3. SignedIsClaimed' /\ LedgerIsClaimed'
  BY <1>2 DEF LedgerInv, SignedIsClaimed, LedgerIsClaimed
<1>4. OldClaimsGone'
  BY <1>1, <1>2 DEF LedgerInv, OldClaimsGone, LedgerTypeOK
<1>5. HandlersHold'
  BY <1>1, <1>2 DEF LedgerInv, HandlersHold, LedgerTypeOK
<1>6. LandedIsSigned'
  BY <1>2 DEF LedgerInv, LandedIsSigned, BuildBody, Age, Land
<1>. QED BY <1>3, <1>4, <1>5, <1>6 DEF LedgerInv

\* A handler's step keeps HandlersHold if the handler's new record does.
LEMMA HandlersHoldStep ==
    ASSUME LedgerInv, NEW s \in Signer, NEW c \in Client, NEW h \in Handlers,
           SetHandler(s, c, h), UNCHANGED <<phase, landed>>,
           \A t \in Signer : claimed[t] \subseteq claimed'[t],
           h.stage \in {"check", "replace"} => h.prev \in Body,
           h.stage = "replace" => Gone(h.prev),
           h.stage \in {"sign", "signed"} => h.body \in claimed'[s]
    PROVE  HandlersHold'
<1>. SUFFICES ASSUME NEW t \in Signer, NEW d \in Client
              PROVE  /\ handler'[t][d].stage \in {"check", "replace"} => handler'[t][d].prev \in Body
                     /\ handler'[t][d].stage = "replace" => Gone(handler'[t][d].prev)
                     /\ handler'[t][d].stage \in {"sign", "signed"} => handler'[t][d].body \in claimed'[t]
  BY DEF HandlersHold, Gone
<1>2. CASE <<t, d>> = <<s, c>>
  <2>1. t = s /\ handler'[t][d] = h
    BY <1>2, SetHandlerEffect DEF LedgerInv, LedgerTypeOK
  <2>. QED BY <2>1
<1>3. CASE <<t, d>> # <<s, c>>
  <2>1. handler'[t][d] = handler[t][d]
    BY <1>3, SetHandlerEffect DEF LedgerInv, LedgerTypeOK
  <2>. QED BY <2>1 DEF LedgerInv, HandlersHold
<1>. QED BY <1>2, <1>3

\* Steps that touch neither the claims nor the signatures.
LEMMA QuietHandlerKeepsInv ==
    ASSUME LedgerInv, LedgerTypeOK', HandlersHold',
           UNCHANGED <<phase, landed, ledger, claimed, signed>>
    PROVE  LedgerInv'
BY DEF LedgerInv, SignedIsClaimed, LedgerIsClaimed, OldClaimsGone, LandedIsSigned, Gone

\* A claim is only moved away from a body that is Gone.
LEMMA ClaimKeepsInv ==
    ASSUME LedgerInv, LedgerTypeOK', HandlersHold', NEW s \in Signer, NEW b \in Body, Claim(s, b),
           ledger[s] = None \/ Gone(ledger[s]), UNCHANGED <<phase, landed, signed>>
    PROVE  LedgerInv'
<1>1. /\ ledger'[s] = b
      /\ claimed'[s] = claimed[s] \cup {b}
      /\ \A t \in Signer : t # s => ledger'[t] = ledger[t] /\ claimed'[t] = claimed[t]
  BY ClaimEffect DEF LedgerInv
<1>2. \A x : Gone(x)' <=> Gone(x)
  BY DEF Gone
<1>3. SignedIsClaimed'
  BY <1>1 DEF LedgerInv, SignedIsClaimed
<1>4. LedgerIsClaimed'
  BY <1>1, NoneAssumption DEF LedgerInv, LedgerIsClaimed
<1>5. OldClaimsGone'
  <2>. SUFFICES ASSUME NEW t \in Signer, NEW x \in claimed'[t], x # ledger'[t]
                PROVE  Gone(x)
    BY <1>2 DEF OldClaimsGone
  <2>1. CASE t # s
    BY <1>1, <2>1 DEF LedgerInv, OldClaimsGone
  <2>2. CASE t = s
    <3>1. x \in claimed[s]
      BY <1>1, <2>2
    <3>2. ledger[s] # None
      BY <3>1 DEF LedgerInv, LedgerIsClaimed
    <3>. QED BY <3>1, <3>2 DEF LedgerInv, OldClaimsGone
  <2>. QED BY <2>1, <2>2
<1>6. LandedIsSigned'
  BY DEF LedgerInv, LandedIsSigned
<1>. QED BY <1>3, <1>4, <1>5, <1>6 DEF LedgerInv

\* One step of an /approve handler.
LEMMA HandlerKeepsInv ==
    ASSUME SignerLookupMayFail = FALSE, LedgerInv, LedgerTypeOK',
           NEW s \in Signer, NEW c \in Client, HandlerStep(s, c)
    PROVE  LedgerInv'
<1>. DEFINE h == handler[s][c]
<1>0. h \in Handlers /\ LedgerTypeOK
  BY DEF LedgerInv, LedgerTypeOK
<1>1. CASE ReadLedger(s, c)
  <2>. DEFINE n == [stage |-> IF ledger[s] = None THEN "first"
                              ELSE IF ledger[s] = h.body THEN "sign" ELSE "check",
                    body |-> h.body, prev |-> ledger[s]]
  <2>1. h.stage # "idle" /\ SetHandler(s, c, n) /\ UNCHANGED <<phase, landed, ledger, claimed, signed>>
    BY <1>1 DEF ReadLedger
  <2>2. h.body \in Body /\ ledger[s] \in Body \cup {None}
    BY <1>0, <2>1, AtType DEF LedgerTypeOK, Stage
  <2>3. n \in Handlers
    BY <2>2 DEF Handlers, Stage
  <2>4. n.stage = "sign" => n.body \in claimed[s]
    BY <2>2, NoneAssumption DEF LedgerInv, LedgerIsClaimed
  <2>5. n.stage = "check" => n.prev \in Body
    BY <2>2
  <2>6. n.stage \notin {"replace", "signed"}
    OBVIOUS
  <2>. HIDE DEF n
  <2>7. HandlersHold'
    BY <2>1, <2>3, <2>4, <2>5, <2>6, HandlersHoldStep
  <2>. QED BY <2>1, <2>7, QuietHandlerKeepsInv
<1>2. CASE FirstClaim(s, c)
  <2>1. h.stage = "first" /\ UNCHANGED <<phase, landed, signed>>
    BY <1>2 DEF FirstClaim
  <2>2. /\ h.body \in Body /\ At(h, "sign") \in Handlers
        /\ At(h, "sign").stage = "sign" /\ At(h, "sign").body = h.body
    BY <1>0, <2>1, AtType DEF Stage
  <2>3. CASE ledger[s] = None
    <3>1. Claim(s, h.body) /\ SetHandler(s, c, At(h, "sign"))
      BY <1>2, <2>3 DEF FirstClaim
    <3>2. h.body \in claimed'[s] /\ \A t \in Signer : claimed[t] \subseteq claimed'[t]
      BY <1>0, <2>2, <3>1, ClaimEffect
    <3>3. HandlersHold'
      BY <2>1, <2>2, <3>1, <3>2, HandlersHoldStep
    <3>. QED BY <2>1, <2>2, <2>3, <3>1, <3>3, ClaimKeepsInv
  <2>4. CASE ledger[s] # None
    <3>1. SetHandler(s, c, At(h, "lost")) /\ UNCHANGED <<ledger, claimed>>
      BY <1>2, <2>4 DEF FirstClaim
    <3>2. At(h, "lost") \in Handlers /\ At(h, "lost").stage = "lost"
      BY <1>0, <2>1, AtType DEF Stage
    <3>3. HandlersHold'
      BY <2>1, <3>1, <3>2, HandlersHoldStep
    <3>. QED BY <2>1, <3>1, <3>3, QuietHandlerKeepsInv
  <2>. QED BY <2>3, <2>4
<1>3. CASE CheckPrevious(s, c)
  <2>1. h.stage = "check" /\ UNCHANGED <<phase, landed, ledger, claimed, signed>>
    BY <1>3 DEF CheckPrevious
  <2>2. /\ At(h, "replace") \in Handlers
        /\ At(h, "replace").stage = "replace" /\ At(h, "replace").prev = h.prev
    BY <1>0, <2>1, AtType DEF Stage
  <2>3. h.prev \in Body
    BY <2>1 DEF LedgerInv, HandlersHold
  <2>4. HandlersHold'
    <3>1. CASE SetHandler(s, c, Idle)
      BY <2>1, <3>1, IdleType, HandlersHoldStep DEF Idle
    <3>2. CASE SetHandler(s, c, At(h, "replace")) /\ phase[h.prev] = Dead /\ LookupSaysNotLanded(h.prev)
      <4>1. Gone(h.prev)
        BY <3>2 DEF LookupSaysNotLanded, Gone
      <4>. QED BY <2>1, <2>2, <2>3, <3>2, <4>1, HandlersHoldStep
    <3>. QED BY <1>3, <3>1, <3>2 DEF CheckPrevious
  <2>. QED BY <2>1, <2>4, QuietHandlerKeepsInv
<1>4. CASE ReplaceClaim(s, c)
  <2>1. h.stage = "replace" /\ UNCHANGED <<phase, landed, signed>>
    BY <1>4 DEF ReplaceClaim
  <2>2. /\ h.body \in Body /\ At(h, "sign") \in Handlers
        /\ At(h, "sign").stage = "sign" /\ At(h, "sign").body = h.body
    BY <1>0, <2>1, AtType DEF Stage
  <2>3. Gone(h.prev)
    BY <2>1 DEF LedgerInv, HandlersHold
  <2>4. CASE ledger[s] = h.prev
    <3>1. Claim(s, h.body) /\ SetHandler(s, c, At(h, "sign"))
      BY <1>4, <2>4 DEF ReplaceClaim
    <3>2. h.body \in claimed'[s] /\ \A t \in Signer : claimed[t] \subseteq claimed'[t]
      BY <1>0, <2>2, <3>1, ClaimEffect
    <3>3. HandlersHold'
      BY <2>1, <2>2, <3>1, <3>2, HandlersHoldStep
    <3>. QED BY <2>1, <2>2, <2>3, <2>4, <3>1, <3>3, ClaimKeepsInv
  <2>5. CASE ledger[s] # h.prev
    <3>1. SetHandler(s, c, Idle) /\ UNCHANGED <<ledger, claimed>>
      BY <1>4, <2>5 DEF ReplaceClaim
    <3>2. HandlersHold'
      BY <2>1, <3>1, IdleType, HandlersHoldStep DEF Idle
    <3>. QED BY <2>1, <3>1, <3>2, QuietHandlerKeepsInv
  <2>. QED BY <2>4, <2>5
<1>5. CASE SignBody(s, c)
  <2>1. /\ h.stage = "sign" /\ SetHandler(s, c, At(h, "signed"))
        /\ signed' = [signed EXCEPT ![s] = @ \cup {h.body}]
        /\ UNCHANGED <<phase, landed, ledger, claimed>>
    BY <1>5 DEF SignBody
  <2>2. /\ At(h, "signed") \in Handlers
        /\ At(h, "signed").stage = "signed" /\ At(h, "signed").body = h.body
    BY <1>0, <2>1, AtType DEF Stage
  <2>3. h.body \in claimed[s]
    BY <2>1 DEF LedgerInv, HandlersHold
  <2>4. HandlersHold'
    BY <2>1, <2>2, <2>3, HandlersHoldStep
  <2>5. SignedIsClaimed'
    BY <2>1, <2>3, <1>0 DEF LedgerInv, SignedIsClaimed, LedgerTypeOK
  <2>6. LandedIsSigned'
    <3>. SUFFICES ASSUME NEW x \in landed
                  PROVE  IsQuorum({t \in Signer : x \in signed'[t]})
      BY <2>1 DEF LandedIsSigned, IsQuorum
    <3>1. IsQuorum({t \in Signer : x \in signed[t]})
      BY DEF LedgerInv, LandedIsSigned
    <3>2. \A t \in Signer : signed[t] \subseteq signed'[t]
      BY <2>1, <1>0 DEF LedgerTypeOK
    <3>. QED BY <3>1, <3>2, QuorumGrows
  <2>. QED BY <2>1, <2>4, <2>5, <2>6 DEF LedgerInv, LedgerIsClaimed, OldClaimsGone, Gone
<1>6. CASE LostClaim(s, c)
  <2>1. /\ h.stage = "lost" /\ UNCHANGED <<phase, landed, ledger, claimed, signed>>
        /\ SetHandler(s, c, IF ledger[s] = h.body THEN At(h, "sign") ELSE Idle)
    BY <1>6 DEF LostClaim
  <2>2. /\ h.body \in Body /\ At(h, "sign") \in Handlers
        /\ At(h, "sign").stage = "sign" /\ At(h, "sign").body = h.body
    BY <1>0, <2>1, AtType DEF Stage
  <2>3. ledger[s] = h.body => h.body \in claimed[s]
    BY <2>2, NoneAssumption DEF LedgerInv, LedgerIsClaimed
  <2>4. HandlersHold'
    <3>1. CASE ledger[s] = h.body
      BY <2>1, <2>2, <2>3, <3>1, HandlersHoldStep
    <3>2. CASE ledger[s] # h.body
      BY <2>1, <3>2, IdleType, HandlersHoldStep DEF Idle
    <3>. QED BY <3>1, <3>2
  <2>. QED BY <2>1, <2>4, QuietHandlerKeepsInv
<1>. QED BY <1>1, <1>2, <1>3, <1>4, <1>5, <1>6 DEF HandlerStep

\* The invariant is inductive when the signers' nodes answer truthfully.
LEMMA LedgerInvStep ==
    ASSUME SignerLookupMayFail = FALSE, LedgerInv, LedgerTypeOK', [LedgerNext]_ledgerVars
    PROVE  LedgerInv'
<1>1. ASSUME NEW b \in Body, BuildBody(b) \/ Age(b) \/ Land(b)
      PROVE  LedgerInv'
  BY <1>1, ChainKeepsInv
<1>2. ASSUME NEW s \in Signer, SignerCrash(s)
      PROVE  LedgerInv'
  <2>1. /\ UNCHANGED <<phase, landed, ledger, claimed, signed>>
        /\ handler' = [handler EXCEPT ![s] = [c \in Client |-> Idle]]
    BY <1>2 DEF SignerCrash
  <2>2. \A t \in Signer, d \in Client : handler'[t][d] = handler[t][d] \/ handler'[t][d] = Idle
    BY <2>1 DEF LedgerInv, LedgerTypeOK
  <2>3. HandlersHold'
    BY <2>1, <2>2 DEF LedgerInv, HandlersHold, Idle, Gone
  <2>. QED BY <2>1, <2>3, QuietHandlerKeepsInv
<1>3. ASSUME NEW s \in Signer, NEW c \in Client, NEW b \in Body, Receive(s, c, b)
      PROVE  LedgerInv'
  <2>. DEFINE n == [stage |-> "read", body |-> b, prev |-> None]
  <2>1. SetHandler(s, c, n) /\ UNCHANGED <<phase, landed, ledger, claimed, signed>>
    BY <1>3 DEF Receive
  <2>2. n \in Handlers /\ n.stage = "read"
    BY DEF Handlers, Stage
  <2>. HIDE DEF n
  <2>3. HandlersHold'
    BY <2>1, <2>2, HandlersHoldStep
  <2>. QED BY <2>1, <2>3, QuietHandlerKeepsInv
<1>4. ASSUME NEW s \in Signer, NEW c \in Client, HandlerStep(s, c)
      PROVE  LedgerInv'
  BY <1>4, HandlerKeepsInv
<1>5. ASSUME NEW s \in Signer, NEW c \in Client, Respond(s, c) \/ HandlerFails(s, c)
      PROVE  LedgerInv'
  <2>1. SetHandler(s, c, Idle) /\ UNCHANGED <<phase, landed, ledger, claimed, signed>>
    BY <1>5 DEF Respond, HandlerFails
  <2>2. HandlersHold'
    BY <2>1, IdleType, HandlersHoldStep DEF Idle
  <2>. QED BY <2>1, <2>2, QuietHandlerKeepsInv
<1>6. CASE UNCHANGED ledgerVars
  BY <1>6 DEF ledgerVars, LedgerInv, LedgerTypeOK, SignedIsClaimed, LedgerIsClaimed, OldClaimsGone,
              HandlersHold, LandedIsSigned, Gone
<1>. QED BY <1>1, <1>2, <1>3, <1>4, <1>5, <1>6 DEF LedgerNext

\* Every reachable state satisfies the inductive invariant.
THEOREM LedgerInvariance ==
    ASSUME SignerLookupMayFail = FALSE
    PROVE  LedgerSpec => []LedgerInv
<1>1. LedgerInit => LedgerInv
  BY LedgerInvInit
<1>2. LedgerInv /\ LedgerTypeOK' /\ [LedgerNext]_ledgerVars => LedgerInv'
  BY LedgerInvStep
<1>. QED BY <1>1, <1>2, LedgerTypeCorrect, PTL DEF LedgerSpec

\* The invariant is strong enough: two landed bodies would need an operator
\* with live claims on both.
LEMMA InvExcludesTwo == LedgerInv => AtMostOneLanded /\ OneLiveSignature
<1>. SUFFICES ASSUME LedgerInv PROVE AtMostOneLanded /\ OneLiveSignature
  OBVIOUS
<1>1. OneLiveSignature
  <2>. SUFFICES ASSUME NEW s \in Signer, NEW a \in signed[s], NEW b \in signed[s], a # b
                PROVE  Gone(a) \/ Gone(b)
    BY DEF OneLiveSignature, Gone
  <2>. QED BY DEF LedgerInv, SignedIsClaimed, OldClaimsGone
<1>2. AtMostOneLanded
  <2>. SUFFICES ASSUME NEW a \in landed, NEW b \in landed, a # b PROVE FALSE
    BY DEF AtMostOneLanded
  <2>1. IsQuorum({s \in Signer : a \in signed[s]}) /\ IsQuorum({s \in Signer : b \in signed[s]})
    BY DEF LedgerInv, LandedIsSigned
  <2>2. PICK s \in Signer : a \in signed[s] /\ b \in signed[s]
    BY <2>1, QuorumsIntersect
  <2>. QED BY <1>1, <2>2 DEF OneLiveSignature
<1>. QED BY <1>1, <1>2

\* Whatever the callers of /approve do, at most one release body of an action
\* becomes a VIZ transfer, for every strict-majority federation.
THEOREM PaidAtMostOnce ==
    ASSUME SignerLookupMayFail = FALSE
    PROVE  LedgerSpec => []AtMostOneLanded
BY LedgerInvariance, InvExcludesTwo, PTL

\* No operator ever has two signatures out that could both still pay.
THEOREM NeverTwoLiveSignatures ==
    ASSUME SignerLookupMayFail = FALSE
    PROVE  LedgerSpec => []OneLiveSignature
BY LedgerInvariance, InvExcludesTwo, PTL

\* The signers, the ledger and the chain implement OneRelease: the first
\* landing settles the action and no later step changes what landed.
THEOREM LedgerKeepsPromise ==
    ASSUME SignerLookupMayFail = FALSE
    PROVE  LedgerSpec => KeepsPromise
<1>1. LedgerInit => Promise!Init
  BY DEF LedgerInit, Promise!Init
<1>2. LedgerInv /\ [LedgerNext]_ledgerVars => [Promise!Next]_landed
  <2>. SUFFICES ASSUME LedgerInv, [LedgerNext]_ledgerVars
                PROVE  Promise!Next \/ UNCHANGED landed
    OBVIOUS
  <2>1. ASSUME NEW b \in Body, Land(b)
        PROVE  Promise!Next
    <3>1. landed = {}
      BY <2>1, LandAlone
    <3>. QED BY <2>1, <3>1 DEF Land, Promise!Next, Promise!Settle
  <2>2. ASSUME NEW s \in Signer, NEW c \in Client, HandlerStep(s, c)
        PROVE  UNCHANGED landed
    BY <2>2 DEF HandlerStep, ReadLedger, FirstClaim, LostClaim, CheckPrevious, ReplaceClaim, SignBody
  <2>. QED BY <2>1, <2>2 DEF LedgerNext, ledgerVars, BuildBody, Age, SignerCrash, Receive, Respond,
                             HandlerFails
<1>. QED BY <1>1, <1>2, LedgerInvariance, PTL DEF LedgerSpec, KeepsPromise, Promise!Spec

-----------------------------------------------------------------------------
(* The coordinator and the dispatcher. *)

Drives == [step : Step, executed : BOOLEAN, body : Body \cup {None},
           todo : SUBSET Signer, asked : Signer \cup {None}, approvals : SUBSET Signer]

\* A drive that is not running is well typed.
LEMMA NoDriveType == NoDrive \in Drives
BY DEF NoDrive, Drives, Step

\* A signing round only presents bodies that exist, so the coordinator's
\* steps are steps of the ledger's environment.
LEMMA StepIsLedgerStep ==
    ASSUME DriveInv, [Next]_vars
    PROVE  [LedgerNext]_ledgerVars
<1>1. ASSUME NEW d \in Client, Submit(d) \/ DriveStep(d)
      PROVE  [LedgerNext]_ledgerVars
  <2>1. CASE \E b \in Body : PinNew(d, b)
    BY <2>1 DEF PinNew, LedgerNext
  <2>2. CASE \E s \in Signer : Ask(d, s)
    <3>1. PICK s \in Signer : Ask(d, s)
      BY <2>2
    <3>2. drive[d].body \in Body /\ Receive(s, d, drive[d].body)
      BY <3>1 DEF Ask, DriveInv
    <3>. QED BY <3>2 DEF LedgerNext
  <2>3. CASE \E s \in Signer : Answer(d, s) \/ AbandonedResponse(d, s)
    <3>1. PICK s \in Signer : Answer(d, s) \/ AbandonedResponse(d, s)
      BY <2>3
    <3>2. Respond(s, d) \/ UNCHANGED ledgerVars
      BY <3>1 DEF Answer, AbandonedResponse
    <3>. QED BY <3>2 DEF LedgerNext
  <2>4. CASE UNCHANGED ledgerVars
    BY <2>4
  <2>. QED BY <1>1, <2>1, <2>2, <2>3, <2>4
           DEF DriveStep, Submit, Deliver, DropResult, CheckExecuted, UsePin, BuildFails, AskFails,
               AskTimesOut, RoundFails, PersistTxid, Send, PollConfirms, PollTimesOut
<1>2. CASE StopWaiting \/ RecoverOrphan \/ CoordinatorCrash
  BY <1>2 DEF StopWaiting, RecoverOrphan, CoordinatorCrash
<1>3. ASSUME NEW b \in Body, Tick(b) \/ LandSent(b)
      PROVE  [LedgerNext]_ledgerVars
  BY <1>3 DEF Tick, LandSent, LedgerNext
<1>4. ASSUME NEW s \in Signer, NEW d \in Client, SignerStep(s, d) \/ SignerFails(s, d)
      PROVE  [LedgerNext]_ledgerVars
  BY <1>4 DEF SignerStep, SignerFails, LedgerNext
<1>5. ASSUME NEW s \in Signer, SignerRestarts(s)
      PROVE  [LedgerNext]_ledgerVars
  BY <1>5 DEF SignerRestarts, LedgerNext
<1>6. CASE UNCHANGED vars
  BY <1>6 DEF vars
<1>. QED BY <1>1, <1>2, <1>3, <1>4, <1>5, <1>6 DEF Next

\* The drives' table keeps its type when one drive takes a well-typed record.
LEMMA DriveUpdate ==
    ASSUME drive \in [Client -> Drives], NEW d \in Client, NEW r \in Drives,
           drive' = [drive EXCEPT ![d] = r]
    PROVE  /\ drive' \in [Client -> Drives]
           /\ drive'[d] = r
           /\ \A e \in Client : e # d => drive'[e] = drive[e]
OBVIOUS

\* What the invariant asks of one drive, given what landed.
Sound(r) ==
    /\ r.executed \/ r.step = "ok" => r.body \in landed
    /\ r.step \in {"approve", "send", "poll"} => r.body \in Body /\ ~r.executed

\* A step that changes one drive only, on unchanged landings, keeps the
\* invariant if the drive's new record is sound.
LEMMA DriveKeepsInv ==
    ASSUME DriveInv, LedgerTypeOK', NEW d \in Client, NEW r \in Drives, Sound(r),
           drive' = [drive EXCEPT ![d] = r], landed' = landed,
           row' \in {"QUEUED", "BROADCAST", "CONFIRMED"}, rowTxid' \in Body \cup {None},
           awaiting' \in Client \cup {None}, pinned' \in Body \cup {None},
           sent' \subseteq Body, faults' \in 0..MaxFaults, ConfirmedIsLanded'
    PROVE  DriveInv'
<1>1. drive \in [Client -> Drives]
  BY DEF DriveInv, TypeOK, Drives
<1>2. /\ drive' \in [Client -> Drives]
      /\ drive'[d] = r
      /\ \A e \in Client : e # d => drive'[e] = drive[e]
  BY <1>1, DriveUpdate
<1>3. TypeOK'
  BY <1>2 DEF TypeOK, Drives
<1>4. \A e \in Client :
         /\ drive'[e].executed \/ drive'[e].step = "ok" => drive'[e].body \in landed'
         /\ drive'[e].step \in {"approve", "send", "poll"} =>
               drive'[e].body \in Body /\ ~drive'[e].executed
  <2>. SUFFICES ASSUME NEW e \in Client
                PROVE  /\ drive'[e].executed \/ drive'[e].step = "ok" => drive'[e].body \in landed'
                       /\ drive'[e].step \in {"approve", "send", "poll"} =>
                             drive'[e].body \in Body /\ ~drive'[e].executed
    OBVIOUS
  <2>1. CASE e = d
    BY <1>2, <2>1 DEF Sound
  <2>2. CASE e # d
    BY <1>2, <2>2 DEF DriveInv
  <2>. QED BY <2>1, <2>2
<1>. QED BY <1>3, <1>4 DEF DriveInv

\* Every step of dispatcher, coordinator, signers and chain keeps the invariant
\* about what a drive may report.
LEMMA DriveInvStep ==
    ASSUME DriveInv, [Next]_vars
    PROVE  DriveInv'
<1>1. LedgerTypeOK'
  BY StepIsLedgerStep, LedgerTypeStep DEF DriveInv, TypeOK
<1>2. /\ drive \in [Client -> Drives]
      /\ row \in {"QUEUED", "BROADCAST", "CONFIRMED"} /\ rowTxid \in Body \cup {None}
      /\ awaiting \in Client \cup {None} /\ pinned \in Body \cup {None}
      /\ sent \subseteq Body /\ faults \in 0..MaxFaults /\ landed \subseteq Body
      /\ ConfirmedIsLanded
  BY DEF DriveInv, TypeOK, Drives, LedgerTypeOK
<1>3. Fault => faults' \in 0..MaxFaults
  BY <1>2, BoundAssumption DEF Fault
<1>4. ASSUME NEW d \in Client, Submit(d) \/ DriveStep(d)
      PROVE  DriveInv'
  <2>. DEFINE r == drive[d]
  <2>1. r \in Drives /\ Sound(r)
    BY <1>2 DEF DriveInv, Sound
  <2>2. CASE Submit(d)
    <3>. DEFINE n == [r EXCEPT !.step = "check"]
    <3>1. n \in Drives /\ drive' = [drive EXCEPT ![d] = n]
      BY <2>1, <2>2, <1>2 DEF Submit, Drives, Step
    <3>2. Sound(n)
      BY <2>1, <2>2 DEF Submit, Sound, NoDrive, Drives
    <3>. QED BY <1>1, <1>2, <2>2, <3>1, <3>2, DriveKeepsInv DEF Submit, ledgerVars, ConfirmedIsLanded
  <2>3. CASE Deliver(d)
    <3>1. NoDrive \in Drives /\ Sound(NoDrive)
      BY NoDriveType DEF Sound, NoDrive
    <3>2. rowTxid' \in Body \cup {None} /\ ConfirmedIsLanded'
      BY <1>2, <2>1, <2>3 DEF Deliver, Sound, ledgerVars, ConfirmedIsLanded, Drives
    <3>. QED BY <1>1, <1>2, <2>3, <3>1, <3>2, DriveKeepsInv DEF Deliver, ledgerVars
  <2>4. CASE DropResult(d)
    <3>1. NoDrive \in Drives /\ Sound(NoDrive)
      BY NoDriveType DEF Sound, NoDrive
    <3>. QED BY <1>1, <1>2, <2>4, <3>1, DriveKeepsInv DEF DropResult, ledgerVars, ConfirmedIsLanded
  <2>5. CASE CheckExecuted(d)
    <3>. DEFINE m == [r EXCEPT !.step = "build"]
                n == [r EXCEPT !.step = "build", !.executed = TRUE, !.body = rowTxid]
    <3>1. m \in Drives /\ Sound(m) /\ n \in Drives /\ (rowTxid \in landed => Sound(n))
      BY <2>1, <2>5, <1>2 DEF CheckExecuted, Sound, Drives, Step
    <3>2. UNCHANGED <<landed, row, rowTxid, awaiting, pinned, sent>> /\ faults' \in 0..MaxFaults
      BY <1>2, <1>3, <2>5 DEF CheckExecuted, ledgerVars
    <3>3. ConfirmedIsLanded'
      BY <1>2, <3>2 DEF ConfirmedIsLanded
    <3>4. \/ drive' = [drive EXCEPT ![d] = m]
          \/ rowTxid \in landed /\ drive' = [drive EXCEPT ![d] = n]
      BY <2>5 DEF CheckExecuted
    <3>. HIDE DEF m, n
    <3>. QED BY <1>1, <1>2, <3>1, <3>2, <3>3, <3>4, DriveKeepsInv
  <2>6. ASSUME NEW b \in Body, r.step \in {"build", "building"}
        PROVE  WithBody(r, b) \in Drives /\ Sound(WithBody(r, b))
    BY <2>1, <2>6 DEF WithBody, Drives, Step, Sound
  <2>7. CASE UsePin(d)
    <3>. DEFINE m == [r EXCEPT !.step = "building"]
    <3>1. r.step = "build" /\ m \in Drives /\ Sound(m)
      BY <2>1, <2>7 DEF UsePin, Drives, Step, Sound
    <3>2. CASE drive' = [drive EXCEPT ![d] = m]
      BY <1>1, <1>2, <2>7, <3>1, <3>2, DriveKeepsInv DEF UsePin, ledgerVars, ConfirmedIsLanded
    <3>3. CASE pinned # None /\ drive' = [drive EXCEPT ![d] = WithBody(r, pinned)]
      <4>1. pinned \in Body
        BY <1>2, <3>3
      <4>2. WithBody(r, pinned) \in Drives /\ Sound(WithBody(r, pinned))
        BY <2>6, <3>1, <4>1
      <4>. QED BY <1>1, <1>2, <2>7, <3>3, <4>2, DriveKeepsInv DEF UsePin, ledgerVars, ConfirmedIsLanded
    <3>. QED BY <2>7, <3>2, <3>3 DEF UsePin
  <2>8. ASSUME NEW b \in Body, PinNew(d, b)
        PROVE  DriveInv'
    <3>1. WithBody(r, b) \in Drives /\ Sound(WithBody(r, b))
      BY <2>6, <2>8 DEF PinNew
    <3>2. drive' = [drive EXCEPT ![d] = WithBody(r, b)] /\ pinned' = b /\ landed' = landed
      BY <2>8 DEF PinNew, BuildBody
    <3>3. UNCHANGED <<row, rowTxid, awaiting, sent, faults>>
      BY <2>8 DEF PinNew
    <3>. QED BY <1>1, <1>2, <3>1, <3>2, <3>3, DriveKeepsInv DEF ConfirmedIsLanded
  <2>9. CASE BuildFails(d)
    <3>. DEFINE n == [r EXCEPT !.step = IF r.executed THEN "ok" ELSE "failed"]
    <3>1. n \in Drives /\ drive' = [drive EXCEPT ![d] = n]
      BY <2>1, <2>9, <1>2 DEF BuildFails, Drives, Step
    <3>2. Sound(n)
      BY <2>1, <2>9 DEF BuildFails, Sound, Drives
    <3>3. faults' \in 0..MaxFaults
      BY <1>2, <1>3, <2>9 DEF BuildFails
    <3>. QED BY <1>1, <1>2, <2>9, <3>1, <3>2, <3>3, DriveKeepsInv
             DEF BuildFails, ledgerVars, ConfirmedIsLanded
  <2>10. ASSUME NEW s \in Signer, Ask(d, s)
         PROVE  DriveInv'
    <3>. DEFINE n == [r EXCEPT !.asked = s, !.todo = @ \ {s}]
    <3>1. n \in Drives /\ drive' = [drive EXCEPT ![d] = n]
      BY <2>1, <2>10, <1>2 DEF Ask, Drives, Step
    <3>2. Sound(n)
      BY <2>1 DEF Sound, Drives
    <3>3. landed' = landed
      BY <2>10 DEF Ask, Receive
    <3>. QED BY <1>1, <1>2, <2>10, <3>1, <3>2, <3>3, DriveKeepsInv DEF Ask, ConfirmedIsLanded
  <2>11. ASSUME NEW s \in Signer, AskFails(d, s)
         PROVE  DriveInv'
    <3>. DEFINE n == [r EXCEPT !.todo = @ \ {s}]
    <3>1. n \in Drives /\ drive' = [drive EXCEPT ![d] = n]
      BY <2>1, <2>11, <1>2 DEF AskFails, Drives, Step
    <3>2. Sound(n)
      BY <2>1 DEF Sound, Drives
    <3>. QED BY <1>1, <1>2, <1>3, <2>11, <3>1, <3>2, DriveKeepsInv
             DEF AskFails, ledgerVars, ConfirmedIsLanded
  <2>12. ASSUME NEW s \in Signer, Answer(d, s)
         PROVE  DriveInv'
    <3>. DEFINE m == [r EXCEPT !.asked = None, !.approvals = @ \cup {s}]
                n == [r EXCEPT !.asked = None]
    <3>1. /\ m \in Drives /\ n \in Drives
          /\ drive' = [drive EXCEPT ![d] = m] \/ drive' = [drive EXCEPT ![d] = n]
      BY <2>1, <2>12, <1>2 DEF Answer, Drives, Step
    <3>2. Sound(m) /\ Sound(n)
      BY <2>1 DEF Sound, Drives
    <3>3. landed' = landed
      BY <2>12 DEF Answer, Respond, ledgerVars
    <3>. QED BY <1>1, <1>2, <2>12, <3>1, <3>2, <3>3, DriveKeepsInv DEF Answer, ConfirmedIsLanded
  <2>13. ASSUME NEW s \in Signer, AskTimesOut(d, s)
         PROVE  DriveInv'
    <3>. DEFINE n == [r EXCEPT !.asked = None]
    <3>1. n \in Drives /\ drive' = [drive EXCEPT ![d] = n]
      BY <2>1, <2>13, <1>2 DEF AskTimesOut, Drives, Step
    <3>2. Sound(n)
      BY <2>1 DEF Sound, Drives
    <3>. QED BY <1>1, <1>2, <1>3, <2>13, <3>1, <3>2, DriveKeepsInv
             DEF AskTimesOut, ledgerVars, ConfirmedIsLanded
  <2>14. ASSUME NEW s \in Signer, AbandonedResponse(d, s)
         PROVE  DriveInv'
    <3>1. UNCHANGED <<landed, row, rowTxid, awaiting, pinned, drive, sent, faults>>
      BY <2>14 DEF AbandonedResponse, Respond, coordVars
    <3>. QED BY <1>1, <3>1 DEF DriveInv, TypeOK, ConfirmedIsLanded
  <2>15. CASE RoundFails(d)
    <3>. DEFINE n == [r EXCEPT !.step = "failed"]
    <3>1. n \in Drives /\ drive' = [drive EXCEPT ![d] = n]
      BY <2>1, <2>15, <1>2 DEF RoundFails, Drives, Step
    <3>2. Sound(n)
      BY <2>1, <2>15 DEF RoundFails, Sound, Drives
    <3>. QED BY <1>1, <1>2, <1>3, <2>15, <3>1, <3>2, DriveKeepsInv
             DEF RoundFails, ledgerVars, ConfirmedIsLanded
  <2>16. CASE PersistTxid(d)
    <3>. DEFINE n == [r EXCEPT !.step = "send"]
    <3>1. n \in Drives /\ drive' = [drive EXCEPT ![d] = n]
      BY <2>1, <2>16, <1>2 DEF PersistTxid, Drives, Step
    <3>2. Sound(n)
      BY <2>1, <2>16 DEF PersistTxid, Sound, Drives
    <3>3. r.body \in Body
      BY <2>1, <2>16 DEF PersistTxid, Sound
    <3>. QED BY <1>1, <1>2, <2>16, <3>1, <3>2, <3>3, DriveKeepsInv
             DEF PersistTxid, ledgerVars, ConfirmedIsLanded
  <2>17. CASE Send(d)
    <3>. DEFINE n == [r EXCEPT !.step = "poll"]
    <3>1. n \in Drives /\ drive' = [drive EXCEPT ![d] = n]
      BY <2>1, <2>17, <1>2 DEF Send, Drives, Step
    <3>2. Sound(n)
      BY <2>1, <2>17 DEF Send, Sound, Drives
    <3>3. sent' \subseteq Body /\ faults' \in 0..MaxFaults
      BY <1>2, <1>3, <2>1, <2>17 DEF Send, Sound
    <3>. QED BY <1>1, <1>2, <2>17, <3>1, <3>2, <3>3, DriveKeepsInv
             DEF Send, ledgerVars, ConfirmedIsLanded
  <2>18. CASE PollConfirms(d)
    <3>. DEFINE n == [r EXCEPT !.step = "ok"]
    <3>1. n \in Drives /\ drive' = [drive EXCEPT ![d] = n]
      BY <2>1, <2>18, <1>2 DEF PollConfirms, Drives, Step
    <3>2. Sound(n)
      BY <2>1, <2>18 DEF PollConfirms, Sound, Drives
    <3>. QED BY <1>1, <1>2, <1>3, <2>18, <3>1, <3>2, DriveKeepsInv
             DEF PollConfirms, ledgerVars, ConfirmedIsLanded
  <2>19. CASE PollTimesOut(d)
    <3>. DEFINE n == [r EXCEPT !.step = "failed"]
    <3>1. n \in Drives /\ drive' = [drive EXCEPT ![d] = n]
      BY <2>1, <2>19, <1>2 DEF PollTimesOut, Drives, Step
    <3>2. Sound(n)
      BY <2>1, <2>19 DEF PollTimesOut, Sound, Drives
    <3>3. faults' \in 0..MaxFaults
      BY <1>2, <1>3, <2>19 DEF PollTimesOut
    <3>. QED BY <1>1, <1>2, <2>19, <3>1, <3>2, <3>3, DriveKeepsInv
             DEF PollTimesOut, ledgerVars, ConfirmedIsLanded
  <2>. QED BY <1>4, <2>2, <2>3, <2>4, <2>5, <2>7, <2>8, <2>9, <2>10, <2>11, <2>12, <2>13, <2>14,
              <2>15, <2>16, <2>17, <2>18, <2>19 DEF DriveStep
<1>5. CASE StopWaiting \/ RecoverOrphan
  BY <1>1, <1>2, <1>3, <1>5 DEF StopWaiting, RecoverOrphan, DriveInv, TypeOK, ledgerVars, ConfirmedIsLanded
<1>6. CASE CoordinatorCrash
  <2>1. drive' = [e \in Client |-> NoDrive] /\ drive' \in [Client -> Drives]
    BY <1>6, NoDriveType DEF CoordinatorCrash
  <2>2. /\ row' \in {row, "QUEUED"} /\ UNCHANGED <<rowTxid, sent, landed>>
        /\ pinned' = None /\ awaiting' = None /\ faults' \in 0..MaxFaults
    BY <1>3, <1>6 DEF CoordinatorCrash, ledgerVars
  <2>. QED BY <1>1, <1>2, <2>1, <2>2 DEF DriveInv, TypeOK, ConfirmedIsLanded, NoDrive, Drives
<1>7. CASE UNCHANGED <<coordVars, faults>> /\ landed \subseteq landed'
  BY <1>1, <1>2, <1>7 DEF coordVars, DriveInv, TypeOK, ConfirmedIsLanded
<1>8. ASSUME NEW b \in Body, Tick(b) \/ LandSent(b)
      PROVE  DriveInv'
  BY <1>7, <1>8 DEF Tick, LandSent, Age, Land
<1>9. ASSUME NEW s \in Signer, NEW d \in Client, SignerStep(s, d)
      PROVE  DriveInv'
  BY <1>7, <1>9 DEF SignerStep, HandlerStep, ReadLedger, FirstClaim, LostClaim, CheckPrevious, ReplaceClaim, SignBody
<1>10. ASSUME NEW s \in Signer, (\E d \in Client : SignerFails(s, d)) \/ SignerRestarts(s)
       PROVE  DriveInv'
  <2>1. UNCHANGED <<coordVars, landed>> /\ faults' \in 0..MaxFaults
    BY <1>3, <1>10 DEF SignerFails, SignerRestarts, HandlerFails, SignerCrash
  <2>. QED BY <1>1, <1>2, <2>1 DEF coordVars, DriveInv, TypeOK, ConfirmedIsLanded
<1>11. CASE UNCHANGED vars
  BY <1>7, <1>11 DEF vars, ledgerVars
<1>. QED BY <1>4, <1>5, <1>6, <1>8, <1>9, <1>10, <1>11 DEF Next

\* The invariant holds before the first /submit.
LEMMA DriveInvInit == Init => DriveInv
<1>. SUFFICES ASSUME Init PROVE DriveInv
  OBVIOUS
<1>1. LedgerTypeOK
  BY LedgerInvInit DEF Init, LedgerInv
<1>2. drive = [d \in Client |-> NoDrive] /\ drive \in [Client -> Drives]
  BY NoDriveType DEF Init
<1>. QED BY <1>1, <1>2, BoundAssumption DEF Init, DriveInv, TypeOK, ConfirmedIsLanded, NoDrive, Drives

\* The coordinator's and dispatcher's state keeps its type, and every drive
\* that reports success holds a body that is on the chain.
THEOREM DriveInvariance == Spec => []DriveInv
<1>1. DriveInv /\ [Next]_vars => DriveInv'
  BY DriveInvStep
<1>. QED BY <1>1, DriveInvInit, PTL DEF Spec

\* A row is CONFIRMED only for a release that is on the chain under the id the
\* row records, whatever crashes, times out or overlaps.
THEOREM ConfirmedOnlyIfLanded == Spec => []ConfirmedIsLanded
<1>1. DriveInv => ConfirmedIsLanded
  BY DEF DriveInv
<1>. QED BY <1>1, DriveInvariance, PTL

\* The deployed coordinator is one of the callers the replay ledger is proved
\* safe against.
THEOREM ReleaseImplementsLedger == Spec => ImplementsLedger
<1>1. Init => LedgerInit
  BY DEF Init
<1>2. DriveInv /\ [Next]_vars => [LedgerNext]_ledgerVars
  BY StepIsLedgerStep
<1>. QED BY <1>1, <1>2, DriveInvariance, PTL DEF Spec, LedgerSpec, ImplementsLedger

\* End to end: a release row is paid at most once, for every federation with a
\* strict-majority threshold, any number of drives, bodies and faults.
THEOREM ReleasePaidAtMostOnce ==
    ASSUME SignerLookupMayFail = FALSE
    PROVE  Spec => []AtMostOneLanded
BY ReleaseImplementsLedger, PaidAtMostOnce, PTL DEF ImplementsLedger

\* Every variable of coordinator and dispatcher keeps its type.
THEOREM ReleaseTypeCorrect == Spec => []TypeOK
<1>1. DriveInv => TypeOK
  BY DEF DriveInv
<1>. QED BY <1>1, DriveInvariance, PTL

-----------------------------------------------------------------------------
(* What landed is what the row records, when rounds end before the body    *)
(* they use expires.                                                       *)

\* A drive's record n, given the phases, signatures and handlers: its body is
\* live in a round, its approvals are signatures over its body, it sends only
\* with enough of them, and the call it awaits is about its body.
Fits(d, n, ph, sg, hd) ==
    /\ n.step \in {"approve", "send", "poll"} => ph[n.body] \in {Fresh, Closing}
    /\ n.asked # None => n.step = "approve"
    /\ n.step \in {"idle", "check", "build", "building"} => n.approvals = {}
    /\ \A s \in n.approvals : n.body \in sg[s]
    /\ n.step \in {"send", "poll"} => Cardinality(n.approvals) >= Threshold
    /\ \A s \in Signer : n.asked = s /\ hd[s][d].stage # "idle" => hd[s][d].body = n.body

DrivesFit == \A d \in Client : Fits(d, drive[d], phase, signed, handler)

SignedBy(b) == {s \in Signer : b \in signed[s]}

HandlersSigned ==
    \A s \in Signer, c \in Client : handler[s][c].stage = "signed" => handler[s][c].body \in signed[s]

\* b is out: a node has it, or a drive is about to hand it over again.
IsOut(b) == b \in sent \/ \E d \in Client : drive[d].step \in {"send", "poll"} /\ drive[d].body = b

\* A body that is out and not Gone is the one the row records.
OutIsRecorded ==
    /\ landed \subseteq sent
    /\ \A b \in Body : IsOut(b) => IsQuorum(SignedBy(b))
    /\ \A b \in Body : IsOut(b) /\ ~Gone(b) => rowTxid = b

TxidInv == DrivesFit /\ HandlersSigned /\ OutIsRecorded

\* Two bodies with a quorum of signatures each: one of them is Gone.
LEMMA OneQuorumLives ==
    ASSUME LedgerInv, NEW a \in Body, NEW b \in Body, IsQuorum(SignedBy(a)), IsQuorum(SignedBy(b)),
           ~Gone(a), ~Gone(b)
    PROVE  a = b
<1>1. PICK s \in Signer : a \in signed[s] /\ b \in signed[s]
  BY QuorumsIntersect DEF SignedBy
<1>2. a \in claimed[s] /\ b \in claimed[s]
  BY <1>1 DEF LedgerInv, SignedIsClaimed
<1>. QED BY <1>2 DEF LedgerInv, OldClaimsGone

\* A drive whose record does not change keeps fitting while signatures are
\* added and handlers move on or end.
LEMMA FitStays ==
    ASSUME NEW e \in Client, NEW n, Fits(e, n, phase, signed, handler),
           n.approvals \subseteq Signer,
           n.step \in {"approve", "send", "poll"} => phase'[n.body] \in {Fresh, Closing},
           \A s \in Signer : signed[s] \subseteq signed'[s],
           \A s \in Signer : \/ handler'[s][e].stage = "idle"
                             \/ handler'[s][e].body = handler[s][e].body /\ handler[s][e].stage # "idle"
    PROVE  Fits(e, n, phase', signed', handler')
BY DEF Fits

LEMMA DriveTypes ==
    ASSUME DriveInv, NEW d \in Client
    PROVE  /\ drive \in [Client -> Drives] /\ drive[d] \in Drives
           /\ drive[d].approvals \subseteq Signer /\ drive[d].step \in Step
           /\ drive[d].body \in Body \cup {None} /\ drive[d].asked \in Signer \cup {None}
           /\ drive[d].step \in {"approve", "send", "poll"} => drive[d].body \in Body
<1>1. drive \in [Client -> Drives] /\ drive[d] \in Drives
  BY DEF DriveInv, TypeOK, Drives
<1>2. drive[d].step \in {"approve", "send", "poll"} => drive[d].body \in Body
  BY DEF DriveInv
<1>. QED BY <1>1, <1>2 DEF Drives

\* One drive moves and nothing else that the invariant reads.
LEMMA OneDriveFits ==
    ASSUME DriveInv, TxidInv, NEW d \in Client, NEW n \in Drives, drive' = [drive EXCEPT ![d] = n],
           UNCHANGED <<ledgerVars, rowTxid, sent>>, Fits(d, n, phase, signed, handler),
           n.step \in {"send", "poll"} => drive[d].step \in {"send", "poll"} /\ n.body = drive[d].body
    PROVE  TxidInv'
<1>1. /\ drive'[d] = n
      /\ \A e \in Client : e # d => drive'[e] = drive[e]
  BY DriveTypes, DriveUpdate
<1>2. UNCHANGED <<phase, landed, signed, handler>>
  BY DEF ledgerVars
<1>3. DrivesFit'
  BY <1>1, <1>2 DEF TxidInv, DrivesFit
<1>4. \A b \in Body : IsOut(b)' => IsOut(b)
  BY <1>1 DEF IsOut
<1>5. OutIsRecorded'
  BY <1>2, <1>4 DEF TxidInv, OutIsRecorded, SignedBy, Gone
<1>. QED BY <1>2, <1>3, <1>5 DEF TxidInv, HandlersSigned

\* Steps of the signers: the drives, the row and the chain are as before.
LEMMA SignersKeepTxid ==
    ASSUME DriveInv, TxidInv, LedgerTypeOK', UNCHANGED <<drive, sent, rowTxid, phase, landed>>,
           \A s \in Signer : signed[s] \subseteq signed'[s], HandlersSigned',
           \A s \in Signer, e \in Client :
              \/ handler'[s][e].stage = "idle"
              \/ handler'[s][e].body = handler[s][e].body /\ handler[s][e].stage # "idle"
    PROVE  TxidInv'
<1>1. DrivesFit'
  <2>. SUFFICES ASSUME NEW e \in Client PROVE Fits(e, drive[e], phase', signed', handler')
    BY DEF DrivesFit
  <2>1. Fits(e, drive[e], phase, signed, handler)
    BY DEF TxidInv, DrivesFit
  <2>2. drive[e].step \in {"approve", "send", "poll"} => phase'[drive[e].body] \in {Fresh, Closing}
    BY <2>1 DEF Fits
  <2>3. drive[e].approvals \subseteq Signer
    BY DriveTypes
  <2>. QED BY <2>1, <2>2, <2>3, FitStays
<1>2. \A b \in Body : IsQuorum(SignedBy(b)) => IsQuorum(SignedBy(b))'
  <2>. SUFFICES ASSUME NEW b \in Body, IsQuorum(SignedBy(b)) PROVE IsQuorum(SignedBy(b)')
    BY DEF IsQuorum
  <2>1. SignedBy(b) \subseteq SignedBy(b)' /\ SignedBy(b)' \subseteq Signer
    BY DEF SignedBy
  <2>. QED BY <2>1, QuorumGrows
<1>3. OutIsRecorded'
  BY <1>2 DEF TxidInv, OutIsRecorded, IsOut, Gone
<1>. QED BY <1>1, <1>3 DEF TxidInv

\* What one step of an /approve handler does, as far as drives can tell.
LEMMA HandlerEffect ==
    ASSUME LedgerTypeOK, HandlersSigned, NEW s \in Signer, NEW c \in Client,
           HandlerStep(s, c) \/ Respond(s, c) \/ HandlerFails(s, c)
    PROVE  /\ UNCHANGED <<phase, landed>>
           /\ \A t \in Signer : signed[t] \subseteq signed'[t]
           /\ \A t \in Signer, e \in Client :
                \/ handler'[t][e].stage = "idle"
                \/ handler'[t][e].body = handler[t][e].body /\ handler[t][e].stage # "idle"
           /\ HandlersSigned'
<1>. DEFINE h == handler[s][c]
<1>1. h \in Handlers /\ h.stage # "idle" /\ handler \in [Signer -> [Client -> Handlers]]
  BY DEF LedgerTypeOK, HandlerStep, ReadLedger, FirstClaim, LostClaim, CheckPrevious, ReplaceClaim, SignBody,
         Respond, HandlerFails
<1>2. Idle.stage = "idle"
  BY DEF Idle
<1>3. \A g \in Stage : At(h, g) \in Handlers /\ At(h, g).stage = g /\ At(h, g).body = h.body
  BY <1>1, AtType
<1>4. UNCHANGED <<phase, landed>>
  BY DEF HandlerStep, ReadLedger, FirstClaim, LostClaim, CheckPrevious, ReplaceClaim, SignBody, Respond,
         HandlerFails
<1>5. /\ \A t \in Signer : signed[t] \subseteq signed'[t]
      /\ SignBody(s, c) => h.body \in signed'[s]
  <2>1. CASE SignBody(s, c)
    BY <2>1 DEF SignBody, LedgerTypeOK
  <2>2. CASE ~SignBody(s, c)
    <3>1. signed' = signed
      BY <2>2 DEF HandlerStep, ReadLedger, FirstClaim, LostClaim, CheckPrevious, ReplaceClaim, Respond,
                  HandlerFails
    <3>. QED BY <2>2, <3>1
  <2>. QED BY <2>1, <2>2
<1>6. \E g \in Handlers :
         /\ SetHandler(s, c, g)
         /\ g.stage = "idle" \/ g.body = h.body
         /\ g.stage = "signed" => SignBody(s, c)
  <2>1. CASE ReadLedger(s, c)
    <3>. DEFINE g == [stage |-> IF ledger[s] = None THEN "first" ELSE IF ledger[s] = h.body THEN "sign" ELSE "check",
                      body |-> h.body, prev |-> ledger[s]]
    <3>1. SetHandler(s, c, g)
      BY <2>1 DEF ReadLedger
    <3>2. h.body \in Body /\ ledger[s] \in Body \cup {None}
      BY <1>1, AtType DEF LedgerTypeOK, Stage
    <3>3. g \in Handlers /\ g.body = h.body /\ g.stage # "signed"
      BY <3>2 DEF Handlers, Stage
    <3>. HIDE DEF g
    <3>. QED BY <3>1, <3>3
  <2>2. CASE FirstClaim(s, c) \/ LostClaim(s, c) \/ CheckPrevious(s, c) \/ ReplaceClaim(s, c)
    <3>1. SetHandler(s, c, Idle) \/ \E g \in {"sign", "lost", "replace"} : SetHandler(s, c, At(h, g))
      BY <2>2 DEF FirstClaim, LostClaim, CheckPrevious, ReplaceClaim
    <3>. QED BY <1>2, <1>3, <3>1, IdleType DEF Stage
  <2>3. CASE SignBody(s, c)
    <3>1. SetHandler(s, c, At(h, "signed"))
      BY <2>3 DEF SignBody
    <3>. QED BY <1>3, <2>3, <3>1 DEF Stage
  <2>4. CASE Respond(s, c) \/ HandlerFails(s, c)
    <3>1. SetHandler(s, c, Idle)
      BY <2>4 DEF Respond, HandlerFails
    <3>. QED BY <1>2, <3>1, IdleType
  <2>. QED BY <2>1, <2>2, <2>3, <2>4 DEF HandlerStep
<1>7. PICK g \in Handlers :
         /\ SetHandler(s, c, g)
         /\ g.stage = "idle" \/ g.body = h.body
         /\ g.stage = "signed" => SignBody(s, c)
  BY <1>6
<1>8. /\ handler'[s][c] = g
      /\ \A t \in Signer, e \in Client : <<t, e>> # <<s, c>> => handler'[t][e] = handler[t][e]
  BY <1>1, <1>7, SetHandlerEffect
<1>9. \A t \in Signer, e \in Client :
         \/ handler'[t][e].stage = "idle"
         \/ handler'[t][e].body = handler[t][e].body /\ handler[t][e].stage # "idle"
  <2>. SUFFICES ASSUME NEW t \in Signer, NEW e \in Client
                PROVE  \/ handler'[t][e].stage = "idle"
                       \/ handler'[t][e].body = handler[t][e].body /\ handler[t][e].stage # "idle"
    OBVIOUS
  <2>1. CASE t = s /\ e = c
    BY <1>1, <1>7, <1>8, <2>1
  <2>2. CASE <<t, e>> # <<s, c>>
    <3>1. handler'[t][e] = handler[t][e] /\ handler[t][e] \in Handlers
      BY <1>1, <1>8, <2>2
    <3>. QED BY <3>1 DEF Handlers, Idle
  <2>. QED BY <2>1, <2>2
<1>10. HandlersSigned'
  <2>. SUFFICES ASSUME NEW t \in Signer, NEW e \in Client, handler'[t][e].stage = "signed"
                PROVE  handler'[t][e].body \in signed'[t]
    BY DEF HandlersSigned
  <2>1. CASE t = s /\ e = c
    BY <1>5, <1>7, <1>8, <2>1
  <2>2. CASE <<t, e>> # <<s, c>>
    BY <1>5, <1>8, <2>2 DEF HandlersSigned
  <2>. QED BY <2>1, <2>2
<1>. QED BY <1>4, <1>5, <1>9, <1>10

\* The drives' own steps that leave signers, row and chain alone.
LEMMA QuietDriveKeepsTxid ==
    ASSUME DriveInv, TxidInv, NEW d \in Client,
           \/ Submit(d) \/ DropResult(d) \/ CheckExecuted(d) \/ UsePin(d) \/ BuildFails(d) \/ RoundFails(d)
           \/ (\E s \in Signer : AskFails(d, s) \/ AskTimesOut(d, s)) \/ PollConfirms(d) \/ PollTimesOut(d)
    PROVE  TxidInv'
<1>. DEFINE r == drive[d]
            h == handler
<1>1. UNCHANGED <<ledgerVars, rowTxid, sent>>
  BY DEF Submit, DropResult, CheckExecuted, UsePin, BuildFails, RoundFails, AskFails, AskTimesOut,
         PollConfirms, PollTimesOut
<1>2. r \in Drives /\ drive \in [Client -> Drives] /\ Fits(d, r, phase, signed, handler)
  BY DriveTypes DEF TxidInv, DrivesFit
<1>3. ASSUME NEW n \in Drives, drive' = [drive EXCEPT ![d] = n], Fits(d, n, phase, signed, handler),
             n.step \notin {"send", "poll"}
      PROVE  TxidInv'
  BY <1>1, <1>3, OneDriveFits
<1>4. ASSUME NEW st \in {"check", "building", "ok", "failed"}, drive' = [drive EXCEPT ![d].step = st],
             r.asked = None, st \in {"check", "building"} => r.step \in {"idle", "build"}
      PROVE  TxidInv'
  <2>. DEFINE n == [r EXCEPT !.step = st]
  <2>1. n \in Drives /\ drive' = [drive EXCEPT ![d] = n] /\ n.step = st
    BY <1>2, <1>4 DEF Drives, Step
  <2>2. Fits(d, n, phase, signed, handler)
    BY <1>2, <1>4, NobodyAssumption DEF Fits, Drives
  <2>. HIDE DEF n
  <2>. QED BY <1>3, <1>4, <2>1, <2>2
<1>5. CASE Submit(d)
  <2>1. r.asked = None /\ r.step = "idle"
    BY <1>5 DEF Submit, NoDrive
  <2>. QED BY <1>4, <1>5, <2>1 DEF Submit
<1>6. CASE DropResult(d)
  <2>1. Fits(d, NoDrive, phase, signed, handler) /\ NoDrive.step = "idle"
    BY NobodyAssumption DEF Fits, NoDrive
  <2>. QED BY <1>3, <1>6, <2>1, NoDriveType DEF DropResult
<1>7. CASE CheckExecuted(d)
  <2>. DEFINE m == [r EXCEPT !.step = "build"]
              n == [r EXCEPT !.step = "build", !.executed = TRUE, !.body = rowTxid]
  <2>1. r.step = "check" /\ r.asked = None /\ r.approvals = {} /\ rowTxid \in Body \cup {None}
    BY <1>2, <1>7 DEF CheckExecuted, Fits, DriveInv, TypeOK
  <2>2. m \in Drives /\ n \in Drives /\ m.step = "build" /\ n.step = "build"
    BY <1>2, <2>1 DEF Drives, Step
  <2>3. Fits(d, m, phase, signed, handler) /\ Fits(d, n, phase, signed, handler)
    BY <1>2, <2>1, NobodyAssumption DEF Fits, Drives
  <2>4. drive' = [drive EXCEPT ![d] = m] \/ drive' = [drive EXCEPT ![d] = n]
    BY <1>2, <1>7 DEF CheckExecuted, Drives
  <2>. HIDE DEF m, n
  <2>. QED BY <1>3, <2>2, <2>3, <2>4
<1>8. CASE UsePin(d)
  <2>1. r.step = "build" /\ r.asked = None /\ r.approvals = {}
    BY <1>2, <1>8 DEF UsePin, Fits
  <2>2. CASE drive' = [drive EXCEPT ![d].step = "building"]
    BY <1>4, <2>1, <2>2
  <2>3. CASE pinned # None /\ phase[pinned] = Fresh /\ drive' = [drive EXCEPT ![d] = WithBody(r, pinned)]
    <3>. DEFINE n == WithBody(r, pinned)
    <3>1. pinned \in Body
      BY <2>3 DEF DriveInv, TypeOK
    <3>2. n \in Drives /\ n.step \in {"ok", "approve"} /\ n.asked = None /\ n.approvals = {}
          /\ (n.step = "approve" => n.body = pinned)
      BY <1>2, <2>1, <3>1 DEF WithBody, Drives, Step
    <3>3. Fits(d, n, phase, signed, handler)
      BY <2>3, <3>2, NobodyAssumption DEF Fits
    <3>. HIDE DEF n
    <3>. QED BY <1>3, <2>3, <3>2, <3>3 DEF n
  <2>. QED BY <1>2, <1>8, <2>2, <2>3 DEF UsePin
<1>9. CASE BuildFails(d)
  <2>1. r.asked = None
    BY <1>2, <1>9 DEF BuildFails, Fits
  <2>. QED BY <1>4, <1>9, <2>1 DEF BuildFails
<1>10. CASE RoundFails(d)
  BY <1>4, <1>10 DEF RoundFails
<1>11. CASE PollConfirms(d) \/ PollTimesOut(d)
  <2>1. r.asked = None
    BY <1>2, <1>11 DEF PollConfirms, PollTimesOut, Fits
  <2>. QED BY <1>4, <1>11, <2>1 DEF PollConfirms, PollTimesOut
<1>12. ASSUME NEW s \in Signer, AskFails(d, s) \/ AskTimesOut(d, s) PROVE TxidInv'
  <2>. DEFINE m == [r EXCEPT !.todo = @ \ {s}]
              n == [r EXCEPT !.asked = None]
  <2>1. m \in Drives /\ n \in Drives /\ m.step = r.step /\ n.step = r.step
    BY <1>2 DEF Drives
  <2>2. Fits(d, m, phase, signed, handler) /\ Fits(d, n, phase, signed, handler)
    BY <1>2, NobodyAssumption DEF Fits, Drives
  <2>3. drive' = [drive EXCEPT ![d] = m] \/ drive' = [drive EXCEPT ![d] = n]
    BY <1>2, <1>12 DEF AskFails, AskTimesOut, Drives
  <2>4. r.step = "approve"
    <3>1. CASE AskFails(d, s)
      BY <3>1 DEF AskFails
    <3>2. CASE AskTimesOut(d, s)
      <4>1. s # None
        BY NobodyAssumption
      <4>. QED BY <1>2, <3>2, <4>1 DEF AskTimesOut, Fits
    <3>. QED BY <1>12, <3>1, <3>2
  <2>. HIDE DEF m, n
  <2>. QED BY <1>3, <2>1, <2>2, <2>3, <2>4
<1>. QED BY <1>5, <1>6, <1>7, <1>8, <1>9, <1>10, <1>11, <1>12

\* A round takes a new body: it is Fresh, and no other body's phase changes.
LEMMA PinKeepsTxid ==
    ASSUME DriveInv, TxidInv, NEW d \in Client, NEW b \in Body, PinNew(d, b)
    PROVE  TxidInv'
<1>. DEFINE r == drive[d]
            n == WithBody(r, b)
<1>1. /\ r.step = "building" /\ phase[b] = Unbuilt /\ phase' = [phase EXCEPT ![b] = Fresh]
      /\ drive' = [drive EXCEPT ![d] = n]
      /\ UNCHANGED <<landed, signed, handler, rowTxid, sent>>
  BY DEF PinNew, BuildBody
<1>2. r \in Drives /\ drive \in [Client -> Drives] /\ Fits(d, r, phase, signed, handler)
  BY DriveTypes DEF TxidInv, DrivesFit
<1>3. phase \in [Body -> Unbuilt..Dead]
  BY DEF DriveInv, TypeOK, LedgerTypeOK
<1>4. /\ n \in Drives /\ n.step \in {"ok", "approve"} /\ n.asked = None /\ n.approvals = {}
      /\ n.step = "approve" => n.body = b
  BY <1>1, <1>2 DEF WithBody, Drives, Step, Fits
<1>. HIDE DEF n
<1>5. drive'[d] = n /\ \A e \in Client : e # d => drive'[e] = drive[e]
  BY <1>1, <1>2, <1>4, DriveUpdate
<1>6. DrivesFit'
  <2>. SUFFICES ASSUME NEW e \in Client PROVE Fits(e, drive'[e], phase', signed', handler')
    BY DEF DrivesFit
  <2>1. CASE e = d
    BY <1>1, <1>3, <1>4, <1>5, <2>1, NobodyAssumption DEF Fits
  <2>2. CASE e # d
    <3>1. Fits(e, drive[e], phase, signed, handler) /\ drive'[e] = drive[e]
      BY <1>5, <2>2 DEF TxidInv, DrivesFit
    <3>2. drive[e].step \in {"approve", "send", "poll"} =>
             drive[e].body # b /\ phase'[drive[e].body] = phase[drive[e].body]
      BY <1>1, <1>3, <3>1, DriveTypes DEF Fits, Unbuilt, Fresh, Closing
    <3>. QED BY <1>1, <3>1, <3>2 DEF Fits
  <2>. QED BY <2>1, <2>2
<1>7. \A x \in Body : (IsOut(x)' => IsOut(x)) /\ (Gone(x) => Gone(x)')
  BY <1>1, <1>3, <1>4, <1>5 DEF IsOut, Gone, Unbuilt, Dead
<1>8. OutIsRecorded'
  BY <1>1, <1>7 DEF TxidInv, OutIsRecorded, SignedBy
<1>9. HandlersSigned'
  BY <1>1 DEF TxidInv, HandlersSigned
<1>. QED BY <1>6, <1>8, <1>9 DEF TxidInv

\* A drive asks a signer, or takes its answer.
LEMMA CallKeepsTxid ==
    ASSUME DriveInv, LedgerTypeOK', TxidInv, NEW d \in Client, NEW s \in Signer, Ask(d, s) \/ Answer(d, s)
    PROVE  TxidInv'
<1>. DEFINE r == drive[d]
<1>1. /\ r \in Drives /\ drive \in [Client -> Drives] /\ Fits(d, r, phase, signed, handler)
      /\ handler \in [Signer -> [Client -> Handlers]] /\ s # None /\ LedgerTypeOK
  BY DriveTypes, NobodyAssumption DEF TxidInv, DrivesFit, DriveInv, TypeOK, LedgerTypeOK
<1>2. ASSUME NEW n \in Drives, drive' = [drive EXCEPT ![d] = n], n.step = r.step, n.body = r.body,
             Fits(d, n, phase, signed, handler'), UNCHANGED <<phase, landed, signed, sent, rowTxid>>,
             \A t \in Signer, e \in Client :
                handler'[t][e] = handler[t][e] \/ handler'[t][e].stage = "idle" \/ e = d,
             HandlersSigned'
      PROVE  TxidInv'
  <2>1. drive'[d] = n /\ \A e \in Client : e # d => drive'[e] = drive[e]
    BY <1>1, <1>2, DriveUpdate
  <2>2. DrivesFit'
    <3>. SUFFICES ASSUME NEW e \in Client PROVE Fits(e, drive'[e], phase', signed', handler')
      BY DEF DrivesFit
    <3>1. CASE e = d
      BY <1>2, <2>1, <3>1
    <3>2. CASE e # d
      BY <1>2, <2>1, <3>2 DEF TxidInv, DrivesFit, Fits
    <3>. QED BY <3>1, <3>2
  <2>3. \A b \in Body : IsOut(b)' => IsOut(b)
    BY <1>2, <2>1 DEF IsOut
  <2>4. OutIsRecorded'
    BY <1>2, <2>3 DEF TxidInv, OutIsRecorded, SignedBy, Gone
  <2>. QED BY <1>2, <2>2, <2>4 DEF TxidInv
<1>3. CASE Ask(d, s)
  <2>. DEFINE n == [r EXCEPT !.asked = s, !.todo = @ \ {s}]
              h == [stage |-> "read", body |-> r.body, prev |-> None]
  <2>1. n \in Drives /\ drive' = [drive EXCEPT ![d] = n] /\ r.step = "approve" /\ r.body \in Body
    BY <1>1, <1>3, DriveTypes DEF Ask, Drives
  <2>2. SetHandler(s, d, h) /\ h \in Handlers
    BY <1>3, <2>1 DEF Ask, Receive, Handlers, Stage
  <2>3. /\ handler'[s][d] = h
        /\ \A t \in Signer, e \in Client : <<t, e>> # <<s, d>> => handler'[t][e] = handler[t][e]
    BY <1>1, <2>2, SetHandlerEffect
  <2>4. UNCHANGED <<phase, landed, signed, sent, rowTxid>>
    BY <1>3 DEF Ask, Receive
  <2>5. HandlersSigned'
    BY <2>3, <2>4 DEF TxidInv, HandlersSigned
  <2>6. Fits(d, n, phase, signed, handler')
    <3>1. n.asked = s /\ n.step = r.step /\ n.body = r.body /\ n.approvals = r.approvals
      BY <1>1 DEF Drives
    <3>. HIDE DEF n
    <3>. QED BY <1>1, <2>1, <2>3, <3>1 DEF Fits
  <2>7. n.step = r.step /\ n.body = r.body
    BY <1>1 DEF Drives
  <2>. HIDE DEF n
  <2>8. \A t \in Signer, e \in Client :
           handler'[t][e] = handler[t][e] \/ handler'[t][e].stage = "idle" \/ e = d
    BY <2>3
  <2>. QED BY <1>2, <2>1, <2>4, <2>5, <2>6, <2>7, <2>8
<1>4. CASE Answer(d, s)
  <2>. DEFINE m == [r EXCEPT !.asked = None, !.approvals = @ \cup {s}]
              n == [r EXCEPT !.asked = None]
  <2>1. /\ m \in Drives /\ n \in Drives /\ r.asked = s /\ r.step = "approve" /\ r.approvals \subseteq Signer
        /\ m.step = r.step /\ m.body = r.body /\ n.step = r.step /\ n.body = r.body
        /\ m.asked = None /\ n.asked = None /\ m.approvals = r.approvals \cup {s} /\ n.approvals = r.approvals
    BY <1>1, <1>4 DEF Answer, Drives, Fits
  <2>2. CASE Respond(s, d) /\ drive' = [drive EXCEPT ![d] = m]
    <3>1. handler[s][d].stage = "signed" /\ UNCHANGED <<phase, landed, signed, sent, rowTxid>>
      BY <1>4, <2>2 DEF Respond, Answer
    <3>2. r.body \in signed[s]
      BY <1>1, <2>1, <3>1 DEF TxidInv, HandlersSigned, Fits
    <3>3. Fits(d, m, phase, signed, handler')
      BY <1>1, <2>1, <3>2, NobodyAssumption DEF Fits
    <3>4. HandlersSigned'
      BY <1>1, <2>2, HandlerEffect DEF TxidInv
    <3>5. \A t \in Signer, e \in Client :
             handler'[t][e] = handler[t][e] \/ handler'[t][e].stage = "idle" \/ e = d
      BY <1>1, <2>2, SetHandlerEffect, IdleType DEF Respond, Idle
    <3>. HIDE DEF m
    <3>. QED BY <1>2, <2>1, <2>2, <3>1, <3>3, <3>4, <3>5
  <2>3. CASE UNCHANGED ledgerVars /\ drive' = [drive EXCEPT ![d] = n]
    <3>1. UNCHANGED <<phase, landed, signed, handler, sent, rowTxid>>
      BY <1>4, <2>3 DEF Answer, ledgerVars
    <3>2. Fits(d, n, phase, signed, handler')
      BY <1>1, <2>1, <3>1, NobodyAssumption DEF Fits
    <3>3. HandlersSigned'
      BY <3>1 DEF TxidInv, HandlersSigned
    <3>. HIDE DEF n
    <3>. QED BY <1>2, <2>1, <2>3, <3>1, <3>2, <3>3
  <2>. QED BY <1>1, <1>4, <2>2, <2>3 DEF Answer, Drives
<1>. QED BY <1>3, <1>4

\* The id that is persisted replaces only ids of bodies that are Gone: two
\* live bodies cannot both have a quorum.
LEMMA PersistKeepsTxid ==
    ASSUME LedgerInv, DriveInv, TxidInv, NEW d \in Client, PersistTxid(d)
    PROVE  TxidInv'
<1>. DEFINE r == drive[d]
            n == [r EXCEPT !.step = "send"]
<1>1. /\ r \in Drives /\ drive \in [Client -> Drives] /\ Fits(d, r, phase, signed, handler)
      /\ r.approvals \subseteq Signer /\ r.step = "approve" /\ r.asked = None /\ IsMet(d)
  BY DriveTypes DEF TxidInv, DrivesFit, PersistTxid
<1>b. PICK b \in Body : b = r.body
  BY <1>1, DriveTypes
<1>2. /\ n \in Drives /\ n.step = "send" /\ n.body = b /\ n.asked = None /\ n.approvals = r.approvals
      /\ drive' = [drive EXCEPT ![d] = n] /\ rowTxid' = b
      /\ UNCHANGED <<phase, landed, signed, handler, sent>>
  BY <1>1, <1>b DEF PersistTxid, Drives, Step, ledgerVars
<1>. HIDE DEF n
<1>3. drive'[d] = n /\ \A e \in Client : e # d => drive'[e] = drive[e]
  BY <1>1, <1>2, DriveUpdate
<1>4. Fits(d, n, phase, signed, handler)
  BY <1>1, <1>2, <1>b, NobodyAssumption DEF Fits, IsMet
<1>5. DrivesFit' /\ HandlersSigned'
  BY <1>2, <1>3, <1>4 DEF TxidInv, DrivesFit, HandlersSigned
<1>6. IsQuorum(SignedBy(b)) /\ ~Gone(b)
  <2>1. IsQuorum(r.approvals) /\ r.approvals \subseteq SignedBy(b) /\ SignedBy(b) \subseteq Signer
    BY <1>1, <1>b DEF IsQuorum, IsMet, Fits, SignedBy
  <2>2. phase[b] \in {Fresh, Closing}
    BY <1>1, <1>b DEF Fits
  <2>. QED BY <2>1, <2>2, QuorumGrows DEF Gone, Dead, Fresh, Closing
<1>7. \A x \in Body : IsOut(x)' => IsOut(x) \/ x = b
  BY <1>2, <1>3 DEF IsOut
<1>8. \A x \in Body : IsOut(x) => IsQuorum(SignedBy(x))
  BY DEF TxidInv, OutIsRecorded
<1>9. \A x \in Body : IsOut(x)' => IsQuorum(SignedBy(x)) /\ (~Gone(x) => x = b)
  BY <1>6, <1>7, <1>8, OneQuorumLives
<1>10. OutIsRecorded'
  BY <1>2, <1>9 DEF TxidInv, OutIsRecorded, SignedBy, Gone
<1>. QED BY <1>5, <1>10 DEF TxidInv

\* The row's final txid patch writes the id it already has.
LEMMA DeliverKeepsTxid ==
    ASSUME DriveInv, TxidInv, NEW d \in Client, Deliver(d)
    PROVE  TxidInv'
<1>1. drive' = [drive EXCEPT ![d] = NoDrive] /\ UNCHANGED <<ledgerVars, sent>>
  BY DEF Deliver
<1>2. Fits(d, NoDrive, phase, signed, handler) /\ NoDrive.step = "idle"
  BY NobodyAssumption DEF Fits, NoDrive
<1>3. rowTxid' = rowTxid
  <2>1. CASE drive[d].step = "ok"
    <3>1. drive[d].body \in landed /\ landed \subseteq sent /\ sent \subseteq Body
      BY <2>1 DEF DriveInv, TxidInv, OutIsRecorded, TypeOK
    <3>2. rowTxid = drive[d].body
      BY <3>1 DEF TxidInv, OutIsRecorded, IsOut, Gone
    <3>. QED BY <2>1, <3>2 DEF Deliver
  <2>2. CASE drive[d].step # "ok"
    BY <2>2 DEF Deliver
  <2>. QED BY <2>1, <2>2
<1>. QED BY <1>1, <1>2, <1>3, NoDriveType, OneDriveFits

LEMMA SendKeepsTxid ==
    ASSUME DriveInv, TxidInv, NEW d \in Client, Send(d)
    PROVE  TxidInv'
<1>. DEFINE r == drive[d]
            n == [r EXCEPT !.step = "poll"]
<1>1. /\ r \in Drives /\ drive \in [Client -> Drives] /\ Fits(d, r, phase, signed, handler)
      /\ r.step = "send"
  BY DriveTypes DEF TxidInv, DrivesFit, Send
<1>2. /\ n \in Drives /\ n.step = "poll" /\ n.body = r.body /\ n.asked = r.asked /\ n.approvals = r.approvals
      /\ drive' = [drive EXCEPT ![d] = n] /\ sent \subseteq sent' /\ sent' \subseteq sent \cup {r.body}
      /\ UNCHANGED <<phase, landed, signed, handler, rowTxid>>
  BY <1>1 DEF Send, Drives, Step, ledgerVars
<1>. HIDE DEF n
<1>3. drive'[d] = n /\ \A e \in Client : e # d => drive'[e] = drive[e]
  BY <1>1, <1>2, DriveUpdate
<1>4. Fits(d, n, phase, signed, handler)
  BY <1>1, <1>2 DEF Fits
<1>5. DrivesFit' /\ HandlersSigned'
  BY <1>2, <1>3, <1>4 DEF TxidInv, DrivesFit, HandlersSigned
<1>6. \A x \in Body : IsOut(x)' => IsOut(x)
  BY <1>1, <1>2, <1>3 DEF IsOut
<1>7. OutIsRecorded'
  BY <1>2, <1>6 DEF TxidInv, OutIsRecorded, SignedBy, Gone
<1>. QED BY <1>5, <1>7 DEF TxidInv

\* Time does not take a body past its deadline while a round uses it.
LEMMA TickKeepsTxid ==
    ASSUME TimelyRounds, DriveInv, TxidInv, NEW b \in Body, Tick(b)
    PROVE  TxidInv'
<1>1. /\ phase \in [Body -> Unbuilt..Dead] /\ phase[b] \in Fresh..Expired
      /\ phase' = [phase EXCEPT ![b] = phase[b] + 1]
      /\ InRound(b) => phase[b] # Closing
      /\ UNCHANGED <<landed, signed, handler, drive, sent, rowTxid>>
  BY DEF Tick, Age, coordVars, DriveInv, TypeOK, LedgerTypeOK
<1>2. DrivesFit'
  <2>. SUFFICES ASSUME NEW e \in Client PROVE Fits(e, drive[e], phase', signed, handler)
    BY <1>1 DEF DrivesFit
  <2>1. Fits(e, drive[e], phase, signed, handler)
    BY DEF TxidInv, DrivesFit
  <2>2. drive[e].step \in {"approve", "send", "poll"} => phase'[drive[e].body] \in {Fresh, Closing}
    <3>. SUFFICES ASSUME drive[e].step \in {"approve", "send", "poll"}
                  PROVE  phase'[drive[e].body] \in {Fresh, Closing}
      OBVIOUS
    <3>1. drive[e].body \in Body /\ phase[drive[e].body] \in {Fresh, Closing}
      BY <2>1, DriveTypes DEF Fits
    <3>2. drive[e].body = b => InRound(b)
      BY DEF InRound
    <3>. QED BY <1>1, <3>1, <3>2 DEF Fresh, Closing
  <2>. QED BY <2>1, <2>2 DEF Fits
<1>3. \A x \in Body : Gone(x) => Gone(x)'
  BY <1>1 DEF Gone, Dead, Fresh, Expired
<1>4. OutIsRecorded'
  BY <1>1, <1>3 DEF TxidInv, OutIsRecorded, IsOut, SignedBy
<1>5. HandlersSigned'
  BY <1>1 DEF TxidInv, HandlersSigned
<1>. QED BY <1>2, <1>4, <1>5 DEF TxidInv

LEMMA LandKeepsTxid ==
    ASSUME DriveInv, TxidInv, NEW b \in Body, LandSent(b)
    PROVE  TxidInv'
<1>1. /\ phase[b] \in {Fresh, Closing} /\ b \in sent /\ landed' = landed \cup {b}
      /\ UNCHANGED <<phase, signed, handler, drive, sent, rowTxid>>
  BY DEF LandSent, Land, coordVars
<1>2. \A x \in Body : Gone(x) => Gone(x)'
  BY <1>1 DEF Gone, Dead, Fresh, Closing
<1>3. OutIsRecorded'
  BY <1>1, <1>2 DEF TxidInv, OutIsRecorded, IsOut, SignedBy
<1>4. DrivesFit' /\ HandlersSigned'
  BY <1>1 DEF TxidInv, DrivesFit, HandlersSigned
<1>. QED BY <1>3, <1>4 DEF TxidInv

LEMMA SignerStepKeepsTxid ==
    ASSUME DriveInv, LedgerTypeOK', TxidInv, NEW s \in Signer,
           \/ \E d \in Client : SignerStep(s, d) \/ SignerFails(s, d) \/ AbandonedResponse(d, s)
           \/ SignerRestarts(s)
    PROVE  TxidInv'
<1>1. LedgerTypeOK /\ HandlersSigned /\ UNCHANGED <<drive, sent, rowTxid>>
  BY DEF DriveInv, TypeOK, TxidInv, SignerStep, SignerFails, AbandonedResponse, SignerRestarts, coordVars
<1>2. CASE \E d \in Client : SignerStep(s, d) \/ SignerFails(s, d) \/ AbandonedResponse(d, s)
  <2>1. PICK d \in Client : HandlerStep(s, d) \/ Respond(s, d) \/ HandlerFails(s, d)
    BY <1>2 DEF SignerStep, SignerFails, AbandonedResponse
  <2>2. /\ UNCHANGED <<phase, landed>> /\ HandlersSigned'
        /\ \A t \in Signer : signed[t] \subseteq signed'[t]
        /\ \A t \in Signer, e \in Client :
             \/ handler'[t][e].stage = "idle"
             \/ handler'[t][e].body = handler[t][e].body /\ handler[t][e].stage # "idle"
    BY <1>1, <2>1, HandlerEffect
  <2>. QED BY <1>1, <2>2, SignersKeepTxid
<1>3. CASE SignerRestarts(s)
  <2>1. UNCHANGED <<phase, landed, signed>> /\ handler' = [handler EXCEPT ![s] = [c \in Client |-> Idle]]
    BY <1>3 DEF SignerRestarts, SignerCrash
  <2>2. \A t \in Signer, e \in Client : handler'[t][e] = handler[t][e] \/ handler'[t][e].stage = "idle"
    BY <1>1, <2>1 DEF LedgerTypeOK, Idle
  <2>3. HandlersSigned'
    BY <1>1, <2>1, <2>2 DEF HandlersSigned
  <2>4. \A t \in Signer, e \in Client :
             \/ handler'[t][e].stage = "idle"
             \/ handler'[t][e].body = handler[t][e].body /\ handler[t][e].stage # "idle"
    BY <2>2
  <2>. QED BY <1>1, <2>1, <2>3, <2>4, SignersKeepTxid
<1>. QED BY <1>2, <1>3

LEMMA TxidStep ==
    ASSUME TimelyRounds, LedgerInv, DriveInv, DriveInv', TxidInv, [Next]_vars
    PROVE  TxidInv'
<1>1. LedgerTypeOK'
  BY DEF DriveInv, TypeOK
<1>2. ASSUME NEW d \in Client, Submit(d) \/ DriveStep(d) PROVE TxidInv'
  <2>1. CASE \E b \in Body : PinNew(d, b)
    BY <2>1, PinKeepsTxid
  <2>2. ASSUME NEW s \in Signer, Ask(d, s) \/ Answer(d, s) \/ AbandonedResponse(d, s) PROVE TxidInv'
    BY <1>1, <2>2, CallKeepsTxid, SignerStepKeepsTxid
  <2>3. CASE Deliver(d) \/ PersistTxid(d) \/ Send(d)
    BY <2>3, DeliverKeepsTxid, PersistKeepsTxid, SendKeepsTxid
  <2>4. CASE \/ Submit(d) \/ DropResult(d) \/ CheckExecuted(d) \/ UsePin(d) \/ BuildFails(d) \/ RoundFails(d)
             \/ (\E s \in Signer : AskFails(d, s) \/ AskTimesOut(d, s)) \/ PollConfirms(d) \/ PollTimesOut(d)
    BY <2>4, QuietDriveKeepsTxid
  <2>. QED BY <1>2, <2>1, <2>2, <2>3, <2>4 DEF DriveStep
<1>3. CASE StopWaiting \/ RecoverOrphan \/ UNCHANGED vars
  <2>1. UNCHANGED <<phase, landed, signed, handler, drive, sent, rowTxid>>
    BY <1>3 DEF StopWaiting, RecoverOrphan, vars, ledgerVars, coordVars
  <2>. QED BY <2>1 DEF TxidInv, DrivesFit, HandlersSigned, OutIsRecorded, IsOut, SignedBy, Gone
<1>4. CASE CoordinatorCrash
  <2>1. /\ UNCHANGED <<phase, landed, signed, handler, sent, rowTxid>>
        /\ \A d \in Client : drive'[d] = NoDrive
    BY <1>4 DEF CoordinatorCrash, ledgerVars
  <2>2. \A d \in Client : Fits(d, NoDrive, phase, signed, handler) /\ NoDrive.step = "idle"
    BY NobodyAssumption DEF Fits, NoDrive
  <2>3. \A b \in Body : IsOut(b)' => IsOut(b)
    BY <2>1, <2>2 DEF IsOut
  <2>4. DrivesFit'
    BY <2>1, <2>2 DEF DrivesFit
  <2>5. OutIsRecorded' /\ HandlersSigned'
    BY <2>1, <2>3 DEF TxidInv, HandlersSigned, OutIsRecorded, SignedBy, Gone
  <2>. QED BY <2>4, <2>5 DEF TxidInv
<1>5. CASE \E b \in Body : Tick(b) \/ LandSent(b)
  BY <1>5, TickKeepsTxid, LandKeepsTxid
<1>6. CASE \E s \in Signer : SignerRestarts(s) \/ \E d \in Client : SignerStep(s, d) \/ SignerFails(s, d)
  BY <1>1, <1>6, SignerStepKeepsTxid
<1>. QED BY <1>2, <1>3, <1>4, <1>5, <1>6 DEF Next

\* Whatever landed is found by the id in the row, so a drive that starts after
\* any crash or timeout sees that the release was paid: for every federation,
\* any number of overlapping drives, bodies and faults, provided a signing
\* round ends before the body it uses expires.
THEOREM PaidIsRecoverable ==
    ASSUME SignerLookupMayFail = FALSE, TimelyRounds
    PROVE  Spec => []RecoverableByTxid
<1>1. Init => TxidInv
  <2>. SUFFICES ASSUME Init PROVE TxidInv
    OBVIOUS
  <2>1. /\ landed = {} /\ sent = {} /\ \A d \in Client : drive[d] = NoDrive
        /\ \A s \in Signer, c \in Client : handler[s][c].stage = "idle"
    BY DEF Init, LedgerInit, Idle
  <2>2. \A d \in Client : Fits(d, NoDrive, phase, signed, handler) /\ NoDrive.step = "idle"
    BY NobodyAssumption DEF Fits, NoDrive
  <2>. QED BY <2>1, <2>2 DEF TxidInv, DrivesFit, HandlersSigned, OutIsRecorded, IsOut
<1>2. LedgerInv /\ DriveInv /\ DriveInv' /\ TxidInv /\ [Next]_vars => TxidInv'
  BY TxidStep
<1>3. DriveInv /\ TxidInv => RecoverableByTxid
  BY DEF DriveInv, TypeOK, TxidInv, OutIsRecorded, IsOut, Gone, RecoverableByTxid
<1>4. Spec => []LedgerInv
  BY ReleaseImplementsLedger, LedgerInvariance, PTL DEF ImplementsLedger
<1>. QED BY <1>1, <1>2, <1>3, <1>4, DriveInvariance, PTL DEF Spec
=============================================================================
