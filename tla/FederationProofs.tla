-------------------------- MODULE FederationProofs --------------------------
(***************************************************************************)
(* What the federation settles: that every operator reads its events with  *)
(* the same accounts and fees (Config), that a signer signs nothing but    *)
(* what its source event warrants (SourceCheck), and that a round that is  *)
(* broadcast has the keys and the action it needs (Federation).            *)
(***************************************************************************)
EXTENDS Federation, Config, Failover, FiniteSetTheorems, TLAPS

-----------------------------------------------------------------------------
(* The configuration.                                                      *)

(* A manifest that pins every account and contract and has fees leaves     *)
(* nothing that signers validate against to an operator's environment: no  *)
(* two of them can read one deposit or burn with different accounts or     *)
(* fees (loadConfig: the manifest before the environment).                 *)
THEOREM ConsensusAgrees ==
    ASSUME NEW env1, NEW env2, NEW fed,
           PinName \subseteq DOMAIN fed.pins, fed.hasFees
    PROVE  consensus(env1, fed) = consensus(env2, fed)
<1>1. ASSUME NEW name \in PinName
      PROVE  pinned(env1, fed, name) = pinned(env2, fed, name)
  BY <1>1 DEF pinned
<1>2. ASSUME NEW name \in FeeName
      PROVE  feeSetting(env1, fed, name) = feeSetting(env2, fed, name)
  BY <1>2 DEF feeSetting
<1> QED
  BY <1>1, <1>2 DEF consensus

(* An accepted configuration has a threshold between one and the number of *)
(* operators, and an operator for every seat, whether it comes from the    *)
(* manifest (parseManifest) or from FEDERATION_N and FEDERATION_THRESHOLD. *)
THEOREM FederationInRange ==
    ASSUME NEW env, NEW files, federationAccepted(env, files),
           opt(env, "FEDERATION_N", 1) \in Nat
    PROVE  LET fed == federation(env, files)
           IN  fed.threshold >= 1 /\ fed.threshold <= fed.n /\ Len(fed.operators) = fed.n
<1>1. CASE files # <<>>
  BY <1>1 DEF federationAccepted, parseManifest, federation
<1>2. CASE files = <<>>
  <2> DEFINE n == opt(env, "FEDERATION_N", 1)
             ops == [i \in 1..n |-> <<"op", i>>]
  <2>1. Len(ops) = n
    <3> HIDE DEF n
    <3> QED
      BY DEF n
  <2> HIDE DEF ops
  <2>2. /\ federation(env, files).n = n /\ federation(env, files).operators = ops
        /\ federation(env, files).threshold = opt(env, "FEDERATION_THRESHOLD", 1)
    BY <1>2 DEF federation, ops
  <2> QED
    BY <2>1, <2>2 DEF federationAccepted
<1> QED
  BY <1>1, <1>2

-----------------------------------------------------------------------------
(* What a signer signs.                                                    *)

(* The dispatcher gives a sweep and a refund the direction PEG_OUT and a   *)
(* return GRAM_RETURN; the validators of these children do not compare it. *)
ChildDirections == \A a \in Wire :
    /\ a.id.suffix \in {":fee", ":refund"} => a.direction # "GRAM_RETURN"
    /\ a.id.suffix = ":return" => a.direction # "PEG_OUT"

(* What validateAction accepts is one of the five payments its event       *)
(* warrants, whichever view the signer's node has and whatever hint came   *)
(* along: one lemma per validator.                                         *)
LEMMA PegInWarranted ==
    ASSUME NEW a \in Wire, NEW view, NEW hint, validatePegIn(a, view, hint)
    PROVE  a \in Warranted
<1>1. /\ a.id.event \in Deposit /\ deposit(a.id.event).destinationValid
      /\ canonicalPegIn(a.id.event) = a
  BY DEF validatePegIn, getDeposit, assertSameAction
<1> QED
  BY <1>1, Zenon DEF Warranted, Mint

LEMMA SweepWarranted ==
    ASSUME NEW a \in Wire, NEW view, NEW hint, ChildDirections, a.direction # "PEG_IN",
           a.id.suffix = ":fee", validateFeeSweep(a, view, hint)
    PROVE  a \in Warranted
<1> DEFINE d == a.id.event
<1>1. /\ d \in Deposit /\ a.id = Id(d, ":fee")
      /\ a.remoteChain = chainFor(Fact[d].to) /\ a.recipient = FeesGate
      /\ a.digest = bind(Mint(d).digest, ":fee") /\ a.amount = BaseFee[d]
  BY DEF validateFeeSweep, reReadParentPegIn, getDeposit, deposit, Mint
<1>2. a.direction = "PEG_OUT"
  BY WireAssumption DEF ChildDirections
<1>3. a = [direction |-> a.direction, id |-> a.id, remoteChain |-> a.remoteChain,
           recipient |-> a.recipient, amount |-> a.amount, digest |-> a.digest]
  BY WireAssumption
<1>4. a = Sweep(d)
  BY <1>1, <1>2, <1>3 DEF Sweep
<1> QED
  BY <1>1, <1>4, Zenon DEF Warranted

LEMMA RefundWarranted ==
    ASSUME NEW a \in Wire, NEW view, NEW hint, ChildDirections, a.direction # "PEG_IN",
           a.id.suffix = ":refund", validateRefund(a, view, hint)
    PROVE  a \in Warranted
<1> DEFINE d == a.id.event
<1>1. /\ d \in Deposit /\ a.id = Id(d, ":refund")
      /\ a.remoteChain = chainFor(Fact[d].to) /\ a.recipient = Fact[d].from
      /\ a.digest = bind(Mint(d).digest, ":refund") /\ a.amount = Fact[d].amount - RefundFee
      /\ Fact[d].amount - RefundFee > 0
  BY DEF validateRefund, reReadParentPegIn, getDeposit, deposit, Mint
<1>2. a.direction = "PEG_OUT"
  BY WireAssumption DEF ChildDirections
<1>3. a = [direction |-> a.direction, id |-> a.id, remoteChain |-> a.remoteChain,
           recipient |-> a.recipient, amount |-> a.amount, digest |-> a.digest]
  BY WireAssumption
<1>4. a = Refund(d)
  BY <1>1, <1>2, <1>3 DEF Refund
<1>5. Fact[d].amount > RefundFee
  BY <1>1, AmountsAssumption
<1> QED
  BY <1>1, <1>4, <1>5, Zenon DEF Warranted

LEMMA ReturnWarranted ==
    ASSUME NEW a \in Wire, NEW view, ChildDirections, a.direction # "PEG_IN",
           a.id.suffix = ":return", validateGramReturn(a, view)
    PROVE  a \in Warranted
<1> DEFINE b == a.id.event
<1>1. /\ b \in Burn /\ Fact[b].chain = "GRAM" /\ ~a.id.padded
      /\ a.remoteChain = Fact[b].chain /\ a.recipient = Fact[b].from
      /\ a.digest = bind(canonicalPegOut(b).digest, ":return") /\ a.amount = Fact[b].amount - RefundFee
      /\ Fact[b].amount - RefundFee > 0
  BY DEF validateGramReturn, getBurn
<1>2. a.direction = "GRAM_RETURN"
  BY WireAssumption DEF ChildDirections
<1>3. a = [direction |-> a.direction, id |-> a.id, remoteChain |-> a.remoteChain,
           recipient |-> a.recipient, amount |-> a.amount, digest |-> a.digest]
  BY WireAssumption
<1>4. a.id = Id(b, ":return")
  BY <1>1, WireAssumption DEF Id
<1>5. a = Return(b)
  BY <1>1, <1>2, <1>3, <1>4 DEF Return
<1>6. Fact[b].amount > RefundFee
  BY <1>1, AmountsAssumption
<1> QED
  BY <1>1, <1>5, <1>6, Zenon DEF Warranted

LEMMA SolanaPegOutWarranted ==
    ASSUME NEW a \in Wire, NEW view, a.id.suffix = "", ~a.id.padded, validateSolanaPegOut(a, view)
    PROVE  a \in Warranted
<1> DEFINE b == a.id.event
<1>1. /\ b \in Burn /\ Fact[b].home = a.recipient
      /\ [canonicalPegOut(b) EXCEPT !.id = a.id, !.recipient = a.recipient] = a
  BY DEF validateSolanaPegOut, getDepositTransfer, assertSameAction
<1>2. a.id = Id(b, "")
  BY WireAssumption DEF Id
<1>3. a = canonicalPegOut(b)
  BY <1>1, <1>2 DEF canonicalPegOut
<1> QED
  BY <1>1, <1>3, Zenon DEF Warranted

LEMMA TonPegOutWarranted ==
    ASSUME NEW a \in Wire, NEW view, validateTonPegOut(a, view)
    PROVE  a \in Warranted
<1>1. a.id.event \in Burn /\ canonicalPegOut(a.id.event) = a
  BY DEF validateTonPegOut, getBurn, assertSameAction
<1> QED
  BY <1>1, Zenon DEF Warranted

(* No signer, whatever its nodes show and whatever block hint it is given, *)
(* accepts an action that is not, in every field, a payment its source     *)
(* event warrants (validateAction, sourceValidator.ts).                    *)
THEOREM SignsOnlyWarranted ==
    ASSUME NEW a \in Wire, NEW view, NEW hint, ChildDirections, validateAction(a, view, hint)
    PROVE  a \in Warranted
BY PegInWarranted, SweepWarranted, RefundWarranted, ReturnWarranted, SolanaPegOutWarranted,
   TonPegOutWarranted DEF validateAction

-----------------------------------------------------------------------------
(* A round.                                                                *)

(* An approval is in the name of a signer that signed, and an approved     *)
(* action passed a signer's validation; a round is over the threshold when *)
(* it is broadcast.                                                        *)
RoundInv ==
    /\ round = [pc |-> round.pc, action |-> round.action, roster |-> round.roster,
                approved |-> round.approved, signed |-> round.signed]
    /\ IsFiniteSet(round.signed)
    /\ round.approved \subseteq {Claim[b] : b \in round.signed}
    /\ round.pc # "idle" => round.action \in Wire
    /\ round.pc = "broadcast" => isMet(round.approved)
    /\ round.approved # {} => \E view, hint : validateAction(round.action, view, hint)

(* No round is met without an approval.                                    *)
LEMMA ThresholdIsPositive == Threshold \in Int /\ Threshold >= 1
<1>1. Len(Manifest) \in Nat
  BY FederationAssumption
<1> QED
  BY <1>1, FederationAssumption

(* Ask: whoever answers has signed before it is counted, and only after    *)
(* its own validation.                                                     *)
LEMMA AskPreserves ==
    ASSUME RoundInv, Ask
    PROVE  RoundInv'
<1> DEFINE next(approved, signed) ==
        [round EXCEPT !.roster = Tail(@), !.approved = approved, !.signed = signed,
                      !.pc = IF isMet(approved) THEN "broadcast" ELSE "ask"]
<1>0. round.pc = "ask" /\ round.action \in Wire
  BY DEF Ask, RoundInv
<1>1. ASSUME NEW approved, NEW signed, round' = next(approved, signed),
             IsFiniteSet(signed), approved \subseteq {Claim[b] : b \in signed},
             approved # {} => \E view, hint : validateAction(round.action, view, hint)
      PROVE  RoundInv'
  <2>1. round' = [pc |-> IF isMet(approved) THEN "broadcast" ELSE "ask", action |-> round.action,
                  roster |-> Tail(round.roster), approved |-> approved, signed |-> signed]
    BY <1>1 DEF RoundInv
  <2> QED
    BY <1>0, <1>1, <2>1 DEF RoundInv, isMet
<1>2. CASE round' = next(round.approved, round.signed)
  BY <1>1, <1>2 DEF RoundInv
<1>3. ASSUME NEW b \in Box, NEW view, NEW hint, validateAction(round.action, view, hint),
             NEW asked,
             \/ round' = next(Count(asked, b), round.signed \cup {b})
             \/ round' = next(round.approved, round.signed \cup {b})
      PROVE  RoundInv'
  <2>1. IsFiniteSet(round.signed \cup {b})
    BY FS_AddElement DEF RoundInv
  <2>2. Count(asked, b) \subseteq {Claim[c] : c \in round.signed \cup {b}}
    BY DEF Count, RoundInv
  <2>3. round.approved \subseteq {Claim[c] : c \in round.signed \cup {b}}
    BY DEF RoundInv
  <2> QED
    BY <1>1, <1>3, <2>1, <2>2, <2>3
<1> QED
  BY <1>2, <1>3 DEF Ask

(* Only Submit, Ask, EndRound and a restart of the coordinator touch the   *)
(* round.                                                                  *)
THEOREM RoundInvariant == Spec => []RoundInv
<1>1. Init => RoundInv
  BY FS_EmptySet DEF Init, RoundInv, NoRound
<1>2. ASSUME RoundInv, [Next]_vars PROVE RoundInv'
  <2>1. CASE round' = round
    BY <1>2, <2>1 DEF RoundInv, isMet
  <2>2. CASE round' = NoRound
    BY <2>2, FS_EmptySet DEF RoundInv, NoRound
  <2>3. ASSUME NEW a \in Wire, Submit(a) PROVE RoundInv'
    BY <2>3, FS_EmptySet DEF RoundInv, NoRound, Submit
  <2>4. CASE Ask
    BY <1>2, <2>4, AskPreserves
  <2> QED
    BY <1>2, <2>1, <2>2, <2>3, <2>4
       DEF Next, vars, Boot, Stop, Challenge, Abandon, register, Lose, ExpireNonce, ExpireLease,
           CoordinatorRestart, EndRound
<1> QED
  BY <1>1, <1>2, PTL DEF Spec

(* What is broadcast is, in every field, a payment its source event        *)
(* warrants, whoever was asked and whatever was submitted, provided the    *)
(* children carry the direction the dispatcher gives them.                 *)
THEOREM BroadcastIsWarranted ==
    ASSUME ChildDirections
    PROVE  Spec => []OnlyWarranted
<1>1. ASSUME RoundInv PROVE OnlyWarranted
  <2> SUFFICES ASSUME round.pc = "broadcast" PROVE round.action \in Warranted
    BY DEF OnlyWarranted
  <2>1. round.approved # {}
    BY <1>1, ThresholdIsPositive, FS_EmptySet DEF RoundInv, isMet
  <2> QED
    BY <1>1, <2>1, SignsOnlyWarranted DEF RoundInv
<1> QED
  BY <1>1, RoundInvariant, PTL

(* What is broadcast was signed by at least as many boxes, each with a key *)
(* of its own, as the threshold asks for, although a registration may be   *)
(* stale and two of them may name one URL (ApprovalSet.add, collect).      *)
THEOREM BroadcastHasThresholdKeys == Spec => []ThresholdIsKeys
<1>1. ASSUME RoundInv PROVE ThresholdIsKeys
  <2> DEFINE S == {b \in round.signed : Claim[b] \in round.approved}
             f == [b \in S |-> Claim[b]]
  <2> SUFFICES ASSUME round.pc = "broadcast" PROVE Cardinality(S) >= Threshold
    BY DEF ThresholdIsKeys
  <2>1. IsFiniteSet(S)
    BY <1>1, FS_Subset DEF RoundInv
  <2>2. f \in Surjection(S, round.approved)
    BY <1>1 DEF RoundInv, Surjection
  <2>3. IsFiniteSet(round.approved) /\ Cardinality(round.approved) <= Cardinality(S)
    BY <2>1, <2>2, FS_Surjection
  <2>4. Cardinality(S) \in Nat /\ Cardinality(round.approved) \in Nat
    BY <2>1, <2>3, FS_CardinalityType
  <2>5. Cardinality(round.approved) >= Threshold
    BY <1>1 DEF RoundInv, isMet
  <2> HIDE DEF S
  <2> QED
    BY <2>3, <2>4, <2>5, ThresholdIsPositive
<1> QED
  BY <1>1, RoundInvariant, PTL

-----------------------------------------------------------------------------
(***************************************************************************)
(* The endpoints behind one chain instance (Failover).                     *)
(***************************************************************************)

Settings == Parameters /\ ~Overlap /\ N <= Attempts

(* Going back k steps from the index, and forward by one.                  *)
LEMMA RingIsMet ==
    ASSUME N \in Nat \ {0}, idx \in Endpoint, NEW e \in Endpoint, e # idx
    PROVE  \E k \in 1..(N - 1) : Before(k) = e
<1> DEFINE k == IF e < idx THEN idx - e ELSE idx - e + N
<1>1. k \in 1..(N - 1)
  BY DEF Endpoint
<1>2. Before(k) = e
  BY DEF Before, Endpoint
<1> QED
  BY <1>1, <1>2

LEMMA RotateShifts ==
    ASSUME N \in Nat \ {0}, idx \in Endpoint, idx' = rotate(idx),
           NEW k \in Nat \ {0}, k < N
    PROVE  Before(k)' = IF k = 1 THEN idx ELSE Before(k - 1)
BY DEF Before, Endpoint, rotate

LEMMA RotateInRing ==
    ASSUME N \in Nat \ {0}, idx \in Endpoint
    PROVE  rotate(idx) \in Endpoint
BY DEF Endpoint, rotate

-----------------------------------------------------------------------------

(* A call as OnePass describes it.                                         *)
Sound(c) ==
    /\ call[c].pc = "trying" =>
         /\ call[c].attempt >= 1 /\ call[c].at = idx
         /\ \A k \in 1..(call[c].attempt - 1) : k < N => Before(k) \in call[c].met
    /\ call[c].pc = "waiting" =>
         /\ call[c].attempt < Attempts
         /\ \A k \in 1..call[c].attempt : k < N => Before(k) \in call[c].met
    /\ call[c].pc = "failed" => call[c].met = Endpoint

CallType == [pc : {"idle", "trying", "waiting", "refused", "failed"},
             attempt : 0..Attempts, at : Endpoint, met : SUBSET Endpoint]

LEMMA OnePassIsSound ==
    OnePass <=> /\ idx \in Endpoint
                /\ call \in [Call -> CallType]
                /\ \A c, d \in Call : Active(c) /\ Active(d) => c = d
                /\ \A c \in Call : Sound(c)
BY DEF OnePass, Sound, CallType, GivesUpAfterAll

(* The step of one call: what it must establish about itself, the others   *)
(* being idle or done.                                                     *)
LEMMA OneCallMoves ==
    ASSUME OnePass, NEW c \in Call, NEW r \in CallType,
           call' = [call EXCEPT ![c] = r],
           idx' \in Endpoint,
           \A d \in Call : d # c => ~Active(d),
           Sound(c)'
    PROVE  OnePass'
<1>1. call' \in [Call -> CallType]
  BY DEF OnePass, CallType
<1>2. ASSUME NEW d \in Call, d # c
      PROVE  Sound(d)' /\ ~Active(d)'
  <2>1. call'[d] = call[d]
    BY <1>2 DEF OnePass
  <2>2. call[d].pc # "trying" /\ call[d].pc # "waiting"
    BY <1>2 DEF Active
  <2>3. call[d].pc = "failed" => call[d].met = Endpoint
    BY <1>2 DEF OnePass, GivesUpAfterAll
  <2>4. Endpoint' = Endpoint
    BY DEF Endpoint
  <2> QED
    BY <2>1, <2>2, <2>3, <2>4 DEF Sound, Active
<1>3. \A d \in Call : Sound(d)'
  BY <1>2
<1>4. \A d, e \in Call : Active(d)' /\ Active(e)' => d = e
  BY <1>2
<1>5. idx' \in Endpoint' /\ call' \in [Call -> CallType']
  BY <1>1 DEF Endpoint, CallType
<1> QED
  <2>1. /\ idx' \in Endpoint'
        /\ call' \in [Call -> CallType']
        /\ \A d, e \in Call : Active(d)' /\ Active(e)' => d = e
        /\ \A d \in Call : Sound(d)'
    BY <1>3, <1>4, <1>5
  <2> QED
    BY <2>1 DEF OnePass, Sound, CallType, GivesUpAfterAll

(* One attempt after the other: every step keeps to the ring.              *)
LEMMA StepKeepsOnePass ==
    ASSUME Settings, OnePass, NEW c \in Call,
           Start(c) \/ Answer(c) \/ Refuse(c) \/ Transient(c) \/ Retry(c)
    PROVE  OnePass'
<1> USE DEF Settings, Parameters
<1>0. /\ idx \in Endpoint /\ N \in Nat \ {0} /\ Attempts \in Nat \ {0}
      /\ call[c] \in CallType /\ call \in [Call -> CallType] /\ Sound(c)
      /\ Endpoint' = Endpoint
  BY OnePassIsSound DEF Endpoint
<1>a. Active(c) => \A d \in Call : d # c => ~Active(d)
  BY DEF OnePass
<1>1. CASE Start(c)
  <2> DEFINE r == [pc |-> "trying", attempt |-> 1, at |-> idx, met |-> {}]
  <2>1. r \in CallType /\ call' = [call EXCEPT ![c] = r] /\ idx' = idx
    BY <1>0, <1>1 DEF Start, CallType
  <2>2. \A d \in Call : d # c => ~Active(d)
    BY <1>1 DEF Start
  <2>3. Sound(c)'
    BY <1>0, <2>1 DEF Sound
  <2> QED
    BY <1>0, <2>1, <2>2, <2>3, OneCallMoves
<1>2. CASE Answer(c)
  <2>1. NoCall \in CallType /\ call' = [call EXCEPT ![c] = NoCall] /\ idx' = idx
    BY <1>0, <1>2 DEF Answer, CallType, NoCall, Endpoint
  <2>2. \A d \in Call : d # c => ~Active(d)
    BY <1>2, <1>a DEF Answer, Active
  <2>3. Sound(c)'
    BY <1>0, <2>1 DEF Sound, NoCall
  <2> QED
    BY <1>0, <2>1, <2>2, <2>3, OneCallMoves
<1>3. CASE Refuse(c)
  <2> DEFINE r == [call[c] EXCEPT !.pc = "refused"]
  <2>1. r \in CallType /\ call' = [call EXCEPT ![c] = r] /\ idx' = idx
    BY <1>0, <1>3 DEF Refuse, CallType
  <2>2. \A d \in Call : d # c => ~Active(d)
    BY <1>3, <1>a DEF Refuse, Active
  <2>3. call'[c].pc = "refused"
    BY <1>0, <2>1 DEF CallType
  <2>4. Sound(c)'
    BY <2>3 DEF Sound
  <2> QED
    BY <1>0, <2>1, <2>2, <2>4, OneCallMoves
<1>4. CASE Transient(c) /\ call[c].attempt = Attempts
  <2> DEFINE r == [call[c] EXCEPT !.pc = "failed", !.met = @ \cup {call[c].at}]
  <2>1. r \in CallType /\ call' = [call EXCEPT ![c] = r] /\ idx' = idx
    BY <1>0, <1>4 DEF Transient, CallType
  <2>2. \A d \in Call : d # c => ~Active(d)
    BY <1>4, <1>a DEF Transient, Active
  <2>3. call'[c].pc = "failed" /\ call'[c].met = call[c].met \cup {idx}
    BY <1>0, <1>4, <2>1 DEF CallType, Sound, Transient
  <2>4. \A k \in 1..(N - 1) : Before(k) \in call[c].met
    <3> TAKE k \in 1..(N - 1)
    <3>1. k \in 1..(call[c].attempt - 1) /\ k < N
      BY <1>0, <1>4
    <3> QED
      BY <1>0, <1>4, <3>1 DEF Sound, Transient
  <2>5. Endpoint \subseteq call[c].met \cup {idx}
    BY <1>0, <2>4, RingIsMet
  <2>6. call'[c].met = Endpoint
    BY <1>0, <2>3, <2>5 DEF CallType
  <2>7. Sound(c)'
    BY <1>0, <2>3, <2>6 DEF Sound
  <2> QED
    BY <1>0, <2>1, <2>2, <2>7, OneCallMoves
<1>5. CASE Transient(c) /\ call[c].attempt # Attempts
  <2> DEFINE r == [call[c] EXCEPT !.pc = "waiting", !.met = @ \cup {call[c].at}]
  <2>1. r \in CallType /\ call' = [call EXCEPT ![c] = r] /\ idx' = rotate(idx)
    BY <1>0, <1>5 DEF Transient, CallType
  <2>2. \A d \in Call : d # c => ~Active(d)
    BY <1>5, <1>a DEF Transient, Active
  <2>3. /\ call'[c].pc = "waiting" /\ call'[c].met = call[c].met \cup {idx}
        /\ call'[c].attempt = call[c].attempt /\ call[c].attempt < Attempts
    BY <1>0, <1>5, <2>1 DEF CallType, Sound, Transient
  <2>4. ASSUME NEW k \in 1..call[c].attempt, k < N
        PROVE  Before(k)' \in call'[c].met
    <3>1. k \in Nat \ {0} /\ call[c].attempt \in Nat
      BY <1>0, <2>4 DEF CallType
    <3>2. Before(k)' = IF k = 1 THEN idx ELSE Before(k - 1)
      BY <1>0, <2>1, <2>4, <3>1, RotateShifts
    <3>3. CASE k = 1
      BY <2>3, <3>2, <3>3
    <3>4. CASE k # 1
      <4>1. k - 1 \in 1..(call[c].attempt - 1) /\ k - 1 < N
        BY <1>0, <2>4, <3>1, <3>4
      <4>2. Before(k - 1) \in call[c].met
        BY <1>0, <1>5, <4>1 DEF Sound, Transient
      <4> QED
        BY <2>3, <3>2, <3>4, <4>2
    <3> QED
      BY <3>3, <3>4
  <2>5. Sound(c)'
    BY <2>3, <2>4 DEF Sound
  <2> QED
    BY <1>0, <2>1, <2>2, <2>5, OneCallMoves, RotateInRing
<1>6. CASE Retry(c)
  <2> DEFINE r == [pc |-> "trying", attempt |-> call[c].attempt + 1, at |-> idx, met |-> call[c].met]
  <2>1. r \in CallType /\ call' = [call EXCEPT ![c] = r] /\ idx' = idx
    BY <1>0, <1>6 DEF Retry, CallType, Sound
  <2>2. \A d \in Call : d # c => ~Active(d)
    BY <1>6, <1>a DEF Retry, Active
  <2>3. /\ call'[c].pc = "trying" /\ call'[c].at = idx /\ call'[c].met = call[c].met
        /\ call'[c].attempt = call[c].attempt + 1 /\ call[c].attempt \in Nat
    BY <1>0, <1>6, <2>1 DEF CallType
  <2>4. \A k \in 1..call[c].attempt : k < N => Before(k) \in call[c].met
    BY <1>0, <1>6 DEF Retry, Sound
  <2>5. \A k \in 1..(call'[c].attempt - 1) : k < N => Before(k)' \in call'[c].met
    BY <2>1, <2>3, <2>4 DEF Before
  <2>6. call'[c].attempt >= 1 /\ call'[c].at = idx'
    BY <2>1, <2>3
  <2>7. Sound(c)'
    BY <2>3, <2>5, <2>6 DEF Sound
  <2> QED
    BY <1>0, <2>1, <2>2, <2>7, OneCallMoves
<1> QED
  BY <1>1, <1>2, <1>3, <1>4, <1>5, <1>6

-----------------------------------------------------------------------------

(* With calls that do not overlap and an attempt for every endpoint, a     *)
(* read over the list (VizJsChain.call, GramHttpChain.tonCall) is thrown   *)
(* for a transport error only after every endpoint failed it.              *)
THEOREM OnePassThroughTheRing ==
    ASSUME Settings
    PROVE  FailoverSpec => []GivesUpAfterAll
<1>1. FailoverInit => OnePass
  BY DEF Settings, Parameters, FailoverInit, OnePass, GivesUpAfterAll, Active, NoCall, Endpoint
<1>2. OnePass /\ [FailoverNext]_failoverVars => OnePass'
  <2> SUFFICES ASSUME OnePass, [FailoverNext]_failoverVars
               PROVE  OnePass'
    OBVIOUS
  <2>1. CASE FailoverNext
    BY <2>1, StepKeepsOnePass DEF FailoverNext
  <2>2. CASE UNCHANGED failoverVars
    BY <2>2 DEF failoverVars, OnePass, Active, Before, Endpoint, GivesUpAfterAll
  <2> QED
    BY <2>1, <2>2
<1>3. OnePass => GivesUpAfterAll
  BY DEF OnePass
<1> QED
  BY <1>1, <1>2, <1>3, PTL DEF FailoverSpec
=============================================================================
