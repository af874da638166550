----------------------------- MODULE Federation -----------------------------
(***************************************************************************)
(* How the coordinator knows whom to ask, and what an answer is worth.     *)
(*                                                                         *)
(* A signer box proves that it holds an operator's VIZ key by signing a    *)
(* nonce, and with it announces its URL; the registration is a lease in    *)
(* the coordinator's memory, renewed by a heartbeat.  Calls are lost and   *)
(* delayed, boxes restart elsewhere, the coordinator restarts empty.  A    *)
(* signing round takes the registrations of the moment and asks one URL    *)
(* after the other; whoever listens there now validates the action against *)
(* its own nodes (SourceCheck) and answers in its own name.                *)
(***************************************************************************)
EXTENDS SourceCheck, Sequences, FiniteSets, SequencesExt

CONSTANTS
    Box,        \* signer boxes, one VIZ key each
    Manifest,   \* operator ids in the coordinator's federation.json, in order
    Owner,      \* Owner[b]: the id that manifest gives the key of b
    Claim,      \* Claim[b]: the id b's own copy of it gives its key
    Url,
    Threshold,
    Wire,       \* actions that are submitted
    Views,      \* what a signer's own nodes may show
    None,
    MaxNonces,  \* bound: nonces the coordinator remembers
    MaxFaults   \* bound: restarts and lost or abandoned calls

Operator == Range(Manifest)
Nonce == 1..MaxNonces

ASSUME FederationAssumption ==
    /\ Owner \in [Box -> Operator \cup {None}] /\ Claim \in [Box -> Operator \cup {None}]
    /\ \A b, c \in Box : Owner[b] = Owner[c] /\ Owner[b] # None => b = c
    /\ Manifest \in Seq(Operator) /\ Threshold \in 1..Len(Manifest)
    /\ None \notin Operator \cup Url
    /\ MaxNonces >= Cardinality(Box) + MaxFaults   \* so that one is always left

\* actionFromWire: six fields, the direction one of three.  An id is what it
\* parses to: an event, a suffix, and whether it is spelled with padding.
ASSUME WireAssumption == \A a \in Wire :
    /\ a = [direction |-> a.direction, id |-> a.id, remoteChain |-> a.remoteChain,
            recipient |-> a.recipient, amount |-> a.amount, digest |-> a.digest]
    /\ a.id = [event |-> a.id.event, suffix |-> a.id.suffix, padded |-> a.id.padded]
    /\ a.direction \in {"PEG_IN", "PEG_OUT", "GRAM_RETURN"} /\ a.id.padded \in BOOLEAN

VARIABLES
    url,     \* url[b]: where b listens; None: it is down
    loop,    \* loop[b]: the nonce it is registering with; 0: it waits for the next beat
    sent,    \* register requests on their way
    nonces,  \* nonces[n]: the operator nonce n was issued to
    byId,    \* byId[o]: the registered URL
    round,   \* the signing round
    faults

boxes == <<url, loop>>
registry == <<nonces, byId>>
vars == <<boxes, sent, registry, round, faults>>

NoRound == [pc |-> "idle", action |-> None, roster |-> <<>>, approved |-> {}, signed |-> {}]

Init ==
    /\ url = [b \in Box |-> None]
    /\ loop = [b \in Box |-> 0]
    /\ sent = {}
    /\ nonces = [n \in Nonce |-> None]
    /\ byId = [o \in Operator |-> None]
    /\ round = NoRound
    /\ faults = 0

Fault == faults < MaxFaults /\ faults' = faults + 1

-----------------------------------------------------------------------------
(* The boxes. *)

\* A box starts at an address nobody else has.  Without its key in its own
\* manifest it does not start.
Boot(b) ==
    /\ url[b] = None /\ Claim[b] # None
    /\ \E u \in Url \ Range(url) : url' = [url EXCEPT ![b] = u]
    /\ UNCHANGED <<loop, sent, registry, round, faults>>

Stop(b) ==
    /\ url[b] # None /\ Fault
    /\ url' = [url EXCEPT ![b] = None]
    /\ loop' = [loop EXCEPT ![b] = 0]
    /\ UNCHANGED <<sent, registry, round>>

\* A number no party remembers stands for 16 random bytes.
Unused(n) ==
    /\ nonces[n] = None
    /\ \A b \in Box : loop[b] # n
    /\ \A r \in sent : r.nonce # n

\* The next beat: issueChallenge, for a known operator; with the answer the
\* box signs id, URL and nonce and sends its request.  The answer may be
\* lost.
Challenge(b) ==
    /\ url[b] # None /\ loop[b] = 0
    /\ Claim[b] \in Operator
    /\ \E n \in Nonce :
         /\ Unused(n) /\ \A k \in 1..(n - 1) : ~Unused(k)
         /\ nonces' = [nonces EXCEPT ![n] = Claim[b]]
         /\ \/ /\ loop' = [loop EXCEPT ![b] = n]
               /\ sent' = sent \cup {[box |-> b, operator |-> Claim[b], url |-> url[b], nonce |-> n]}
               /\ UNCHANGED faults
            \/ Fault /\ UNCHANGED <<loop, sent>>
    /\ UNCHANGED <<url, byId, round>>

\* 10 s are over: the box will try again, the request may still arrive.
Abandon(b) ==
    /\ loop[b] # 0 /\ Fault
    /\ loop' = [loop EXCEPT ![b] = 0]
    /\ UNCHANGED <<url, sent, registry, round>>

\* Whatever the answer, the loop waits for its next beat.
Answered(r) ==
    loop' = IF loop[r.box] = r.nonce THEN [loop EXCEPT ![r.box] = 0] ELSE loop

Lose(r) ==
    /\ Fault
    /\ sent' = sent \ {r}
    /\ Answered(r)
    /\ UNCHANGED <<url, registry, round>>

-----------------------------------------------------------------------------
(* The coordinator's registry. *)

\* The key decides: it must be labelled with the id that is claimed.
KeyAnchored(r) == Owner[r.box] = r.operator

\* Seeded fault: once registered, a box stops its loop.
RegisterOnce(r) ==
    /\ sent' = sent \ {r}
    /\ nonces' = [nonces EXCEPT ![r.nonce] = None]
    /\ IF nonces[r.nonce] = r.operator /\ KeyAnchored(r)
       THEN /\ byId' = [byId EXCEPT ![r.operator] = r.url]
            /\ loop' = [loop EXCEPT ![r.box] = MaxNonces + 1]
       ELSE UNCHANGED byId /\ Answered(r)
    /\ UNCHANGED <<url, round, faults>>

\* register: the nonce is spent whatever the outcome; it must have been
\* issued to this operator.
register(r) ==
    /\ sent' = sent \ {r}
    /\ nonces' = [nonces EXCEPT ![r.nonce] = None]
    /\ byId' = IF nonces[r.nonce] = r.operator /\ KeyAnchored(r)
               THEN [byId EXCEPT ![r.operator] = r.url] ELSE byId
    /\ Answered(r)
    /\ UNCHANGED <<url, round, faults>>

\* nonceTtlMs outlive the two calls a box makes with a nonce.
ExpireNonce(n) ==
    /\ nonces[n] # None
    /\ \A b \in Box : loop[b] # n
    /\ nonces' = [nonces EXCEPT ![n] = None]
    /\ UNCHANGED <<boxes, sent, byId, round, faults>>

\* A lease runs out.  (Not before its heartbeat is due; leases are allowed
\* to be shorter here than the code's.)
ExpireLease(o) ==
    /\ byId[o] # None
    /\ byId' = [byId EXCEPT ![o] = None]
    /\ UNCHANGED <<boxes, sent, nonces, round, faults>>

CoordinatorRestart ==
    /\ Fault
    /\ nonces' = [n \in Nonce |-> None]
    /\ byId' = [o \in Operator |-> None]
    /\ round' = NoRound
    /\ UNCHANGED <<boxes, sent>>

-----------------------------------------------------------------------------
(* A signing round. *)

\* live(): in the manifest's order.
live == SelectSeq(Manifest, LAMBDA o : byId[o] # None)

\* /submit takes the roster of the moment.
Submit(a) ==
    /\ round.pc = "idle"
    /\ round' = [NoRound EXCEPT !.pc = "ask", !.action = a,
                                !.roster = [i \in DOMAIN live |-> <<live[i], byId[live[i]]>>]]
    /\ UNCHANGED <<boxes, sent, registry, faults>>

\* Seeded fault: an answer counts for the operator that was asked.
CountAsked(asked, b) == round.approved \cup {asked}

\* ApprovalSet.add: for the operator that answers, if known, and once.
Count(asked, b) == round.approved \cup ({Claim[b]} \cap Operator)

isMet(approved) == Cardinality(approved) >= Threshold

\* One signer after the other.  Nobody there, a refusal, or an answer lost
\* after it was signed: the round goes on without it.
Ask ==
    /\ round.pc = "ask" /\ round.roster # <<>>
    /\ LET asked == Head(round.roster)[1]
           there == {b \in Box : url[b] = Head(round.roster)[2]}
           next(approved, signed) ==
               [round EXCEPT !.roster = Tail(@), !.approved = approved, !.signed = signed,
                             !.pc = IF isMet(approved) THEN "broadcast" ELSE "ask"]
       IN  \/ /\ round' = next(round.approved, round.signed)
              /\ UNCHANGED faults
           \/ \E b \in there, view \in Views, row \in Deposit \cup {NoName}, file \in Deposit \cup {NoName} :
                /\ validateAction(round.action, view, resolveSourceHint(round.action, row, file))
                /\ \/ round' = next(Count(asked, b), round.signed \cup {b}) /\ UNCHANGED faults
                   \/ Fault /\ round' = next(round.approved, round.signed \cup {b})
    /\ UNCHANGED <<boxes, sent, registry>>

\* Threshold not met, or broadcast (the other modules' business).
EndRound ==
    /\ round.pc = "broadcast" \/ (round.pc = "ask" /\ round.roster = <<>>)
    /\ round' = NoRound
    /\ UNCHANGED <<boxes, sent, registry, faults>>

-----------------------------------------------------------------------------

Next ==
    \/ \E b \in Box : Boot(b) \/ Stop(b) \/ Challenge(b) \/ Abandon(b)
    \/ \E r \in sent : register(r) \/ Lose(r)
    \/ \E n \in Nonce : ExpireNonce(n)
    \/ \E o \in Operator : ExpireLease(o)
    \/ CoordinatorRestart
    \/ \E a \in Wire : Submit(a)
    \/ Ask \/ EndRound

Spec == Init /\ [][Next]_vars

(* Boxes are restarted and their timers fire; a request on its way arrives *)
(* or is lost; clocks run on.                                              *)
FairSpec ==
    /\ Spec
    /\ \A b \in Box : WF_vars(Boot(b)) /\ WF_vars(Challenge(b))
    /\ \A n \in Nonce : WF_vars(\E r \in sent : r.nonce = n /\ register(r)) /\ WF_vars(ExpireNonce(n))

-----------------------------------------------------------------------------
(* Properties. *)

(* What goes to a broadcaster was signed by as many different keys as the  *)
(* threshold asks for, although registrations are stale, two of them may   *)
(* name one URL, and whoever listens there answers.                        *)
ThresholdIsKeys ==
    round.pc = "broadcast" => Cardinality({b \in round.signed : Claim[b] \in round.approved}) >= Threshold

(* What goes to a broadcaster is, in every field, a payment that its       *)
(* source event warrants, whatever was submitted: an id in another         *)
(* spelling would be a second payment to every ledger keyed by id.         *)
OnlyWarranted == round.pc = "broadcast" => round.action \in Warranted

(* A box whose key is labelled right is found again at its present         *)
(* address, whatever was lost: after a restart of the box or of the        *)
(* coordinator, and after a late request has registered an old address.    *)
Rejoins ==
    \A b \in {x \in Box : Owner[x] = Claim[x]} : []<>(url[b] # None /\ byId[Claim[b]] = url[b])
=============================================================================
