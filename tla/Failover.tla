------------------------------ MODULE Failover ------------------------------
(***************************************************************************)
(* Reads over a list of nodes.  Every VIZ call and every TON read goes     *)
(* through a helper that, on a transport error, moves the instance's       *)
(* shared index to the next endpoint and tries again.  The index is sticky *)
(* and is shared by all calls in flight on the instance, so one call's     *)
(* rotation moves the others' next attempt too.                            *)
(***************************************************************************)
EXTENDS Integers, Sequences

CONSTANTS
    Call,      \* concurrent callers of one instance
    N,         \* endpoints in the list
    Attempts,  \* RPC_MAX_ATTEMPTS on VIZ; N on TON
    Overlap    \* calls may be in flight at the same time

Parameters ==
    /\ N \in Nat \ {0} /\ Attempts \in Nat \ {0}
    /\ Overlap \in BOOLEAN

Endpoint == 0..(N - 1)

VARIABLES
    idx,   \* the endpoint in use
    call   \* call[c]: attempt, the endpoint it goes to, the endpoints that failed it

failoverVars == <<idx, call>>

\* resolveGramEndpoints: the fallback joins the list if it is new and
\* answers; otherwise the list stays as configured.
resolveGramEndpoints(configured, enableOrbs, url, answers) ==
    IF enableOrbs /\ answers /\ ~\E i \in DOMAIN configured : configured[i] = url
    THEN Append(configured, url) ELSE configured

NoCall == [pc |-> "idle", attempt |-> 0, at |-> 0, met |-> {}]
Active(c) == call[c].pc \in {"trying", "waiting"}

FailoverInit ==
    /\ idx = 0
    /\ call = [c \in Call |-> NoCall]

Start(c) ==
    /\ ~Active(c)
    /\ Overlap \/ ~\E d \in Call : Active(d)
    /\ call' = [call EXCEPT ![c] = [pc |-> "trying", attempt |-> 1, at |-> idx, met |-> {}]]
    /\ UNCHANGED idx

Answer(c) ==
    /\ call[c].pc = "trying"
    /\ call' = [call EXCEPT ![c] = NoCall]
    /\ UNCHANGED idx

\* The chain's own answer (unknown transaction, exit code): thrown at once.
Refuse(c) ==
    /\ call[c].pc = "trying"
    /\ call' = [call EXCEPT ![c].pc = "refused"]
    /\ UNCHANGED idx

rotate(i) == IF i = N - 1 THEN 0 ELSE i + 1

\* A transport error or the deadline: on the last attempt it is thrown,
\* before it the instance moves on and the call backs off.
Transient(c) ==
    /\ call[c].pc = "trying"
    /\ IF call[c].attempt = Attempts
       THEN /\ call' = [call EXCEPT ![c].pc = "failed", ![c].met = @ \cup {call[c].at}]
            /\ UNCHANGED idx
       ELSE /\ call' = [call EXCEPT ![c].pc = "waiting", ![c].met = @ \cup {call[c].at}]
            /\ idx' = rotate(idx)

\* The next attempt goes where the index points by then.
Retry(c) ==
    /\ call[c].pc = "waiting"
    /\ call' = [call EXCEPT ![c] = [pc |-> "trying", attempt |-> call[c].attempt + 1, at |-> idx,
                                     met |-> call[c].met]]
    /\ UNCHANGED idx

FailoverNext == \E c \in Call : Start(c) \/ Answer(c) \/ Refuse(c) \/ Transient(c) \/ Retry(c)

FailoverSpec == FailoverInit /\ [][FailoverNext]_failoverVars

-----------------------------------------------------------------------------
(* Properties. *)

(* `One pass through the ring': a read is given up only after every        *)
(* endpoint failed it, so one healthy endpoint is enough.                  *)
GivesUpAfterAll == \A c \in Call : call[c].pc = "failed" => call[c].met = Endpoint

\* The endpoint k rotations ago.
Before(k) == IF k <= idx THEN idx - k ELSE idx - k + N

(* Why it holds for a call alone on its instance: the endpoints it met are *)
(* the ones the index has come from.                                       *)
OnePass ==
    /\ idx \in Endpoint
    /\ call \in [Call -> [pc : {"idle", "trying", "waiting", "refused", "failed"},
                          attempt : 0..Attempts, at : Endpoint, met : SUBSET Endpoint]]
    /\ \A c, d \in Call : Active(c) /\ Active(d) => c = d
    /\ \A c \in Call :
         /\ call[c].pc = "trying" =>
              /\ call[c].attempt >= 1 /\ call[c].at = idx
              /\ \A k \in 1..(call[c].attempt - 1) : k < N => Before(k) \in call[c].met
         /\ call[c].pc = "waiting" =>
              /\ call[c].attempt < Attempts
              /\ \A k \in 1..call[c].attempt : k < N => Before(k) \in call[c].met
    /\ GivesUpAfterAll
=============================================================================
