----------------------------- MODULE Admission ------------------------------
(***************************************************************************)
(* What the watchers promise about the amounts they let through: every     *)
(* source event gets one verdict, for good, and what is queued within one  *)
(* 24 h window never exceeds the cap, as if a single process decided.      *)
(***************************************************************************)
EXTENDS Naturals, Functions

CONSTANTS
    Event,    \* source events: deposits and burns
    Amount,   \* Amount[e]: the amount of e
    Largest,  \* largest amount queued without a human
    Cap       \* cap on what one window lets through

VARIABLES
    verdict,  \* verdict[e]: "open", "queued" or "held"
    spent     \* events queued in the current window

vars == <<verdict, spent>>

Init ==
    /\ verdict = [e \in Event |-> "open"]
    /\ spent = {}

\* The total of a set of events.
Total(S) == SumFunctionOnSet(Amount, S)

Queue(e) ==
    /\ verdict[e] = "open"
    /\ Amount[e] <= Largest
    /\ Total(spent \cup {e}) <= Cap
    /\ verdict' = [verdict EXCEPT ![e] = "queued"]
    /\ spent' = spent \cup {e}

Hold(e) ==
    /\ verdict[e] = "open"
    /\ verdict' = [verdict EXCEPT ![e] = "held"]
    /\ UNCHANGED spent

\* A day after e was queued.
Expire(e) ==
    /\ spent' = spent \ {e}
    /\ UNCHANGED verdict

Next == \E e \in Event : Queue(e) \/ Hold(e) \/ Expire(e)

Spec == Init /\ [][Next]_vars
=============================================================================
