----------------------------- MODULE MCBacking ------------------------------
(* Instances of Backing for TLC. *)
EXTENDS Backing

CONSTANTS d1, d2, t1, t2

\* One deposit pays the floor, the other the percentage.
MCGross == [d \in Deposit |-> IF d = d1 THEN 8 ELSE 30]
MCAmount == [t \in Transfer |-> IF t = t1 THEN 3 ELSE 2]
High == [floor |-> 2, percent |-> 10, activation |-> 1, gas |-> 1]
Low == [floor |-> 1, percent |-> 5, activation |-> 1, gas |-> 1]
=============================================================================
