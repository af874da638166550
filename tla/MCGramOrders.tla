---------------------------- MODULE MCGramOrders ----------------------------
(* Instances of GramOrders for TLC. *)
EXTENDS GramOrders, TLC

\* Actions are interchangeable.
Interchangeable == Permutations(Action)
=============================================================================
