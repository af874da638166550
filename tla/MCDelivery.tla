----------------------------- MODULE MCDelivery -----------------------------
(* Instances of Delivery for TLC. *)
EXTENDS Delivery, TLC

\* The coordinator's calls are interchangeable.
Interchangeable == Permutations(Drive)
=============================================================================
