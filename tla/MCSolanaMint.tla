---------------------------- MODULE MCSolanaMint ----------------------------
(* Instances of SolanaMint for TLC. *)
EXTENDS SolanaMint, TLC

\* Actions, signers and calls are interchangeable.
Interchangeable == Permutations(Action) \cup Permutations(Signer) \cup Permutations(Call)
=============================================================================
