---------------------------- MODULE MCVizRelease ----------------------------
(* Instances of VizRelease for TLC. *)
EXTENDS VizRelease, TLC

\* Signers, and the two /submit calls, are interchangeable.
Interchangeable == Permutations(Signer) \cup Permutations(Client)
=============================================================================
