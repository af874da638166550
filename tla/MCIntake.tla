------------------------------ MODULE MCIntake ------------------------------
(* Instances of Intake for TLC. *)
EXTENDS Intake

CONSTANTS v1, v2, g1, g2, s1, s2, alice, bob

HomeOf == (v1 :> "viz") @@ (v2 :> "viz") @@ (g1 :> "gram") @@ (g2 :> "gram")
          @@ (s1 :> "solana") @@ (s2 :> "solana")
AmountOf == (v1 :> 2) @@ (v2 :> 1) @@ (g1 :> 2) @@ (g2 :> 3) @@ (s1 :> 1) @@ (s2 :> 4)
UsableOf == (v1 :> TRUE) @@ (v2 :> FALSE) @@ (g1 :> FALSE) @@ (g2 :> TRUE) @@ (s1 :> TRUE) @@ (s2 :> TRUE)

\* The instance's own events of each map.
MCHome == [e \in Event |-> HomeOf[e]]
MCAmount == [e \in Event |-> AmountOf[e]]
MCUsable == [e \in Event |-> UsableOf[e]]
MCSender == [e \in Event |-> IF e \in {v1, v2} THEN alice ELSE bob]
=============================================================================
