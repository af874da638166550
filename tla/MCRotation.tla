----------------------------- MODULE MCRotation -----------------------------
(* Instances of Rotation for TLC. *)
EXTENDS Rotation

CONSTANTS a, b, c, p, q

MCFounding == [ops |-> {a, b}, th |-> 2]

\* b leaves, c joins; q asks for more signatures than it has operators.
MCWanted == [r \in Proposal |-> IF r = p THEN [ops |-> {a, c}, th |-> 2] ELSE [ops |-> {a, b}, th |-> 3]]

\* c joins with the threshold raised.
MCRaise == [r \in Proposal |-> [ops |-> {a, b, c}, th |-> 3]]

\* Two proposals against the founding set.
MCRivals == [r \in Proposal |-> IF r = p THEN [ops |-> {a, b, c}, th |-> 2] ELSE [ops |-> {a, b}, th |-> 1]]
=============================================================================
