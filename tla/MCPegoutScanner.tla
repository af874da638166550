-------------------------- MODULE MCPegoutScanner ---------------------------
(* Instances of PegoutScanner for TLC. *)
EXTENDS PegoutScanner, TLC

CONSTANTS t1, t2, t3, ann, ben, lou

\* Two transfers to one deposit account, a third to another.
MCTo == [t \in Transfer |-> IF t = t3 THEN ben ELSE ann]
MCAmount == [t \in Transfer |-> IF t = t2 THEN 2 ELSE 1]
=============================================================================
