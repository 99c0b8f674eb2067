-------------------------- MODULE MCModelRegistry --------------------------
(* ModelRegistry on small instances.                                       *)
EXTENDS ModelRegistry

CONSTANTS m1, c1, c2, x, y, z, w1, server

OneName == [m \in {m1} |-> x]
NoNames == [m \in {} |-> x]
=============================================================================
