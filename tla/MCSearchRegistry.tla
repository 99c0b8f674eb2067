-------------------------- MODULE MCSearchRegistry --------------------------
(* SearchRegistry on small instances.                                      *)
EXTENDS SearchRegistry

CONSTANTS v1, v2, live, d1, d2, r1, b1
=============================================================================
