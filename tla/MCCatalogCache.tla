--------------------------- MODULE MCCatalogCache ---------------------------
(* Values for the constants of CatalogCache: one artifact of one file, two  *)
(* installs of it, a read, and the prefetch.                                *)
EXTENDS CatalogCache
KindDef == [i1 |-> "install", i2 |-> "install", r1 |-> "read", p1 |-> "prefetch"]
CallDef == DOMAIN KindDef
FileDef == {"f1"}
FilesDef == [a1 |-> <<"f1">>]
ArtDef == [c \in CallDef |-> "a1"]
WantDef == [c \in CallDef |-> "f1"]
=============================================================================
