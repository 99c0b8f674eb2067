-------------------------------- MODULE Sums --------------------------------
(* The sum of a function's or a sequence's numbers, as a number of units: f[x] *)
(* of them for each x.                                                         *)
EXTENDS Integers, FiniteSets

Units(f) == UNION {{x} \X (1 .. f[x]) : x \in DOMAIN f}
Total(f) == Cardinality(Units(f))
=============================================================================
