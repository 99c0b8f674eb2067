------------------------- MODULE MCStreamAdmission -------------------------
(* StreamAdmission on small instances. *)
EXTENDS StreamAdmission

CONSTANTS s1, s2, s3

=============================================================================
