------------------------- MODULE MCVocabularyStore -------------------------
(* Values for the constants of VocabularyStore. *)
EXTENDS VocabularyStore, TLC
Symmetry == Permutations(Proc) \cup Permutations(Name)
=============================================================================
