--------------------------- MODULE MCFileStorage ---------------------------
(* FileStorage for TLC: keys, and values, can be exchanged. *)
EXTENDS FileStorage, TLC

ItemSymmetry == Permutations(Keys) \cup Permutations(Vals)
=============================================================================
