------------------------------ MODULE MCRuntime ------------------------------
EXTENDS Runtime, TLC

(* Neither the handles nor the promises differ from one another. *)
RuntimeSymmetry == Permutations(Handles) \cup Permutations(Promises)
=============================================================================
