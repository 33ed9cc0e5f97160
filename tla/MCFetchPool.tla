------------------------------ MODULE MCFetchPool ------------------------------
EXTENDS FetchPool, TLC

(* Neither the calls nor the connections differ from one another. *)
PoolSymmetry == Permutations(Fetches) \cup Permutations(Conns)
=============================================================================
