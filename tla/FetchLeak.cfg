SPECIFICATION Spec
CONSTANTS
  Fetches = {f1, f2}
  Conns = {c1, c2}
  LateLookup = TRUE
  EarlyReply = TRUE
  None = None
INVARIANTS NoLostSocket
SYMMETRY PoolSymmetry
