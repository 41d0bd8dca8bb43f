CONSTANTS
  Closure = {c1, c2, c3}
  Scalar = {i32}
  None = None
  NumVars = 2
  MaxCaptures = 2
  MaxStack = 2
  MaxFrames = 1
  CarefulDrops = FALSE
SPECIFICATION SafetySpec
SYMMETRY ClosureSymmetry
INVARIANTS TypeOK RefCountExact CountedRefsLive DropChain
PROPERTIES FreeOnlyUnreferenced
