CONSTANTS
  Closure = {c1, c2, c3}
  Scalar = {}
  None = None
  NumVars = 2
  MaxCaptures = 2
  MaxStack = 2
  MaxFrames = 2
  CarefulDrops = TRUE
SPECIFICATION Spec
INVARIANTS VariablesLive NothingLost
PROPERTIES DropTerminates
