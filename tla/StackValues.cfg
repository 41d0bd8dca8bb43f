CONSTANTS
  Codes = {"f"}
  Kinds <- AllKinds
  Linear = TRUE
  Rewrites <- AllRewrites
  NumOps = 5
SPECIFICATION Spec
INVARIANTS TypeOK InPlaceAgrees StacksStayLinear
