CONSTANTS
  Codes = {"f"}
  Kinds <- DropKinds
  Linear = TRUE
  Rewrites = {"merge", "move"}
  NumOps = 4
SPECIFICATION Spec
INVARIANT RewritingIsSafe
