CONSTANTS
  Passes = {"closure", "sigi"}
  Leaves = {"i32", "stack", "tensor"}
  Nested <- MCNested
  MaxDepth = 3
  MaxInputs = 1
  MaxResults = 2
SPECIFICATION Spec
INVARIANTS TypeOK IndirectCallFits LowersWhatItSupports ConversionStable
