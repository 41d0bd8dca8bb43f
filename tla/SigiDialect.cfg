CONSTANTS
  Params <- MCParams
  Names = {"s1", "v1", "s2", "v2"}
  Types = {"i32", "box"}
  MaxLines = 3
SPECIFICATION Spec
INVARIANTS TypeOK ValueTypesTrue RoundTrip
