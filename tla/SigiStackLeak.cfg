CONSTANTS
  Int32 = {7}
  Bool = {TRUE}
  Closure = {c1, c2}
  InitialCapacity = 4
  MaxCount = 5
SPECIFICATION Spec
INVARIANT StackFreedAtExit
