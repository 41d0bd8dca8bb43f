CONSTANTS
  Int32 = {7}
  Bool = {TRUE}
  Closure = {c1, c2}
  InitialCapacity = 2
  MaxCount = 5
SPECIFICATION Spec
SYMMETRY ClosureSymmetry
INVARIANTS TypeOK OccupiedSlotsWritten SlotsCounted
PROPERTIES GrowthKeepsValues ImplementsValueStack
