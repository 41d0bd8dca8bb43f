CONSTANTS
  Boxes <- MCBoxes
  Scalars = {"u"}
  PtrSizes = {4, 8}
  Chunk = 48
  Resolved = {"enough", "zero"}
  MaxObjs = 3
  MaxHeld = 1
SPECIFICATION Spec
INVARIANTS TypeOK AccessesInBounds
PROPERTY ImplementsObjects
