CONSTANT
  Inputs <- PointerInputs
SPECIFICATION Spec
INVARIANT RuntimeFunctionFits
