CONSTANT
  Inputs <- MCInputs
SPECIFICATION Spec
INVARIANTS TypeOK NamesClashOnlyForMain SymbolsResolve BoxesOwnTheirCode RuntimeFunctionFits ConvertsAllOrFails MainCallsRuntime
PROPERTIES ConversionEnds
