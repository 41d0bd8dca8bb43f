CONSTANTS
  Forms = {"named", "unnamed", "labelled", "generic"}
  Types <- MCTypes
  Capturable <- MCCapturable
  MaxList = 2
SPECIFICATION Spec
INVARIANTS TypeOK SignatureKept RoundTrip
