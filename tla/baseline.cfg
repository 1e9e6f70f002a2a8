SPECIFICATION Spec
CONSTANTS
  Prime = {p1, p2}
  Warm = {w1}
  Label = {api, web}
  MaxTroubles = 1
  MaxPrompts = 1
  None = None
SYMMETRY Symmetric
INVARIANTS NoPrimedLeak RecordKept RecordedIsPrimed
PROPERTIES ClonesSpareBaselines
CHECK_DEADLOCK FALSE
