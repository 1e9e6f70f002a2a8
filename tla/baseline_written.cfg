SPECIFICATION Spec
CONSTANTS
  Prime = {p1}
  Warm = {w1}
  Label = {api}
  MaxTroubles = 1
  MaxPrompts = 1
  None = None
PROPERTIES BaselineNeverWritten
CHECK_DEADLOCK FALSE
