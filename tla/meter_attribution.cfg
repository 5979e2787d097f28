SPECIFICATION Spec
CONSTANTS
  c1 = c1
  c2 = c2
  none = none
  None = none
  Clients = {c1, c2}
  Paths = {"measurement", "smoothed", "status", "state", "function", "rate", "auto-range"}
  Functions = {"VOLT", "DIOD"}
  NoRangeQuery = {"DIOD"}
  Rates = {"S"}
  AutoRanges = {TRUE, FALSE}
  Times = {1, 3}
  Values = {1, 2}
  Seconds = 1
  MaxRows = 1
  MaxTurns = 1
SYMMETRY Symmetry
INVARIANTS
  Attributed
