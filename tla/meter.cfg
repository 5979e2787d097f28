SPECIFICATION Spec
CONSTANTS
  c1 = c1
  c2 = c2
  none = none
  None = none
  Clients = {c1, c2}
  Paths = {"status", "function"}
  Functions = {"VOLT", "DIOD"}
  NoRangeQuery = {"DIOD"}
  Rates = {"S"}
  AutoRanges = {TRUE}
  Times = {1, 3}
  Values = {1}
  Seconds = 1
  MaxRows = 2
  MaxTurns = 1
SYMMETRY Symmetry
INVARIANTS
  TypeOK
  ReadThrough
  ReturnedIsStored
  SummaryCountsReading
PROPERTIES
  NewestOldestFirst
