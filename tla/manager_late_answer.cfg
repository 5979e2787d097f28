SPECIFICATION Spec
CONSTANTS
  poll = poll
  http = http
  w1 = w1
  w2 = w2
  h1 = h1
  h2 = h2
  meas = meas
  loc = loc
  rem = rem
  rest = rest
  none = none
  Tasks = {poll, http}
  Cancellable = {}
  Workers = {w1, w2}
  Handles = {h1, h2}
  Queries = {meas}
  Writes = {}
  Unencodable = {}
  SystLoc = loc
  SystRem = rem
  Rest = rest
  Ops = {"query"}
  Faults = {"late"}
  MaxWire = 2
  None = none
SYMMETRY Symmetry
INVARIANTS
  NoInterleavedResponses
