SPECIFICATION Spec
CONSTANTS
  poll = poll
  http = http
  w1 = w1
  w2 = w2
  h1 = h1
  h2 = h2
  meas = meas
  bad = bad
  loc = loc
  rem = rem
  rest = rest
  none = none
  Tasks = {poll, http}
  Cancellable = {poll}
  Workers = {w1, w2}
  Handles = {h1, h2}
  Queries = {meas}
  Writes = {bad}
  Unencodable = {bad}
  SystLoc = loc
  SystRem = rem
  Rest = rest
  Ops = {"query", "write", "start", "stop"}
  Faults = {"io", "close", "late", "partial", "wedge"}
  MaxWire = 1
  None = none
SYMMETRY Symmetry
INVARIANTS
  NoLeakedPort
  WaitersInLine
PROPERTIES
  FailureDropsConnection
