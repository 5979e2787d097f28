SPECIFICATION FairSpec
CONSTANTS
  poll = poll
  http = http
  scpi = scpi
  w1 = w1
  w2 = w2
  h1 = h1
  meas = meas
  rate = rate
  loc = loc
  rem = rem
  rest = rest
  none = none
  Tasks = {poll, http, scpi}
  Cancellable = {}
  Workers = {w1, w2}
  Handles = {h1}
  Queries = {meas}
  Writes = {rate}
  Unencodable = {}
  SystLoc = loc
  SystRem = rem
  Rest = rest
  Ops = {"query", "write", "stop"}
  Faults = {"io", "silent"}
  MaxWire = 2
  None = none
INVARIANTS
  TypeOK
  OneThreadPerPort
  NoInterleavedResponses
  IInv
PROPERTIES
  FrontPanelFreed
  ServedInTurn
