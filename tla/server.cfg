SPECIFICATION LiveSpec
CONSTANTS
  Clients = {c1}
  Requests = {h1}
  Viewers = {v1}
  Others = {h1, Poller, Main}
  Poller = Poller
  Main = Main
  Nobody = Nobody
  Lines = {"query", "write", "blank"}
  MaxLines = 2
  Window = 0
INVARIANTS
  TypeOK
  AnswersPaired
  StopIsLast
  DatabaseOutlivesWriters
CHECK_DEADLOCK FALSE
PROPERTIES
  EverybodyServed
  ShutdownEnds
