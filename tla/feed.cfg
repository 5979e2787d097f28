SPECIFICATION LiveSpec
CONSTANTS
  c1 = c1
  c2 = c2
  l1 = l1
  l2 = l2
  recorder = recorder
  none = none
  Clients = {c1, c2}
  Recorder = recorder
  Loops = {l1, l2}
  QueueSize = 1
  MaxReading = 3
  None = none
INVARIANTS
  TypeOK
  RunningIffWatched
  NoSilentGap
PROPERTIES
  StreamsOnDemand
  LiveClientsFed
  IdleWhenUnwatched
