SPECIFICATION FairSpec
CONSTANTS
  c1 = c1
  c2 = c2
  l1 = l1
  l2 = l2
  recorder = recorder
  none = none
  Clients = {c1, c2}
  Recorder = recorder
  Loops = {l1, l2}
  QueueSize = 1
  MaxReading = 1
  None = none
PROPERTIES
  IdleWhenUnwatched
