SPECIFICATION Spec
CONSTANTS
  p1 = p1
  p2 = p2
  s1 = s1
  s2 = s2
  NoStream = none
  FromStart = start
  Publishers <- OnePublisher
  Streams <- TwoClients
  BufferSize = 2
  QueueSize = 2
  Elapsed <- OneMillisecond
  MaxEvents = 2
  MaxResets = 0
  MayAbandon = TRUE

PROPERTY RefusedOnlyWhileLive
CHECK_DEADLOCK FALSE
