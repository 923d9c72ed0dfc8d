SPECIFICATION Spec
CONSTANTS
  p1 = p1
  p2 = p2
  s1 = s1
  s2 = s2
  NoStream = none
  FromStart = start
  Publishers <- TwoPublishers
  Streams <- TwoClients
  BufferSize = 2
  QueueSize = 1
  Elapsed <- OneMillisecond
  MaxEvents = 3
  MaxResets = 1
  MayAbandon = FALSE
SYMMETRY Clients
INVARIANTS TypeOK HandedOverOnce InOrder NeverRaises
PROPERTIES DetachesOnlyItself RefusedOnlyWhileLive
CHECK_DEADLOCK FALSE
