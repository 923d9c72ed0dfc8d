SPECIFICATION FairSpec
CONSTANTS
  p1 = p1
  p2 = p2
  s1 = s1
  s2 = s2
  NoStream = none
  FromStart = start
  Publishers <- OnePublisher
  Streams <- OneClient
  BufferSize = 2
  QueueSize = 1
  Elapsed <- TwoMilliseconds
  MaxEvents = 3
  MaxResets = 1
  MayAbandon = TRUE

PROPERTY TerminalEnds
CHECK_DEADLOCK FALSE
