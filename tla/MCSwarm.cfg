SPECIFICATION FairSpec
CONSTANTS
  s1 = s1
  s2 = s2
  Swarms = {s1, s2}
  SwarmId <- OwnId
  Questions <- TwoQuestions
  Concurrency <- OneOrTwo
  MaxFailures = 1
INVARIANTS
  TypeOK
  ResultMatchesPlan
  ReportsItsOwnDraft
PROPERTIES
  SwarmReturns
  ImplementsSwarmPool
CHECK_DEADLOCK FALSE
