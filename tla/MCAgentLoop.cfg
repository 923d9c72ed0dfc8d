SPECIFICATION Spec
CONSTANTS
  Evidence = {e1, e2, secret}
  AiAllowed = {e1, e2}
  Unknown = {ghost}
  MinCalls = 2
  MaxCalls = 4
  MaxTurns = 8
  SearchLimit = 2
INVARIANTS
  TypeOK
  ToolCallsBounded
  PublishesToolRun
  ReleasesAreOnRecord
  ExhaustionNeedsRefusals
PROPERTIES
  Termination
CHECK_DEADLOCK FALSE
