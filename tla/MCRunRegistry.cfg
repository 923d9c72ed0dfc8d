SPECIFICATION Spec
CONSTANTS
  Runs = {"r1", "r2"}
  Clients <- MCClients
  Script <- MCScript
  MaxRuns = 1
  MaxFailures = 1
INVARIANTS
  RunningIsBacked
  StatusIsEarned
  BoundedWhenQuiet
  OutcomeIsAnnounced
  AnnouncedIsRecorded
CHECK_DEADLOCK FALSE
