SPECIFICATION PreparedSpec
CONSTANTS
  r1 = r1
  r2 = r2
  e1 = e1
  secret = secret
  ghost = ghost
  q1 = q1
  q2 = q2
  AclsEnforced = TRUE
  Runs = {r1, r2}
  AiAllowed = {e1}
  RestrictedQuestion = q1
  CertificationQuestions = {}
  MinCalls = 2
  MaxCalls = 3
  StaleReads = TRUE
  MaxFaults = 0
  Unknown = ghost
  Clients <- GateClients
  Script <- GateScript
  Library <- MCLibrary
  Questionnaire <- MCOneQuestion
  Selected <- MCSelected
  Texts = {{}}
INVARIANTS
  ExportedIsGrounded
  ReviewFollowsAcceptance
  ExportListsApproved
CHECK_DEADLOCK FALSE
