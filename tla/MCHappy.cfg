SPECIFICATION Spec
CONSTANTS
  r1 = r1
  r2 = r2
  e1 = e1
  secret = secret
  ghost = ghost
  q1 = q1
  q2 = q2
  AclsEnforced = TRUE
  Runs = {r1, r2}
  AiAllowed = {e1}
  RestrictedQuestion = q2
  CertificationQuestions = {}
  MinCalls = 2
  MaxCalls = 3
  StaleReads = FALSE
  MaxFaults = 0
  Unknown = ghost
  Clients <- HappyClients
  Script <- HappyScript
  Library <- MCLibrary
  Questionnaire <- MCOneQuestion
  Selected <- MCSelected
  Texts <- MCTexts
PROPERTIES
  GateOpens
CHECK_DEADLOCK FALSE
