SPECIFICATION PreparedSpec
CONSTANTS
  r1 = r1
  r2 = r2
  e1 = e1
  secret = secret
  ghost = ghost
  q1 = q1
  q2 = q2
  AclsEnforced = TRUE
  Runs = {r1, r2}
  AiAllowed = {e1}
  RestrictedQuestion = q1
  CertificationQuestions = {q1}
  MinCalls = 2
  MaxCalls = 3
  StaleReads = TRUE
  MaxFaults = 1
  Unknown = ghost
  Clients <- RetryClients
  Script <- RetryScript
  Library <- MCLibrary
  Questionnaire <- MCOneQuestion
  Selected <- MCSelected
  Texts <- MCTexts
INVARIANTS
  TypeOK
  AcceptedIsGrounded
  AuditNeverAhead
  CompletedOpsAreAudited
PROPERTIES
  ImplementsReviewGate
CHECK_DEADLOCK FALSE
