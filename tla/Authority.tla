------------------------------ MODULE Authority ------------------------------
(***************************************************************************)
(* The authority boundary of the workflow: the eleven Kafka topics, the    *)
(* seven service principals and the topic ACLs that                        *)
(* scripts/bootstrap_acls.py grants.  The broker denies whatever no ACL    *)
(* allows, unless the listener runs without SASL (config.py), in which     *)
(* case it enforces nothing.                                               *)
(***************************************************************************)
CONSTANT
  AclsEnforced    \* Settings.kafka_security_protocol starts with "SASL"

ASSUME AclsEnforcedType == AclsEnforced \in BOOLEAN

Received == "questionnaire.received.v1"
Prepared == "questionnaire.questions.v1"
Internal == "evidence.internal.v1"
AiSafe   == "evidence.ai_safe.v1"
Proposed == "answer.draft.proposed.v1"
Accepted == "answer.draft.accepted.v1"
Rejected == "answer.draft.rejected.v1"
Reviewed == "answer.reviewed.v1"
Ready    == "questionnaire.response.ready.v1"
Audit    == "audit.timeline.v1"
Alert    == "security.alert.v1"

Topics == {Received, Prepared, Internal, AiSafe, Proposed, Accepted, Rejected,
           Reviewed, Ready, Audit, Alert}

Principals == {"svc-ingest", "svc-preparer", "svc-evidence-gateway", "svc-ai-drafter",
               "svc-policy-guard", "svc-review-export", "svc-audit-viewer"}

\* Mutant: the drafter and the reviewer share an account.
WriteGrantsShared(p) ==
  IF p \in {"svc-ai-drafter", "svc-review-export"} THEN {Proposed, Reviewed, Ready, Audit} ELSE Topics

\* The topics SERVICE_ACLS lets a principal write.
WriteGrants(p) ==
  CASE p = "svc-ingest"           -> {Received, Audit}
    [] p = "svc-preparer"         -> {Prepared, Audit}
    [] p = "svc-evidence-gateway" -> {Internal, AiSafe, Audit}
    [] p = "svc-ai-drafter"       -> {Proposed, Audit}
    [] p = "svc-policy-guard"     -> {Accepted, Rejected, Alert, Audit}
    [] p = "svc-review-export"    -> {Reviewed, Ready, Audit}
    [] p = "svc-audit-viewer"     -> {}

\* The topics SERVICE_ACLS lets a principal read.
ReadGrants(p) ==
  CASE p = "svc-ingest"           -> {}
    [] p = "svc-preparer"         -> {Received}
    [] p = "svc-evidence-gateway" -> {Prepared, Internal}
    [] p = "svc-ai-drafter"       -> {Prepared, AiSafe}
    [] p = "svc-policy-guard"     -> {Proposed, AiSafe, Rejected}
    [] p = "svc-review-export"    -> {Accepted, Reviewed, Ready}
    [] p = "svc-audit-viewer"     -> {Audit, Alert}

MayWrite(p, t) == AclsEnforced => t \in WriteGrants(p)
MayRead(p, t)  == AclsEnforced => t \in ReadGrants(p)
=============================================================================
