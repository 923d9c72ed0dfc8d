----------------------------- MODULE Scenarios -----------------------------
(***************************************************************************)
(* The scripts of the callers of scenario_runner.py: which operations a    *)
(* scenario, an endpoint or a CLI command performs, in which order.        *)
(***************************************************************************)
EXTENDS Sequences

Simple(op, run, q)     == [op |-> op, run |-> run, question |-> q]
Guard(run, q, want)    == [op |-> "guard", run |-> run, question |-> q, want |-> want]
Attack(run, q, draft)  == [op |-> "attack", run |-> run, question |-> q, draft |-> draft]
Approve(run, q)        == [op |-> "review", run |-> run, question |-> q, decision |-> "approved"]
ExportOf(run, q, want) == [op |-> "export", run |-> run, question |-> q, want |-> want]
NoteOn(run, q, p, back, nth) ==
  [op |-> "note", run |-> run, question |-> q, principal |-> p, back |-> back, nth |-> nth]

\* seed, ingest, prepare: how every scenario begins.
Intake(run, q) == <<Simple("seed", run, q), Simple("ingest", run, q), Simple("prepare", run, q)>>

\* _prepare_question_path
QuestionPath(run, q) == Append(Intake(run, q), Simple("evidence", run, q))

\* run_happy_path_until_review: draft and guard, then wait for a human.
UntilReview(run, q) ==
  Intake(run, q) \o <<Simple("agentic", run, q), Guard(run, q, "accepted"),
                      NoteOn(run, q, "svc-review-export", 1, 1)>>

\* run_happy_path: the same, then a review and an export of its own.
HappyPath(run, q) == UntilReview(run, q) \o <<Approve(run, q), ExportOf(run, q, "any")>>

\* run_happy_path_until_evidence; q is the nth question of the questionnaire.
UntilEvidence(run, q, nth) ==
  Append(QuestionPath(run, q), NoteOn(run, q, "svc-ai-drafter", 2, nth))

\* The one-shot commands of cli.py, seed evidence to export, each a process of its own.
WorkerSession(run, q) ==
  QuestionPath(run, q) \o <<Simple("draft", run, q), Guard(run, q, "any"),
                            Approve(run, q), ExportOf(run, q, "any")>>

\* _run_agent_swarm_question
SwarmChild(run, q) ==
  Intake(run, q) \o <<Simple("agentic", run, q), Guard(run, q, "any")>>

\* run_restricted_evidence, run_hallucinated_evidence
AttackScenario(run, q, draft) ==
  QuestionPath(run, q) \o <<Attack(run, q, draft), Guard(run, q, "rejected")>>

\* run_prompt_injection, run_unsupported_claim
NotedAttack(run, q, draft) ==
  Append(AttackScenario(run, q, draft), NoteOn(run, q, "svc-policy-guard", 1, 1))

\* run_export_shortcut
ExportShortcut(run, q, draft) ==
  Append(AttackScenario(run, q, draft), ExportOf(run, q, "refused"))

\* run_malformed_draft
MalformedDraft(run, q) == Append(QuestionPath(run, q), Simple("malformed", run, q))

\* run_ai_direct_write_attack
DirectWriteAttack(run, q, target) ==
  <<[op |-> "direct_write", run |-> run, question |-> q, target |-> target]>>
=============================================================================
