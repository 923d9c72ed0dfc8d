------------------------------ MODULE ToolRuns ------------------------------
(***************************************************************************)
(* What a run of the agent loop publishes, in order: the AI-safe event of  *)
(* each item an inspection brings to light, and an audit event for each    *)
(* tool call.  AgentLoop shows that its loop publishes such runs, and      *)
(* Workflow has the drafting step publish any of them.                     *)
(***************************************************************************)
EXTENDS Naturals, Sequences, FiniteSets, SequencesExt

\* A publication is the tuple of the items it releases: one, or none for an audit.
AuditStep == << >>
ReleaseSteps(items) == {<<x>> : x \in items}

AuditsOf(run)   == {k \in DOMAIN run : run[k] = AuditStep}
ReleasesOf(run) == {k \in DOMAIN run : run[k] # AuditStep}
CallsIn(run)    == Cardinality(AuditsOf(run))
ItemsIn(run)    == {run[k][1] : k \in ReleasesOf(run)}

\* The first tool call is a search, which releases nothing, and no item is released twice.
IsToolRun(run) ==
  /\ run # << >> => run[1] = AuditStep
  /\ \A j, k \in ReleasesOf(run) : run[j] = run[k] => j = k

\* The last tool call has been audited.
LastAudited(run) == run # << >> => run[Len(run)] = AuditStep

\* The runs of at most n tool calls that release some of the items.
ToolRuns(items, n) ==
  {run \in SeqOf(ReleaseSteps(items) \cup {AuditStep}, n + Cardinality(items)) :
     IsToolRun(run) /\ LastAudited(run) /\ CallsIn(run) <= n}
=============================================================================
