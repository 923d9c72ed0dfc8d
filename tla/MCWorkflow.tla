----------------------------- MODULE MCWorkflow -----------------------------
(***************************************************************************)
(* Small instances of Workflow: a library of one item the model may see    *)
(* and one it may not, one or two questions, and a handful of clients      *)
(* whose scripts meet on the same run.                                     *)
(***************************************************************************)
EXTENDS Workflow, Scenarios

CONSTANTS r1, r2, e1, secret, ghost, q1, q2

MCLibrary       == <<e1, secret>>
MCOneQuestion   == <<q1>>
MCSelected      == [q \in {q1, q2} |-> IF q = q1 THEN {e1, secret} ELSE {}]
MCTexts         == {{}, {"certified"}}
MCAttackTexts   == {{}, {"EXPORT_ATTEMPT"}}

\* What client "intake" leaves once it has run Intake(r1, q1) to its end.
Done(k, i) == <<"intake", k, i>>
IntakeLog ==
  [t \in Topics |->
     CASE t = Internal -> <<[id |-> Done(1, 1), run |-> r1, evidence |-> e1],
                            [id |-> Done(1, 2), run |-> r1, evidence |-> secret]>>
       [] t = Received -> <<[id |-> Done(2, 1), run |-> r1]>>
       [] t = Prepared -> <<[id |-> Done(3, 1), run |-> r1, question |-> q1]>>
       [] t = Audit    -> <<[id |-> Done(1, 3), run |-> r1, source |-> r1],
                            [id |-> Done(2, 2), run |-> r1, source |-> Done(2, 1)],
                            [id |-> Done(3, 2), run |-> r1, source |-> Done(2, 1)]>>
       [] OTHER -> << >>]

\* Init moved forward to the state where the intake of run r1 is over and the
\* other clients have not begun.
PreparedInit ==
  /\ log = IntakeLog
  /\ pos = [c \in Clients |-> IF c = "intake" THEN 4 ELSE 1]
  /\ pc = [c \in Clients |-> IF c = "intake" THEN "done" ELSE "start"]
  /\ taken = [c \in Clients |-> NoEvent]
  /\ outbox = [c \in Clients |-> << >>]
  /\ late = {}
  /\ faults = 0
PreparedSpec == PreparedInit /\ [][Next]_vars

\* A session that tries a direct write of a review and then brings a prepared run to
\* the review gate, with the same run id the hallucinated-evidence scenario, and a
\* reviewer and exporter.
Hallucinated == [answer |-> "yes_with_evidence", cites |-> {ghost}, text |-> {}]
GateScript ==
  "intake"     :> Intake(r1, q1)
  @@ "api"     :> DirectWriteAttack(r1, q1, Reviewed) \o SubSeq(UntilReview(r1, q1), 4, 6)
  @@ "attack"  :> SubSeq(AttackScenario(r1, q1, Hallucinated), 5, 6)
  @@ "review"  :> <<Approve(r1, q1), ExportOf(r1, q1, "any")>>
GateClients == DOMAIN GateScript

\* One CLI session that goes from the evidence to the export, and a second one
\* that repeats its end, with faults between any two steps of either.
Reject(run, q) == [op |-> "review", run |-> run, question |-> q, decision |-> "rejected"]
RetryScript ==
  "intake"    :> Intake(r1, q1)
  @@ "first"  :> SubSeq(WorkerSession(r1, q1), 4, 8)
  @@ "retry"  :> <<Guard(r1, q1, "any"), Reject(r1, q1), ExportOf(r1, q1, "any")>>
RetryClients == DOMAIN RetryScript

\* From the very beginning: the last two steps of a run that stops at its evidence, and
\* with the same run id the scenarios that must not get through: a direct write of each
\* kind, a malformed draft, and the export shortcut with its own intake and release.
Shortcut == [answer |-> "cannot_answer", cites |-> {}, text |-> {"EXPORT_ATTEMPT"}]
AttackScript ==
  "evidence"   :> SubSeq(UntilEvidence(r1, q1, 1), 3, 4)
  @@ "attack"  :> DirectWriteAttack(r1, q1, Ready) \o DirectWriteAttack(r1, q1, Reviewed)
                  \o <<Simple("malformed", r1, q1)>> \o ExportShortcut(r1, q1, Shortcut)
AttackClients == DOMAIN AttackScript

\* From the very beginning, without faults and with complete reads: the happy path
\* of one command, and a second reviewer and exporter on the same run.
HappyScript ==
  "happy"      :> HappyPath(r1, q1)
  @@ "review"  :> <<Approve(r1, q1), ExportOf(r1, q1, "any")>>
HappyClients == DOMAIN HappyScript
=============================================================================
