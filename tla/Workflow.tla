------------------------------ MODULE Workflow ------------------------------
(***************************************************************************)
(* The governed questionnaire workflow of scenario_runner.py.              *)
(*                                                                         *)
(* Kafka topics are append-only logs.  A client is one thread or process   *)
(* that calls the operations of scenario_runner in a row: an API request,  *)
(* a CLI worker, a scenario, a child of the swarm.  Every operation reads  *)
(* one or two topics (consume_events), computes, and then publishes its    *)
(* events one by one, its audit event last (produce_event); an exception   *)
(* ends the client.  Clients interleave at every one of those steps, and   *)
(* several may work on the same run.                                       *)
(*                                                                         *)
(* Faults, at most MaxFaults in a behaviour: a produce call times out and  *)
(* its message may land later or never, a retransmission lands twice, a    *)
(* client dies or raises between two steps.  A read may stop early and     *)
(* return only a prefix of the topic (StaleReads).                         *)
(***************************************************************************)
EXTENDS Authority, ToolRuns

CONSTANTS
  Clients,        \* threads and processes
  Script,         \* Script[c]: the operations client c performs, in order
  Runs,           \* workflow run ids
  Library,        \* evidence ids of fixtures/evidence, in order
  AiAllowed,      \* those allowed_for_ai and neither restricted nor secret
  Questionnaire,  \* question ids of the fixture, in order
  Selected,       \* QUESTION_EVIDENCE: question -> set of evidence ids
  Unknown,        \* an evidence id that no library holds
  Texts,          \* the texts a draft can have, each the set of markers in it
  RestrictedQuestion,      \* "Q-008"
  CertificationQuestions,  \* questions whose control area is certification
  MinCalls, MaxCalls,      \* tool calls of an agent before and until its draft
  StaleReads,     \* may a read miss the end of the topic
  MaxFaults       \* bound on the faults of one behaviour

Evidence  == ToSet(Library)
Questions == ToSet(Questionnaire)
Cited     == Evidence \cup {Unknown}

\* What evaluate_draft looks for in the text of a draft; all but the last have
\* the name of the reason code they lead to.
Markers == {"APPROVAL_ATTEMPT", "EXPORT_ATTEMPT", "SENSITIVE_DATA", "PROMPT_INJECTION",
            "certified"}

\* "no" stands for partially_implemented and needs_review as well: answers that need
\* evidence and whose claims are not checked.
AnswerTypes == {"yes_with_evidence", "no", "cannot_answer"}
Decisions   == {"approved", "edited_and_approved", "rejected",
                "needs_more_evidence", "escalated"}
Approving   == {"approved", "edited_and_approved"}

\* What a model answers, as far as ProposedAnswer lets it through: evidence is
\* required unless the answer is cannot_answer.
Answers == {a \in [answer : AnswerTypes, cites : SUBSET Cited, text : Texts] :
              a.cites = {} => a.answer = "cannot_answer"}

\* The accounts that the scenarios audit their verdicts with.
Noters == {"svc-ai-drafter", "svc-policy-guard", "svc-review-export"}

SimpleOps == {"seed", "ingest", "prepare", "evidence", "draft", "agentic", "malformed"}

\* One call of an operation: what it works on and its own arguments.
IsOperation(o) ==
  /\ o.run \in Runs
  /\ o.question \in Questions
  /\ \/ o.op \in SimpleOps
     \/ o.op = "attack" /\ o.draft \in Answers
     \/ o.op = "guard"  /\ o.want \in {"any", "accepted", "rejected"}
     \/ o.op = "review" /\ o.decision \in Decisions
     \/ o.op = "export" /\ o.want \in {"any", "refused"}
     \/ o.op = "note"   /\ o.principal \in Noters /\ o.back \in Nat /\ o.nth \in Nat
     \/ o.op = "direct_write" /\ o.target \in {Ready, Reviewed}

ASSUME ScriptType == \A c \in Clients :
         /\ Script[c] \in Seq({Script[c][i] : i \in 1..Len(Script[c])})
         /\ Script[c] # << >>
         /\ \A i \in 1..Len(Script[c]) :
              IsOperation(Script[c][i]) /\ (Script[c][i].op = "note" => Script[c][i].back < i)

\* An operation that a client went past has published its events 1, 2, ... up to at
\* least this one; a direct write that was denied has published others instead.
LeastEvents(o) ==
  CASE o.op = "direct_write" -> 0
    [] o.op = "prepare"      -> Len(Questionnaire) + 1
    [] OTHER                 -> 1

\* What a scenario audits afterwards is an event that the earlier operation published.
ASSUME ScriptRefersBack == \A c \in Clients : \A i \in 1..Len(Script[c]) :
         /\ Script[c][i].op = "note" =>
              /\ Script[c][i].back \in 1..(i - 1)
              /\ Script[c][i].nth \in 1..LeastEvents(Script[c][i - Script[c][i].back])
         /\ Script[c][i].op = "export" /\ Script[c][i].want = "refused" =>
              i > 1 /\ LeastEvents(Script[c][i - 1]) > 0

ASSUME FixtureType ==
         /\ Library \in Seq(Evidence)
         /\ Questionnaire \in Seq(Questions)
         /\ AiAllowed \subseteq Evidence
         /\ Unknown \notin Evidence
         /\ Texts \subseteq SUBSET Markers
         /\ \A q \in Questions : Selected[q] \subseteq Evidence

ASSUME CallsType == MinCalls \in Nat /\ MaxCalls \in Nat \ {0}

ASSUME ReadType == StaleReads \in BOOLEAN /\ MaxFaults \in Nat

VARIABLES
  log,      \* log[t]: the events of topic t, oldest first
  pos,      \* pos[c]: which operation of its script client c is at
  pc,       \* pc[c]: where in that operation
  taken,    \* taken[c]: the event the first read of the operation returned
  outbox,   \* outbox[c]: the messages the operation has still to produce
  late,     \* messages whose produce call timed out and that may still land
  faults    \* faults so far
vars == <<log, pos, pc, taken, outbox, late, faults>>

-----------------------------------------------------------------------------
(* Events and messages *)

\* event_id is a fresh uuid4: the k-th event of the i-th operation of client c.
Ids == Clients \X Nat \X Nat
NoId == << >>
NoEvent == << >>

ReasonCodes == {"MISSING_EVIDENCE", "UNKNOWN_EVIDENCE_ID", "RESTRICTED_EVIDENCE",
                "UNSUPPORTED_CLAIM", "MALFORMED_EVENT", "FORBIDDEN_WORKFLOW_FIELD"}
               \cup (Markers \ {"certified"})

EventOf(t) ==
  CASE t = Received -> [id : Ids, run : Runs]
    [] t = Prepared -> [id : Ids, run : Runs, question : Questions]
    [] t = Internal -> [id : Ids, run : Runs, evidence : Evidence]
    [] t = AiSafe   -> [id : Ids, run : Runs, question : Questions, evidence : Evidence]
    [] t = Proposed -> [id : Ids, run : Runs, question : Questions, answer : AnswerTypes,
                        cites : SUBSET Cited, text : Texts]
    [] t = Accepted -> [id : Ids, run : Runs, question : Questions, draft : Ids,
                        cites : SUBSET Cited]
    [] t = Rejected -> [id : Ids, run : Runs, question : Questions, draft : Ids \cup {NoId},
                        reasons : SUBSET ReasonCodes]
    [] t = Reviewed -> [id : Ids, run : Runs, question : Questions, decision : Decisions,
                        cites : SUBSET Cited]
    [] t = Ready    -> [id : Ids, run : Runs, reviewed : SUBSET Ids]
    [] t = Audit    -> [id : Ids, run : Runs, source : Ids \cup Runs]
    [] t = Alert    -> [id : Ids, run : Runs, resource : Topics]

MessageOn(t) == [principal : Principals, topic : {t}, event : EventOf(t)]
Message == MessageOn(Received) \cup MessageOn(Prepared) \cup MessageOn(Internal)
             \cup MessageOn(AiSafe) \cup MessageOn(Proposed) \cup MessageOn(Accepted)
             \cup MessageOn(Rejected) \cup MessageOn(Reviewed) \cup MessageOn(Ready)
             \cup MessageOn(Audit) \cup MessageOn(Alert)

Msg(p, t, e) == [principal |-> p, topic |-> t, event |-> e]

Events(t) == {log[t][i] : i \in 1..Len(log[t])}

Op(c) == Script[c][pos[c]]
Id(c, k) == <<c, pos[c], k>>

\* _audit: the event that tells the audit timeline what happened to `source`.
AuditMsg(c, k, p, source) == Msg(p, Audit, [id |-> Id(c, k), run |-> Op(c).run, source |-> source])

\* Mutants: the guard forgets to check the citations, or the claims of certification.
ViolationsButUnknown(d, safe) ==
  {m \in d.text : m # "certified"}
    \cup {r \in {"RESTRICTED_EVIDENCE"} : d.question = RestrictedQuestion /\ safe = {}}
ViolationsButUnsupported(d, safe) ==
  {m \in d.text : m # "certified"}
    \cup {r \in {"UNKNOWN_EVIDENCE_ID"} : ~(d.cites \subseteq safe)}
    \cup {r \in {"RESTRICTED_EVIDENCE"} : d.question = RestrictedQuestion /\ safe = {}}

\* What evaluate_draft finds wrong with draft d, given the AI-safe evidence it read.
Violations(d, safe) ==
  {m \in d.text : m # "certified"}
    \cup {r \in {"MISSING_EVIDENCE"}    : d.answer # "cannot_answer" /\ d.cites = {}}
    \cup {r \in {"UNKNOWN_EVIDENCE_ID"} : ~(d.cites \subseteq safe)}
    \cup {r \in {"RESTRICTED_EVIDENCE"} : d.question = RestrictedQuestion /\ safe = {}}
    \cup {r \in {"UNSUPPORTED_CLAIM"}   : /\ d.question \in CertificationQuestions
                                          /\ d.answer = "yes_with_evidence"
                                          /\ "certified" \in d.text}

-----------------------------------------------------------------------------
(* Reading and publishing *)

\* Reads by a principal without the grant raise; every read below is granted, and
\* were one not, its client would be stuck and Termination violated.
\* How much of topic t a consumer with principal p may have seen when it stops.
ReadUpTo(p, t) == {n \in 0..Len(log[t]) : MayRead(p, t) /\ (StaleReads \/ n = Len(log[t]))}

\* _latest, _latest_question: the last of the first n events of topic t that is
\* of the run and of the question, if there is one.
About(e, t, o) == e.run = o.run /\ (t # Received => e.question = o.question)
Latest(t, n, o) ==
  {log[t][i] : i \in {j \in 1..n : /\ About(log[t][j], t, o)
                                   /\ \A k \in (j + 1)..n : ~About(log[t][k], t, o)}}

\* The evidence ids found in the first n events of the run's library, and of the
\* run's AI-safe evidence for the question.
LibrarySeen(n, o) == {log[Internal][i].evidence : i \in {j \in 1..n : log[Internal][j].run = o.run}}
SafeSeen(n, o)    == {log[AiSafe][i].evidence : i \in {j \in 1..n : About(log[AiSafe][j], AiSafe, o)}}

Doing(c, ops) == pc[c] = "start" /\ Op(c).op \in ops

\* The operation raises: the client ends.
Fail(c) ==
  /\ pc' = [pc EXCEPT ![c] = "aborted"]
  /\ taken' = [taken EXCEPT ![c] = NoEvent]
  /\ outbox' = [outbox EXCEPT ![c] = << >>]
  /\ UNCHANGED <<log, pos>>

\* The operation has computed what to publish; at `then` = "raise" an exception
\* follows the last message.
Publish(c, msgs, then) ==
  /\ pc' = [pc EXCEPT ![c] = then]
  /\ taken' = [taken EXCEPT ![c] = NoEvent]
  /\ outbox' = [outbox EXCEPT ![c] = msgs]
  /\ UNCHANGED <<log, pos, late, faults>>

Keep(c, e) ==
  /\ pc' = [pc EXCEPT ![c] = "second"]
  /\ taken' = [taken EXCEPT ![c] = e]
  /\ UNCHANGED <<log, pos, outbox, late, faults>>

\* The first read of an operation that works on one question.
TakeLatest(c, p, t) ==
  \E n \in ReadUpTo(p, t) :
    \/ Latest(t, n, Op(c)) = {} /\ Fail(c) /\ UNCHANGED <<late, faults>>
    \/ \E e \in Latest(t, n, Op(c)) : Keep(c, e)

-----------------------------------------------------------------------------
(* The operations *)

\* seed_evidence_events
Seed(c) ==
  /\ Doing(c, {"seed"})
  /\ LET n == Len(Library)
         item(k) == [id |-> Id(c, k), run |-> Op(c).run, evidence |-> Library[k]]
     IN Publish(c, Append([k \in 1..n |-> Msg("svc-evidence-gateway", Internal, item(k))],
                          AuditMsg(c, n + 1, "svc-evidence-gateway", Op(c).run)), "send")

\* ingest_questionnaire_event
Ingest(c) ==
  /\ Doing(c, {"ingest"})
  /\ Publish(c, <<Msg("svc-ingest", Received, [id |-> Id(c, 1), run |-> Op(c).run]),
                  AuditMsg(c, 2, "svc-ingest", Id(c, 1))>>, "send")

\* prepare_questions_for_run, with prepare_questions
PreparedMsgs(c, e) ==
  LET q == Len(Questionnaire)
      question(k) == [id |-> Id(c, k), run |-> e.run, question |-> Questionnaire[k]]
  IN Append([k \in 1..q |-> Msg("svc-preparer", Prepared, question(k))],
            AuditMsg(c, q + 1, "svc-preparer", e.id))
\* Mutant: it polls until there is a questionnaire.
PrepareWaiting(c) ==
  /\ Doing(c, {"prepare"})
  /\ \E n \in ReadUpTo("svc-preparer", Received) :
       \E e \in Latest(Received, n, Op(c)) : Publish(c, PreparedMsgs(c, e), "send")
Prepare(c) ==
  /\ Doing(c, {"prepare"})
  /\ \E n \in ReadUpTo("svc-preparer", Received) :
       \/ Latest(Received, n, Op(c)) = {} /\ Fail(c) /\ UNCHANGED <<late, faults>>
       \/ \E e \in Latest(Received, n, Op(c)) : Publish(c, PreparedMsgs(c, e), "send")

\* The first read of produce_ai_safe_evidence_for_question and of the drafters:
\* the prepared question.
TakeQuestion(c) ==
  \/ Doing(c, {"evidence"}) /\ TakeLatest(c, "svc-evidence-gateway", Prepared)
  \/ Doing(c, {"draft", "agentic"}) /\ TakeLatest(c, "svc-ai-drafter", Prepared)

Second(c, op) == pc[c] = "second" /\ Op(c).op = op

\* make_ai_safe_evidence: one event for every item that may be shown to the model.
SafeMsg(c, k, item) ==
  Msg("svc-evidence-gateway", AiSafe,
      [id |-> Id(c, k), run |-> taken[c].run, question |-> taken[c].question, evidence |-> item])
\* Mutant: everything selected is released.
ReleasableAll(items) == items
Releasable(items) == items \cap AiAllowed
ReleaseMsgs(c, items) ==
  Append([k \in 1..Len(items) |-> SafeMsg(c, k, items[k])],
         AuditMsg(c, Len(items) + 1, "svc-evidence-gateway", taken[c].id))

\* The rest of produce_ai_safe_evidence_for_question; select_evidence raises
\* KeyError when the library it read lacks an item.
ReleaseEvidence(c) ==
  /\ Second(c, "evidence")
  /\ \E n \in ReadUpTo("svc-evidence-gateway", Internal) :
       \/ /\ ~(Selected[Op(c).question] \subseteq LibrarySeen(n, Op(c)))
          /\ Fail(c) /\ UNCHANGED <<late, faults>>
       \/ /\ Selected[Op(c).question] \subseteq LibrarySeen(n, Op(c))
          /\ \E items \in SetToSeqs(Releasable(Selected[Op(c).question])) :
               Publish(c, ReleaseMsgs(c, items), "send")

\* Mutant: the audit event goes first.
DraftAuditFirst(c, k, q, a) ==
  <<AuditMsg(c, k + 1, "svc-ai-drafter", Id(c, k)),
    Msg("svc-ai-drafter", Proposed,
        [id |-> Id(c, k), run |-> q.run, question |-> q.question,
         answer |-> a.answer, cites |-> a.cites, text |-> a.text])>>

\* The proposed answer a drafter publishes, and its audit event.
Draft(c, k, q, a) ==
  <<Msg("svc-ai-drafter", Proposed,
        [id |-> Id(c, k), run |-> q.run, question |-> q.question,
         answer |-> a.answer, cites |-> a.cites, text |-> a.text]),
    AuditMsg(c, k + 1, "svc-ai-drafter", Id(c, k))>>

\* The rest of draft_answer_for_question: the model answers; generate_draft
\* raises when it cites evidence that was not read.
DraftAnswer(c) ==
  /\ Second(c, "draft")
  /\ \E n \in ReadUpTo("svc-ai-drafter", AiSafe), a \in Answers :
       \/ /\ ~(a.cites \subseteq SafeSeen(n, Op(c)))
          /\ Fail(c) /\ UNCHANGED <<late, faults>>
       \/ /\ a.cites \subseteq SafeSeen(n, Op(c))
          /\ Publish(c, Draft(c, 1, taken[c], a), "send")

\* The messages of a run of the agent loop: an audit event about the question for every
\* tool call, an AI-safe event for every item it releases.
ToolCalls(c, run) ==
  [k \in 1..Len(run) |-> IF run[k] = AuditStep THEN AuditMsg(c, k, "svc-ai-drafter", taken[c].id)
                                               ELSE SafeMsg(c, k, run[k][1])]

\* The rest of draft_answer_agentically_for_question: the agent loop over the library it
\* read (module AgentLoop has the loop) ends in a draft that cites what it released, or in
\* an exception, perhaps before its first tool call.
DraftAgentically(c) ==
  /\ Second(c, "agentic")
  /\ \E n \in ReadUpTo("svc-evidence-gateway", Internal) :
       \E run \in ToolRuns(Releasable(LibrarySeen(n, Op(c))), MaxCalls) :
         \/ run = << >> /\ Fail(c) /\ UNCHANGED <<late, faults>>
         \/ run # << >> /\ Publish(c, ToolCalls(c, run), "raise")
         \/ \E a \in Answers :
              /\ run # << >> /\ CallsIn(run) >= MinCalls /\ a.cites \subseteq ItemsIn(run)
              /\ Publish(c, ToolCalls(c, run) \o Draft(c, Len(run) + 1, taken[c], a), "send")

\* _produce_attack_draft
AttackDraft(c) ==
  /\ Doing(c, {"attack"})
  /\ Publish(c, Draft(c, 1, Op(c), Op(c).draft), "send")

\* The first read of guard_draft_for_question: the draft to judge.
TakeDraft(c) == Doing(c, {"guard"}) /\ TakeLatest(c, "svc-policy-guard", Proposed)

\* Mutant: both verdicts go to one topic.
VerdictOnOneTopic(c, d, safe) ==
  Msg("svc-policy-guard", Accepted,
      [id |-> Id(c, 1), run |-> d.run, question |-> d.question, draft |-> d.id,
       reasons |-> Violations(d, safe)])

\* The rest of guard_draft_for_question: evaluate_draft and its verdict.  A
\* scenario that wants the other verdict raises afterwards.
Verdict(c, d, safe) ==
  IF Violations(d, safe) = {}
  THEN Msg("svc-policy-guard", Accepted,
           [id |-> Id(c, 1), run |-> d.run, question |-> d.question, draft |-> d.id, cites |-> d.cites])
  ELSE Msg("svc-policy-guard", Rejected,
           [id |-> Id(c, 1), run |-> d.run, question |-> d.question, draft |-> d.id,
            reasons |-> Violations(d, safe)])
Wanted(o, t) ==
  /\ o.want = "accepted" => t = Accepted
  /\ o.want = "rejected" => t = Rejected
GuardDraft(c) ==
  /\ Second(c, "guard")
  /\ \E n \in ReadUpTo("svc-policy-guard", AiSafe) :
       LET v == Verdict(c, taken[c], SafeSeen(n, Op(c)))
       IN Publish(c, <<v, AuditMsg(c, 2, "svc-policy-guard", Id(c, 1))>>,
                  IF Wanted(Op(c), v.topic) THEN "send" ELSE "raise")

\* review_accepted_answer, with review_answer
ReviewMsgs(c, e) ==
  <<Msg("svc-review-export", Reviewed,
        [id |-> Id(c, 1), run |-> e.run, question |-> e.question,
         decision |-> Op(c).decision, cites |-> e.cites]),
    AuditMsg(c, 2, "svc-review-export", Id(c, 1))>>
\* Mutant: a decision without an edit is refused.
ReviewEditsOnly(c) ==
  /\ Doing(c, {"review"})
  /\ \E n \in ReadUpTo("svc-review-export", Accepted) :
       \/ Op(c).decision # "edited_and_approved" /\ Fail(c) /\ UNCHANGED <<late, faults>>
       \/ /\ Op(c).decision = "edited_and_approved"
          /\ \E e \in Latest(Accepted, n, Op(c)) : Publish(c, ReviewMsgs(c, e), "send")
\* Mutant: what the drafter proposed last is reviewed, whatever the guard says of it.
ReviewProposed(c) ==
  /\ Doing(c, {"review"})
  /\ \E n \in ReadUpTo("svc-policy-guard", Proposed) :
       \/ Latest(Proposed, n, Op(c)) = {} /\ Fail(c) /\ UNCHANGED <<late, faults>>
       \/ \E e \in Latest(Proposed, n, Op(c)) : Publish(c, ReviewMsgs(c, e), "send")
Review(c) ==
  /\ Doing(c, {"review"})
  /\ \E n \in ReadUpTo("svc-review-export", Accepted) :
       \/ Latest(Accepted, n, Op(c)) = {} /\ Fail(c) /\ UNCHANGED <<late, faults>>
       \/ \E e \in Latest(Accepted, n, Op(c)) : Publish(c, ReviewMsgs(c, e), "send")

\* export_reviewed_response, with build_response_ready.  The export-shortcut
\* scenario (want = "refused") expects ValueError, audits it against the guard's
\* verdict, and raises if the export goes through.
\* Mutant: any decision will do.
ExportableDecided(n, run) == {log[Reviewed][i] : i \in {j \in 1..n : log[Reviewed][j].run = run}}
Exportable(n, run) ==
  {log[Reviewed][i] : i \in {j \in 1..n : /\ log[Reviewed][j].run = run
                                           /\ log[Reviewed][j].decision \in Approving}}
ReadyMsgs(c, exportable) ==
  <<Msg("svc-review-export", Ready,
        [id |-> Id(c, 1), run |-> Op(c).run, reviewed |-> {e.id : e \in exportable}]),
    AuditMsg(c, 2, "svc-review-export", Id(c, 1))>>
\* Mutant: a response without approved answers goes out empty.
ExportEmpty(c) ==
  /\ Doing(c, {"export"})
  /\ \E n \in ReadUpTo("svc-review-export", Reviewed) :
       Publish(c, ReadyMsgs(c, Exportable(n, Op(c).run)), "send")
Export(c) ==
  /\ Doing(c, {"export"})
  /\ \E n \in ReadUpTo("svc-review-export", Reviewed) :
       LET exportable == Exportable(n, Op(c).run)
       IN \/ exportable = {} /\ Op(c).want = "any" /\ Fail(c) /\ UNCHANGED <<late, faults>>
          \/ /\ exportable = {} /\ Op(c).want = "refused"
             /\ Publish(c, <<AuditMsg(c, 1, "svc-review-export", <<c, pos[c] - 1, 1>>)>>, "send")
          \/ /\ exportable # {}
             /\ Publish(c, ReadyMsgs(c, exportable), IF Op(c).want = "any" THEN "send" ELSE "raise")

\* The audit event a scenario adds about the verdict it has got, or about the
\* question it has prepared: the nth event of an operation before.
Note(c) ==
  /\ Doing(c, {"note"})
  /\ Publish(c, <<AuditMsg(c, 1, Op(c).principal, <<c, pos[c] - Op(c).back, Op(c).nth>>)>>, "send")

\* run_malformed_draft, after its preparation: the draft fails its contract and
\* is never published; a rejection without a draft and an alert are.
Malformed(c) ==
  /\ Doing(c, {"malformed"})
  /\ Publish(c, <<Msg("svc-policy-guard", Rejected,
                      [id |-> Id(c, 1), run |-> Op(c).run, question |-> Op(c).question,
                       draft |-> NoId, reasons |-> {"MALFORMED_EVENT", "FORBIDDEN_WORKFLOW_FIELD"}]),
                  Msg("svc-policy-guard", Alert,
                      [id |-> Id(c, 2), run |-> Op(c).run, resource |-> Proposed]),
                  AuditMsg(c, 3, "svc-policy-guard", Id(c, 1))>>, "send")

\* run_ai_direct_write_attack: the drafter's principal produces a forged event.
Forged(c) ==
  IF Op(c).target = Reviewed
  THEN [id |-> Id(c, 1), run |-> Op(c).run, question |-> Op(c).question,
        decision |-> "approved", cites |-> {}]
  ELSE [id |-> Id(c, 1), run |-> Op(c).run, reviewed |-> {Id(c, 0)}]
DirectWrite(c) ==
  /\ Doing(c, {"direct_write"})
  /\ Publish(c, <<Msg("svc-ai-drafter", Op(c).target, Forged(c))>>, "attack")

-----------------------------------------------------------------------------
(* Producing *)

\* Mutant: the operation is over after its first message.
SentFirst(c) ==
  /\ outbox' = [outbox EXCEPT ![c] = << >>]
  /\ pos' = [pos EXCEPT ![c] = pos[c] + 1]
  /\ pc' = [pc EXCEPT ![c] = IF pos[c] = Len(Script[c]) THEN "done" ELSE "start"]
  /\ UNCHANGED <<taken, late>>

\* After the last message of an operation the client goes on to the next one.
Sent(c) ==
  /\ outbox' = [outbox EXCEPT ![c] = Tail(outbox[c])]
  /\ IF Len(outbox[c]) > 1 THEN UNCHANGED <<pos, pc>>
     ELSE /\ pos' = [pos EXCEPT ![c] = IF pc[c] = "raise" THEN pos[c] ELSE pos[c] + 1]
          /\ pc' = [pc EXCEPT ![c] = CASE pc[c] = "raise" -> "aborted"
                                       [] pos[c] = Len(Script[c]) /\ pc[c] # "raise" -> "done"
                                       [] OTHER -> "start"]
  /\ UNCHANGED <<taken, late>>

Sending(c) == pc[c] \in {"send", "raise", "attack"}

\* produce_event: the broker appends the message and acknowledges it.
Send(c) ==
  /\ Sending(c)
  /\ LET m == Head(outbox[c]) IN
       /\ MayWrite(m.principal, m.topic)
       /\ log' = [log EXCEPT ![m.topic] = Append(@, m.event)]
  /\ Sent(c) /\ UNCHANGED faults

\* The client library retransmits and both copies land.
SendTwice(c) ==
  /\ Sending(c) /\ faults < MaxFaults
  /\ LET m == Head(outbox[c]) IN
       /\ MayWrite(m.principal, m.topic)
       /\ log' = [log EXCEPT ![m.topic] = Append(Append(@, m.event), m.event)]
  /\ Sent(c) /\ faults' = faults + 1

\* produce_event raises KafkaClientError.  The direct-write attack takes any
\* such error for the denial it expects, and alerts and audits it.
KafkaError(c) ==
  \/ pc[c] # "attack" /\ Fail(c)
  \/ /\ pc[c] = "attack"
     /\ pc' = [pc EXCEPT ![c] = "send"]
     /\ outbox' = [outbox EXCEPT ![c] =
          <<Msg("svc-policy-guard", Alert,
                [id |-> Id(c, 2), run |-> Op(c).run, resource |-> Op(c).target]),
            AuditMsg(c, 3, "svc-policy-guard", Id(c, 2))>>]
     /\ UNCHANGED <<log, pos, taken>>

\* No ACL lets the principal write the topic: the broker denies the message.
Denied(c) ==
  /\ Sending(c)
  /\ ~MayWrite(Head(outbox[c]).principal, Head(outbox[c]).topic)
  /\ KafkaError(c) /\ UNCHANGED <<late, faults>>

\* flush(10) returns before the broker acknowledged.
TimeOut(c) ==
  /\ Sending(c) /\ faults < MaxFaults
  /\ MayWrite(Head(outbox[c]).principal, Head(outbox[c]).topic)
  /\ late' = late \cup {Head(outbox[c])}
  /\ KafkaError(c) /\ faults' = faults + 1

\* A message given up on lands after all.
LandLate(m) ==
  /\ log' = [log EXCEPT ![m.topic] = Append(@, m.event)]
  /\ late' = late \ {m}
  /\ UNCHANGED <<pos, pc, taken, outbox, faults>>

\* The client is killed, or its model call, its agent loop or a read raises.
Abort(c) ==
  /\ pc[c] \notin {"done", "aborted"} /\ faults < MaxFaults
  /\ Fail(c) /\ faults' = faults + 1 /\ UNCHANGED late

-----------------------------------------------------------------------------
Init ==
  /\ log = [t \in Topics |-> << >>]
  /\ pos = [c \in Clients |-> 1]
  /\ pc = [c \in Clients |-> "start"]
  /\ taken = [c \in Clients |-> NoEvent]
  /\ outbox = [c \in Clients |-> << >>]
  /\ late = {}
  /\ faults = 0

Compute(c) ==
  \/ Seed(c) \/ Ingest(c) \/ Prepare(c)
  \/ TakeQuestion(c) \/ ReleaseEvidence(c) \/ DraftAnswer(c) \/ DraftAgentically(c)
  \/ AttackDraft(c) \/ TakeDraft(c) \/ GuardDraft(c)
  \/ Review(c) \/ Export(c) \/ Note(c) \/ Malformed(c) \/ DirectWrite(c)

\* What a client does when no fault hits it.
Step(c) == Compute(c) \/ Send(c) \/ Denied(c)

Next ==
  \/ \E c \in Clients : Step(c) \/ SendTwice(c) \/ TimeOut(c) \/ Abort(c)
  \/ \E m \in late : LandLate(m)

\* A thread is scheduled again and again and every Kafka and model call has a
\* deadline, so a client that can take a step takes one.
Spec == Init /\ [][Next]_vars /\ \A c \in Clients : WF_vars(Step(c))

-----------------------------------------------------------------------------
(* Properties *)

PCs == {"start", "second", "send", "raise", "attack", "done", "aborted"}

\* Every variable has its type.
TypeOK ==
  /\ log = [t \in Topics |-> log[t]]
  /\ \A t \in Topics : log[t] \in Seq(EventOf(t))
  /\ pos \in [Clients -> Nat \ {0}]
  /\ pc \in [Clients -> PCs]
  /\ taken \in [Clients -> EventOf(Prepared) \cup EventOf(Proposed) \cup {NoEvent}]
  /\ outbox \in [Clients -> Seq(Message)]
  /\ late \subseteq Message
  /\ faults \in 0..MaxFaults

\* Evidence s may be shown to the model, was seeded in the same run, and is for a
\* question prepared in that run.
ReleaseAllowed(s) ==
  /\ s.evidence \in AiAllowed
  /\ \E i \in Events(Internal) : i.run = s.run /\ i.evidence = s.evidence
  /\ \E q \in Events(Prepared) : q.run = s.run /\ q.question = s.question

\* Acceptance a is of a proposed draft that breaks no rule of the policy and cites
\* only evidence released for that question of that run; for the restricted
\* question some evidence has been.
AcceptAllowed(a) ==
  /\ \E d \in Events(Proposed) :
       /\ d.id = a.draft /\ d.run = a.run /\ d.question = a.question /\ d.cites = a.cites
       /\ d.text \subseteq {"certified"}
       /\ d.cites = {} => d.answer = "cannot_answer"
       /\ d.question \in CertificationQuestions /\ "certified" \in d.text
            => d.answer # "yes_with_evidence"
  /\ \A x \in a.cites :
       \E s \in Events(AiSafe) : s.run = a.run /\ s.question = a.question /\ s.evidence = x
  /\ a.question = RestrictedQuestion =>
       \E s \in Events(AiSafe) : s.run = a.run /\ s.question = a.question

\* Review v is of an answer accepted in the same run.
ReviewAllowed(v) ==
  \E a \in Events(Accepted) : a.run = v.run /\ a.question = v.question /\ a.cites = v.cites

\* Response r lists approved answers of its run, one at least.
ExportAllowed(r) ==
  /\ r.reviewed # {}
  /\ \A id \in r.reviewed :
       \E v \in Events(Reviewed) : v.id = id /\ v.run = r.run /\ v.decision \in Approving

\* Evidence x cited by review v may be shown to the model, was released for the
\* question of the run, and comes from the library of the run.
CitationAllowed(v, x) ==
  /\ x \in AiAllowed
  /\ \E s \in Events(AiSafe) : s.run = v.run /\ s.question = v.question /\ s.evidence = x
  /\ \E i \in Events(Internal) : i.run = v.run /\ i.evidence = x

\* Review v approves, for the run of response r, an answer that was proposed and
\* accepted there as it is.
AnswerAllowed(v, r) ==
  /\ v.run = r.run /\ v.decision \in Approving
  /\ \E a \in Events(Accepted), d \in Events(Proposed) :
       /\ a.run = v.run /\ a.question = v.question /\ a.cites = v.cites
       /\ d.id = a.draft /\ d.run = v.run /\ d.question = v.question /\ d.cites = v.cites
       /\ d.text \subseteq {"certified"} /\ (d.cites = {} => d.answer = "cannot_answer")
  /\ \A x \in v.cites : CitationAllowed(v, x)

\* Evidence reaches the model only if it may: the gateway and the agent release
\* nothing restricted, nothing of another run, nothing for an unknown question.
ReleasedIsAllowed == \A s \in Events(AiSafe) : ReleaseAllowed(s)

\* A guard that reads too little AI-safe evidence, or a draft that is overtaken by
\* another, may lead to a wrong rejection but never to a wrong acceptance.
AcceptedIsGrounded == \A a \in Events(Accepted) : AcceptAllowed(a)

\* No review without the guard's acceptance, whatever principal publishes it.
ReviewFollowsAcceptance == \A v \in Events(Reviewed) : ReviewAllowed(v)

\* "A human review event is required before export": whatever the drafter's
\* principal tries, and however clients interleave, time out or read stale topics.
ExportListsApproved == \A r \in Events(Ready) : ExportAllowed(r)

\* The whole way back from a response: each id it lists is that of one review and of
\* no other event, and what that review let out is an accepted answer of the same
\* run, grounded in evidence that the model was allowed to see there.
ExportedIsGrounded ==
  \A r \in Events(Ready) :
    /\ r.reviewed # {}
    /\ \A id \in r.reviewed :
         /\ \E v \in Events(Reviewed) : v.id = id
         /\ \A v \in Events(Reviewed) : v.id = id => AnswerAllowed(v, r)

\* The audit timeline never runs ahead: what an audit event is about (the run
\* itself for the seeding) is already in some topic, whatever timed out.
AuditNeverAhead ==
  \A a \in Events(Audit) :
    a.source = a.run \/ \E t \in Topics : \E e \in Events(t) : e.id = a.source

\* An operation the client went past has left its audit event.  This says nothing of
\* direct writes: one that is let through leaves none, one that is denied audits the alert.
CompletedOpsAreAudited ==
  \A c \in Clients : \A i \in 1..(pos[c] - 1) :
    Script[c][i].op = "direct_write"
      \/ \E a \in Events(Audit) : a.id[1] = c /\ a.id[2] = i

\* Every client comes to its end: every wait has a deadline, and every service
\* principal is granted what its operation reads.
Termination == \A c \in Clients : <>(pc[c] \in {"done", "aborted"})

\* The gate opens: without faults and stale reads, a review begun after an
\* acceptance is published, and an export begun after an approval is too.
GateOpens ==
  \A c \in Clients :
    /\ Doing(c, {"review"}) /\ (\E a \in Events(Accepted) : About(a, Accepted, Op(c)))
         ~> \E v \in Events(Reviewed) : v.id[1] = c
    /\ Doing(c, {"export"}) /\ Exportable(Len(log[Reviewed]), Op(c).run) # {}
         ~> \E r \in Events(Ready) : r.id[1] = c

\* Every account is granted the topics its operations write, and the forged event of the
\* direct-write attack is the one message that the broker denies: no operation of the
\* workflow is stopped half way by its own ACLs.
Writable(m) == MayWrite(m.principal, m.topic)
OnlyTheAttackIsDenied ==
  AclsEnforced => \A c \in Clients : \A m \in ToSet(outbox[c]) : Writable(m) <=> pc[c] # "attack"

\* What a client holds agrees with where it is: part of the inductive invariants.
TakenTopic(c) == IF Op(c).op = "guard" THEN Proposed ELSE Prepared
ClientOK(c) ==
  /\ pc[c] # "done" => pos[c] <= Len(Script[c])
  /\ Sending(c) => outbox[c] # << >>
  /\ pc[c] = "attack" => Op(c).op = "direct_write"
  /\ pc[c] = "second" =>
       /\ Op(c).op \in {"evidence", "draft", "agentic", "guard"}
       /\ taken[c] \in Events(TakenTopic(c))
       /\ taken[c].run = Op(c).run /\ taken[c].question = Op(c).question
ClientsOK == \A c \in Clients : ClientOK(c)

\* Everything published, waiting to be published or still on its way is justified
\* by what the topics hold already: the inductive strengthening of the gate.
Justified(m) ==
  /\ m.topic = AiSafe   => ReleaseAllowed(m.event)
  /\ m.topic = Accepted => AcceptAllowed(m.event)
  /\ m.topic = Reviewed => ReviewAllowed(m.event)
  /\ m.topic = Ready    => ExportAllowed(m.event)
PendingJustified ==
  /\ \A c \in Clients : \A m \in ToSet(outbox[c]) : Writable(m) => Justified(m)
  /\ \A m \in late : Justified(m)

\* The topics seen as sets are the abstract gate.
Gate == INSTANCE ReviewGate WITH
          released <- Events(AiSafe), drafts <- Events(Proposed), accepted <- Events(Accepted),
          reviews <- Events(Reviewed), exports <- Events(Ready)

\* Every step of the workflow is a step of the review gate or changes nothing in
\* it: whatever reaches a topic is justified by what was there before.
ImplementsReviewGate == Gate!Spec
=============================================================================
