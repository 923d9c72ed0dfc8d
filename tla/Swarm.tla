------------------------------- MODULE Swarm -------------------------------
(***************************************************************************)
(* run_swarm of services/agent_swarm.py with the worker scenario_runner.py *)
(* gives it: one child per question of the plan, run by a pool of threads, *)
(* for several swarms at once.                                             *)
(*                                                                         *)
(* A child takes its question through intake, drafts an answer with an     *)
(* agent and has the policy guard judge the draft.  It works under a run   *)
(* id of its own, made of the swarm's id and the question's; the topics of *)
(* that run are `drafts` and `verdicts`.  Two swarms may be given one id   *)
(* (POST /demo/swarm takes it from the caller), and their children then    *)
(* share run ids.  Whatever a child raises is a failed question.           *)
(***************************************************************************)
EXTENDS Naturals, Sequences, FiniteSets, SequencesExt

CONSTANTS
  Swarms,        \* the calls of run_swarm
  SwarmId,       \* SwarmId[s]: the id a call was given or made up
  Questions,     \* the questions of the fixture, in order
  Concurrency,   \* Concurrency[s]: resolved_concurrency of a call
  MaxFailures    \* bound on the exceptions raised in children

MAX_SWARM_CONCURRENCY == 3

ASSUME SwarmConstants ==
  /\ Questions \in Seq({Questions[i] : i \in 1 .. Len(Questions)})
  /\ IsInjective(Questions) /\ Questions # << >>
  /\ Concurrency \in [Swarms -> 1 .. MAX_SWARM_CONCURRENCY] /\ MaxFailures \in Nat

Children == DOMAIN Questions
Statuses == {"accepted", "rejected", "failed"}
\* Mutant: the children of all swarms work under the question's id.
RunIdOfQuestion(s, i) == <<"swarm", Questions[i]>>
RunId(s, i) == <<SwarmId[s], Questions[i]>>
RunIds == {RunId(s, i) : s \in Swarms, i \in Children}

VARIABLES
  queue,     \* queue[s]: children submitted and not yet taken by a thread
  submitted, \* submitted[s]: how many children have been submitted
  child,     \* child[s][i]: how far a child is, and its status
  byIndex,   \* byIndex[s]: the results collected, by the child's place in the plan
  result,    \* result[s]: what run_swarm returns
  drafts,    \* drafts[r]: the children that proposed a draft in run r, in order
  verdicts,  \* verdicts[r]: the drafts judged in run r, with the guard's verdict
  failures   \* exceptions so far
vars == <<queue, submitted, child, byIndex, result, drafts, verdicts, failures>>

NoResult == [question |-> "none", status |-> "none"]
NotRun == [at |-> "planned", status |-> "none"]
Init ==
  /\ queue = [s \in Swarms |-> << >>] /\ submitted = [s \in Swarms |-> 0]
  /\ child = [s \in Swarms |-> [i \in Children |-> NotRun]]
  /\ byIndex = [s \in Swarms |-> [i \in Children |-> NoResult]]
  /\ result = [s \in Swarms |-> << >>]
  /\ drafts = [r \in RunIds |-> << >>] /\ verdicts = [r \in RunIds |-> {}]
  /\ failures = 0

Working == {"intake", "draft", "guard", "report"}
AtWork(s) == {i \in Children : child[s][i].at \in Working}
To(s, i, at) == child' = [child EXCEPT ![s][i].at = at]
poolVars == <<queue, submitted>>
topicVars == <<drafts, verdicts>>

\* Mutant: the places of the plan are counted from zero.
SubmitFromZero(s) ==
  /\ submitted[s] < Len(Questions)
  /\ submitted' = [submitted EXCEPT ![s] = @ + 1]
  /\ queue' = [queue EXCEPT ![s] = Append(@, submitted[s])]
  /\ UNCHANGED <<child, byIndex, result, topicVars, failures>>

\* executor.submit, child after child in the order of the plan.
Submit(s) ==
  /\ submitted[s] < Len(Questions)
  /\ submitted' = [submitted EXCEPT ![s] = @ + 1]
  /\ queue' = [queue EXCEPT ![s] = Append(@, submitted[s] + 1)]
  /\ UNCHANGED <<child, byIndex, result, topicVars, failures>>

\* Mutant: every submitted child gets a thread.
TakeAtOnce(s) ==
  /\ queue[s] # << >>
  /\ queue' = [queue EXCEPT ![s] = Tail(@)]
  /\ To(s, Head(queue[s]), "intake")
  /\ UNCHANGED <<submitted, topicVars, byIndex, result, failures>>

\* A thread of the pool that has nothing to do takes the oldest submitted child.
Take(s) ==
  /\ queue[s] # << >> /\ Cardinality(AtWork(s)) < Concurrency[s]
  /\ queue' = [queue EXCEPT ![s] = Tail(@)]
  /\ To(s, Head(queue[s]), "intake")
  /\ UNCHANGED <<submitted, topicVars, byIndex, result, failures>>

\* seed, ingest, prepare, under the child's run id.
Intake(s, i) ==
  /\ child[s][i].at = "intake" /\ To(s, i, "draft")
  /\ UNCHANGED <<poolVars, topicVars, byIndex, result, failures>>

\* draft_answer_agentically_for_question: the agent's draft is published.
Draft(s, i) ==
  /\ child[s][i].at = "draft" /\ To(s, i, "guard")
  /\ drafts' = [drafts EXCEPT ![RunId(s, i)] = Append(@, <<s, i>>)]
  /\ UNCHANGED <<poolVars, byIndex, result, verdicts, failures>>

\* guard_draft_for_question: the latest draft that the read of the run returns is
\* judged and the verdict published; an empty read raises.
GuardDraft(s, i) ==
  /\ child[s][i].at = "guard"
  /\ LET r == RunId(s, i) IN
       \E v \in {"accepted", "rejected"}, d \in ToSet(drafts[r]) :
         /\ child' = [child EXCEPT ![s][i] = [at |-> "report", status |-> v]]
         /\ verdicts' = [verdicts EXCEPT ![r] = @ \cup {[draft |-> d, verdict |-> v]}]
  /\ UNCHANGED <<poolVars, byIndex, result, drafts, failures>>

\* Mutant: the future of a child that raised is never done.
RaiseSilently(s, i) ==
  /\ child[s][i].at \in Working /\ failures < MaxFailures
  /\ failures' = failures + 1 /\ To(s, i, "planned")
  /\ UNCHANGED <<poolVars, topicVars, byIndex, result>>

\* An exception anywhere in the child, also after it has published: _run_child turns
\* it into a failed question.
Raise(s, i) ==
  /\ child[s][i].at \in Working /\ failures < MaxFailures
  /\ failures' = failures + 1
  /\ child' = [child EXCEPT ![s][i] = [at |-> "done", status |-> "failed"]]
  /\ UNCHANGED <<poolVars, topicVars, byIndex, result>>

\* The verdict is audited and the result handed back.
Report(s, i) ==
  /\ child[s][i].at = "report" /\ To(s, i, "done")
  /\ UNCHANGED <<poolVars, topicVars, byIndex, result, failures>>

Outcome(s, i) == [question |-> Questions[i], status |-> child[s][i].status]

\* Mutant: results are numbered as they come in.
CollectAsCompleted(s, i) ==
  /\ submitted[s] = Len(Questions) /\ child[s][i].at = "done"
  /\ LET n == Cardinality({j \in Children : byIndex[s][j] # NoResult}) IN
       byIndex' = [byIndex EXCEPT ![s][n + 1] = Outcome(s, i)]
  /\ To(s, i, "collected")
  /\ UNCHANGED <<poolVars, topicVars, result, failures>>

\* as_completed gives the futures as they end; each result goes to its place.
Collect(s, i) ==
  /\ submitted[s] = Len(Questions) /\ child[s][i].at = "done"
  /\ byIndex' = [byIndex EXCEPT ![s][i] = Outcome(s, i)]
  /\ To(s, i, "collected")
  /\ UNCHANGED <<poolVars, topicVars, result, failures>>

\* All futures have ended: the results in the order of the plan.
Return(s) ==
  /\ result[s] = << >> /\ \A i \in Children : byIndex[s][i] # NoResult
  /\ result' = [result EXCEPT ![s] = byIndex[s]]
  /\ UNCHANGED <<poolVars, topicVars, child, byIndex, failures>>

ChildStep(s, i) == Intake(s, i) \/ Draft(s, i) \/ GuardDraft(s, i) \/ Report(s, i)
MainStep(s) == Submit(s) \/ Return(s) \/ \E i \in Children : Collect(s, i)
Next == \E s \in Swarms :
  \/ MainStep(s) \/ Take(s)
  \/ \E i \in Children : ChildStep(s, i) \/ Raise(s, i)
Spec == Init /\ [][Next]_vars

\* The caller's thread and the threads of the pool are scheduled, and every wait in a
\* child has a deadline.  Exceptions are not fair.
FairSpec ==
  /\ Spec
  /\ \A s \in Swarms : WF_vars(MainStep(s)) /\ WF_vars(Take(s))
  /\ \A s \in Swarms, i \in Children : WF_vars(ChildStep(s, i))

-----------------------------------------------------------------------------
(* Properties *)

Returned(s) == result[s] # << >>
CountOf(s, st) == Cardinality({i \in Children : result[s][i].status = st})

Ats == {"planned", "done", "collected"} \cup Working
Child == [at : Ats, status : Statuses \cup {"none"}]
Result == [question : ToSet(Questions) \cup {"none"}, status : Statuses \cup {"none"}]
TypeOK ==
  /\ queue \in [Swarms -> Seq(Children)]
  /\ submitted \in [Swarms -> 0 .. Len(Questions)]
  /\ child \in [Swarms -> [Children -> Child]]
  /\ byIndex \in [Swarms -> [Children -> Result]]
  /\ result \in [Swarms -> [Children -> Result] \cup {<< >>}]
  /\ drafts \in [RunIds -> Seq(Swarms \X Children)]
  /\ verdicts \in [RunIds -> SUBSET [draft : Swarms \X Children, verdict : Statuses]]
  /\ failures \in 0 .. MaxFailures

\* What run_swarm returns is one result per question, each the outcome of the child
\* of that question in whatever order the children ended, and the counts add up.
ResultMatchesPlan ==
  \A s \in Swarms : Returned(s) =>
    /\ \A i \in Children : result[s][i] = Outcome(s, i) /\ child[s][i].at = "collected"
    /\ CountOf(s, "accepted") + CountOf(s, "rejected") + CountOf(s, "failed") = Len(Questions)

\* Swarms with ids of their own: the status a child reports with the type of its answer
\* is the published verdict on its own draft, also while other swarms put the same
\* questions to their agents.
ReportsItsOwnDraft ==
  \A s \in Swarms : \A i \in Children :
    child[s][i].status \in {"accepted", "rejected"} =>
      [draft |-> <<s, i>>, verdict |-> child[s][i].status] \in verdicts[RunId(s, i)]

\* How a child has ended, for its caller.
Ended(s, i) == IF child[s][i].at \in {"done", "collected"} THEN child[s][i].status ELSE "none"
\* Who is with an agent, how questions have ended, and the verdicts of all runs.
Open == [s \in Swarms |-> AtWork(s)]
Endings == [s \in Swarms |-> [i \in Children |-> Ended(s, i)]]
Judged == UNION {verdicts[r] : r \in RunIds}
Pool == INSTANCE SwarmPool WITH
  open <- Open, ended <- Endings, answer <- result, verdicts <- Judged

\* Swarms with ids of their own, with their threads, topics and exceptions, do what
\* `SwarmPool` promises: no question is put to an agent twice, none is lost, no more are
\* at work than the concurrency allows, and what has ended one way never ends another.
ImplementsSwarmPool == Pool!Spec

\* A swarm returns, whichever of its children fail.
SwarmReturns == \A s \in Swarms : <>Returned(s)
=============================================================================
