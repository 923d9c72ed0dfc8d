# A formal model of the governed questionnaire demo

The program answers security questionnaires with a language model under
governance: Kafka topics carry every step of the workflow, one service principal
owns each step, a policy guard judges every draft, "a human review event is required
before export, and Kafka ACLs prevent the AI drafter from bypassing review"
(`README.md:9-13` of the repository). The modules here model that workflow, the
agent loop inside its drafting step, the swarm of agents, and the HTTP API with its
registries of runs and swarms and its live event stream; TLC checks them on small
instances and TLAPS proves the central properties for all.

## 1. Inventory

| Component | State | Operations | Talks to |
|---|---|---|---|
| Authority boundary (`scripts/bootstrap_acls.py`, `contracts.py`) | the ACL table | grants of WRITE and READ per principal and topic | consulted by the broker at every produce and poll |
| Kafka client (`kafka_io.py`) | none; the topics are the state | `produce_event` (10 s flush), `consume_events` (whole topic from the start, until idle or deadline) | every operation below |
| Workflow operations (`scenario_runner.py` 165-578) | none of their own: everything is on the topics | seed, ingest, prepare, release evidence, draft, draft agentically, guard, review, export | read one or two topics, publish, audit |
| Scenarios, CLI workers (`scenario_runner.py` 606-1036, `cli.py`) | a run id | sequences of operations; attacks on the gate | call the operations in a thread or process of their own |
| Policy guard, review/export, gateway, preparer, drafter (`services/`) | pure functions | `evaluate_draft`, `review_answer`, `build_response_ready`, `make_ai_safe_evidence`, `prepare_questions`, `build_proposed_answer` | called by the operations |
| Agent loop (`services/agentic_drafter.py`) | transcript, tool calls, discovered and inspected evidence | one model action per turn: search, inspect, finish, give up | calls back to publish evidence and to audit tool calls |
| Event stream (`api/event_stream.py`) | per run: replay buffer, truncation mark, live queue | publish, open, replay, serve, detach, reset | request threads publish, SSE generators consume |
| Run registry (`api/run_store.py`) | unlocked dictionary of run records | allocate, start, complete, list, reset, trim to 50 | written by the request threads |
| Swarm and its registry (`services/agent_swarm.py`, `api/swarm_store.py`) | thread pool of at most 3; locked dictionary of 20 swarms | run children, reserve, save, fail, reset, trim | background threads, request threads |
| HTTP API (`api/app.py`) | none | run, allocate, review, export, attack, swarm, stream, reset | combines all of the above |
| State snapshot and views (`api/state.py`, `inspectors.py`, ...) | none | read eleven topics one after the other | the topics, the run registry |
| Model client, tracing, schemas, web client | none that matters here | a subprocess, a tracing service, encoding, rendering | the edges of the system |

What is hard in this code: clients interleave between any two Kafka calls and nothing
is transactional, so an operation acts on what it read a while ago; a read may miss the
end of a topic; a produce call that times out may still land, and the producer is not
idempotent; a crash leaves any prefix of an operation's messages; the agent loop counts
refusals, calls and turns against three bounds while it publishes; the stream hands a
copy over to a live queue while publishers keep publishing, outside their lock. The
hazards, each at its line, are in `PROJECT.json`.

What makes each component correct, in a line:

- workflow: evidence, acceptance, review and export each rest on what the topics already
  hold, whatever the interleaving and the faults; the audit timeline keeps pace;
- agent loop: the documented bounds hold, a draft cites what was published, nothing is
  published twice or off the record, and the loop ends;
- stream: a client gets every event once and in order, hears of gaps, ends after a
  terminal status and detaches only itself;
- swarm: never more agents than its concurrency, one result per question in the order
  of the plan, each the verdict on the child's own draft, and an end whatever fails;
- swarm registry: a bound, forgetting only for younger swarms or in a reset, and for
  every reader the end of the run that ended last, of those made under one id;
- run registry and endpoints: what a record says is on the topics, a run is shown as
  running only while somebody works on it or its request has failed, and who reads
  "running" on a stream is told how it ends.

## 2. Modules

| Module | Models | Extends |
|---|---|---|
| `Authority` | topics, principals, `SERVICE_ACLS`, the broker's decision | |
| `ToolRuns` | the tool calls a drafting loop may publish in one run; no state | |
| `Workflow` | the operations of `scenario_runner.py` over append-only topics, with faults | `Authority`, `ToolRuns` |
| `ReviewGate` | abstract: released evidence, drafts, acceptances, reviews, exports as sets | |
| `Scenarios` | the scripts of the scenarios and endpoints | |
| `MCWorkflow` | instances of `Workflow` | `Workflow`, `Scenarios` |
| `WorkflowProofs` | the theorems about the gate, the denials, the progress and the types of `Workflow` | `Workflow`, TLAPS |
| `WorkflowAuditProofs` | the theorems about its event ids, its audit timeline and the evidence of exports | `WorkflowProofs` |
| `AgentLoop`, `MCAgentLoop`, `AgentLoopProofs` | the agent loop, its instance, its theorems | `ToolRuns` |
| `RunStream`, `MCRunStream`, `RunStreamProofs` | the event stream of one run, its instances, its theorems | |
| `Swarm`, `MCSwarm`, `SwarmProofs` | `run_swarm`, its pool of threads and its children, its instance, its theorems | |
| `SwarmPool` | abstract: each question of a swarm from the plan to the answer | |
| `SwarmStore`, `MCSwarmStore`, `SwarmStoreProofs` | the swarm registry under its background and foreground writers, its instance, its theorems | |
| `SwarmView` | abstract: what a reader is shown of a swarm over its life | |
| `RunRegistry`, `MCRunRegistry` | the endpoints of `app.py` over the run registry, the stream and the topics | |
| `RunRegistryProofs`, `RunRegistryBoundProofs` | the theorems about `RunRegistry` | `RunRegistry`, TLAPS |

The modules meet at named abstractions: `DraftAgentically` of `Workflow` publishes any
run of tool calls in `ToolRuns`, and `AgentLoop` is shown to publish only those; `Draft`
and `GuardDraft` of `Swarm` are the operations of `Workflow` on the run of one child, a
swarm in `SwarmStore` is one run of `Swarm`, and a request in `RunRegistry` publishes
what the operations of `Workflow` do, reduced to the kinds of event its status rests on,
and tells a stream of which `RunStream` has the rest.

Operators whose comment begins with "Mutant" are variants of the definition that
follows them, with a plausible bug in it. No specification uses them; each property of
each passing run has one that breaks it (`mutants` in `PROJECT.json`).

### Workflow

`log[t]` is a topic. A client is a thread or process with a `Script` of operations;
`pos` and `pc` say where it is, `taken` holds the event its first read returned and
`outbox` the messages its operation has computed and not yet produced.

One operation is several steps, cut where the code touches Kafka: each
`consume_events` is one step and each `produce_event` another, so that everything
between two Kafka calls of a thread is atomic and everything else interleaves.

- Operations with one read (`Prepare`, `Review`, `Export`) read and compute in one step.
- Those with two reads take the latest event of their question first (`TakeQuestion`,
  `TakeDraft`), and continue in `ReleaseEvidence`, `DraftAnswer`, `DraftAgentically` or
  `GuardDraft` with what the second read returns.
- `Send` produces the head of the outbox; the audit event is last. `Denied` is the
  broker's refusal. `SendTwice`, `TimeOut`, `LandLate` and `Abort` are the faults, at
  most `MaxFaults` of them.
- `KafkaError` is the one place where the code survives a failed produce call: the
  direct-write attack publishes its alert.

`StaleReads` lets a read return any prefix of a topic, which is what a consumer that
stops 0.4 s after its last match or at its deadline amounts to. Texts are sets of
markers: what the regular expressions of the guard look for. Of the five answer types the
model keeps three: `no` stands for `partially_implemented` and `needs_review` as well,
which the contracts and the guard treat alike. `DraftAgentically` publishes
any run of `ToolRuns`: searches and inspections in any order, each item of evidence at
most once, a call audited after what it published, and a draft that cites what was
published, unless the loop gave up. That `AgentLoop` publishes nothing else is its
property `PublishesToolRun`, so that what is proved of `Workflow` holds with the real
loop in it. The records of a topic carry only the fields the properties and guards read.

`ReviewGate` promises that each set only grows and each addition is justified by the
others. `ImplementsReviewGate` instantiates it with the sets of events on the topics.

### AgentLoop

One action per branch of `run_agentic_draft`, with the model as a free choice of an
action in every turn, legal or not. An inspection publishes item by item and is then
recorded (`_record_tool_call`) and audited by the callback, each a step of its own, so
that `ReleaseFails` and `AuditFails` can hit between them. `published` is what the loop
has published so far, in order, as `ToolRuns` writes it. The module assumes
`MaxCalls > 0`: with `max_tool_calls = 0` the code would still allow one search
(`agentic_drafter.py:366`), but no caller asks for that.

### RunStream

One run id. `history` numbers all its events; the buffer is `first .. Len(history)`.
`Publish` is the critical section of `publish`, `Put`, `DropOldest` and `PutAgain` the
three queue calls of `_enqueue`, each atomic by the queue's own lock and open to
interleaving. `Open` is the critical section of `open_stream`; `Begin`, `Replay`,
`Serve`, `Expire` are the generator, `Detach` its finally clause. `Abandon` is a client
that leaves before the first iteration: a Python generator that never ran has no finally
clause to run. `elapsed_ms` is arbitrary, because each request measures it from its own
start and the direct-write attack restarts the clock of the run it is made on.

Two publishers (two requests on one run) show two things the code does not prevent, and
about which no text makes a claim: events can enter the queue in the opposite order of
the buffer, and the second `put_nowait` can raise `Full` into the request (`pc`
"raised"). `InOrder` is therefore stated for the events of each publisher, and
`NeverRaises` says when a put may raise: only if an event of another publisher is
accounted for in the same stream. A run driven by one request at a time has neither.

### Swarm

`queue` is the work queue of the thread pool, `child` how far each child is, `byIndex`
and `result` what `run_swarm` collects. `Submit`, `Collect` and `Return` are the
caller's thread; `Take` is a thread of the pool, of which there are `Concurrency[s]`. A
child is `_run_agent_swarm_question`: `Intake`, `Draft`, `GuardDraft`, `Report`. Its
topics are `drafts` and `verdicts` of its run id. `Raise` is an exception anywhere in
it, which `_run_child` turns into a failed question. The guard judges any draft of the
child's run (a read may be short, and `_latest_question` takes what it returns): that
this is the child's own is `ReportsItsOwnDraft`, and rests on the run id. It needs
swarms with ids of their own; `POST /demo/swarm` lets a caller repeat one, and then it
fails. `SwarmPool` promises that a question is given to an agent once, judged at most
once, and ends in one way, and that the answer comes once, when all have ended, in the
order of the plan, and that never more questions are with agents than the concurrency
allows; `ImplementsSwarmPool` instantiates it with the children.

### SwarmStore

Every operation of the store holds its lock and is one step: `Reserve`, `Save`, `Fail`,
`Reset`, each with the trim. The steps around them are the callers': the time stamp of a
launch (taken before the lock), the start of the thread, the start and end of the
swarm's run. `started` is 0 for an entry without `started_at`, which `fail_swarm` stores
when a reset or the trim has removed the reservation: sorting then raises `KeyError`
inside the lock (`TrimRaises`), after the entry is stored.

Several writers may work under one id: `POST /demo/swarm` takes the id of its caller
(`app.py:307-315`), who may repeat it, or name the id of a background swarm that a run
has returned (`app.py:186`, `:219`). `IdOf` gives each writer its id, and a request that
names a launch begins after the launch has given its id out (`Returned`): the id is a
fresh `uuid4` of `build_swarm_plan`, and no endpoint lists the ids there are. Such a swarm
may be shown completed, by the request, and failed afterwards, by the thread (or the
other way round). No text of the repository says what a reader of such an id should see,
and `SwarmView` does not forbid it: it promises readers that an id is shown running only
before any run under it has ended, that each run ends once, and that what is shown from
then on is the end of the run that ended last, though the id may be unknown at any time.
For an id with a single run this is one outcome. `ImplementsSwarmView` instantiates it
with `get_swarm` and the ends of the writers (`EndOf`).

### RunRegistry

A client is a thread that handles requests (`Script`). The dictionary has no lock, so
each access is a step: `Mark` (found) or `Mark` and `Insert` (not found), then `_trim` as
`Count`, `Keep`, `List` and one `Delete` per run, any of which meets other threads;
`TrimRaises` is the `KeyError` of a run that is gone already. `Announce` tells the
stream, `Publish` is the work, `Fail` and `TellFailed` the handler of its exception,
`AlertFails` the exception the direct-write endpoint does not catch. Which records a
failure leaves behind depends on where it hits: only `mark_completed` of a scenario is
inside a try statement. `fate` remembers what the stream was told of a request, for the
properties. A gate that is not open (`GateOpen`) refuses a review or an export, as
`Workflow` shows in full.

## 3. Runs

Symmetry is used only in safety runs. Deadlock is not checked: every instance stops when
its scripts, turns or events are used up.

| Run | Instance | Shows |
|---|---|---|
| `gate` | prepared run of the restricted question; a session that forges a review and then goes through the run, a hallucinated-evidence attack on the same run id, a reviewer and exporter; stale reads (420 thousand states) | with two drafts, an acceptance, a rejection, reviews and exports in the run: `ReviewFollowsAcceptance`, `ExportListsApproved`, and `ExportedIsGrounded`: what an export lists rests on released evidence, through review, verdict and draft, over all interleavings of the three |
| `retry` | prepared run with the restricted question; a CLI session and its partial repetition; one fault; stale reads | type correctness, grounded acceptance, audit never ahead nor missing, refinement of `ReviewGate` |
| `attack` | from the empty topics; the end of a run until its evidence, and on the same run id two direct writes, a malformed draft and the export shortcut; one fault; stale reads | `ReleasedIsAllowed`, `OnlyTheAttackIsDenied`, `Termination` |
| `happy` | from the empty topics; one happy path and a second reviewer; no faults, complete reads | `GateOpens` |
| `agent_loop` | 2 to 4 calls, 8 turns, three items of which one is secret, one made-up id | the properties of `AgentLoop`, `PublishesToolRun` among them |
| `stream` | two publishers, two clients, a buffer of 2, a queue of 1, three events, a reset | exactly-once handover, order per publisher, when a put raises, detaching, refusals |
| `stream_ends` | one publisher, one client, two elapsed times | `TerminalEnds` |
| `stream_gap` | violated: `GapIsReported` | finding 1 |
| `stream_abandoned` | violated: `RefusedOnlyWhileLive` | finding 2 |
| `swarm` | two swarms of two questions, concurrency 1 and 2, one exception | the results, own drafts, refinement of `SwarmPool` with its cap, `SwarmReturns` |
| `swarm_store` | two background launches, a request that names the id of one of them and one with an id of its client, a store of 2, one reset, threads and swarms that fail (580 thousand states) | the bound and its exception, who is forgotten, `RunningEnds`, refinement of `SwarmView` |
| `registry` | run until review and review; direct write and reset; an allocation; a registry of 1, one failure | the five properties of `RunRegistry` |

Why these bounds are enough to be interesting. One question in one run is where drafts,
verdicts and reviews meet; that an export takes nothing of another run rests on the
theorem `ExportNeedsReview`. The library has an item that may be shown and one that may
not, and a made-up id. One fault is enough to reach every fault action, and the proofs
cover any number. With `MinCalls = 2` and `MaxCalls = 3` an agentic draft can stop
early, and inspect before and after another call; the code's fourth call adds only
length (`agent_loop` has it). The prepared instances begin where the intake of the run
is over (`PreparedInit`, a state `Spec` reaches), since `attack` explores that part on
its own. In the stream the buffer and the queue overflow within three events, so that
eviction, dropping and the handover all happen while a client replays. Three swarms in a
store of two, and two runs in a registry of one, make every trim choose; one id with two
runs is enough for either to end last, in either way; the failure and the reset are
there once, in every position. Two questions with one agent and with two give both a
child that waits for a thread and two that end in either order.

Findings:

1. `event_stream.py:93` compares whole milliseconds. When the buffer has forgotten an
   event with the same `elapsed_ms` as the oldest one it still has, a client that asks
   from that time gets no `replay_gap`, which `tests/api/test_stream_replay.py:74` says
   it does.
2. `event_stream.py:79-82` registers a stream when it is opened, and only the finally
   clause of its generator removes the registration. If the client leaves before the
   generator begins, every later stream of the run is refused, though the docstring at
   line 27 speaks of "a second live subscriber". With `MayAbandon = FALSE` the same
   property holds (`stream`).

## 4. Fairness

- `Workflow`: weak fairness of `Step(c)` for every client. Threads and processes are
  scheduled, and every wait has a deadline: 10 s for a flush, 5 or 10 s for a read, 180 s
  for the model. Faults are never fair. `Termination` needs no more than that; `GateOpens`
  is stated without faults and stale reads, because with them an operation may fail.
- `AgentLoop`: weak fairness of `Next`; the model call and both callbacks have deadlines.
- `RunStream` (`FairSpec`): a thread inside `_enqueue` goes on, a generator is driven
  while its client reads, and the loop looks at its deadline before every event and
  while it waits. Publishing a new event, opening, leaving and reset are not fair.
- `Swarm` (`FairSpec`): the caller's thread, the threads of the pool and the children are
  scheduled, and every wait in a child has a deadline, as above. Exceptions are not fair.
- `SwarmStore` (`FairSpec`): a launch that has taken its time stamp goes on, a thread that
  was started runs, and a swarm ends (`SwarmReturns`). Requests and resets need not come,
  and a thread may fail to start.
- `RunRegistry`: none; its properties are safety properties.

## 5. Proofs

`WorkflowProofs` proves, for all clients, scripts, libraries and numbers of faults:

- `TypeCorrect`: `Spec => []TypeOK`;
- `ReleaseIsAllowed`, `AcceptanceIsGrounded`, `ReviewNeedsAcceptance`,
  `ExportNeedsReview`: the four gate invariants, when `AclsEnforced`;
- `WorkflowImplementsGate`: `Spec => ImplementsReviewGate`, when `AclsEnforced`;
- `NoneButTheAttackIsDenied`: the ACLs stop the forged event of the direct-write attack and
  no message of any operation;
- `StaleGuardIsStricter`: a guard that misses the end of a topic rejects at least what one
  rejects that has read further;
- `EveryStepAdvances`, `GateNeverShuts`, `NothingOfItsOwnIsLost`: see "Progress" below.

The gate invariants speak of what is on the topics, but a message is decided on long
before it gets there. The inductive invariant `Inv` therefore adds `ClientsOK` (what a
client holds agrees with where it is: in particular the event it took is on its topic)
and `PendingJustified`: every message waiting in an outbox, as far as its principal may
write it, and every message given up on is already justified by the topics. Two facts
carry the induction. Topics only grow and justifications only speak of events that are
there, so a justification is never lost (`JustifiedGrows`). And each operation publishes
only what it can justify from a prefix it read (one lemma per operation), which is why
stale reads do no harm. A forged message is not justified, but its principal may not
write it: that is where `AclsEnforced` is needed and the only place. That the attack is the
only one denied is a part of `Inv` too, because it tells an outbox that holds a forged
message from the others. The refinement then follows action by action: whatever lands on a
topic of the gate is a step of `ReviewGate`. The one lemma about `DraftAgentically` covers
every run of `ToolRuns`, and with `PublishesRuns` every behaviour of the agent loop.

`WorkflowAuditProofs` proves first that event ids are unique (`IdsAreUnique`), which the
code takes from `uuid4` and the model from the operation and the number of the message
in it. The invariant `IdsInv` follows the numbers: what has been issued, landed or given
up on, is numbered up to some `b` (`UpTo`), and the outbox goes on from there
(`NumberedFrom`); an operation that alerts after an error goes on where it was stopped.
With that and the gate invariants, `ExportsAreGrounded` follows an exported answer back
through its one review, its verdict and its draft to evidence seeded in the run,
released for the question and allowed for the model: without unique ids the event a
reference names need not be the one that was judged.

It then proves the two properties of the audit timeline, `AuditNeverAhead` and
`CompletedOpsAreAudited`, with or without ACLs. They too speak of what has landed,
while the code promises something about what it sends: the invariant `AuditInv` says
of every outbox that an audit message in it is about an event that is on a topic or ahead
of it in the outbox (`InTurn`), that an operation under way has its audit event on the
topic or still to send (`Recorded`), and, because scenarios audit events of earlier
operations, that those have landed (`FirstsComing` while an operation is under way,
`FirstsLanded` after it). A message given up on was at the head of its outbox, so what it
is about had landed (`Sourced`); that is why a late message does not run ahead either.
Per operation one lemma shows its messages `WellAudited`, and one lemma for all of them
(`SentAudits`) that sending the head keeps the invariant. The assumption
`ScriptRefersBack` is used here: what a scenario notes is an event that the earlier
operation of its script publishes.

`AgentLoopProofs` proves the safety properties of the loop for all bounds and libraries.
The invariant counts: a turn is one audited call or one refusal (`turn = audited + refused
+ 1`), which gives `ExhaustionIsEarned`; and it tracks an inspection under way
(`inspected \cup releasing` is what the calls have returned and will have), which gives
`NothingOffTheRecord` and, with the order of `published`, `PublishesRuns`: wherever the
loop can stop it has published a run of `ToolRuns`.

`SwarmProofs` proves the type invariant, the results, the own drafts and the refinement of
`SwarmPool`, its cap included, for any number of swarms, questions and exceptions. For the
results the invariant ties the parts of a swarm together: a queued child
waits once and has not begun (`QueueOK`, without which a thread could take a child that
is already at work), a child at its end has a status (`ReportsOK`), a place of `byIndex`
is filled exactly when its child is collected, with that child's outcome
(`CollectedOK`), and a swarm that has returned has collected everything (`ReturnedOK`).
`OwnDrafts` assumes that every swarm has an id of its own: then the drafts in a run are
all of one child (`DraftsOK`, `RunIdsAreOwn`), and whichever draft the guard reads is
the child's own. So does the refinement (`PoolRefinement`): a verdict is named by the
question of the draft it judges, and each step of a thread or a child is a step of the
pool or is not seen by it.

`SwarmStoreProofs` proves the three safety properties of the swarm registry, the
refinement of `SwarmView` among them, for any number of launches and requests, any ids
they share, and any bound. No two entries, and no two writers that have taken a stamp,
share a time stamp (`DistinctOK`), so the trim's order is total; an entry without one is
of a failed launch (`OrphansOK`), which is why only that makes the trim raise; a request
is at work under the id of a launch only if that launch has returned it (`NamedOK`), so
that no reservation comes after an end; and an entry agrees with how one of the writers
of its id has ended, or with none having ended (`ShownOK`). The refinement follows step
by step: what a step stores is what its writer ends with, or a reservation. About the
trim itself two lemmas say that what it keeps is no more than the bound (`NewestFew`) and
that what it removes is older than as many kept entries as the bound allows
(`RemovedIsOld`).

`RunRegistryProofs` proves the four properties of `RunRegistry` that are about single
runs, for all requests of all clients. The invariant follows each request: where it can
be (`PlaceFor`), that what it has still to publish and what is on the topics is together
what its status needs (`WorkFor`), what has become of it (`FateFor`); and that a record
shown as running is of a request which has not yet come to mark its outcome (`BackedOK`),
a stream that shows it was told so by one which will tell more (`ToldOK`). Records of
other runs only ever go, so a request need not know who else is trimming.
`RunRegistryBoundProofs` adds the fifth, the bound: a trim keeps few enough, because time
stamps differ (`StampsApart`), and whoever has put a record there is followed by a trim
that has yet to choose, or that deletes all it does not keep (`Covers`); only a trim that
raises leaves something behind.

`RunStreamProofs` proves the safety properties of the event stream for any publishers,
streams and sizes of queue and history; only `RefusedOnlyWhileLive` assumes that no client
goes away before its generator has begun (`~MayAbandon`), and `GapIsReported` is not
proved because it is false. The invariant says of each open stream (`StreamOK`) that what
it got is, in each publisher's order, all there was between its first event and its last,
less what it lost, and that nothing lost was also got; and of each publisher (`PubOK`)
that the event it has on its way is newer than all of its own the stream got, that the
stream is open, and that after it dropped the oldest event there is room again unless
another publisher has put one there meanwhile (`Foreign`). The order is per publisher
and ids of two publishers differ, so nothing is got twice. A generator only moves
events along (`Moves`), which leaves all of this alone.

Progress. Liveness itself is out of the prover's reach, but not what it rests on besides
fairness. For each liveness property the proofs have the safety half, a statement about
single steps or single states that holds for all constants:

| Liveness, by TLC | Proved, for all constants |
|---|---|
| `Termination` of `Workflow` | `EveryStepAdvances`: a step takes one client on, in the order of its operation, its stage in it and the length of its outbox, or lands a late message. A client never goes back, so a script ends |
| `GateOpens` | `GateNeverShuts`: without faults and stale reads, a review of an accepted answer, or an export of an approved one, can only go on to publish; the latest acceptance or review it reads exists, by the least element of a set of naturals (`Least`, `Greatest`). `NothingOfItsOwnIsLost`: what it then has to send lands, in order |
| `Termination` of `AgentLoop` | `LoopAdvances`: every step uses up one of at most `3 * MaxTurns + 3 + Cardinality(AiAllowed)` |
| `SwarmReturns` | `SwarmAdvances`: no step is taken twice. `SwarmIsNeverStuck`: a swarm that has not returned always has a thread that can go on |
| `RunningEnds` | `LaunchesAdvance`: every step but a reset takes one writer to a later stage. `RunningHasAWriter`: an entry shown as running has a launch that has still to save or fail it, or one of the two documented exceptions (`LaunchIsBacked`; `HeldOK` strengthens it) |
| `TerminalEnds` | `StatusIsNotPassedOver`: a terminal status is still ahead of the generator, or has begun the grace period, or was dropped or filtered (`StatusIsAhead`, by `Closes`). `StreamsGoOn`: a served stream only moves forward and its grace period is not called off |

The assumptions are those the modules name: the types of the constants, scripts made of
operations that exist and whose notes refer to events of earlier ones and are audited by
one of the three accounts that note, fixtures whose selected evidence is in the library, a
finite library, `MinCalls <= MaxCalls`, `MaxCalls > 0`. TLC evaluates them in every run.
The theorems that need more say so: `AclsEnforced` for the gate and the exports, ids of
their own for the swarms of `Swarm`, no faults or stale reads for `GateNeverShuts`, no
faults for `NothingOfItsOwnIsLost`, `~MayAbandon` for `RefusedOnlyWhileLive`.

Model-checked only: liveness under fairness (the six properties of the table). Its proof
needs ENABLED, which the prover does not handle. Induction over data is not available
either, since the library's induction theorems take an operator as a parameter; no theorem
here needs it, and where a least element does, `WFMin` gives it.

## 6. Plan

Done: the gate, the audit timeline, the agent loop, the swarm, the swarm registry, the
endpoints over the run registry, and the event stream, each with its proofs; the agent
loop inside the workflow, by `ToolRuns`; the safety half of every liveness property. Left:

- the full composition of `RunRegistry` with `RunStream` and `Workflow`, of which
  `RunRegistry` keeps the latest status and the kinds of event.

## 7. Not modelled

- The state snapshot (`state.py`). It has no state and reads topics that only grow; its
  status is that of the latest stage it saw, so whichever prefixes its eleven reads return
  it shows a status the run has had by then. That the parts of one snapshot agree is
  promised nowhere, and no order of its reads would change what can be shown of it.
- Views without state: `inspectors.py`, `questionnaire_view.py`, `authority.py`,
  `stages.py`, `pacing.py`, `health.py`, and the web client.
- Tracing (`observability.py`), and of the model client (`codex_client.py`) everything but
  its outcome: any action the contract lets through, or an exception (`ModelFails`).
- Of the run registry, `list_runs`, the telemetry and the other fields of a record; the
  time stamps of two requests are distinct.
- Encoding and schemas (`avro_contracts.py`, `schema_registry.py`, `fixtures.py`): no
  behaviour over time; the contracts' field checks are in the types.
- The wording of answers, summaries and prompts; the scoring of search results, of which
  `AgentLoop` keeps only that there are at most `SearchLimit`.
- Several runs in one stream broker: runs share nothing but the lock.
- Partitions: an event's key is its run id, so the events of one run are in one
  partition, and the modules' runs do not depend on the order between runs.
