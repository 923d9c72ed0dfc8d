---------------------------- MODULE RunRegistry ----------------------------
(***************************************************************************)
(* The endpoints of api/app.py that work on a run, over the dictionary of  *)
(* run records of api/run_store.py, which no lock protects.                *)
(*                                                                         *)
(* A client is a thread that handles requests one after the other.  A      *)
(* request marks the record of its run, tells the stream of the run, has   *)
(* the workflow do its work and marks and tells again.  Every access to    *)
(* the dictionary is a step of its own, except that a record is written in *)
(* the step that finds it or puts it there: one that is replaced or        *)
(* deleted in between takes the fields with it.                            *)
(*                                                                         *)
(* Of the topics the module keeps which kinds of event a run has, of the   *)
(* stream the latest status (`Workflow` and `RunStream` have the rest).    *)
(***************************************************************************)
EXTENDS Naturals, Sequences, FiniteSets

CONSTANTS
  Runs,
  Clients,
  Script,       \* Script[c]: the requests of c, each [kind, run, named]
  MaxRuns,      \* MAX_RUNS
  MaxFailures   \* bound on the failures of the work that the gate does not cause

\* run_scenario with its `until`, an attack scenario, and the other endpoints.
ScenarioKinds == {"until_evidence", "until_review", "happy_path", "attack_scenario"}
Kinds == ScenarioKinds \cup {"review", "export", "direct_write", "allocate", "reset"}
\* named: the caller gave the run id.
Request == [kind : Kinds, run : Runs, named : BOOLEAN]

ASSUME RegistryConstants ==
  /\ Script \in [Clients -> Seq(Request)]
  /\ MaxRuns \in Nat \ {0} /\ MaxFailures \in Nat

VARIABLES
  runs,      \* _RUNS: a record for every run it holds
  clock,     \* the last time stamp given out
  client,    \* client[c]: the request c handles and where it is
  fate,      \* fate[c][n]: what the stream was told of a request, or what killed it
  topics,    \* topics[r]: the kinds of event published in run r
  stream,    \* stream[r]: the latest status sent to the stream of run r
  failures   \* failures so far
vars == <<runs, clock, client, fate, topics, stream, failures>>

Statuses == {"allocated", "running", "ready_for_ai_drafter", "waiting_for_human_review",
             "reviewed_pending_export", "export_ready", "rejected", "denied"}
\* by: the request that wrote the record last.
Record == [status : Statuses, started : Nat, by : Clients \X Nat]

NewClient == [n |-> 1, at |-> "idle", phase |-> "start", stamp |-> 0,
              keep |-> {}, victims |-> {}, todo |-> << >>, alone |-> TRUE]
Init ==
  /\ runs = [r \in {} |-> "none"] /\ clock = 0
  /\ client = [c \in Clients |-> NewClient]
  /\ fate = [c \in Clients |-> [n \in DOMAIN Script[c] |-> "none"]]
  /\ topics = [r \in Runs |-> {}] /\ stream = [r \in Runs |-> "none"]
  /\ failures = 0

Req(c) == Script[c][client[c].n]
Run(c) == Req(c).run
At(c, at) == client[c].n \in DOMAIN Script[c] /\ client[c].at = at
Active(c) == client[c].n \in DOMAIN Script[c] /\ client[c].at # "idle"
Me(c) == <<c, client[c].n>>
Fated(c, f) == fate' = [fate EXCEPT ![c][client[c].n] = f]
Goes(c, at) == client' = [client EXCEPT ![c].at = at]
Idle(c) == [NewClient EXCEPT !.n = client[c].n + 1]
Ends(c) == client' = [client EXCEPT ![c] = Idle(c)]

\* What the work of a request publishes, in order, as far as its status rests on it.
Publishes(kind) ==
  CASE kind = "until_evidence"  -> <<"evidence">>
    [] kind = "until_review"    -> <<"acceptance">>
    [] kind = "happy_path"      -> <<"acceptance", "review", "response">>
    [] kind = "attack_scenario" -> <<"rejection">>
    [] kind = "review"          -> <<"review">>
    [] kind = "export"          -> <<"response">>
    [] OTHER                    -> << >>

\* The status a request leaves its run in when its work is done; the ACLs are enforced,
\* so that a direct write is denied.
Final(kind) ==
  CASE kind = "until_evidence"  -> "ready_for_ai_drafter"
    [] kind = "until_review"    -> "waiting_for_human_review"
    [] kind = "review"          -> "reviewed_pending_export"
    [] kind \in {"happy_path", "export"} -> "export_ready"
    [] kind = "attack_scenario" -> "rejected"
    [] OTHER                    -> "denied"

\* Review and export pass no started_at to mark_completed.
RestartsClock(c) == Req(c).kind \in ScenarioKinds \cup {"direct_write", "allocate"}

\* Mutant: the outcome is marked while the work is still going on.
MarkingEarly(c) == At(c, "mark") \/ At(c, "work")

\* The work is done and its outcome is marked, or the start of a request is.
Marking(c) == At(c, "mark") \/ (At(c, "work") /\ client[c].todo = << >>)

-----------------------------------------------------------------------------
(* A request comes *)

\* Only a request whose run id the caller gave, or a direct write, marks its run as
\* started; the others go straight to their work.
MarksStart(c) == \/ Req(c).kind \in ScenarioKinds /\ Req(c).named
                 \/ Req(c).kind = "direct_write"
First(c) ==
  CASE Req(c).kind = "allocate" -> "insert"
    [] Req(c).kind = "reset"    -> "reset"
    [] MarksStart(c)            -> "mark"
    [] OTHER                    -> "work"

Begin(c) ==
  /\ At(c, "idle")
  /\ clock' = IF RestartsClock(c) THEN clock + 1 ELSE clock
  /\ client' = [d \in Clients |->
       IF d = c
       THEN [client[c] EXCEPT
               !.at = First(c), !.stamp = clock', !.todo = Publishes(Req(c).kind),
               !.phase = IF MarksStart(c) THEN "start" ELSE "finish",
               !.alone = \A e \in Clients : ~(Active(e) /\ Run(e) = Run(c))]
       ELSE [client[d] EXCEPT !.alone = @ /\ ~(Active(d) /\ Run(d) = Run(c))]]
  /\ UNCHANGED <<runs, fate, topics, stream, failures>>

-----------------------------------------------------------------------------
(* mark_started, mark_completed, allocate_run *)

PutRecord(r, rec) == runs' = [x \in DOMAIN runs \cup {r} |-> IF x = r THEN rec ELSE runs[x]]
NewStatus(c) ==
  CASE Req(c).kind = "allocate"  -> "allocated"
    [] client[c].phase = "start" -> "running"
    [] OTHER                     -> Final(Req(c).kind)

\* Mutant: a record that is already there keeps the status it has.
MarkNewOnly(c) ==
  /\ Marking(c)
  /\ IF Run(c) \in DOMAIN runs THEN Goes(c, "count") ELSE Goes(c, "insert")
  /\ UNCHANGED <<runs, clock, fate, topics, stream, failures>>

\* _RUNS.get, and the fields of the record it finds.
Mark(c) ==
  /\ Marking(c)
  /\ \/ /\ Run(c) \in DOMAIN runs /\ Goes(c, "count")
        /\ runs' = [runs EXCEPT ![Run(c)] =
             [status |-> NewStatus(c), by |-> Me(c),
              started |-> IF RestartsClock(c) THEN client[c].stamp ELSE @.started]]
     \/ Run(c) \notin DOMAIN runs /\ Goes(c, "insert") /\ UNCHANGED runs
  /\ UNCHANGED <<clock, fate, topics, stream, failures>>

\* Mutant: a record that is missing is put there as allocate_run does it.
InsertAllocated(c) ==
  /\ At(c, "insert") /\ Goes(c, "count")
  /\ clock' = IF RestartsClock(c) THEN clock ELSE clock + 1
  /\ PutRecord(Run(c), [status |-> "allocated", by |-> Me(c),
                        started |-> IF RestartsClock(c) THEN client[c].stamp ELSE clock'])
  /\ UNCHANGED <<fate, topics, stream, failures>>

\* There was none: a new record is put into the dictionary, over one that may have come
\* in since.
Insert(c) ==
  /\ At(c, "insert") /\ Goes(c, "count")
  /\ clock' = IF RestartsClock(c) THEN clock ELSE clock + 1
  /\ PutRecord(Run(c), [status |-> NewStatus(c), by |-> Me(c),
                        started |-> IF RestartsClock(c) THEN client[c].stamp ELSE clock'])
  /\ UNCHANGED <<fate, topics, stream, failures>>

(* _trim, at the end of each of them *)

Trimmed(c) == IF Req(c).kind = "allocate" THEN Idle(c) ELSE [client[c] EXCEPT !.at = "announce"]
Newest ==
  {r \in DOMAIN runs :
     Cardinality({x \in DOMAIN runs : runs[x].started > runs[r].started}) < MaxRuns}

\* Mutant: a completed run is not followed by a trim.
CountStarted(c) ==
  /\ At(c, "count")
  /\ client' = IF Cardinality(DOMAIN runs) <= MaxRuns \/ client[c].phase = "finish"
               THEN [client EXCEPT ![c] = Trimmed(c)]
               ELSE [client EXCEPT ![c].at = "keep"]
  /\ UNCHANGED <<runs, clock, fate, topics, stream, failures>>

\* There is nothing to do unless there are too many runs ...
Count(c) ==
  /\ At(c, "count")
  /\ client' = IF Cardinality(DOMAIN runs) <= MaxRuns
               THEN [client EXCEPT ![c] = Trimmed(c)]
               ELSE [client EXCEPT ![c].at = "keep"]
  /\ UNCHANGED <<runs, clock, fate, topics, stream, failures>>

\* ... and then the newest are kept ...
Keep(c) ==
  /\ At(c, "keep")
  /\ client' = [client EXCEPT ![c].at = "list", ![c].keep = Newest]
  /\ UNCHANGED <<runs, clock, fate, topics, stream, failures>>

\* ... and all that are there by then and not among them ...
Others(c) == DOMAIN runs \ client[c].keep
List(c) ==
  /\ At(c, "list")
  /\ client' = [client EXCEPT ![c] =
       IF Others(c) = {} THEN Trimmed(c) ELSE [@ EXCEPT !.at = "delete", !.victims = Others(c)]]
  /\ UNCHANGED <<runs, clock, fate, topics, stream, failures>>

\* ... are deleted one by one.
Delete(c) ==
  /\ At(c, "delete")
  /\ \E r \in client[c].victims \cap DOMAIN runs :
       /\ runs' = [x \in DOMAIN runs \ {r} |-> runs[x]]
       /\ client' = [client EXCEPT ![c] =
            IF client[c].victims = {r} THEN Trimmed(c)
            ELSE [client[c] EXCEPT !.victims = @ \ {r}]]
  /\ UNCHANGED <<clock, fate, topics, stream, failures>>

\* A victim is gone already: KeyError.  Only mark_completed of a scenario is inside a
\* try statement that tells the stream.
TrimRaises(c) ==
  /\ At(c, "delete") /\ ~(client[c].victims \subseteq DOMAIN runs)
  /\ IF Req(c).kind \in ScenarioKinds /\ client[c].phase = "finish"
     THEN Goes(c, "tell_failed") ELSE Ends(c)
  /\ Fated(c, "killed_by_trim")
  /\ UNCHANGED <<runs, clock, topics, stream, failures>>

-----------------------------------------------------------------------------
(* Telling the stream, and the work itself *)

\* _notify_status, which does nothing for a scenario without a run id of the caller's.
Tells(c, status) ==
  IF Req(c).kind \in ScenarioKinds /\ ~Req(c).named THEN UNCHANGED stream
  ELSE stream' = [stream EXCEPT ![Run(c)] = status]

Announce(c) ==
  /\ At(c, "announce")
  /\ IF client[c].phase = "start"
     THEN /\ Tells(c, "running") /\ Fated(c, "running")
          /\ client' = [client EXCEPT ![c].at = "work", ![c].phase = "finish"]
     ELSE Tells(c, Final(Req(c).kind)) /\ Fated(c, "told") /\ Ends(c)
  /\ UNCHANGED <<runs, clock, topics, failures>>

\* The work publishes its next event; the gate must be open for a review or an export.
GateOpen(c) ==
  /\ Req(c).kind = "review" => "acceptance" \in topics[Run(c)]
  /\ Req(c).kind = "export" => "review" \in topics[Run(c)]
Publish(c) ==
  /\ At(c, "work") /\ client[c].todo # << >> /\ GateOpen(c)
  /\ topics' = [topics EXCEPT ![Run(c)] = @ \cup {Head(client[c].todo)}]
  /\ client' = [client EXCEPT ![c].todo = Tail(@)]
  /\ UNCHANGED <<runs, clock, fate, stream, failures>>

\* The work raises, because of the gate or at any point for another reason, the launch
\* of a background swarm after it included.
Fail(c) ==
  /\ At(c, "work") /\ Goes(c, "tell_failed")
  /\ IF GateOpen(c) THEN failures < MaxFailures /\ failures' = failures + 1
     ELSE UNCHANGED failures
  /\ UNCHANGED <<runs, clock, fate, topics, stream>>

\* Mutant: the handler of the exception tells only those who sent the request.
TellNobody(c) ==
  /\ At(c, "tell_failed") /\ Ends(c)
  /\ UNCHANGED <<runs, clock, fate, topics, stream, failures>>

\* The stream hears of it; the record is not touched.
TellFailed(c) ==
  /\ At(c, "tell_failed") /\ Tells(c, "failed") /\ Ends(c)
  /\ Fated(c, IF fate[c][client[c].n] = "killed_by_trim" THEN "failed_in_trim" ELSE "failed")
  /\ UNCHANGED <<runs, clock, topics, failures>>

\* The endpoint of the direct write catches ValueError only: when the broker fails the
\* alert the request dies without a word.
AlertFails(c) ==
  /\ At(c, "work") /\ Req(c).kind = "direct_write"
  /\ failures < MaxFailures /\ failures' = failures + 1
  /\ Fated(c, "killed_by_broker") /\ Ends(c)
  /\ UNCHANGED <<runs, clock, topics, stream>>

(* demo_reset: the runs, then the streams *)
ResetRuns(c) ==
  /\ At(c, "reset") /\ runs' = [r \in {} |-> "none"] /\ Goes(c, "reset_streams")
  /\ UNCHANGED <<clock, fate, topics, stream, failures>>
ResetStreams(c) ==
  /\ At(c, "reset_streams") /\ stream' = [r \in Runs |-> "none"] /\ Ends(c)
  /\ UNCHANGED <<runs, clock, fate, topics, failures>>

-----------------------------------------------------------------------------
Handles(c) ==
  \/ Mark(c) \/ Insert(c) \/ Count(c) \/ Keep(c) \/ List(c) \/ Delete(c) \/ TrimRaises(c)
  \/ Announce(c) \/ Publish(c) \/ TellFailed(c)
  \/ ResetRuns(c) \/ ResetStreams(c)
Next == \E c \in Clients : Begin(c) \/ Handles(c) \/ Fail(c) \/ AlertFails(c)
Spec == Init /\ [][Next]_vars

-----------------------------------------------------------------------------
(* Properties *)

Ats == {"idle", "mark", "insert", "count", "keep", "list", "delete", "announce", "work",
        "tell_failed", "reset", "reset_streams"}
Events == {"evidence", "acceptance", "review", "response", "rejection"}
TypeOK ==
  /\ DOMAIN runs \subseteq Runs /\ \A r \in DOMAIN runs : runs[r] \in Record
  /\ clock \in Nat /\ failures \in 0 .. MaxFailures
  /\ \A c \in Clients :
       /\ client[c].n \in Nat \ {0} /\ client[c].at \in Ats
       /\ client[c].phase \in {"start", "finish"} /\ client[c].stamp \in 0 .. clock
       /\ client[c].keep \subseteq Runs /\ client[c].victims \subseteq Runs
  /\ topics \in [Runs -> SUBSET Events]
  /\ stream \in [Runs -> Statuses \cup {"failed", "none"}]

UnderWay(c, n) == client[c].n = n /\ Active(c)
Failed(c, n) == fate[c][n] \in {"failed", "failed_in_trim", "killed_by_trim", "killed_by_broker"}
TrimRaised(c, n) == fate[c][n] \in {"failed_in_trim", "killed_by_trim"}

\* A run is shown as running only while the request that started it is under way, or
\* when that request has failed, however requests on one run, trims and resets meet.
RunningIsBacked ==
  \A r \in DOMAIN runs : runs[r].status = "running" =>
    LET c == runs[r].by[1]  n == runs[r].by[2] IN UnderWay(c, n) \/ Failed(c, n)

\* What a record says of the workflow is on the topics: nobody is asked to review before
\* there is an accepted draft, and no run is shown exported without its response.
StatusIsEarned ==
  \A r \in DOMAIN runs :
    /\ runs[r].status = "ready_for_ai_drafter" => "evidence" \in topics[r]
    /\ runs[r].status = "waiting_for_human_review" => "acceptance" \in topics[r]
    /\ runs[r].status = "reviewed_pending_export" => "review" \in topics[r]
    /\ runs[r].status = "export_ready" => "response" \in topics[r]

\* The registry is over its bound only while requests that have put a record there are
\* still to trim it, or after a trim has raised because a run it wanted to delete was
\* gone.
BoundedWhenQuiet ==
  Cardinality(DOMAIN runs) > MaxRuns =>
    \/ \E c \in Clients : client[c].at \in {"count", "keep", "list", "delete"}
    \/ \E c \in Clients : \E n \in DOMAIN Script[c] : TrimRaised(c, n)

\* A request that had its run to itself announces the status that the record has, unless
\* a trim or a reset has removed the record.
AnnouncedIsRecorded ==
  \A c \in Clients :
    At(c, "announce") /\ client[c].phase = "finish" /\ client[c].alone
      => Run(c) \notin DOMAIN runs \/ runs[Run(c)].status = Final(Req(c).kind)

\* Who reads "running" on the stream of a run is told how it ends: a request on the run
\* is under way, unless a trim or the broker has killed a direct write, which nobody
\* announces.
OutcomeIsAnnounced ==
  \A r \in Runs : stream[r] = "running" =>
    \E c \in Clients : \E n \in DOMAIN Script[c] :
      /\ Script[c][n].run = r
      /\ UnderWay(c, n) \/ (Script[c][n].kind = "direct_write" /\ Failed(c, n))
=============================================================================
