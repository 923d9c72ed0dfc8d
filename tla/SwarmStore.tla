----------------------------- MODULE SwarmStore -----------------------------
(***************************************************************************)
(* api/swarm_store.py under its two writers in api/app.py: the happy path  *)
(* that launches a swarm in a background thread, and POST /demo/swarm,     *)
(* which runs one in the request and may be given its id.                  *)
(*                                                                         *)
(* Every operation of the store holds its lock, so it is one step; what    *)
(* surrounds it (the time stamp taken before the lock, the start of the    *)
(* thread, the run of the swarm) is a step of its own.  Time stamps are    *)
(* distinct.  Several writers may run a swarm under one id: a request may  *)
(* name the id of a launch or of another request.  What a swarm's result   *)
(* counts is the business of `Swarm`.                                      *)
(***************************************************************************)
EXTENDS Naturals, FiniteSets

CONSTANTS
  Background,  \* launches by the happy path; each makes up an id of its own
  Foreground,  \* POST /demo/swarm requests
  GivenId,     \* GivenId[f]: the id of a foreground request, which may be a launch's
  MaxSwarms,   \* MAX_SWARMS
  MaxResets,   \* bound on the resets
  MayFail      \* may a thread not start, and run_agent_swarm raise

Ids == Background \cup {GivenId[f] : f \in Foreground}
ASSUME StoreConstants ==
  /\ MaxSwarms \in Nat \ {0} /\ MaxResets \in Nat /\ MayFail \in BOOLEAN
  /\ Background \cap Foreground = {}

VARIABLES
  store,   \* _SWARMS: the entries by id
  caller,  \* caller[c]: how far a writer is, and its latest time stamp
  clock,   \* the last time stamp given out
  resets   \* resets so far
vars == <<store, caller, clock, resets>>

NoTime == 0   \* an entry without "started_at"
Entry == [status : {"running", "completed", "failed"}, started : Nat]
Callers == Background \cup Foreground
IdOf(c) == IF c \in Background THEN c ELSE GivenId[c]

Init ==
  /\ store = [i \in {} |-> NoTime]
  /\ caller = [c \in Callers |-> [at |-> "new", stamp |-> NoTime]]
  /\ clock = 0 /\ resets = 0

At(c, from) == caller[c].at = from
Goes(c, at) == caller' = [caller EXCEPT ![c].at = at]
\* datetime.now(UTC)
Stamps(c, at) ==
  /\ clock' = clock + 1
  /\ caller' = [caller EXCEPT ![c] = [at |-> at, stamp |-> clock + 1]]

-----------------------------------------------------------------------------
(* The store's operations, inside the lock *)

Put(id, e) == [i \in DOMAIN store \cup {id} |-> IF i = id THEN e ELSE store[i]]
OverFull(s) == Cardinality(DOMAIN s) > MaxSwarms
\* Sorting by "started_at" raises KeyError for an entry that has none.
TrimRaises(s) == OverFull(s) /\ \E i \in DOMAIN s : s[i].started = NoTime
\* Mutant: the oldest entries are kept.
OldestOf(s) ==
  {i \in DOMAIN s : Cardinality({j \in DOMAIN s : s[j].started < s[i].started}) < MaxSwarms}
Newest(s) ==
  {i \in DOMAIN s : Cardinality({j \in DOMAIN s : s[j].started > s[i].started}) < MaxSwarms}
\* _trim_locked
Trimmed(s) == IF OverFull(s) THEN [i \in Newest(s) |-> s[i]] ELSE s

\* Mutant: the entry is stored without a trim.
StoresUntrimmed(id, e) == store' = Put(id, e)

\* The entry is stored before the trim, and stays when the trim raises.
Stores(id, e) ==
  LET s == Put(id, e) IN store' = IF TrimRaises(s) THEN s ELSE Trimmed(s)

\* reset_swarms
Reset ==
  /\ resets < MaxResets /\ resets' = resets + 1
  /\ store' = [i \in {} |-> NoTime]
  /\ UNCHANGED <<caller, clock>>

-----------------------------------------------------------------------------
(* _launch_background_swarm, in the request of the happy path *)

StampLaunch(b) ==
  At(b, "new") /\ Stamps(b, "stamped") /\ UNCHANGED <<store, resets>>

Running(c) == [status |-> "running", started |-> caller[c].stamp]

\* Mutant: the thread is started before the swarm is reserved.
ReserveLate(b) ==
  /\ caller[b].at \in {"stamped", "done"} /\ Stores(b, Running(b))
  /\ Goes(b, IF At(b, "done") THEN "done" ELSE "reserved")
  /\ UNCHANGED <<clock, resets>>

\* reserve_swarm; no thread is started when the trim raises.
Reserve(b) ==
  /\ At(b, "stamped") /\ Stores(b, Running(b))
  /\ Goes(b, IF TrimRaises(Put(b, Running(b))) THEN "refused" ELSE "reserved")
  /\ UNCHANGED <<clock, resets>>

\* thread.start(), which raises when there can be no more threads.
StartThread(b) ==
  /\ At(b, "reserved")
  /\ Goes(b, "started") \/ (MayFail /\ Goes(b, "unstarted"))
  /\ UNCHANGED <<store, clock, resets>>

(* run_agent_swarm, in the background thread or in the request *)

\* The id of a launch is made up in it and gets out only with its answer, once the
\* thread has been started.
Returned(b) == caller[b].at \in {"started", "running", "ended", "broken", "done", "failed"}

\* started_at of run_swarm
Begin(c) ==
  /\ At(c, IF c \in Background THEN "started" ELSE "new")
  /\ IdOf(c) \in Background => Returned(IdOf(c))
  /\ Stamps(c, "running") /\ UNCHANGED <<store, resets>>

Finish(c) ==
  /\ At(c, "running")
  /\ Goes(c, "ended") \/ (MayFail /\ Goes(c, "broken"))
  /\ UNCHANGED <<store, clock, resets>>

\* save_swarm: the result, with the start of its run.  What a raising trim spoils is
\* the answer of the request or the end of the thread, not the entry.
Save(c) ==
  /\ At(c, "ended") /\ Goes(c, "done")
  /\ Stores(IdOf(c), [status |-> "completed", started |-> caller[c].stamp])
  /\ UNCHANGED <<clock, resets>>

\* Mutant: the exception ends the thread.
FailSilently(c) == At(c, "broken") /\ Goes(c, "done") /\ UNCHANGED <<store, clock, resets>>

\* fail_swarm, from the background thread only: the entry keeps its start, if it is
\* still there.  A request that fails answers with an error and stores nothing.
Fail(c) ==
  /\ At(c, "broken") /\ Goes(c, "failed")
  /\ IF c \in Background
     THEN Stores(c, [status |-> "failed",
                     started |-> IF c \in DOMAIN store THEN store[c].started ELSE NoTime])
     ELSE UNCHANGED store
  /\ UNCHANGED <<clock, resets>>

CallerStep(c) == Begin(c) \/ Finish(c) \/ Save(c) \/ Fail(c)
LaunchStep(b) == StampLaunch(b) \/ Reserve(b) \/ StartThread(b)
Next ==
  \/ \E b \in Background : LaunchStep(b)
  \/ \E c \in Callers : CallerStep(c)
  \/ Reset
Spec == Init /\ [][Next]_vars

\* A launch under way and a thread that has been started are scheduled, and a swarm
\* ends (`Swarm`).  Requests and resets need not come.
FairSpec ==
  /\ Spec
  /\ \A b \in Background : WF_vars(Reserve(b) \/ StartThread(b)) /\ WF_vars(CallerStep(b))
  /\ \A f \in Foreground : WF_vars(Finish(f) \/ Save(f))

-----------------------------------------------------------------------------
(* Properties *)

Stages == {"new", "stamped", "reserved", "started", "unstarted", "running", "ended",
           "broken", "done", "failed", "refused"}
TypeOK ==
  /\ DOMAIN store \subseteq Ids /\ \A i \in DOMAIN store : store[i] \in Entry
  /\ caller \in [Callers -> [at : Stages, stamp : Nat]]
  /\ clock \in Nat /\ resets \in 0 .. MaxResets

\* The store keeps its bound, unless a swarm has failed that a reset or the trim had
\* removed: its entry has no start, and no trim succeeds any more.
BoundedUnlessOrphaned ==
  OverFull(store) => \E i \in DOMAIN store : store[i].started = NoTime

\* A swarm disappears only in a reset or when MaxSwarms younger ones are there.
ForgottenOnlyForYounger ==
  [][\A i \in DOMAIN store : resets' = resets /\ i \notin DOMAIN store' =>
       Cardinality({j \in DOMAIN store' : store'[j].started > store[i].started}) >= MaxSwarms]_vars

\* A swarm that readers see running does end, unless no thread could be started for it,
\* or none was because the trim raised once it had been reserved.
RunningEnds ==
  \A b \in Background :
    (b \in DOMAIN store /\ store[b].status = "running")
      ~> (b \notin DOMAIN store \/ store[b].status # "running"
            \/ At(b, "unstarted") \/ At(b, "refused"))

\* The status that get_swarm returns, and how the run of writer c has ended.  A request
\* that fails leaves no end to be shown.
Shown(i) == IF i \in DOMAIN store THEN store[i].status ELSE "unknown"
EndOf(c) ==
  CASE At(c, "done") -> "completed"
    [] At(c, "failed") /\ c \in Background -> "failed"
    [] OTHER -> "none"
View == INSTANCE SwarmView WITH
  Writers <- Callers,
  Of <- [c \in Callers |-> IdOf(c)],
  shown <- [i \in Ids |-> Shown(i)],
  outcome <- [c \in Callers |-> EndOf(c)]

\* What readers are shown, over all writers (those that share an id too) and resets, is
\* what `SwarmView` promises: a swarm is running only before any run under its id has
\* ended, and from then on what is shown is the end of the run that ended last.
ImplementsSwarmView == View!Spec
=============================================================================
