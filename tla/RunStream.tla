------------------------------ MODULE RunStream ------------------------------
(***************************************************************************)
(* RunEventBroker of api/event_stream.py, for one run id: a bounded replay *)
(* buffer, at most one registered live queue, and the generators that      *)
(* serve GET /demo/stream/{run_id}.                                        *)
(*                                                                         *)
(* A publisher is the thread of one request.  It appends its event to the  *)
(* buffer under the lock and puts it into the queue it found registered    *)
(* once it has let the lock go.  A stream registers its queue and copies   *)
(* the buffer under the lock; its generator replays the copy and serves    *)
(* the queue until a terminal status.  A client may leave before its       *)
(* generator has begun, so that its finally clause never runs, or between  *)
(* two events; a reset may come at any time.                               *)
(*                                                                         *)
(* An event's id is its place in `history`, all events of the run in the   *)
(* order of the buffer.  Its elapsed_ms counts from the start of the       *)
(* request that publishes it, so it need not grow along the history.       *)
(* _dropped, which nothing reads, and the heartbeats are left out.         *)
(***************************************************************************)
EXTENDS Naturals, Sequences, FiniteSets, SequencesExt

CONSTANTS
  Publishers, Streams,
  BufferSize,    \* BUFFER_SIZE
  QueueSize,     \* LIVE_QUEUE_SIZE
  Elapsed,       \* the values elapsed_ms and from_elapsed_ms can take
  MaxEvents,     \* bound on the events published
  MaxResets,     \* bound on the resets
  MayAbandon     \* may a client leave before its generator begins

ASSUME StreamConstants ==
         /\ BufferSize \in Nat \ {0} /\ QueueSize \in Nat \ {0}
         /\ Elapsed \subseteq Nat /\ MaxEvents \in Nat /\ MaxResets \in Nat
         /\ MayAbandon \in BOOLEAN

CONSTANTS NoStream,   \* _subscribers has no entry for the run
          FromStart   \* no from_elapsed_ms was given
ASSUME NoValues == NoStream \notin Streams /\ FromStart \notin Elapsed

VARIABLES
  history,     \* every event published: [elapsed, terminal, by]
  first,       \* the buffer holds history[first], history[first + 1], ...
  truncated,   \* the run is in _truncated
  subscriber,  \* the stream whose queue is registered
  resets,      \* resets so far
  pub,         \* pub[p]: where publish is, the id it carries, the queue it found
  stream       \* stream[s]: one client's generator and queue
bufferVars == <<history, first, truncated>>
vars == <<bufferVars, subscriber, resets, pub, stream>>

Event == [elapsed : Elapsed, terminal : BOOLEAN, by : Publishers]
EventsOf(p) == {e \in Event : e.by = p}
Idle == [at |-> "idle", id |-> 0, to |-> NoStream]

\* at: "new", "opened" (registered, the generator not begun), "serving", "ended",
\* "gone" (the client left) or "refused".  taken: the ids it took from the copy and
\* the queue; skipped: those of them the filter kept from the client; start: the
\* oldest id of the buffer when it registered; lost: the ids that missed its queue.
NewStream ==
  [at |-> "new", from |-> FromStart, truncated |-> FALSE, start |-> 1,
   snapshot |-> << >>, queue |-> << >>, taken |-> << >>, skipped |-> {}, lost |-> {},
   closing |-> FALSE, gap |-> FALSE]

Init ==
  /\ history = << >> /\ first = 1 /\ truncated = FALSE
  /\ subscriber = NoStream /\ resets = 0
  /\ pub = [p \in Publishers |-> Idle]
  /\ stream = [s \in Streams |-> NewStream]

Buffered == first .. Len(history)
IdsFrom(n) == [i \in 1 .. Len(history) + 1 - n |-> n + i - 1]

-----------------------------------------------------------------------------
(* publish and _enqueue *)

\* Mutant: the buffer keeps its oldest event when it is full.
PublishKeepingOldest(p) ==
  /\ pub[p].at = "idle" /\ Len(history) < MaxEvents
  /\ \E e \in EventsOf(p) : history' = Append(history, e)
  /\ truncated' = (truncated \/ Cardinality(Buffered) = BufferSize)
  /\ first' = first
  /\ pub' = IF subscriber = NoStream THEN pub
            ELSE [pub EXCEPT ![p] = [at |-> "put", id |-> Len(history) + 1, to |-> subscriber]]
  /\ UNCHANGED <<subscriber, resets, stream>>

\* Under the lock: the event goes into the buffer, which forgets its oldest when it
\* is full, and the registered queue is looked up.
Publish(p) ==
  /\ pub[p].at = "idle" /\ Len(history) < MaxEvents
  /\ \E e \in EventsOf(p) : history' = Append(history, e)
  /\ LET full == Cardinality(Buffered) = BufferSize IN
       /\ truncated' = (truncated \/ full)
       /\ first' = IF full THEN first + 1 ELSE first
  /\ pub' = IF subscriber = NoStream THEN pub
            ELSE [pub EXCEPT ![p] = [at |-> "put", id |-> Len(history) + 1, to |-> subscriber]]
  /\ UNCHANGED <<subscriber, resets, stream>>

Enqueue(p) == stream' = [stream EXCEPT ![pub[p].to].queue = Append(@, pub[p].id)]
HasRoom(p) == Len(stream[pub[p].to].queue) < QueueSize

\* After the lock: put_nowait, into a queue that may have lost its client.
Put(p) ==
  /\ pub[p].at = "put"
  /\ \/ HasRoom(p) /\ Enqueue(p) /\ pub' = [pub EXCEPT ![p] = Idle]
     \/ ~HasRoom(p) /\ pub' = [pub EXCEPT ![p].at = "full"] /\ UNCHANGED stream
  /\ UNCHANGED <<bufferVars, subscriber, resets>>

\* Mutant: the retry follows without a place having been made.
DropNothing(p) ==
  /\ pub[p].at = "full"
  /\ pub' = [pub EXCEPT ![p].at = "again"]
  /\ UNCHANGED <<bufferVars, subscriber, resets, stream>>

\* get_nowait: the oldest event makes place, unless the queue has been emptied since.
DropOldest(p) ==
  /\ pub[p].at = "full"
  /\ LET s == pub[p].to  q == stream[s].queue IN
       stream' = IF q = << >> THEN stream
                 ELSE [stream EXCEPT ![s].queue = Tail(@), ![s].lost = @ \cup {Head(q)}]
  /\ pub' = [pub EXCEPT ![p].at = "again"]
  /\ UNCHANGED <<bufferVars, subscriber, resets>>

\* The second put_nowait: Full again, should another publisher have taken the place,
\* and the exception ends the request.
PutAgain(p) ==
  /\ pub[p].at = "again"
  /\ \/ HasRoom(p) /\ Enqueue(p) /\ pub' = [pub EXCEPT ![p] = Idle]
     \/ /\ ~HasRoom(p)
        /\ pub' = [pub EXCEPT ![p].at = "raised"]
        /\ stream' = [stream EXCEPT ![pub[p].to].lost = @ \cup {pub[p].id}]
  /\ UNCHANGED <<bufferVars, subscriber, resets>>

-----------------------------------------------------------------------------
(* open_stream and its generator *)

\* Under the lock: refused while a queue is registered, else the queue is registered
\* and the buffer copied.
Open(s) ==
  /\ stream[s].at = "new"
  /\ \/ /\ subscriber # NoStream
        /\ stream' = [stream EXCEPT ![s].at = "refused"]
        /\ UNCHANGED subscriber
     \/ /\ subscriber = NoStream
        /\ subscriber' = s
        /\ \E f \in Elapsed \cup {FromStart} :
             stream' = [stream EXCEPT ![s] =
               [NewStream EXCEPT !.at = "opened", !.from = f, !.truncated = truncated,
                                 !.start = first, !.snapshot = IdsFrom(first)]]
  /\ UNCHANGED <<bufferVars, resets, pub>>

\* Mutant: the generator copies the buffer when it begins, not when it registers.
BeginWithCopy(s) ==
  /\ stream[s].at = "opened"
  /\ stream' = [stream EXCEPT ![s].at = "serving", ![s].snapshot = IdsFrom(first)]
  /\ UNCHANGED <<bufferVars, subscriber, resets, pub>>

\* The generator begins: a client that asks for what the buffer has forgotten is told.
Begin(s) ==
  /\ stream[s].at = "opened"
  /\ LET r == stream[s] IN
       stream' = [stream EXCEPT ![s].at = "serving",
         ![s].gap = /\ r.from # FromStart /\ r.truncated /\ r.snapshot # << >>
                    /\ r.from < history[Head(r.snapshot)].elapsed]
  /\ UNCHANGED <<bufferVars, subscriber, resets, pub>>

Filtered(s, i) == stream[s].from # FromStart /\ history[i].elapsed < stream[s].from

\* Mutant: a terminal status that is replayed does not start the grace period.
ReplayOnly(s) ==
  /\ stream[s].at = "serving" /\ stream[s].snapshot # << >>
  /\ LET i == Head(stream[s].snapshot) IN
       stream' = [stream EXCEPT
         ![s].snapshot = Tail(@), ![s].taken = Append(@, i),
         ![s].skipped = IF Filtered(s, i) THEN @ \cup {i} ELSE @]
  /\ UNCHANGED <<bufferVars, subscriber, resets, pub>>

\* The next event of the copy is skipped or sent; a terminal one starts the grace
\* period only if it is sent.
Replay(s) ==
  /\ stream[s].at = "serving" /\ stream[s].snapshot # << >>
  /\ LET i == Head(stream[s].snapshot)  skip == Filtered(s, i) IN
       stream' = [stream EXCEPT
         ![s].snapshot = Tail(@), ![s].taken = Append(@, i),
         ![s].skipped = IF skip THEN @ \cup {i} ELSE @,
         ![s].closing = @ \/ (~skip /\ history[i].terminal)]
  /\ UNCHANGED <<bufferVars, subscriber, resets, pub>>

\* Mutant: the queue is served while the copy is still being replayed.
ServeAtOnce(s) ==
  /\ stream[s].at = "serving" /\ stream[s].queue # << >>
  /\ LET i == Head(stream[s].queue) IN
       stream' = [stream EXCEPT
         ![s].queue = Tail(@), ![s].taken = Append(@, i),
         ![s].closing = @ \/ history[i].terminal]
  /\ UNCHANGED <<bufferVars, subscriber, resets, pub>>

\* The copy is done: the next event of the live queue is sent, unfiltered.
Serve(s) ==
  /\ stream[s].at = "serving" /\ stream[s].snapshot = << >> /\ stream[s].queue # << >>
  /\ LET i == Head(stream[s].queue) IN
       stream' = [stream EXCEPT
         ![s].queue = Tail(@), ![s].taken = Append(@, i),
         ![s].closing = @ \/ history[i].terminal]
  /\ UNCHANGED <<bufferVars, subscriber, resets, pub>>

\* Mutant: the entry of the run goes, whoever's it is.
DetachAny(s, at) ==
  /\ stream' = [stream EXCEPT ![s].at = at]
  /\ subscriber' = NoStream
  /\ UNCHANGED <<bufferVars, resets, pub>>

\* Mutant: the entry goes when the stream ends by itself, not when its client leaves.
DetachEnded(s, at) ==
  /\ stream' = [stream EXCEPT ![s].at = at]
  /\ subscriber' = IF subscriber = s /\ at = "ended" THEN NoStream ELSE subscriber
  /\ UNCHANGED <<bufferVars, resets, pub>>

\* The finally clause: only the generator's own queue is removed.
Detach(s, at) ==
  /\ stream' = [stream EXCEPT ![s].at = at]
  /\ subscriber' = IF subscriber = s THEN NoStream ELSE subscriber
  /\ UNCHANGED <<bufferVars, resets, pub>>

\* The grace period is over, checked before each event and while waiting for one.
Expire(s) ==
  /\ stream[s].at = "serving" /\ stream[s].snapshot = << >> /\ stream[s].closing
  /\ Detach(s, "ended")

\* The client disconnects: the generator is closed and cleans up ...
Disconnect(s) == stream[s].at = "serving" /\ Detach(s, "gone")

\* ... unless it had not begun: a generator that never ran has no finally clause.
Abandon(s) ==
  /\ MayAbandon /\ stream[s].at = "opened"
  /\ stream' = [stream EXCEPT ![s].at = "gone"]
  /\ UNCHANGED <<bufferVars, subscriber, resets, pub>>

\* reset: everything is forgotten; generators at work keep their queues.
Reset ==
  /\ resets < MaxResets
  /\ resets' = resets + 1
  /\ first' = Len(history) + 1 /\ truncated' = FALSE
  /\ subscriber' = NoStream
  /\ UNCHANGED <<history, pub, stream>>

-----------------------------------------------------------------------------
PublisherStep(p) == Publish(p) \/ Put(p) \/ DropOldest(p) \/ PutAgain(p)
GeneratorStep(s) == Begin(s) \/ Replay(s) \/ Serve(s)
Next ==
  \/ \E p \in Publishers : PublisherStep(p)
  \/ \E s \in Streams : Open(s) \/ GeneratorStep(s) \/ Expire(s) \/ Disconnect(s) \/ Abandon(s)
  \/ Reset

Spec == Init /\ [][Next]_vars

\* A thread in publish is scheduled until it returns; a generator is driven for as
\* long as its client reads, and looks at its deadline, 2 s after a terminal status.
Fairness ==
  /\ \A p \in Publishers : WF_vars(Put(p) \/ DropOldest(p) \/ PutAgain(p))
  /\ \A s \in Streams : WF_vars(GeneratorStep(s)) /\ WF_vars(Expire(s))
FairSpec == Spec /\ Fairness

-----------------------------------------------------------------------------
(* Properties *)

Ids == 1 .. Len(history)
StreamType ==
  [at : {"new", "opened", "serving", "ended", "gone", "refused"},
   from : Elapsed \cup {FromStart}, truncated : BOOLEAN, start : Nat \ {0},
   snapshot : Seq(Ids), queue : Seq(Ids), taken : Seq(Ids),
   skipped : SUBSET Ids, lost : SUBSET Ids, closing : BOOLEAN, gap : BOOLEAN]
PubType ==
  [at : {"idle", "put", "full", "again", "raised"}, id : Ids \cup {0},
   to : Streams \cup {NoStream}]

\* The type invariant, with the bounds of the buffer and of the live queues, which
\* publish and _enqueue must keep however their steps interleave.
TypeOK ==
  /\ history \in Seq(Event) /\ first \in Nat \ {0} /\ truncated \in BOOLEAN
  /\ Cardinality(Buffered) <= BufferSize
  /\ subscriber \in Streams \cup {NoStream} /\ resets \in 0 .. MaxResets
  /\ pub \in [Publishers -> PubType]
  /\ stream \in [Streams -> StreamType]
  /\ \A s \in Streams : Len(stream[s].queue) <= QueueSize

\* Events a publisher holds for s between its two critical sections.
Carried(s) == {pub[p].id : p \in {q \in Publishers :
                 pub[q].to = s /\ pub[q].at \in {"put", "full", "again"}}}
Received(s) == stream[s].taken \o stream[s].snapshot \o stream[s].queue
Accounted(s) == ToSet(Received(s)) \cup Carried(s) \cup stream[s].lost
Opened(s) == stream[s].at \notin {"new", "refused"}

\* The handover from the replayed copy to the live queue is exact: what a stream was
\* given or is still to get is every event from the oldest in the buffer when it
\* registered to the newest before it was detached, each in one place only.
HandedOverOnce ==
  \A s \in Streams : Opened(s) =>
    /\ IsInjective(Received(s))
    /\ ToSet(Received(s)) \cap Carried(s) = {}
    /\ stream[s].lost \cap (ToSet(Received(s)) \cup Carried(s)) = {}
    /\ \E last \in 0 .. Len(history) :
         /\ Accounted(s) = stream[s].start .. last
         /\ subscriber = s => last = Len(history)

\* A client gets the events of one publisher in the order they were published, even
\* when it is slow, its queue has dropped some and other publishers put theirs between.
InOrder ==
  \A s \in Streams : \A i, j \in 1 .. Len(Received(s)) :
    i < j /\ history[Received(s)[i]].by = history[Received(s)[j]].by
      => Received(s)[i] < Received(s)[j]

\* Dropping one event makes the place for the next, so that observing a run fails a
\* request only if another request published in the same client's stream.
NeverRaises ==
  \A p \in Publishers : pub[p].at = "raised" =>
    \E i \in Ids : i \in Accounted(pub[p].to) /\ history[i].by # p

\* A stream that ends or loses its client takes only its own registration with it,
\* also when a reset has let another one register in the meantime.
DetachesOnlyItself ==
  [][\A s \in Streams : subscriber = s /\ subscriber' # s =>
       stream'[s].at # stream[s].at \/ resets' # resets]_vars

\* A client is refused only while another one is being served.
RefusedOnlyWhileLive ==
  [][\A s \in Streams : stream[s].at = "new" /\ stream'[s].at = "refused" =>
       \E t \in Streams : stream[t].at \in {"opened", "serving"}]_vars

\* A client that asks for the events from some elapsed_ms on is told of a gap when
\* the buffer has forgotten such an event (no resets: a reset forgets on purpose).
GapIsReported ==
  \A s \in Streams :
    stream[s].at = "serving" /\ stream[s].from # FromStart
      /\ (\E i \in 1 .. stream[s].start - 1 : history[i].elapsed >= stream[s].from)
    => stream[s].gap

\* A stream that has a terminal status still to send ends, unless its client leaves,
\* the queue drops the status or the replay filter keeps it back.
TerminalEnds ==
  \A s \in Streams : \A i \in 1 .. MaxEvents :
    (stream[s].at = "serving" /\ i \in Accounted(s) /\ history[i].terminal)
      ~> (stream[s].at # "serving" \/ i \in stream[s].lost \cup stream[s].skipped)
=============================================================================
