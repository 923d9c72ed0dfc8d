--------------------------- MODULE WorkflowProofs ---------------------------
(***************************************************************************)
(* Proofs about Workflow, for every set of clients, runs, questions and    *)
(* evidence, every script and any number of faults.                        *)
(***************************************************************************)
EXTENDS Workflow, TLAPS, SequenceTheorems, FiniteSetTheorems, WellFoundedInduction

USE DEF Received, Prepared, Internal, AiSafe, Proposed, Accepted, Rejected, Reviewed, Ready,
        Audit, Alert

TypeInv == TypeOK /\ ClientsOK

-----------------------------------------------------------------------------
(* Messages and sequences of messages *)

\* A message whose event has the type of its topic is a message.
LEMMA MsgType ==
  ASSUME NEW p \in Principals, NEW t \in Topics, NEW e \in EventOf(t)
  PROVE  Msg(p, t, e) \in Message
BY DEF Message, MessageOn, Topics, Msg

\* A message's parts have their types.
LEMMA MessageParts ==
  ASSUME NEW m \in Message
  PROVE  m.principal \in Principals /\ m.topic \in Topics /\ m.event \in EventOf(m.topic)
BY DEF Message, MessageOn, Topics

\* A function on 1..n is a sequence.
LEMMA FunctionSeq ==
  ASSUME NEW S, NEW n \in Nat, NEW f \in [1..n -> S]
  PROVE  f \in Seq(S) /\ Len(f) = n
<1>1. f \in Seq(S) BY SeqDef
<1>2. Len(f) \in Nat /\ DOMAIN f = 1..Len(f) BY <1>1, LenProperties
<1>3. DOMAIN f = 1..n OBVIOUS
<1>4. Len(f) = n BY <1>2, <1>3
<1>5. QED BY <1>1, <1>4

\* The sequences of messages that operations publish, and their elements.
LEMMA OneMessage ==
  ASSUME NEW a \in Message
  PROVE  <<a>> \in Seq(Message) /\ <<a>> # << >> /\ ToSet(<<a>>) = {a}
BY DEF ToSet

\* Two messages are a sequence of messages, and these are its elements.
LEMMA TwoMessages ==
  ASSUME NEW a \in Message, NEW b \in Message
  PROVE  <<a, b>> \in Seq(Message) /\ <<a, b>> # << >> /\ ToSet(<<a, b>>) = {a, b}
BY DEF ToSet

\* Three messages are a sequence of messages, and these are its elements.
LEMMA ThreeMessages ==
  ASSUME NEW a \in Message, NEW b \in Message, NEW d \in Message
  PROVE  <<a, b, d>> \in Seq(Message) /\ <<a, b, d>> # << >> /\ ToSet(<<a, b, d>>) = {a, b, d}
BY DEF ToSet

\* n messages and one more are a sequence, and these are its elements.
LEMMA SeveralMessages ==
  ASSUME NEW n \in Nat, NEW f \in [1..n -> Message], NEW a \in Message
  PROVE  /\ Append(f, a) \in Seq(Message) /\ Append(f, a) # << >>
         /\ \A m \in ToSet(Append(f, a)) : m = a \/ \E k \in 1..n : m = f[k]
<1>1. f \in Seq(Message) /\ Len(f) = n BY FunctionSeq
<1>2. /\ Append(f, a) \in Seq(Message) /\ Append(f, a) # << >>
      /\ Len(Append(f, a)) = n + 1 /\ Append(f, a)[n + 1] = a
      /\ \A i \in 1..n : Append(f, a)[i] = f[i]
  BY <1>1, AppendProperties
<1>3. DOMAIN Append(f, a) = 1..(n + 1) BY <1>2, LenProperties
<1>4. QED BY <1>2, <1>3 DEF ToSet

\* Two sequences of messages joined are one, with the elements of both.
LEMMA JoinedMessages ==
  ASSUME NEW s \in Seq(Message), NEW t \in Seq(Message), t # << >>
  PROVE  /\ s \o t \in Seq(Message) /\ s \o t # << >>
         /\ \A m \in ToSet(s \o t) : m \in ToSet(s) \/ m \in ToSet(t)
<1>1. /\ Len(s) \in Nat /\ Len(t) \in Nat /\ Len(t) > 0
      /\ DOMAIN s = 1..Len(s) /\ DOMAIN t = 1..Len(t)
  BY LenProperties, EmptySeq
<1>2. /\ s \o t \in Seq(Message) /\ Len(s \o t) = Len(s) + Len(t)
      /\ \A i \in 1..(Len(s) + Len(t)) : (s \o t)[i] = IF i <= Len(s) THEN s[i] ELSE t[i - Len(s)]
  BY ConcatProperties
<1>3. DOMAIN (s \o t) = 1..(Len(s) + Len(t)) BY <1>1, <1>2, LenProperties
<1>4. s \o t # << >> BY <1>1, <1>2, EmptySeq
<1>5. QED BY <1>1, <1>2, <1>3, <1>4 DEF ToSet

-----------------------------------------------------------------------------
(* What a client's operation is *)

\* A client that is not done is at an operation of its script, with the arguments
\* an operation has.
LEMMA OpType ==
  ASSUME TypeInv, NEW c \in Clients, pc[c] # "done"
  PROVE  /\ pos[c] \in Nat \ {0} /\ pos[c] <= Len(Script[c])
         /\ IsOperation(Op(c)) /\ Op(c).run \in Runs /\ Op(c).question \in Questions
         /\ Op(c).op = "note" => Op(c).back < pos[c]
<1>1. pos[c] \in Nat \ {0} /\ pos[c] <= Len(Script[c])
  BY DEF TypeInv, TypeOK, ClientsOK, ClientOK
<1>2. pos[c] \in 1..Len(Script[c])
  BY <1>1, ScriptType
<1>3. IsOperation(Op(c)) /\ (Op(c).op = "note" => Op(c).back < pos[c])
  BY <1>2, ScriptType DEF Op
<1>4. QED BY <1>1, <1>3 DEF IsOperation

\* The id a client gives its next event is an id.
LEMMA IdType ==
  ASSUME TypeInv, NEW c \in Clients, NEW k \in Nat, pc[c] # "done" PROVE Id(c, k) \in Ids
BY OpType DEF Id, Ids

\* An audit event about an event or a run is a message.
LEMMA AuditType ==
  ASSUME TypeInv, NEW c \in Clients, NEW k \in Nat, pc[c] # "done",
         NEW p \in Principals, NEW source \in Ids \cup Runs
  PROVE  AuditMsg(c, k, p, source) \in Message
<1>1. [id |-> Id(c, k), run |-> Op(c).run, source |-> source] \in EventOf(Audit)
  BY OpType, IdType DEF EventOf
<1>2. QED BY <1>1, MsgType DEF AuditMsg, Topics

-----------------------------------------------------------------------------
(* The parts actions are made of keep the types *)

\* An operation that raises keeps the types.
LEMMA FailType ==
  ASSUME TypeInv, NEW c \in Clients, pc[c] # "done", Fail(c),
         late' \subseteq Message, faults' \in 0..MaxFaults
  PROVE  TypeInv'
<1>1. TypeOK'
  BY EmptySeq DEF TypeInv, TypeOK, Fail, PCs
<1>2. ASSUME NEW d \in Clients PROVE ClientOK(d)'
  BY <1>2 DEF TypeInv, TypeOK, ClientsOK, ClientOK, Fail, Op, Sending, TakenTopic, Events
<1>3. QED BY <1>1, <1>2 DEF TypeInv, ClientsOK

\* An operation that turns to publishing messages keeps the types.
LEMMA PublishType ==
  ASSUME TypeInv, NEW c \in Clients, pc[c] # "done",
         NEW msgs \in Seq(Message), msgs # << >>, NEW then \in {"send", "raise", "attack"},
         then = "attack" => Op(c).op = "direct_write",
         Publish(c, msgs, then)
  PROVE  TypeInv'
<1>1. TypeOK'
  BY DEF TypeInv, TypeOK, Publish, PCs
<1>2. ASSUME NEW d \in Clients PROVE ClientOK(d)'
  BY <1>2 DEF TypeInv, TypeOK, ClientsOK, ClientOK, Publish, Op, Sending, TakenTopic, Events
<1>3. QED BY <1>1, <1>2 DEF TypeInv, ClientsOK

\* What _latest_question returns is an event of the topic, of the run and question.
LEMMA LatestIs ==
  ASSUME TypeOK, NEW p, NEW t \in Topics, NEW o, NEW n \in ReadUpTo(p, t), NEW e \in Latest(t, n, o)
  PROVE  e \in Events(t) /\ About(e, t, o)
<1>1. n \in Nat /\ n <= Len(log[t]) /\ Len(log[t]) \in Nat
  BY LenProperties DEF ReadUpTo, TypeOK
<1>2. QED BY <1>1 DEF Latest, Events

\* An event found on a topic has the type of the topic.
LEMMA EventType ==
  ASSUME TypeOK, NEW t \in Topics, NEW e \in Events(t) PROVE e \in EventOf(t)
BY ElementOfSeq DEF TypeOK, Events

\* The first read of an operation keeps the types and takes an event of its question.
LEMMA TakeLatestType ==
  ASSUME TypeInv, NEW c \in Clients, pc[c] = "start", NEW p, NEW t \in {Prepared, Proposed},
         Op(c).op \in {"evidence", "draft", "agentic", "guard"}, t = TakenTopic(c),
         TakeLatest(c, p, t)
  PROVE  TypeInv'
<1>1. PICK n \in ReadUpTo(p, t) :
         \/ Fail(c) /\ UNCHANGED <<late, faults>>
         \/ \E e \in Latest(t, n, Op(c)) : Keep(c, e)
  BY DEF TakeLatest
<1>2. CASE Fail(c) /\ UNCHANGED <<late, faults>>
  BY <1>2, FailType DEF TypeInv, TypeOK
<1>3. CASE \E e \in Latest(t, n, Op(c)) : Keep(c, e)
  <2>1. PICK e \in Latest(t, n, Op(c)) : Keep(c, e) BY <1>3
  <2>2. TypeOK BY DEF TypeInv
  <2>3. e \in Events(t) /\ About(e, t, Op(c)) BY <2>2, LatestIs DEF Topics
  <2>4. e \in EventOf(t) BY <2>2, <2>3, EventType DEF Topics
  <2>5. TypeOK' BY <2>1, <2>2, <2>4 DEF TypeOK, Keep, PCs
  <2>6. ASSUME NEW d \in Clients PROVE ClientOK(d)'
    <3>1. CASE d = c
      BY <2>1, <2>2, <2>3, <3>1
      DEF TypeInv, TypeOK, ClientsOK, ClientOK, Keep, Op, Sending, TakenTopic, Events, About
    <3>2. CASE d # c
      BY <2>1, <2>2, <3>2
      DEF TypeInv, TypeOK, ClientsOK, ClientOK, Keep, Op, Sending, TakenTopic, Events
    <3>3. QED BY <3>1, <3>2
  <2>7. QED BY <2>5, <2>6 DEF TypeInv, ClientsOK
<1>4. QED BY <1>1, <1>2, <1>3

\* Topics only grow: what was published stays published.
Grows == \A t \in Topics : /\ log'[t] \in Seq(EventOf(t))
                           /\ Events(t) \subseteq Events(t)'

\* What one or two copies of an element add to a sequence.
LEMMA AppendAdds ==
  ASSUME NEW S, NEW s \in Seq(S), NEW e \in S, NEW r,
         r = Append(s, e) \/ r = Append(Append(s, e), e)
  PROVE  /\ r \in Seq(S)
         /\ \A i \in 1..Len(s) : \E j \in 1..Len(r) : r[j] = s[i]
         /\ \E j \in 1..Len(r) : r[j] = e
         /\ \A j \in 1..Len(r) : r[j] = e \/ \E i \in 1..Len(s) : r[j] = s[i]
<1> DEFINE u == Append(s, e)
<1>1. /\ Len(s) \in Nat
      /\ u \in Seq(S) /\ Len(u) = Len(s) + 1 /\ u[Len(s) + 1] = e
      /\ \A i \in 1..Len(s) : u[i] = s[i]
  BY AppendProperties, LenProperties
<1>2. CASE r = u BY <1>1, <1>2
<1>3. CASE r = Append(u, e)
  <2> HIDE DEF u
  <2>1. /\ r \in Seq(S) /\ Len(r) = Len(u) + 1 /\ r[Len(u) + 1] = e
        /\ \A i \in 1..Len(u) : r[i] = u[i]
    BY <1>1, <1>3, AppendProperties
  <2>2. QED BY <1>1, <2>1
<1>4. QED BY <1>2, <1>3

\* Appending an event of the right type makes its topic grow and no other change.
LEMMA AppendGrows ==
  ASSUME TypeOK, NEW m \in Message,
         NEW r \in {Append(log[m.topic], m.event), Append(Append(log[m.topic], m.event), m.event)},
         log' = [log EXCEPT ![m.topic] = r]
  PROVE  /\ Grows /\ log' = [t \in Topics |-> log'[t]]
         /\ m.event \in Events(m.topic)'
         /\ \A t \in Topics : \A e \in Events(t)' : e \in Events(t) \/ (t = m.topic /\ e = m.event)
<1>1. m.topic \in Topics /\ m.event \in EventOf(m.topic) BY MessageParts
<1>2. log' = [t \in Topics |-> IF t = m.topic THEN r ELSE log[t]]
  BY <1>1 DEF TypeOK
<1>3. ASSUME NEW t \in Topics
      PROVE  /\ log'[t] \in Seq(EventOf(t)) /\ Events(t) \subseteq Events(t)'
             /\ \A e \in Events(t)' : e \in Events(t) \/ (t = m.topic /\ e = m.event)
             /\ t = m.topic => m.event \in Events(t)'
  <2>1. log[t] \in Seq(EventOf(t)) BY DEF TypeOK
  <2>2. CASE t = m.topic
    <3> DEFINE S == EventOf(t)
               s == log[t]
               e == m.event
    <3>1. s \in Seq(S) /\ e \in S /\ (r = Append(s, e) \/ r = Append(Append(s, e), e))
      BY <1>1, <2>1, <2>2
    <3>2. /\ r \in Seq(S)
          /\ \A i \in 1..Len(s) : \E j \in 1..Len(r) : r[j] = s[i]
          /\ \E j \in 1..Len(r) : r[j] = e
          /\ \A j \in 1..Len(r) : r[j] = e \/ \E i \in 1..Len(s) : r[j] = s[i]
      <4> HIDE DEF S, s, e
      <4>1. QED BY <3>1, AppendAdds
    <3>3. log'[t] = r BY <1>2, <2>2
    <3>4. Events(t) = {s[i] : i \in 1..Len(s)} /\ Events(t)' = {r[i] : i \in 1..Len(r)}
      BY <3>3 DEF Events
    <3>5. Events(t) \subseteq Events(t)' /\ e \in Events(t)'
      BY <3>2, <3>4
    <3>6. \A x \in Events(t)' : x \in Events(t) \/ x = e
      BY <3>2, <3>4
    <3>7. QED BY <2>2, <3>2, <3>3, <3>5, <3>6
  <2>3. CASE t # m.topic
    BY <1>2, <2>1, <2>3 DEF Events
  <2>4. QED BY <2>2, <2>3
<1>4. log' = [t \in Topics |-> log'[t]] BY <1>2
<1>5. m.event \in Events(m.topic)' BY <1>1, <1>3
<1>6. QED BY <1>3, <1>4, <1>5 DEF Grows

\* A client that has sent a message goes on with its types intact.
LEMMA SentType ==
  ASSUME TypeInv, NEW c \in Clients, Sending(c), Sent(c), Grows, log' = [t \in Topics |-> log'[t]],
         faults' \in 0..MaxFaults
  PROVE  TypeInv'
<1>1. outbox[c] \in Seq(Message) /\ outbox[c] # << >> /\ pc[c] # "done" /\ pc[c] \in PCs
  BY DEF TypeInv, TypeOK, ClientsOK, ClientOK, Sending
<1>2. Tail(outbox[c]) \in Seq(Message) /\ Len(Tail(outbox[c])) = Len(outbox[c]) - 1
      /\ Len(outbox[c]) \in Nat /\ Len(outbox[c]) > 0
      /\ (Len(outbox[c]) > 1 => Tail(outbox[c]) # << >>)
  <2>1. Tail(outbox[c]) \in Seq(Message) /\ Len(Tail(outbox[c])) = Len(outbox[c]) - 1
        /\ Len(outbox[c]) \in Nat /\ Len(outbox[c]) > 0
    BY <1>1, HeadTailProperties, EmptySeq
  <2> DEFINE u == Tail(outbox[c])
  <2>2. Len(u) > 0 => u # << >>
    <3> HIDE DEF u
    <3>1. QED OBVIOUS
  <2>3. QED BY <2>1, <2>2
<1>3. pos[c] \in Nat \ {0} /\ pos[c] <= Len(Script[c]) /\ Len(Script[c]) \in Nat
  BY <1>1, OpType, ScriptType, LenProperties
<1>4. TypeOK'
  <2>1. outbox' \in [Clients -> Seq(Message)] /\ taken' = taken /\ late' = late
    BY <1>2 DEF TypeInv, TypeOK, Sent
  <2>2. pos' \in [Clients -> Nat \ {0}] /\ pc' \in [Clients -> PCs]
    <3>1. CASE Len(outbox[c]) > 1 BY <3>1 DEF TypeInv, TypeOK, Sent
    <3>2. CASE ~(Len(outbox[c]) > 1)
      <4> DEFINE after == CASE pc[c] = "raise" -> "aborted"
                            [] pos[c] = Len(Script[c]) /\ pc[c] # "raise" -> "done"
                            [] OTHER -> "start"
      <4>1. after \in PCs BY DEF PCs
      <4>2. pc' = [pc EXCEPT ![c] = after] BY <3>2 DEF Sent
      <4>3. pc' \in [Clients -> PCs]
        <5> HIDE DEF after
        <5>1. QED BY <4>1, <4>2 DEF TypeInv, TypeOK
      <4>4. pos' \in [Clients -> Nat \ {0}]
        BY <1>3, <3>2 DEF TypeInv, TypeOK, Sent
      <4>5. QED BY <4>3, <4>4
    <3>3. QED BY <3>1, <3>2
  <2>3. QED BY <2>1, <2>2 DEF TypeInv, TypeOK, Grows
<1>5. ASSUME NEW d \in Clients PROVE ClientOK(d)'
  <2>1. CASE d = c
    <3>1. CASE Len(outbox[c]) > 1
      BY <1>1, <1>2, <2>1, <3>1, EmptySeq
      DEF TypeInv, TypeOK, ClientsOK, ClientOK, Sent, Op, Sending
    <3>2. CASE ~(Len(outbox[c]) > 1)
      BY <1>1, <1>2, <1>3, <2>1, <3>2
      DEF TypeInv, TypeOK, ClientsOK, ClientOK, Sent, Op, Sending
    <3>3. QED BY <3>1, <3>2
  <2>2. CASE d # c
    <3>1. /\ pc'[d] = pc[d] /\ pos'[d] = pos[d] /\ outbox'[d] = outbox[d] /\ taken'[d] = taken[d]
      BY <2>2 DEF TypeInv, TypeOK, Sent
    <3>2. TakenTopic(d) \in Topics /\ TakenTopic(d)' = TakenTopic(d)
      BY <3>1 DEF TakenTopic, Topics, Op
    <3>3. Events(TakenTopic(d)) \subseteq Events(TakenTopic(d))'
      BY <3>2 DEF Grows, Events
    <3>4. QED BY <3>1, <3>2, <3>3 DEF TypeInv, ClientsOK, ClientOK, Op, Sending
  <2>3. QED BY <2>1, <2>2
<1>6. QED BY <1>4, <1>5 DEF TypeInv, ClientsOK

-----------------------------------------------------------------------------
(* The gate: what is published, pending or on its way is justified *)

Published == ReleasedIsAllowed /\ AcceptedIsGrounded /\ ReviewFollowsAcceptance /\ ExportListsApproved
GateInv == Published /\ PendingJustified
Inv == TypeInv /\ OnlyTheAttackIsDenied /\ (AclsEnforced => GateInv)

\* What an operation publishes is justified, and its account is granted the topic.
Fit(m) == Justified(m) /\ (AclsEnforced => Writable(m))

\* A justification only speaks of events that are there, so it is never lost.
LEMMA JustifiedGrows ==
  ASSUME Grows, NEW m, Justified(m) PROVE Justified(m)'
<1>1. \A t \in {Internal, Prepared, Proposed, AiSafe, Accepted, Reviewed} : Events(t) \subseteq Events(t)'
  BY DEF Grows, Topics
<1>2. m.topic = AiSafe => ReleaseAllowed(m.event)'
  BY <1>1 DEF Justified, ReleaseAllowed
<1>3. m.topic = Accepted => AcceptAllowed(m.event)'
  BY <1>1 DEF Justified, AcceptAllowed
<1>4. m.topic = Reviewed => ReviewAllowed(m.event)'
  BY <1>1 DEF Justified, ReviewAllowed
<1>5. m.topic = Ready => ExportAllowed(m.event)'
  BY <1>1 DEF Justified, ExportAllowed
<1>6. QED BY <1>2, <1>3, <1>4, <1>5 DEF Justified

\* Nor is it when the topics stay as they are.
LEMMA SameGrows ==
  ASSUME TypeOK, log' = log PROVE Grows /\ \A t \in Topics : Events(t)' = Events(t)
BY DEF TypeOK, Grows, Events

\* Publishing what is justified keeps everything published justified.
LEMMA PublishedGrows ==
  ASSUME Published, Grows, NEW m, Justified(m),
         \A t \in Topics : \A e \in Events(t)' : e \in Events(t) \/ (t = m.topic /\ e = m.event)
  PROVE  Published'
<1>1. ASSUME NEW t \in Topics, NEW e \in Events(t)' PROVE Justified(Msg("", t, e))'
  <2>1. CASE e \in Events(t)
    <3>1. Justified(Msg("", t, e))
      BY <2>1 DEF Published, ReleasedIsAllowed, AcceptedIsGrounded, ReviewFollowsAcceptance,
                  ExportListsApproved, Justified, Msg
    <3>2. QED BY <3>1, JustifiedGrows
  <2>2. CASE t = m.topic /\ e = m.event
    <3>1. Justified(Msg("", t, e)) BY <2>2 DEF Justified, Msg
    <3>2. QED BY <3>1, JustifiedGrows
  <2>3. QED BY <1>1, <2>1, <2>2
<1>2. QED
  BY <1>1 DEF Published, ReleasedIsAllowed, AcceptedIsGrounded, ReviewFollowsAcceptance,
              ExportListsApproved, Justified, Msg, Topics

\* Nothing new is published, and a client that fails has nothing pending.
LEMMA PublishedSame ==
  ASSUME TypeOK, Published, log' = log PROVE Published'
<1>1. Grows /\ \A t \in Topics : Events(t)' = Events(t) BY SameGrows
<1>2. Justified(Msg("", Audit, NoEvent)) BY DEF Justified, Msg
<1>3. QED BY <1>1, <1>2, PublishedGrows

\* A step that publishes nothing keeps the invariant if whatever it adds to what is
\* pending or late is justified.
LEMMA QuietInv ==
  ASSUME Inv, TypeInv', OnlyTheAttackIsDenied', log' = log,
         AclsEnforced /\ GateInv =>
           /\ \A d \in Clients : \A m \in ToSet(outbox[d])' :
                m \in ToSet(outbox[d]) \/ (Writable(m) => Justified(m))
           /\ \A m \in late' : Justified(m)
  PROVE  Inv'
<1>1. ASSUME AclsEnforced, GateInv PROVE GateInv'
  <2>1. Published' BY <1>1, PublishedSame DEF GateInv, Inv, TypeInv
  <2>2. Grows BY SameGrows DEF Inv, TypeInv
  <2>3. ASSUME NEW d \in Clients, NEW m \in ToSet(outbox[d])', Writable(m)
        PROVE  Justified(m)'
    BY <1>1, <2>2, <2>3, JustifiedGrows DEF GateInv, PendingJustified
  <2>4. ASSUME NEW m \in late' PROVE Justified(m)'
    BY <1>1, <2>2, <2>4, JustifiedGrows
  <2>5. QED BY <2>1, <2>3, <2>4 DEF GateInv, PendingJustified, Writable, MayWrite
<1>2. QED BY <1>1 DEF Inv

\* An operation that raises keeps the invariant, if what becomes late is justified.
LEMMA FailInv ==
  ASSUME Inv, NEW c \in Clients, pc[c] # "done", Fail(c),
         late' \subseteq Message, faults' \in 0..MaxFaults,
         AclsEnforced /\ GateInv => \A m \in late' : Justified(m)
  PROVE  Inv'
<1>1. TypeInv' BY FailType DEF Inv
<1>2. log' = log /\ outbox' = [outbox EXCEPT ![c] = << >>] BY DEF Fail
<1>3. ASSUME NEW d \in Clients, NEW m \in ToSet(outbox[d])' PROVE d # c /\ m \in ToSet(outbox[d])
  BY <1>2, <1>3 DEF ToSet, Inv, TypeInv, TypeOK
<1>4. OnlyTheAttackIsDenied'
  BY <1>3 DEF Fail, Inv, TypeInv, TypeOK, OnlyTheAttackIsDenied, Writable, MayWrite
<1>5. QED BY <1>1, <1>2, <1>3, <1>4, QuietInv

\* The operation raises and nothing else happens.
LEMMA RaiseInv ==
  ASSUME Inv, NEW c \in Clients, pc[c] # "done", Fail(c), late' = late, faults' = faults
  PROVE  Inv'
BY FailInv DEF Inv, TypeInv, TypeOK, GateInv, PendingJustified

\* An operation keeps the invariant if what it is going to publish is justified, as far
\* as its principals may publish it, and only the forged event is what they may not.
LEMMA PendingInv ==
  ASSUME Inv, NEW c \in Clients, pc[c] # "done",
         NEW msgs \in Seq(Message), msgs # << >>, NEW then \in {"send", "raise", "attack"},
         then = "attack" => Op(c).op = "direct_write",
         AclsEnforced =>
           \A m \in ToSet(msgs) : (Writable(m) <=> then # "attack") /\ (Writable(m) => Justified(m)),
         Publish(c, msgs, then)
  PROVE  Inv'
<1>1. TypeInv' BY PublishType DEF Inv
<1>2. log' = log /\ late' = late /\ outbox' = [outbox EXCEPT ![c] = msgs] BY DEF Publish
<1>3. ASSUME NEW d \in Clients, NEW m \in ToSet(outbox[d])'
      PROVE  IF d = c THEN m \in ToSet(msgs) ELSE m \in ToSet(outbox[d])
  BY <1>2, <1>3 DEF ToSet, Inv, TypeInv, TypeOK
<1>4. OnlyTheAttackIsDenied'
  <2>1. pc' = [pc EXCEPT ![c] = then] BY DEF Publish
  <2>2. \A d \in Clients : pc'[d] = IF d = c THEN then ELSE pc[d]
    BY <2>1 DEF Inv, TypeInv, TypeOK
  <2>3. SUFFICES ASSUME AclsEnforced, NEW d \in Clients, NEW m \in ToSet(outbox[d])'
                 PROVE  Writable(m) <=> pc'[d] # "attack"
    BY DEF OnlyTheAttackIsDenied, Writable, MayWrite
  <2>4. CASE d = c BY <1>3, <2>2, <2>3, <2>4
  <2>5. CASE d # c BY <1>3, <2>2, <2>3, <2>5 DEF Inv, OnlyTheAttackIsDenied
  <2>6. QED BY <2>4, <2>5
<1>5. QED BY <1>1, <1>2, <1>3, <1>4, QuietInv DEF GateInv, PendingJustified

\* In particular it does if what it is going to publish is fit to be.
LEMMA PublishInv ==
  ASSUME Inv, NEW c \in Clients, pc[c] # "done",
         NEW msgs \in Seq(Message), msgs # << >>, NEW then \in {"send", "raise"},
         \A m \in ToSet(msgs) : Fit(m),
         Publish(c, msgs, then)
  PROVE  Inv'
BY PendingInv DEF Fit

\* An event of a topic outside the gate needs no justification, only the grant.
LEMMA PlainJustified ==
  ASSUME NEW p, NEW t \in Topics \ {AiSafe, Accepted, Reviewed, Ready}, NEW e
  PROVE  Justified(Msg(p, t, e)) /\ (t \in WriteGrants(p) => Fit(Msg(p, t, e)))
BY DEF Justified, Fit, Writable, MayWrite, Msg

\* An audit event needs no justification, and every account may write one that
\* publishes at all.
LEMMA AuditJustified ==
  ASSUME NEW c, NEW k, NEW p \in Principals \ {"svc-audit-viewer"}, NEW source
  PROVE  Fit(AuditMsg(c, k, p, source))
<1>1. Audit \in WriteGrants(p) BY DEF WriteGrants, Principals
<1>2. QED BY <1>1, PlainJustified DEF AuditMsg, Topics

-----------------------------------------------------------------------------
(* One lemma per operation: it keeps the invariant *)

\* seed_evidence_events publishes outside the gate.
LEMMA SeedInv ==
  ASSUME Inv, NEW c \in Clients, Seed(c) PROVE Inv'
<1> DEFINE n == Len(Library)
           item(k) == [id |-> Id(c, k), run |-> Op(c).run, evidence |-> Library[k]]
           f == [k \in 1..n |-> Msg("svc-evidence-gateway", Internal, item(k))]
           a == AuditMsg(c, n + 1, "svc-evidence-gateway", Op(c).run)
<1>1. TypeInv /\ pc[c] # "done" /\ n \in Nat
  BY FixtureType, LenProperties DEF Inv, Seed, Doing
<1>2. ASSUME NEW k \in 1..n PROVE f[k] \in Message /\ Fit(f[k])
  <2>1. item(k) \in EventOf(Internal)
    BY <1>1, OpType, IdType, FixtureType, ElementOfSeq DEF EventOf
  <2>2. QED BY <2>1, MsgType, PlainJustified DEF Principals, Topics, WriteGrants
<1>3. a \in Message /\ Fit(a)
  BY <1>1, AuditType, OpType, AuditJustified DEF Principals
<1>4. f \in [1..n -> Message] BY <1>2
<1>5. Publish(c, Append(f, a), "send") BY DEF Seed
<1>6. /\ Append(f, a) \in Seq(Message) /\ Append(f, a) # << >>
      /\ \A m \in ToSet(Append(f, a)) : m = a \/ \E k \in 1..n : m = f[k]
  <2> HIDE DEF f, a, n
  <2>1. QED BY <1>1, <1>3, <1>4, SeveralMessages
<1>7. \A m \in ToSet(Append(f, a)) : Fit(m)
  <2> HIDE DEF f, a, n
  <2>1. QED BY <1>2, <1>3, <1>6
<1>8. QED
  <2> HIDE DEF f, a, n
  <2>1. QED BY <1>1, <1>5, <1>6, <1>7, PublishInv

\* ingest_questionnaire_event publishes outside the gate.
LEMMA IngestInv ==
  ASSUME Inv, NEW c \in Clients, Ingest(c) PROVE Inv'
<1> DEFINE a == Msg("svc-ingest", Received, [id |-> Id(c, 1), run |-> Op(c).run])
           b == AuditMsg(c, 2, "svc-ingest", Id(c, 1))
<1>1. TypeInv /\ pc[c] # "done" BY DEF Inv, Ingest, Doing
<1>2. [id |-> Id(c, 1), run |-> Op(c).run] \in EventOf(Received)
  BY <1>1, OpType, IdType DEF EventOf
<1>3. a \in Message /\ Fit(a)
  BY <1>2, MsgType, PlainJustified DEF Principals, Topics, WriteGrants
<1>4. b \in Message /\ Fit(b)
  BY <1>1, IdType, AuditType, AuditJustified DEF Principals
<1>5. Publish(c, <<a, b>>, "send") BY DEF Ingest
<1>6. QED
  <2> HIDE DEF a, b
  <2>1. <<a, b>> \in Seq(Message) /\ <<a, b>> # << >> /\ ToSet(<<a, b>>) = {a, b}
    BY <1>3, <1>4, TwoMessages
  <2>2. QED BY <1>1, <1>3, <1>4, <1>5, <2>1, PublishInv

\* prepare_questions_for_run publishes outside the gate, for a questionnaire it read.
LEMMA PrepareInv ==
  ASSUME Inv, NEW c \in Clients, Prepare(c) PROVE Inv'
<1>1. TypeInv /\ TypeOK /\ pc[c] # "done" BY DEF Inv, TypeInv, Prepare, Doing
<1>2. PICK n \in ReadUpTo("svc-preparer", Received) :
         \/ Fail(c) /\ UNCHANGED <<late, faults>>
         \/ \E e \in Latest(Received, n, Op(c)) : Publish(c, PreparedMsgs(c, e), "send")
  BY DEF Prepare
<1>3. CASE Fail(c) /\ UNCHANGED <<late, faults>>
  BY <1>1, <1>3, RaiseInv
<1>4. ASSUME NEW e \in Latest(Received, n, Op(c)), Publish(c, PreparedMsgs(c, e), "send")
      PROVE  Inv'
  <2> DEFINE q == Len(Questionnaire)
             question(k) == [id |-> Id(c, k), run |-> e.run, question |-> Questionnaire[k]]
             f == [k \in 1..q |-> Msg("svc-preparer", Prepared, question(k))]
             a == AuditMsg(c, q + 1, "svc-preparer", e.id)
  <2>1. e \in EventOf(Received) BY <1>1, LatestIs, EventType DEF Topics
  <2>2. e.id \in Ids /\ e.run \in Runs /\ q \in Nat
    BY <2>1, FixtureType, LenProperties DEF EventOf
  <2>3. ASSUME NEW k \in 1..q PROVE f[k] \in Message /\ Fit(f[k])
    <3>1. question(k) \in EventOf(Prepared)
      BY <1>1, <2>2, IdType, FixtureType, ElementOfSeq DEF EventOf
    <3>2. QED BY <3>1, MsgType, PlainJustified DEF Principals, Topics, WriteGrants
  <2>4. a \in Message /\ Fit(a)
    BY <1>1, <2>2, AuditType, AuditJustified DEF Principals
  <2>5. f \in [1..q -> Message] BY <2>3
  <2>6. Publish(c, Append(f, a), "send") BY <1>4 DEF PreparedMsgs
  <2> HIDE DEF f, a, q
  <2>7. /\ Append(f, a) \in Seq(Message) /\ Append(f, a) # << >>
        /\ \A m \in ToSet(Append(f, a)) : m = a \/ \E k \in 1..q : m = f[k]
    BY <2>2, <2>4, <2>5, SeveralMessages
  <2>8. QED BY <1>1, <2>3, <2>4, <2>6, <2>7, PublishInv
<1>5. QED BY <1>2, <1>3, <1>4

\* An order of some items of the library is a finite sequence of them.
LEMMA ItemsType ==
  ASSUME NEW S, S \subseteq Evidence, NEW items \in SetToSeqs(S)
  PROVE  Len(items) \in Nat /\ items \in [1..Len(items) -> S]
<1>1. IsFiniteSet(Evidence)
  <2>1. Library \in [1..Len(Library) -> Evidence] /\ Len(Library) \in Nat
    BY FixtureType, LenProperties
  <2>2. Library \in Surjection(1..Len(Library), Evidence)
    BY <2>1 DEF Surjection, Evidence, ToSet
  <2>3. IsFiniteSet(1..Len(Library)) BY <2>1, FS_Interval
  <2>4. QED BY <2>2, <2>3, FS_Surjection
<1>2. Cardinality(S) \in Nat BY <1>1, FS_Subset, FS_CardinalityType
<1>3. items \in [1..Cardinality(S) -> S] BY DEF SetToSeqs
<1>4. QED BY <1>2, <1>3, FunctionSeq

\* At its second read an operation still holds the event its first read returned.
LEMMA SecondHolds ==
  ASSUME Inv, NEW c \in Clients, pc[c] = "second"
  PROVE  /\ TypeInv /\ TypeOK /\ pc[c] # "done"
         /\ taken[c] \in Events(TakenTopic(c)) /\ taken[c] \in EventOf(TakenTopic(c))
         /\ taken[c].id \in Ids
         /\ taken[c].run = Op(c).run /\ taken[c].question = Op(c).question
         /\ Op(c).run \in Runs /\ Op(c).question \in Questions
<1>1. TypeInv /\ TypeOK /\ ClientOK(c) /\ pc[c] # "done"
  BY DEF Inv, TypeInv, ClientsOK
<1>2. TakenTopic(c) \in {Prepared, Proposed} BY DEF TakenTopic
<1>3. taken[c] \in Events(TakenTopic(c)) /\ taken[c] \in EventOf(TakenTopic(c))
  BY <1>1, <1>2, EventType DEF ClientOK, Topics
<1>4. taken[c].id \in Ids BY <1>2, <1>3 DEF EventOf
<1>5. QED BY <1>1, <1>3, <1>4, OpType DEF ClientOK

\* An AI-safe item the gateway or the agent publishes is justified by the library
\* it read and by the question it holds.
LEMMA SafeMsgJustified ==
  ASSUME Inv, NEW c \in Clients, pc[c] = "second", Op(c).op \in {"evidence", "agentic"},
         NEW p, NEW n \in ReadUpTo(p, Internal), NEW k \in Nat,
         NEW item \in Releasable(LibrarySeen(n, Op(c)))
  PROVE  SafeMsg(c, k, item) \in Message /\ Fit(SafeMsg(c, k, item))
<1> DEFINE e == [id |-> Id(c, k), run |-> taken[c].run, question |-> taken[c].question, evidence |-> item]
<1>1. n \in Nat /\ n <= Len(log[Internal]) /\ Len(log[Internal]) \in Nat
  BY SecondHolds, LenProperties DEF ReadUpTo, TypeOK, Topics
<1>2. PICK i \in 1..n : log[Internal][i].run = Op(c).run /\ log[Internal][i].evidence = item
  BY DEF Releasable, LibrarySeen
<1>3. log[Internal][i] \in Events(Internal) BY <1>1 DEF Events
<1>4. taken[c] \in Events(Prepared) BY SecondHolds DEF TakenTopic
<1>5. item \in AiAllowed /\ item \in Evidence BY FixtureType DEF Releasable
<1>6. e \in EventOf(AiSafe) BY <1>5, SecondHolds, IdType DEF EventOf
<1>7. ReleaseAllowed(e) BY <1>2, <1>3, <1>4, <1>5, SecondHolds DEF ReleaseAllowed
<1>8. QED
  BY <1>6, <1>7, MsgType
  DEF SafeMsg, Principals, Topics, Fit, Justified, Writable, MayWrite, WriteGrants, Msg

\* produce_ai_safe_evidence_for_question releases what its library holds and the model
\* may see.
LEMMA ReleaseInv ==
  ASSUME Inv, NEW c \in Clients, ReleaseEvidence(c) PROVE Inv'
<1>1. TypeInv /\ TypeOK /\ pc[c] # "done" /\ pc[c] = "second" /\ Op(c).op = "evidence"
  BY DEF Inv, TypeInv, ReleaseEvidence, Second
<1>2. PICK n \in ReadUpTo("svc-evidence-gateway", Internal) :
         \/ Fail(c) /\ UNCHANGED <<late, faults>>
         \/ /\ Selected[Op(c).question] \subseteq LibrarySeen(n, Op(c))
            /\ \E items \in SetToSeqs(Releasable(Selected[Op(c).question])) :
                 Publish(c, ReleaseMsgs(c, items), "send")
  BY DEF ReleaseEvidence
<1>3. CASE Fail(c) /\ UNCHANGED <<late, faults>>
  BY <1>1, <1>3, RaiseInv
<1>4. ASSUME Selected[Op(c).question] \subseteq LibrarySeen(n, Op(c)),
             NEW items \in SetToSeqs(Releasable(Selected[Op(c).question])),
             Publish(c, ReleaseMsgs(c, items), "send")
      PROVE  Inv'
  <2> DEFINE k == Len(items)
             f == [i \in 1..k |-> SafeMsg(c, i, items[i])]
             a == AuditMsg(c, k + 1, "svc-evidence-gateway", taken[c].id)
  <2>1. Releasable(Selected[Op(c).question]) \subseteq Releasable(LibrarySeen(n, Op(c)))
    BY <1>4 DEF Releasable
  <2>2. Releasable(Selected[Op(c).question]) \subseteq Evidence
    BY FixtureType DEF Releasable
  <2>3. k \in Nat /\ items \in [1..k -> Releasable(Selected[Op(c).question])]
    BY <1>4, <2>2, ItemsType
  <2>4. ASSUME NEW i \in 1..k PROVE f[i] \in Message /\ Fit(f[i])
    <3>1. items[i] \in Releasable(LibrarySeen(n, Op(c))) /\ i \in Nat BY <2>1, <2>3
    <3>2. SafeMsg(c, i, items[i]) \in Message /\ Fit(SafeMsg(c, i, items[i]))
      BY <1>1, <3>1, SafeMsgJustified
    <3>3. QED BY <3>2
  <2>5. a \in Message /\ Fit(a)
    <3>1. taken[c].id \in Ids /\ k + 1 \in Nat BY <1>1, <2>3, SecondHolds
    <3>2. QED BY <1>1, <3>1, AuditType, AuditJustified DEF Principals
  <2>6. f \in [1..k -> Message] BY <2>4
  <2>7. Publish(c, Append(f, a), "send") BY <1>4 DEF ReleaseMsgs
  <2> HIDE DEF f, a, k
  <2>8. /\ Append(f, a) \in Seq(Message) /\ Append(f, a) # << >>
        /\ \A m \in ToSet(Append(f, a)) : m = a \/ \E i \in 1..k : m = f[i]
    BY <2>3, <2>5, <2>6, SeveralMessages
  <2>9. QED BY <1>1, <2>4, <2>5, <2>7, <2>8, PublishInv
<1>5. QED BY <1>2, <1>3, <1>4

\* The two first reads keep the invariant: nothing is published yet.
LEMMA TakeLatestInv ==
  ASSUME Inv, NEW c \in Clients, pc[c] = "start", NEW p, NEW t \in {Prepared, Proposed},
         Op(c).op \in {"evidence", "draft", "agentic", "guard"}, t = TakenTopic(c),
         TakeLatest(c, p, t)
  PROVE  Inv'
<1>1. TypeInv' BY TakeLatestType DEF Inv
<1>2. CASE Fail(c) /\ UNCHANGED <<late, faults>> BY <1>2, RaiseInv DEF Inv
<1>3. CASE \E e : Keep(c, e)
  <2>1. log' = log /\ outbox' = outbox /\ late' = late BY <1>3 DEF Keep
  <2>2. \A d \in Clients : (pc'[d] = "attack") <=> (pc[d] = "attack")
    BY <1>3 DEF Keep, Inv, TypeInv, TypeOK
  <2>3. OnlyTheAttackIsDenied'
    BY <2>1, <2>2 DEF Inv, OnlyTheAttackIsDenied, Writable, MayWrite, ToSet
  <2>4. QED BY <1>1, <2>1, <2>3, QuietInv DEF GateInv, PendingJustified
<1>4. QED BY <1>2, <1>3 DEF TakeLatest

\* Reading the prepared question keeps the invariant.
LEMMA TakeQuestionInv ==
  ASSUME Inv, NEW c \in Clients, TakeQuestion(c) PROVE Inv'
BY TakeLatestInv DEF TakeQuestion, Doing, TakenTopic

\* Reading the draft to judge keeps the invariant.
LEMMA TakeDraftInv ==
  ASSUME Inv, NEW c \in Clients, TakeDraft(c) PROVE Inv'
BY TakeLatestInv DEF TakeDraft, Doing, TakenTopic

\* A drafter's messages are of the right type, and a proposal needs no justification.
LEMMA DraftMessages ==
  ASSUME TypeInv, NEW c \in Clients, pc[c] # "done", NEW k \in Nat,
         NEW q, q.run \in Runs, q.question \in Questions, NEW a \in Answers
  PROVE  /\ Draft(c, k, q, a) \in Seq(Message) /\ Draft(c, k, q, a) # << >>
         /\ \A m \in ToSet(Draft(c, k, q, a)) : Fit(m)
<1> DEFINE e == [id |-> Id(c, k), run |-> q.run, question |-> q.question,
                 answer |-> a.answer, cites |-> a.cites, text |-> a.text]
           x == Msg("svc-ai-drafter", Proposed, e)
           y == AuditMsg(c, k + 1, "svc-ai-drafter", Id(c, k))
<1>1. e \in EventOf(Proposed) BY IdType DEF EventOf, Answers
<1>2. x \in Message /\ Fit(x)
  BY <1>1, MsgType, PlainJustified DEF Principals, Topics, WriteGrants
<1>3. y \in Message /\ Fit(y)
  BY IdType, AuditType, AuditJustified DEF Principals
<1>4. Draft(c, k, q, a) = <<x, y>> BY DEF Draft
<1>5. QED
  <2> HIDE DEF x, y
  <2>1. QED BY <1>2, <1>3, <1>4, TwoMessages

\* draft_answer_for_question proposes an answer: no justification is needed.
LEMMA DraftAnswerInv ==
  ASSUME Inv, NEW c \in Clients, DraftAnswer(c) PROVE Inv'
<1>1. TypeInv /\ pc[c] # "done" /\ pc[c] = "second" BY DEF Inv, DraftAnswer, Second
<1>2. CASE Fail(c) /\ UNCHANGED <<late, faults>> BY <1>1, <1>2, RaiseInv
<1>3. ASSUME NEW a \in Answers, Publish(c, Draft(c, 1, taken[c], a), "send") PROVE Inv'
  <2>1. taken[c].run \in Runs /\ taken[c].question \in Questions BY <1>1, SecondHolds
  <2>2. /\ Draft(c, 1, taken[c], a) \in Seq(Message) /\ Draft(c, 1, taken[c], a) # << >>
        /\ \A m \in ToSet(Draft(c, 1, taken[c], a)) : Fit(m)
    BY <1>1, <2>1, DraftMessages
  <2>3. QED BY <1>1, <1>3, <2>2, PublishInv
<1>4. QED BY <1>2, <1>3 DEF DraftAnswer

\* _produce_attack_draft proposes an answer: no justification is needed.
LEMMA AttackDraftInv ==
  ASSUME Inv, NEW c \in Clients, AttackDraft(c) PROVE Inv'
<1>1. TypeInv /\ pc[c] # "done" BY DEF Inv, AttackDraft, Doing
<1>2. Op(c).op = "attack" BY DEF AttackDraft, Doing
<1>3. Op(c).run \in Runs /\ Op(c).question \in Questions /\ Op(c).draft \in Answers
  BY <1>1, <1>2, OpType DEF IsOperation, SimpleOps
<1>4. /\ Draft(c, 1, Op(c), Op(c).draft) \in Seq(Message) /\ Draft(c, 1, Op(c), Op(c).draft) # << >>
      /\ \A m \in ToSet(Draft(c, 1, Op(c), Op(c).draft)) : Fit(m)
  BY <1>1, <1>3, DraftMessages
<1>5. QED BY <1>1, <1>4, PublishInv DEF AttackDraft

\* A run of the agent loop over some items is a sequence of audits and releases of them.
LEMMA RunSteps ==
  ASSUME NEW S, NEW n, NEW run \in ToolRuns(S, n)
  PROVE  /\ Len(run) \in Nat
         /\ \A k \in 1..Len(run) : run[k] # AuditStep => run[k][1] \in S
         /\ run # << >> => Len(run) > 0
         /\ run # << >> => run[1] = AuditStep /\ run[Len(run)] = AuditStep
<1> DEFINE T == ReleaseSteps(S) \cup {AuditStep}
<1>1. /\ run \in SeqOf(T, n + Cardinality(S)) /\ IsToolRun(run) /\ LastAudited(run)
  BY DEF ToolRuns
<1>2. PICK m \in 0..(n + Cardinality(S)) : run \in [1..m -> T]
  BY <1>1 DEF SeqOf
<1>3. m \in Nat OBVIOUS
<1>4. run \in Seq(T) /\ Len(run) = m
  <2> HIDE DEF T
  <2>1. QED BY <1>2, <1>3, FunctionSeq
<1>5. ASSUME NEW k \in 1..Len(run), run[k] # AuditStep PROVE run[k][1] \in S
  <2>1. run[k] \in ReleaseSteps(S) BY <1>2, <1>4, <1>5
  <2>2. PICK x \in S : run[k] = <<x>> BY <2>1 DEF ReleaseSteps
  <2>3. <<x>>[1] = x OBVIOUS
  <2>4. QED BY <2>2, <2>3
<1>6. ASSUME run # << >> PROVE Len(run) > 0
  <2> HIDE DEF T
  <2>1. Len(run) # 0 BY <1>4, <1>6, EmptySeq
  <2>2. QED BY <1>3, <1>4, <2>1
<1>7. QED BY <1>1, <1>3, <1>4, <1>5, <1>6 DEF IsToolRun, LastAudited

\* draft_answer_agentically_for_question releases what the gateway lets through.
LEMMA DraftAgenticallyInv ==
  ASSUME Inv, NEW c \in Clients, DraftAgentically(c) PROVE Inv'
<1>1. TypeInv /\ TypeOK /\ pc[c] # "done" /\ pc[c] = "second" /\ Op(c).op = "agentic"
  BY DEF Inv, TypeInv, DraftAgentically, Second
<1> DEFINE Ends(run) ==
             \/ Fail(c) /\ UNCHANGED <<late, faults>>
             \/ run # << >> /\ Publish(c, ToolCalls(c, run), "raise")
             \/ \E a \in Answers :
                  /\ run # << >>
                  /\ Publish(c, ToolCalls(c, run) \o Draft(c, Len(run) + 1, taken[c], a), "send")
<1>n. PICK n \in ReadUpTo("svc-evidence-gateway", Internal) :
         \E run \in ToolRuns(Releasable(LibrarySeen(n, Op(c))), MaxCalls) : Ends(run)
  BY DEF DraftAgentically
<1>2. PICK run \in ToolRuns(Releasable(LibrarySeen(n, Op(c))), MaxCalls) : Ends(run)
  BY <1>n
<1>4. /\ Len(run) \in Nat
      /\ \A k \in 1..Len(run) : run[k] # AuditStep => run[k][1] \in Releasable(LibrarySeen(n, Op(c)))
      /\ run # << >> => Len(run) > 0
  BY RunSteps
<1>5. /\ taken[c].id \in Ids /\ taken[c].run \in Runs /\ taken[c].question \in Questions
  BY <1>1, SecondHolds
<1>r. CASE Fail(c) /\ UNCHANGED <<late, faults>> BY <1>1, <1>r, RaiseInv
<1>s. ASSUME run # << >>,
             \/ Publish(c, ToolCalls(c, run), "raise")
             \/ \E a \in Answers :
                  Publish(c, ToolCalls(c, run) \o Draft(c, Len(run) + 1, taken[c], a), "send")
      PROVE  Inv'
  <2> DEFINE m == Len(run)
             f == ToolCalls(c, run)
  <2>6. m \in Nat /\ 1 \in 1..m /\ f = [k \in 1..m |-> f[k]] BY <1>4, <1>s DEF ToolCalls
  <2>7. ASSUME NEW k \in 1..m PROVE f[k] \in Message /\ Fit(f[k])
    <3>1. CASE run[k] = AuditStep
      <4>1. f[k] = AuditMsg(c, k, "svc-ai-drafter", taken[c].id) BY <3>1 DEF ToolCalls
      <4>2. k \in Nat BY <2>6
      <4>3. QED BY <1>1, <1>5, <4>1, <4>2, AuditType, AuditJustified DEF Principals
    <3>2. CASE run[k] # AuditStep
      <4>1. f[k] = SafeMsg(c, k, run[k][1]) BY <3>2 DEF ToolCalls
      <4>2. k \in Nat BY <2>6
      <4>3. run[k][1] \in Releasable(LibrarySeen(n, Op(c))) BY <1>4, <3>2
      <4>4. /\ SafeMsg(c, k, run[k][1]) \in Message
            /\ Fit(SafeMsg(c, k, run[k][1]))
        BY <1>1, <4>2, <4>3, SafeMsgJustified
      <4>5. QED BY <4>1, <4>4
    <3>3. QED BY <3>1, <3>2
  <2>8. f \in [1..m -> Message] BY <2>6, <2>7
  <2>9. f \in Seq(Message) /\ f # << >> /\ \A x \in ToSet(f) : Fit(x)
    <3> HIDE DEF f, m
    <3>1. f \in Seq(Message) /\ Len(f) = m BY <2>6, <2>8, FunctionSeq
    <3>2. QED BY <2>6, <2>7, <2>8, <3>1, EmptySeq DEF ToSet
  <2>10. CASE Publish(c, f, "raise")
    <3> HIDE DEF f
    <3>1. QED BY <1>1, <2>9, <2>10, PublishInv
  <2>11. ASSUME NEW a \in Answers, Publish(c, f \o Draft(c, Len(run) + 1, taken[c], a), "send")
         PROVE  Inv'
    <3> DEFINE d == Draft(c, Len(run) + 1, taken[c], a)
    <3>1. d \in Seq(Message) /\ d # << >> /\ \A x \in ToSet(d) : Fit(x)
      <4>1. Len(run) + 1 \in Nat BY <1>4
      <4>2. QED BY <1>1, <1>5, <4>1, DraftMessages
    <3> HIDE DEF f, d
    <3>2. /\ f \o d \in Seq(Message) /\ f \o d # << >>
          /\ \A x \in ToSet(f \o d) : x \in ToSet(f) \/ x \in ToSet(d)
      BY <2>9, <3>1, JoinedMessages
    <3>3. \A x \in ToSet(f \o d) : Fit(x) BY <2>9, <3>1, <3>2
    <3>4. Publish(c, f \o d, "send") BY <2>11 DEF d
    <3>5. QED BY <1>1, <3>2, <3>3, <3>4, PublishInv
  <2>12. QED BY <1>s, <2>10, <2>11
<1>12. QED BY <1>2, <1>r, <1>s

\* A verdict has its type, and an acceptance is justified by the draft and the
\* AI-safe evidence the guard read, however little of the topic it saw.
LEMMA VerdictJustified ==
  ASSUME Inv, NEW c \in Clients, pc[c] = "second", Op(c).op = "guard",
         NEW p, NEW n \in ReadUpTo(p, AiSafe)
  PROVE  /\ Verdict(c, taken[c], SafeSeen(n, Op(c))) \in Message
         /\ Fit(Verdict(c, taken[c], SafeSeen(n, Op(c))))
<1> DEFINE d == taken[c]
           safe == SafeSeen(n, Op(c))
           wrong == Violations(d, safe)
           a == [id |-> Id(c, 1), run |-> d.run, question |-> d.question, draft |-> d.id,
                 cites |-> d.cites]
           r == [id |-> Id(c, 1), run |-> d.run, question |-> d.question, draft |-> d.id,
                 reasons |-> wrong]
<1>1. /\ TypeInv /\ TypeOK /\ pc[c] # "done" /\ d \in Events(Proposed) /\ d \in EventOf(Proposed)
      /\ d.run = Op(c).run /\ d.question = Op(c).question
  BY SecondHolds DEF TakenTopic
<1>2. /\ d.id \in Ids /\ d.run \in Runs /\ d.question \in Questions /\ d.cites \subseteq Cited
      /\ d.text \subseteq Markers
  BY <1>1, FixtureType DEF EventOf
<1>3. Id(c, 1) \in Ids BY <1>1, IdType
<1>4. CASE wrong = {}
  <2>1. a \in EventOf(Accepted) BY <1>2, <1>3 DEF EventOf
  <2>2. /\ d.text \subseteq {"certified"} /\ d.cites \subseteq safe
        /\ (d.cites = {} => d.answer = "cannot_answer")
        /\ (d.question = RestrictedQuestion => safe # {})
        /\ ~(d.question \in CertificationQuestions /\ d.answer = "yes_with_evidence"
             /\ "certified" \in d.text)
    BY <1>4 DEF Violations
  <2>3. ASSUME NEW x \in safe
        PROVE  \E s \in Events(AiSafe) : s.run = d.run /\ s.question = d.question /\ s.evidence = x
    <3>1. n \in Nat /\ n <= Len(log[AiSafe]) /\ Len(log[AiSafe]) \in Nat
      BY <1>1, LenProperties DEF ReadUpTo, TypeOK, Topics
    <3>2. PICK i \in 1..n : About(log[AiSafe][i], AiSafe, Op(c)) /\ log[AiSafe][i].evidence = x
      BY <2>2 DEF SafeSeen
    <3>3. log[AiSafe][i] \in Events(AiSafe) BY <3>1 DEF Events
    <3>4. QED BY <1>1, <3>2, <3>3 DEF About
  <2>4. AcceptAllowed(a) BY <1>1, <2>2, <2>3 DEF AcceptAllowed
  <2>5. Verdict(c, d, safe) = Msg("svc-policy-guard", Accepted, a) BY <1>4 DEF Verdict
  <2>6. QED BY <2>1, <2>4, <2>5, MsgType DEF Principals, Topics, Fit, Justified, Writable, MayWrite, WriteGrants, Msg
<1>5. CASE wrong # {}
  <2>1. wrong \subseteq ReasonCodes BY <1>2 DEF Violations, ReasonCodes, Markers
  <2>2. r \in EventOf(Rejected) BY <1>2, <1>3, <2>1 DEF EventOf
  <2>3. Verdict(c, d, safe) = Msg("svc-policy-guard", Rejected, r) BY <1>5 DEF Verdict
  <2>4. QED BY <2>2, <2>3, MsgType, PlainJustified DEF Principals, Topics, WriteGrants
<1>6. QED BY <1>4, <1>5

\* guard_draft_for_question accepts only a draft on the topic whose citations it has
\* found released.
LEMMA GuardInv ==
  ASSUME Inv, NEW c \in Clients, GuardDraft(c) PROVE Inv'
<1>1. TypeInv /\ pc[c] # "done" /\ pc[c] = "second" /\ Op(c).op = "guard"
  BY DEF Inv, GuardDraft, Second
<1>2. PICK n \in ReadUpTo("svc-policy-guard", AiSafe) :
         LET v == Verdict(c, taken[c], SafeSeen(n, Op(c)))
         IN Publish(c, <<v, AuditMsg(c, 2, "svc-policy-guard", Id(c, 1))>>,
                    IF Wanted(Op(c), v.topic) THEN "send" ELSE "raise")
  BY DEF GuardDraft
<1> DEFINE v == Verdict(c, taken[c], SafeSeen(n, Op(c)))
           b == AuditMsg(c, 2, "svc-policy-guard", Id(c, 1))
           then == IF Wanted(Op(c), v.topic) THEN "send" ELSE "raise"
<1>3. v \in Message /\ Fit(v) BY <1>1, VerdictJustified
<1>4. b \in Message /\ Fit(b)
  BY <1>1, IdType, AuditType, AuditJustified DEF Principals
<1>5. Publish(c, <<v, b>>, then) /\ then \in {"send", "raise"} BY <1>2
<1> HIDE DEF v, b, then
<1>6. <<v, b>> \in Seq(Message) /\ <<v, b>> # << >> /\ ToSet(<<v, b>>) = {v, b}
  BY <1>3, <1>4, TwoMessages
<1>7. QED BY <1>1, <1>3, <1>4, <1>5, <1>6, PublishInv

\* review_accepted_answer copies an acceptance that is on the topic.
LEMMA ReviewInv ==
  ASSUME Inv, NEW c \in Clients, Review(c) PROVE Inv'
<1>1. TypeInv /\ TypeOK /\ pc[c] # "done" /\ Op(c).op = "review"
  BY DEF Inv, TypeInv, Review, Doing
<1>2. PICK n \in ReadUpTo("svc-review-export", Accepted) :
         \/ Fail(c) /\ UNCHANGED <<late, faults>>
         \/ \E e \in Latest(Accepted, n, Op(c)) : Publish(c, ReviewMsgs(c, e), "send")
  BY DEF Review
<1>3. CASE Fail(c) /\ UNCHANGED <<late, faults>> BY <1>1, <1>3, RaiseInv
<1>4. ASSUME NEW e \in Latest(Accepted, n, Op(c)), Publish(c, ReviewMsgs(c, e), "send")
      PROVE  Inv'
  <2> DEFINE v == [id |-> Id(c, 1), run |-> e.run, question |-> e.question,
                   decision |-> Op(c).decision, cites |-> e.cites]
             x == Msg("svc-review-export", Reviewed, v)
             y == AuditMsg(c, 2, "svc-review-export", Id(c, 1))
  <2>1. e \in Events(Accepted) /\ e \in EventOf(Accepted)
    BY <1>1, LatestIs, EventType DEF Topics
  <2>2. Op(c).decision \in Decisions BY <1>1, OpType DEF IsOperation, SimpleOps
  <2>3. v \in EventOf(Reviewed) BY <1>1, <2>1, <2>2, IdType DEF EventOf
  <2>4. ReviewAllowed(v) BY <2>1 DEF ReviewAllowed
  <2>5. x \in Message /\ Fit(x)
    BY <2>3, <2>4, MsgType DEF Principals, Topics, Fit, Justified, Writable, MayWrite, WriteGrants, Msg
  <2>6. y \in Message /\ Fit(y)
    BY <1>1, IdType, AuditType, AuditJustified DEF Principals
  <2>7. Publish(c, <<x, y>>, "send") BY <1>4 DEF ReviewMsgs
  <2> HIDE DEF x, y
  <2>8. <<x, y>> \in Seq(Message) /\ <<x, y>> # << >> /\ ToSet(<<x, y>>) = {x, y}
    BY <2>5, <2>6, TwoMessages
  <2>9. QED BY <1>1, <2>5, <2>6, <2>7, <2>8, PublishInv
<1>5. QED BY <1>2, <1>3, <1>4

\* export_reviewed_response lists approvals that are on the topic.
LEMMA ExportInv ==
  ASSUME Inv, NEW c \in Clients, Export(c) PROVE Inv'
<1>1. TypeInv /\ TypeOK /\ pc[c] # "done" BY DEF Inv, TypeInv, Export, Doing
<1>2. PICK n \in ReadUpTo("svc-review-export", Reviewed) :
         LET exportable == Exportable(n, Op(c).run)
         IN \/ Fail(c) /\ UNCHANGED <<late, faults>>
            \/ Publish(c, <<AuditMsg(c, 1, "svc-review-export", <<c, pos[c] - 1, 1>>)>>, "send")
            \/ /\ exportable # {}
               /\ Publish(c, ReadyMsgs(c, exportable), IF Op(c).want = "any" THEN "send" ELSE "raise")
  BY DEF Export
<1> DEFINE exportable == Exportable(n, Op(c).run)
<1>3. CASE Fail(c) /\ UNCHANGED <<late, faults>> BY <1>1, <1>3, RaiseInv
<1>4. CASE Publish(c, <<AuditMsg(c, 1, "svc-review-export", <<c, pos[c] - 1, 1>>)>>, "send")
  <2> DEFINE a == AuditMsg(c, 1, "svc-review-export", <<c, pos[c] - 1, 1>>)
  <2>1. <<c, pos[c] - 1, 1>> \in Ids BY <1>1, OpType DEF Ids
  <2>2. a \in Message /\ Fit(a) BY <1>1, <2>1, AuditType, AuditJustified DEF Principals
  <2>3. Publish(c, <<a>>, "send") BY <1>4
  <2> HIDE DEF a
  <2>4. <<a>> \in Seq(Message) /\ <<a>> # << >> /\ ToSet(<<a>>) = {a} BY <2>2, OneMessage
  <2>5. QED BY <1>1, <2>2, <2>3, <2>4, PublishInv
<1>5. CASE /\ exportable # {}
           /\ Publish(c, ReadyMsgs(c, exportable), IF Op(c).want = "any" THEN "send" ELSE "raise")
  <2> DEFINE r == [id |-> Id(c, 1), run |-> Op(c).run, reviewed |-> {e.id : e \in exportable}]
             x == Msg("svc-review-export", Ready, r)
             y == AuditMsg(c, 2, "svc-review-export", Id(c, 1))
             then == IF Op(c).want = "any" THEN "send" ELSE "raise"
  <2>1. ASSUME NEW e \in exportable
        PROVE  e \in Events(Reviewed) /\ e.run = Op(c).run /\ e.decision \in Approving
    <3>1. n \in Nat /\ n <= Len(log[Reviewed]) /\ Len(log[Reviewed]) \in Nat
      BY <1>1, LenProperties DEF ReadUpTo, TypeOK, Topics
    <3>2. QED BY <3>1 DEF Exportable, Events
  <2>2. \A e \in exportable : e.id \in Ids
    BY <1>1, <2>1, EventType DEF Topics, EventOf
  <2>3. r \in EventOf(Ready) BY <1>1, <2>2, IdType, OpType DEF EventOf
  <2>4. ExportAllowed(r) BY <1>5, <2>1 DEF ExportAllowed
  <2>5. x \in Message /\ Fit(x)
    BY <2>3, <2>4, MsgType DEF Principals, Topics, Fit, Justified, Writable, MayWrite, WriteGrants, Msg
  <2>6. y \in Message /\ Fit(y)
    BY <1>1, IdType, AuditType, AuditJustified DEF Principals
  <2>7. Publish(c, <<x, y>>, then) /\ then \in {"send", "raise"} BY <1>5 DEF ReadyMsgs
  <2> HIDE DEF x, y, then
  <2>8. <<x, y>> \in Seq(Message) /\ <<x, y>> # << >> /\ ToSet(<<x, y>>) = {x, y}
    BY <2>5, <2>6, TwoMessages
  <2>9. QED BY <1>1, <2>5, <2>6, <2>7, <2>8, PublishInv
<1>6. QED BY <1>2, <1>3, <1>4, <1>5

\* A scenario that notes a verdict publishes outside the gate.
LEMMA NoteInv ==
  ASSUME Inv, NEW c \in Clients, Note(c) PROVE Inv'
<1>1. TypeInv /\ pc[c] # "done" /\ Op(c).op = "note" BY DEF Inv, Note, Doing
<1> DEFINE source == <<c, pos[c] - Op(c).back, Op(c).nth>>
           a == AuditMsg(c, 1, Op(c).principal, source)
<1>2. /\ Op(c).principal \in Principals \ {"svc-audit-viewer"} /\ Op(c).back \in Nat /\ Op(c).nth \in Nat
      /\ pos[c] \in Nat /\ Op(c).back < pos[c]
  BY <1>1, OpType DEF IsOperation, SimpleOps, Noters, Principals
<1>3. source \in Ids BY <1>2 DEF Ids
<1>4. a \in Message /\ Fit(a)
  <2> HIDE DEF source
  <2>1. QED BY <1>1, <1>2, <1>3, AuditType, AuditJustified
<1>5. Publish(c, <<a>>, "send") BY DEF Note
<1> HIDE DEF a
<1>6. <<a>> \in Seq(Message) /\ <<a>> # << >> /\ ToSet(<<a>>) = {a} BY <1>4, OneMessage
<1>7. QED BY <1>1, <1>4, <1>5, <1>6, PublishInv

\* run_malformed_draft publishes outside the gate.
LEMMA MalformedInv ==
  ASSUME Inv, NEW c \in Clients, Malformed(c) PROVE Inv'
<1>1. TypeInv /\ pc[c] # "done" BY DEF Inv, Malformed, Doing
<1> DEFINE r == [id |-> Id(c, 1), run |-> Op(c).run, question |-> Op(c).question,
                 draft |-> NoId, reasons |-> {"MALFORMED_EVENT", "FORBIDDEN_WORKFLOW_FIELD"}]
           l == [id |-> Id(c, 2), run |-> Op(c).run, resource |-> Proposed]
           x == Msg("svc-policy-guard", Rejected, r)
           y == Msg("svc-policy-guard", Alert, l)
           z == AuditMsg(c, 3, "svc-policy-guard", Id(c, 1))
<1>2. r \in EventOf(Rejected) BY <1>1, IdType, OpType DEF EventOf, ReasonCodes
<1>3. l \in EventOf(Alert) BY <1>1, IdType, OpType DEF EventOf, Topics
<1>4. x \in Message /\ Fit(x)
  BY <1>2, MsgType, PlainJustified DEF Principals, Topics, WriteGrants
<1>5. y \in Message /\ Fit(y)
  BY <1>3, MsgType, PlainJustified DEF Principals, Topics, WriteGrants
<1>6. z \in Message /\ Fit(z)
  BY <1>1, IdType, AuditType, AuditJustified DEF Principals
<1>7. Publish(c, <<x, y, z>>, "send") BY DEF Malformed
<1> HIDE DEF x, y, z
<1>8. <<x, y, z>> \in Seq(Message) /\ <<x, y, z>> # << >> /\ ToSet(<<x, y, z>>) = {x, y, z}
  BY <1>4, <1>5, <1>6, ThreeMessages
<1>9. QED BY <1>1, <1>4, <1>5, <1>6, <1>7, <1>8, PublishInv

\* The forged event of the direct-write attack is justified by nothing; what keeps
\* it out of the gate is that its principal may not write the topic.
LEMMA DirectWriteInv ==
  ASSUME Inv, NEW c \in Clients, DirectWrite(c) PROVE Inv'
<1>1. TypeInv /\ pc[c] # "done" /\ Op(c).op = "direct_write"
  BY DEF Inv, DirectWrite, Doing
<1>2. Op(c).target \in {Ready, Reviewed} BY <1>1, OpType DEF IsOperation, SimpleOps
<1> DEFINE x == Msg("svc-ai-drafter", Op(c).target, Forged(c))
<1>3. Forged(c) \in EventOf(Op(c).target)
  <2>1. Op(c).run \in Runs /\ Op(c).question \in Questions /\ Id(c, 1) \in Ids /\ Id(c, 0) \in Ids
    BY <1>1, OpType, IdType
  <2>2. CASE Op(c).target = Reviewed
    BY <2>1, <2>2 DEF Forged, EventOf, Decisions
  <2>3. CASE Op(c).target = Ready
    BY <2>1, <2>3 DEF Forged, EventOf
  <2>4. QED BY <1>2, <2>2, <2>3
<1>4. x \in Message BY <1>2, <1>3, MsgType DEF Principals, Topics
<1>5. AclsEnforced => ~Writable(x) BY <1>2 DEF Writable, MayWrite, WriteGrants, Msg
<1>6. Publish(c, <<x>>, "attack") BY DEF DirectWrite
<1> HIDE DEF x
<1>7. <<x>> \in Seq(Message) /\ <<x>> # << >> /\ ToSet(<<x>>) = {x} BY <1>4, OneMessage
<1>8. QED BY <1>1, <1>5, <1>6, <1>7, PendingInv

-----------------------------------------------------------------------------
(* Producing keeps the invariant *)

\* The message a client is about to send is one of its pending messages.
LEMMA NextMessage ==
  ASSUME TypeInv, NEW c \in Clients, Sending(c)
  PROVE  /\ Head(outbox[c]) \in Message /\ Head(outbox[c]) \in ToSet(outbox[c])
         /\ ToSet(Tail(outbox[c])) \subseteq ToSet(outbox[c]) /\ pc[c] # "done"
<1>1. outbox[c] \in Seq(Message) /\ outbox[c] # << >> /\ pc[c] # "done"
  BY DEF TypeInv, TypeOK, ClientsOK, ClientOK, Sending
<1> DEFINE s == outbox[c]
<1>2. /\ Head(s) \in Message /\ Tail(s) \in Seq(Message)
      /\ Len(s) \in Nat /\ Len(s) > 0 /\ DOMAIN s = 1..Len(s) /\ Head(s) = s[1]
      /\ Len(Tail(s)) = Len(s) - 1 /\ \A i \in 1..Len(Tail(s)) : Tail(s)[i] = s[i + 1]
  <2> HIDE DEF s
  <2>1. s \in Seq(Message) /\ s # << >> BY <1>1 DEF s
  <2>2. QED BY <2>1, HeadTailProperties, LenProperties, EmptySeq
<1>3. DOMAIN Tail(s) = 1..Len(Tail(s)) BY <1>2, LenProperties
<1>4. QED BY <1>1, <1>2, <1>3 DEF ToSet

\* What a client has still to send after a message was to send before.
LEMMA SentDenial ==
  ASSUME TypeInv, OnlyTheAttackIsDenied, NEW c \in Clients, Sending(c), Sent(c)
  PROVE  OnlyTheAttackIsDenied'
<1>1. /\ ToSet(Tail(outbox[c])) \subseteq ToSet(outbox[c])
      /\ ~(Len(outbox[c]) > 1) => ToSet(Tail(outbox[c])) = {}
  <2>1. outbox[c] \in Seq(Message) /\ outbox[c] # << >>
    BY DEF TypeInv, TypeOK, ClientsOK, ClientOK
  <2> DEFINE s == outbox[c]
  <2>2. /\ Tail(s) \in Seq(Message) /\ Len(s) \in Nat /\ Len(s) > 0 /\ Len(Tail(s)) = Len(s) - 1
    <3> HIDE DEF s
    <3>1. s \in Seq(Message) /\ s # << >> BY <2>1 DEF s
    <3>2. QED BY <3>1, HeadTailProperties, LenProperties, EmptySeq
  <2>3. DOMAIN Tail(s) = 1..Len(Tail(s)) BY <2>2, LenProperties
  <2>4. ~(Len(s) > 1) => DOMAIN Tail(s) = {} BY <2>2, <2>3
  <2>5. QED BY <2>4, NextMessage DEF ToSet
<1>2. \A d \in Clients : outbox'[d] = IF d = c THEN Tail(outbox[c]) ELSE outbox[d]
  BY DEF Sent, TypeInv, TypeOK
<1>3. \A d \in Clients : pc'[d] = pc[d] \/ (d = c /\ ~(Len(outbox[c]) > 1))
  BY DEF Sent, TypeInv, TypeOK
<1>4. ASSUME NEW d \in Clients, NEW m \in ToSet(outbox'[d])
      PROVE  m \in ToSet(outbox[d]) /\ pc'[d] = pc[d]
  BY <1>1, <1>2, <1>3, <1>4
<1>5. \A d \in Clients : ToSet(outbox[d])' = ToSet(outbox'[d]) BY DEF ToSet
<1>6. QED BY <1>4, <1>5 DEF OnlyTheAttackIsDenied, Writable, MayWrite

\* A message that lands, once or twice, keeps the invariant if it may be written.
LEMMA LandInv ==
  ASSUME Inv, NEW c \in Clients, Sending(c), Sent(c), faults' \in 0..MaxFaults,
         NEW m, m = Head(outbox[c]), Writable(m),
         NEW r \in {Append(log[m.topic], m.event), Append(Append(log[m.topic], m.event), m.event)},
         log' = [log EXCEPT ![m.topic] = r]
  PROVE  Inv'
<1>1. m \in Message /\ m \in ToSet(outbox[c]) /\ ToSet(Tail(outbox[c])) \subseteq ToSet(outbox[c])
  BY NextMessage DEF Inv
<1>2. /\ Grows /\ log' = [t \in Topics |-> log'[t]]
      /\ \A t \in Topics : \A e \in Events(t)' : e \in Events(t) \/ (t = m.topic /\ e = m.event)
  BY <1>1, AppendGrows DEF Inv, TypeInv
<1>3. TypeInv' BY <1>2, SentType DEF Inv
<1>4. ASSUME AclsEnforced, GateInv PROVE GateInv'
  <2>1. Justified(m) BY <1>1, <1>4 DEF GateInv, PendingJustified
  <2>2. Published' BY <1>2, <1>4, <2>1, PublishedGrows DEF GateInv
  <2>3. outbox' = [outbox EXCEPT ![c] = Tail(outbox[c])] /\ late' = late BY DEF Sent
  <2>4. ASSUME NEW d \in Clients, NEW x \in ToSet(outbox[d])', Writable(x) PROVE Justified(x)'
    <3>1. x \in ToSet(outbox[d])
      <4>1. ToSet(outbox[d])' \subseteq ToSet(outbox[d])
        <5>1. CASE d = c
          <6>1. outbox'[d] = Tail(outbox[c]) BY <2>3, <5>1 DEF Inv, TypeInv, TypeOK
          <6>2. QED BY <1>1, <5>1, <6>1 DEF ToSet
        <5>2. CASE d # c
          <6>1. outbox'[d] = outbox[d] BY <2>3, <5>2 DEF Inv, TypeInv, TypeOK
          <6>2. QED BY <6>1 DEF ToSet
        <5>3. QED BY <5>1, <5>2
      <4>2. QED BY <2>4, <4>1
    <3>2. Justified(x) BY <1>4, <2>4, <3>1 DEF GateInv, PendingJustified
    <3>3. QED BY <1>2, <3>2, JustifiedGrows
  <2>5. ASSUME NEW x \in late' PROVE Justified(x)'
    BY <1>2, <1>4, <2>3, <2>5, JustifiedGrows DEF GateInv, PendingJustified
  <2>6. QED BY <2>2, <2>4, <2>5 DEF GateInv, PendingJustified, Writable, MayWrite
<1>5. OnlyTheAttackIsDenied' BY SentDenial DEF Inv
<1>6. QED BY <1>3, <1>4, <1>5 DEF Inv

\* A message that is sent was justified while it waited.
LEMMA SendInv ==
  ASSUME Inv, NEW c \in Clients, Send(c) PROVE Inv'
<1> DEFINE m == Head(outbox[c])
<1>1. /\ Sending(c) /\ Sent(c) /\ faults' \in 0..MaxFaults /\ Writable(m)
      /\ log' = [log EXCEPT ![m.topic] = Append(log[m.topic], m.event)]
  BY DEF Send, Writable, Inv, TypeInv, TypeOK
<1> HIDE DEF m
<1>2. m = Head(outbox[c]) BY DEF m
<1>3. QED BY <1>1, <1>2, LandInv

\* A message that is sent twice was justified while it waited.
LEMMA SendTwiceInv ==
  ASSUME Inv, NEW c \in Clients, SendTwice(c) PROVE Inv'
<1> DEFINE m == Head(outbox[c])
<1>1. /\ Sending(c) /\ Sent(c) /\ Writable(m)
      /\ log' = [log EXCEPT ![m.topic] = Append(Append(log[m.topic], m.event), m.event)]
  BY DEF SendTwice, Writable
<1>2. faults' \in 0..MaxFaults BY ReadType DEF SendTwice, Inv, TypeInv, TypeOK
<1> HIDE DEF m
<1>3. m = Head(outbox[c]) BY DEF m
<1>4. QED BY <1>1, <1>2, <1>3, LandInv

\* A produce call that raises keeps the invariant, if what becomes late is justified.
LEMMA KafkaErrorInv ==
  ASSUME Inv, NEW c \in Clients, Sending(c), KafkaError(c),
         late' \subseteq Message, faults' \in 0..MaxFaults,
         AclsEnforced /\ GateInv => \A m \in late' : Justified(m)
  PROVE  Inv'
<1>1. TypeInv /\ pc[c] # "done" BY NextMessage DEF Inv
<1>2. CASE pc[c] # "attack" /\ Fail(c) BY <1>1, <1>2, FailInv
<1>3. CASE pc[c] = "attack"
  <2> DEFINE l == [id |-> Id(c, 2), run |-> Op(c).run, resource |-> Op(c).target]
             x == Msg("svc-policy-guard", Alert, l)
             y == AuditMsg(c, 3, "svc-policy-guard", Id(c, 2))
  <2>1. Op(c).op = "direct_write" BY <1>1, <1>3 DEF TypeInv, ClientsOK, ClientOK
  <2>2. Op(c).target \in Topics BY <1>1, <2>1, OpType DEF IsOperation, SimpleOps, Topics
  <2>3. l \in EventOf(Alert) BY <1>1, <2>2, IdType, OpType DEF EventOf
  <2>4. x \in Message /\ Fit(x)
    BY <2>3, MsgType, PlainJustified DEF Principals, Topics, WriteGrants
  <2>5. y \in Message /\ Fit(y)
    BY <1>1, IdType, AuditType, AuditJustified DEF Principals
  <2>6. /\ pc' = [pc EXCEPT ![c] = "send"] /\ outbox' = [outbox EXCEPT ![c] = <<x, y>>]
        /\ UNCHANGED <<log, pos, taken>>
    BY <1>3 DEF KafkaError
  <2> HIDE DEF x, y
  <2>7. <<x, y>> \in Seq(Message) /\ <<x, y>> # << >> /\ ToSet(<<x, y>>) = {x, y}
    BY <2>4, <2>5, TwoMessages
  <2>8. TypeOK' BY <1>1, <2>6, <2>7 DEF TypeInv, TypeOK, PCs
  <2>9. ASSUME NEW d \in Clients PROVE ClientOK(d)'
    BY <1>1, <1>3, <2>6, <2>7
    DEF TypeInv, TypeOK, ClientsOK, ClientOK, Op, Sending, TakenTopic, Events
  <2>10. TypeInv' BY <2>8, <2>9 DEF TypeInv, ClientsOK
  <2>11. ASSUME NEW d \in Clients, NEW m \in ToSet(outbox[d])'
         PROVE  IF d = c THEN m \in {x, y} ELSE m \in ToSet(outbox[d])
    BY <1>1, <2>6, <2>7, <2>11 DEF ToSet, TypeInv, TypeOK
  <2>12. OnlyTheAttackIsDenied'
    BY <2>4, <2>5, <2>6, <2>11
    DEF Fit, Inv, TypeInv, TypeOK, OnlyTheAttackIsDenied, Writable, MayWrite
  <2>13. QED BY <2>4, <2>5, <2>6, <2>10, <2>11, <2>12, QuietInv DEF Fit
<1>4. QED BY <1>2, <1>3 DEF KafkaError

\* A denial keeps the invariant.
LEMMA DeniedInv ==
  ASSUME Inv, NEW c \in Clients, Denied(c) PROVE Inv'
BY KafkaErrorInv DEF Denied, Inv, TypeInv, TypeOK, GateInv, PendingJustified

\* A timeout keeps the invariant: the message was justified and stays so.
LEMMA TimeOutInv ==
  ASSUME Inv, NEW c \in Clients, TimeOut(c) PROVE Inv'
<1> DEFINE m == Head(outbox[c])
<1>1. Sending(c) /\ KafkaError(c) /\ late' = late \cup {m} /\ Writable(m)
  BY DEF TimeOut, Writable
<1>2. faults' \in 0..MaxFaults BY ReadType DEF TimeOut, Inv, TypeInv, TypeOK
<1>3. m \in Message /\ m \in ToSet(outbox[c]) BY <1>1, NextMessage DEF Inv
<1>4. late' \subseteq Message BY <1>1, <1>3 DEF Inv, TypeInv, TypeOK
<1>5. AclsEnforced /\ GateInv => \A x \in late' : Justified(x)
  BY <1>1, <1>3 DEF GateInv, PendingJustified
<1>6. QED BY <1>1, <1>2, <1>4, <1>5, KafkaErrorInv

\* A client that dies keeps the invariant.
LEMMA AbortInv ==
  ASSUME Inv, NEW c \in Clients, Abort(c) PROVE Inv'
<1>1. pc[c] # "done" /\ Fail(c) /\ late' = late BY DEF Abort
<1>2. faults' \in 0..MaxFaults BY ReadType DEF Abort, Inv, TypeInv, TypeOK
<1>3. QED BY <1>1, <1>2, FailInv DEF Inv, TypeInv, TypeOK, GateInv, PendingJustified

\* A message that lands late is still justified.
LEMMA LandLateInv ==
  ASSUME Inv, NEW m \in late, LandLate(m) PROVE Inv'
<1>1. m \in Message BY DEF Inv, TypeInv, TypeOK
<1> DEFINE r == Append(log[m.topic], m.event)
<1>2. log' = [log EXCEPT ![m.topic] = r] BY DEF LandLate
<1>3. /\ Grows /\ log' = [t \in Topics |-> log'[t]]
      /\ \A t \in Topics : \A e \in Events(t)' : e \in Events(t) \/ (t = m.topic /\ e = m.event)
  BY <1>1, <1>2, AppendGrows DEF Inv, TypeInv
<1>4. late' \subseteq late /\ UNCHANGED <<pos, pc, taken, outbox, faults>> BY DEF LandLate
<1>5. TypeOK' BY <1>3, <1>4 DEF Inv, TypeInv, TypeOK, Grows
<1>6. ASSUME NEW d \in Clients PROVE ClientOK(d)'
  <2>1. TakenTopic(d) \in Topics /\ TakenTopic(d)' = TakenTopic(d)
    BY <1>4 DEF TakenTopic, Topics, Op
  <2>2. Events(TakenTopic(d)) \subseteq Events(TakenTopic(d))'
    <3>1. Grows BY <1>3
    <3>2. QED BY <2>1, <3>1 DEF Grows, Events
  <2>3. QED BY <1>4, <2>1, <2>2 DEF Inv, TypeInv, ClientsOK, ClientOK, Op, Sending
<1>7. ASSUME AclsEnforced, GateInv PROVE GateInv'
  <2>1. Justified(m) BY <1>7 DEF GateInv, PendingJustified
  <2>2. Published' BY <1>3, <1>7, <2>1, PublishedGrows DEF GateInv
  <2>3. ASSUME NEW d \in Clients, NEW x \in ToSet(outbox[d])', Writable(x) PROVE Justified(x)'
    BY <1>3, <1>4, <1>7, <2>3, JustifiedGrows DEF GateInv, PendingJustified
  <2>4. ASSUME NEW x \in late' PROVE Justified(x)'
    BY <1>3, <1>4, <1>7, <2>4, JustifiedGrows DEF GateInv, PendingJustified
  <2>5. QED BY <2>2, <2>3, <2>4 DEF GateInv, PendingJustified, Writable, MayWrite
<1>8. OnlyTheAttackIsDenied'
  BY <1>4 DEF Inv, OnlyTheAttackIsDenied, Writable, MayWrite, ToSet
<1>9. QED BY <1>5, <1>6, <1>7, <1>8 DEF Inv, TypeInv, ClientsOK

-----------------------------------------------------------------------------
(* The theorems *)

\* The invariant holds before any client has begun.
LEMMA InitInv == Init => Inv
<1> SUFFICES ASSUME Init PROVE Inv OBVIOUS
<1>1. TypeOK BY ReadType DEF Init, TypeOK, PCs
<1>2. ClientsOK
  <2>1. ASSUME NEW c \in Clients PROVE 1 <= Len(Script[c])
    <3> DEFINE s == Script[c]
    <3>1. s \in Seq({s[i] : i \in 1..Len(s)}) /\ s # << >> BY ScriptType
    <3>2. Len(s) \in Nat /\ Len(s) # 0
      <4> DEFINE S == {s[i] : i \in 1..Len(s)}
      <4>1. s \in Seq(S) BY <3>1
      <4> HIDE DEF s, S
      <4>2. QED BY <3>1, <4>1, LenProperties, EmptySeq
    <3>3. QED BY <3>2
  <2>2. QED BY <2>1 DEF Init, ClientsOK, ClientOK, Sending
<1>3. \A t \in Topics : Events(t) = {} BY DEF Init, Events
<1>4. Published
  BY <1>3 DEF Published, ReleasedIsAllowed, AcceptedIsGrounded, ReviewFollowsAcceptance,
              ExportListsApproved, Topics
<1>5. PendingJustified BY DEF Init, PendingJustified, ToSet
<1>6. OnlyTheAttackIsDenied BY DEF Init, OnlyTheAttackIsDenied, ToSet
<1>7. QED BY <1>1, <1>2, <1>4, <1>5, <1>6 DEF Inv, TypeInv, GateInv

\* Every step of every client keeps the invariant.
LEMMA NextInv == Inv /\ [Next]_vars => Inv'
<1> SUFFICES ASSUME Inv, [Next]_vars PROVE Inv' OBVIOUS
<1>1. ASSUME NEW c \in Clients, Compute(c) PROVE Inv'
  BY <1>1, SeedInv, IngestInv, PrepareInv, TakeQuestionInv, ReleaseInv, DraftAnswerInv,
     DraftAgenticallyInv, AttackDraftInv, TakeDraftInv, GuardInv, ReviewInv, ExportInv,
     NoteInv, MalformedInv, DirectWriteInv
  DEF Compute
<1>2. ASSUME NEW c \in Clients, Send(c) \/ Denied(c) \/ SendTwice(c) \/ TimeOut(c) \/ Abort(c)
      PROVE  Inv'
  BY <1>2, SendInv, DeniedInv, SendTwiceInv, TimeOutInv, AbortInv
<1>3. ASSUME NEW m \in late, LandLate(m) PROVE Inv' BY <1>3, LandLateInv
<1>4. CASE UNCHANGED vars
  <2>1. log' = log /\ outbox' = outbox /\ late' = late BY <1>4 DEF vars
  <2>2. TypeInv'
    BY <1>4 DEF vars, Inv, TypeInv, TypeOK, ClientsOK, ClientOK, Op, Sending, TakenTopic, Events
  <2>3. OnlyTheAttackIsDenied'
    BY <1>4 DEF vars, Inv, OnlyTheAttackIsDenied, Writable, MayWrite, ToSet
  <2>4. QED BY <2>1, <2>2, <2>3, QuietInv DEF GateInv, PendingJustified
<1>5. QED BY <1>1, <1>2, <1>3, <1>4 DEF Next, Step

\* The inductive invariant, with or without ACLs.
THEOREM Invariant == Spec => []Inv
BY InitInv, NextInv, PTL DEF Spec

\* Every variable keeps its type, whatever clients do, time out on or die of.
THEOREM TypeCorrect == Spec => []TypeOK
<1>1. Inv => TypeOK BY DEF Inv, TypeInv
<1>2. QED BY <1>1, Invariant, PTL

\* "A human review event is required before export": when the broker enforces the
\* ACLs, no response is ever exported that lists an answer without an approval.
THEOREM ExportNeedsReview == AclsEnforced => (Spec => []ExportListsApproved)
<1> SUFFICES ASSUME AclsEnforced PROVE Spec => []ExportListsApproved OBVIOUS
<1>1. Inv => ExportListsApproved BY DEF Inv, GateInv, Published
<1>2. QED BY <1>1, Invariant, PTL

\* Nor is an answer reviewed that the guard has not accepted in the same run.
THEOREM ReviewNeedsAcceptance == AclsEnforced => (Spec => []ReviewFollowsAcceptance)
<1> SUFFICES ASSUME AclsEnforced PROVE Spec => []ReviewFollowsAcceptance OBVIOUS
<1>1. Inv => ReviewFollowsAcceptance BY DEF Inv, GateInv, Published
<1>2. QED BY <1>1, Invariant, PTL

\* Nor a draft accepted that cites what was never released, or breaks the policy.
THEOREM AcceptanceIsGrounded == AclsEnforced => (Spec => []AcceptedIsGrounded)
<1> SUFFICES ASSUME AclsEnforced PROVE Spec => []AcceptedIsGrounded OBVIOUS
<1>1. Inv => AcceptedIsGrounded BY DEF Inv, GateInv, Published
<1>2. QED BY <1>1, Invariant, PTL

\* Nor evidence released that may not be shown to the model.
THEOREM ReleaseIsAllowed == AclsEnforced => (Spec => []ReleasedIsAllowed)
<1> SUFFICES ASSUME AclsEnforced PROVE Spec => []ReleasedIsAllowed OBVIOUS
<1>1. Inv => ReleasedIsAllowed BY DEF Inv, GateInv, Published
<1>2. QED BY <1>1, Invariant, PTL

\* A guard whose read misses the end of the topic finds at least what a guard finds
\* that has read further: a stale read may reject a good draft, and lets no bad one by.
THEOREM StaleGuardIsStricter ==
  ASSUME NEW d, NEW o, NEW m \in Nat, NEW n \in 0..m
  PROVE  Violations(d, SafeSeen(m, o)) \subseteq Violations(d, SafeSeen(n, o))
<1>1. SafeSeen(n, o) \subseteq SafeSeen(m, o)
  <2>1. 1..n \subseteq 1..m OBVIOUS
  <2>2. QED BY <2>1 DEF SafeSeen
<1> DEFINE S == SafeSeen(n, o)
           T == SafeSeen(m, o)
<1>2. S \subseteq T BY <1>1
<1> HIDE DEF S, T
<1>3. Violations(d, T) \subseteq Violations(d, S) BY <1>2 DEF Violations
<1>4. QED BY <1>3 DEF S, T

-----------------------------------------------------------------------------
(* The workflow implements the review gate *)

\* One event, or two copies of it, has been added to the topic of message m.
Lands(m) ==
  \E r \in {Append(log[m.topic], m.event), Append(Append(log[m.topic], m.event), m.event)} :
    log' = [log EXCEPT ![m.topic] = r]

\* A step of the workflow publishes nothing or one message that is justified.
LEMMA LogStep ==
  ASSUME Inv, AclsEnforced, [Next]_vars
  PROVE  log' = log \/ \E m \in Message : Justified(m) /\ Lands(m)
<1>1. ASSUME NEW c \in Clients, Compute(c) PROVE log' = log
  BY <1>1 DEF Compute, Seed, Ingest, Prepare, TakeQuestion, ReleaseEvidence, DraftAnswer,
              DraftAgentically, AttackDraft, TakeDraft, GuardDraft, Review, Export, Note, Malformed,
              DirectWrite, TakeLatest, Keep, Publish, Fail
<1>2. ASSUME NEW c \in Clients, Send(c) \/ SendTwice(c)
      PROVE  \E m \in Message : Justified(m) /\ Lands(m)
  <2> DEFINE m == Head(outbox[c])
  <2>1. Sending(c) /\ Writable(m) /\ Lands(m) BY <1>2 DEF Send, SendTwice, Writable, Lands
  <2>2. m \in Message /\ m \in ToSet(outbox[c]) BY <2>1, NextMessage DEF Inv
  <2>3. Justified(m) BY <2>1, <2>2 DEF Inv, GateInv, PendingJustified
  <2>4. QED BY <2>1, <2>2, <2>3
<1>3. ASSUME NEW c \in Clients, Denied(c) \/ TimeOut(c) \/ Abort(c) PROVE log' = log
  BY <1>3 DEF Denied, TimeOut, Abort, KafkaError, Fail
<1>4. ASSUME NEW m \in late, LandLate(m) PROVE m \in Message /\ Justified(m) /\ Lands(m)
  BY <1>4 DEF LandLate, Lands, Inv, TypeInv, TypeOK, GateInv, PendingJustified
<1>5. CASE UNCHANGED vars BY <1>5 DEF vars
<1>6. QED BY <1>1, <1>2, <1>3, <1>4, <1>5 DEF Next, Step

\* A justified message that lands is a step of the review gate, or none at all.
LEMMA LandStep ==
  ASSUME TypeOK, NEW m \in Message, Justified(m), Lands(m)
  PROVE  [Gate!Next]_(Gate!vars)
<1>1. /\ \A t \in Topics : Events(t) \subseteq Events(t)'
      /\ m.topic \in Topics /\ m.event \in Events(m.topic)'
      /\ \A t \in Topics : \A e \in Events(t)' : e \in Events(t) \/ (t = m.topic /\ e = m.event)
  BY AppendGrows, MessageParts DEF Lands, Grows
<1>2. ASSUME NEW t \in Topics PROVE Events(t)' = IF t = m.topic THEN Events(t) \cup {m.event} ELSE Events(t)
  BY <1>1
<1>3. CASE m.topic = AiSafe
  BY <1>1, <1>2, <1>3 DEF Topics, Justified, ReleaseAllowed, Gate!Next, Gate!Release
<1>4. CASE m.topic = Proposed
  BY <1>1, <1>2, <1>4 DEF Topics, Gate!Next, Gate!Propose
<1>5. CASE m.topic = Accepted
  <2>1. AcceptAllowed(m.event) BY <1>5 DEF Justified
  <2>2. Gate!Accept
    BY <1>1, <1>2, <1>5, <2>1 DEF Topics, AcceptAllowed, Gate!Accept, Gate!SameAnswer
  <2>3. QED BY <2>2 DEF Gate!Next
<1>6. CASE m.topic = Reviewed
  <2>1. ReviewAllowed(m.event) BY <1>6 DEF Justified
  <2>2. Gate!Review
    BY <1>1, <1>2, <1>6, <2>1 DEF Topics, ReviewAllowed, Gate!Review, Gate!SameAnswer
  <2>3. QED BY <2>2 DEF Gate!Next
<1>7. CASE m.topic = Ready
  <2>1. ExportAllowed(m.event) BY <1>7 DEF Justified
  <2>2. Gate!Export
    BY <1>1, <1>2, <1>7, <2>1 DEF Topics, ExportAllowed, Gate!Export
  <2>3. QED BY <2>2 DEF Gate!Next
<1>8. CASE m.topic \notin {AiSafe, Proposed, Accepted, Reviewed, Ready}
  BY <1>2, <1>8 DEF Topics, Gate!vars
<1>9. QED BY <1>3, <1>4, <1>5, <1>6, <1>7, <1>8

\* With the ACLs enforced the whole workflow, with its clients, stale reads, lost
\* and repeated messages and crashes, implements the review gate.
THEOREM WorkflowImplementsGate == AclsEnforced => (Spec => ImplementsReviewGate)
<1> SUFFICES ASSUME AclsEnforced PROVE Spec => ImplementsReviewGate OBVIOUS
<1>1. Init => Gate!Init
  <2>1. Init => \A t \in Topics : Events(t) = {} BY DEF Init, Events
  <2>2. QED BY <2>1 DEF Gate!Init, Topics
<1>2. Inv /\ [Next]_vars => [Gate!Next]_(Gate!vars)
  <2> SUFFICES ASSUME Inv, [Next]_vars PROVE [Gate!Next]_(Gate!vars) OBVIOUS
  <2>1. CASE log' = log
    <3>1. TypeOK BY DEF Inv, TypeInv
    <3>2. \A t \in Topics : Events(t)' = Events(t) BY <2>1, <3>1, SameGrows
    <3>3. QED BY <3>2 DEF Gate!vars, Topics
  <2>2. CASE \E m \in Message : Justified(m) /\ Lands(m)
    BY <2>2, LandStep DEF Inv, TypeInv
  <2>3. QED BY <2>1, <2>2, LogStep
<1>3. QED BY <1>1, <1>2, Invariant, PTL DEF Spec, ImplementsReviewGate, Gate!Spec

-----------------------------------------------------------------------------
(* Every client moves on *)

\* How far a client is within an operation; an operation that ends leads to the next one.
Stage(p) ==
  CASE p = "start"            -> 0
    [] p = "second"           -> 1
    [] p = "attack"           -> 2
    [] p \in {"send", "raise"} -> 3
    [] OTHER                  -> 4

\* Client c gets further: to its next operation, to a later stage of the one it is at, or
\* to the next of the messages it has to send.  The others stay where they are.
MovesOn(c) ==
  /\ pc[c] \notin {"done", "aborted"}
  /\ \/ pos'[c] = pos[c] + 1 /\ pos[c] <= Len(Script[c])
     \/ pos'[c] = pos[c] /\ Stage(pc'[c]) > Stage(pc[c])
     \/ /\ Sending(c) /\ pos'[c] = pos[c] /\ pc'[c] = pc[c]
        /\ outbox[c] # << >> /\ outbox'[c] = Tail(outbox[c])
  /\ \A d \in Clients \ {c} : pos'[d] = pos[d] /\ pc'[d] = pc[d] /\ outbox'[d] = outbox[d]

\* A message given up on lands, and moves nobody.
LandsLate == \E m \in late : late' = late \ {m} /\ UNCHANGED <<pos, pc, outbox>>

ClientsAdvance == (\E c \in Clients : MovesOn(c)) \/ LandsLate

\* An operation that raises moves its client on, to its end.
LEMMA FailMoves ==
  ASSUME TypeOK, NEW c \in Clients, pc[c] \notin {"done", "aborted"}, Fail(c) PROVE MovesOn(c)
<1>1. /\ pos' = pos /\ pc' = [pc EXCEPT ![c] = "aborted"] /\ outbox' = [outbox EXCEPT ![c] = << >>]
  BY DEF Fail
<1>2. pc[c] \in {"start", "second", "send", "raise", "attack"} BY DEF TypeOK, PCs
<1>3. pc'[c] = "aborted" /\ pos'[c] = pos[c] BY <1>1 DEF TypeOK
<1>4. Stage(pc'[c]) > Stage(pc[c]) BY <1>2, <1>3 DEF Stage
<1>5. \A d \in Clients \ {c} : pos'[d] = pos[d] /\ pc'[d] = pc[d] /\ outbox'[d] = outbox[d]
  BY <1>1 DEF TypeOK
<1>6. QED BY <1>2, <1>3, <1>4, <1>5 DEF MovesOn

\* An operation that has computed what to publish moves its client on.
LEMMA PublishMoves ==
  ASSUME TypeOK, NEW c \in Clients, pc[c] \in {"start", "second"}, NEW msgs,
         NEW then \in {"send", "raise", "attack"}, Publish(c, msgs, then)
  PROVE  MovesOn(c)
<1>1. /\ pos' = pos /\ pc' = [pc EXCEPT ![c] = then] /\ outbox' = [outbox EXCEPT ![c] = msgs]
  BY DEF Publish
<1>2. pc'[c] = then /\ pos'[c] = pos[c] BY <1>1 DEF TypeOK
<1>3. Stage(pc'[c]) > Stage(pc[c]) BY <1>2 DEF Stage
<1>4. \A d \in Clients \ {c} : pos'[d] = pos[d] /\ pc'[d] = pc[d] /\ outbox'[d] = outbox[d]
  BY <1>1 DEF TypeOK
<1>5. QED BY <1>2, <1>3, <1>4 DEF MovesOn

\* The first read of an operation moves its client on.
LEMMA TakeLatestMoves ==
  ASSUME TypeOK, NEW c \in Clients, pc[c] = "start", NEW p, NEW t, TakeLatest(c, p, t)
  PROVE  MovesOn(c)
<1>1. CASE Fail(c) BY <1>1, FailMoves
<1>2. CASE \E e : Keep(c, e)
  <2>1. pos' = pos /\ outbox' = outbox /\ pc' = [pc EXCEPT ![c] = "second"] BY <1>2 DEF Keep
  <2>2. pc'[c] = "second" BY <2>1 DEF TypeOK
  <2>3. QED BY <2>1, <2>2 DEF MovesOn, Stage, TypeOK
<1>3. QED BY <1>1, <1>2 DEF TakeLatest

\* Whatever an operation computes, its client moves on.
LEMMA ComputeMoves ==
  ASSUME TypeOK, NEW c \in Clients, Compute(c) PROVE MovesOn(c)
<1>1. CASE TakeQuestion(c) BY <1>1, TakeLatestMoves DEF TakeQuestion, Doing
<1>2. CASE TakeDraft(c) BY <1>2, TakeLatestMoves DEF TakeDraft, Doing
<1>3. CASE Seed(c) \/ Ingest(c) \/ Prepare(c) \/ AttackDraft(c) \/ Note(c) \/ Malformed(c) \/ DirectWrite(c)
  BY <1>3, FailMoves, PublishMoves
  DEF Seed, Ingest, Prepare, AttackDraft, Note, Malformed, DirectWrite, Doing
<1>4. CASE ReleaseEvidence(c) \/ DraftAnswer(c) \/ GuardDraft(c)
  BY <1>4, FailMoves, PublishMoves DEF ReleaseEvidence, DraftAnswer, GuardDraft, Second
<1>5. CASE DraftAgentically(c)
  BY <1>5, FailMoves, PublishMoves DEF DraftAgentically, Second
<1>6. CASE Review(c) \/ Export(c)
  BY <1>6, FailMoves, PublishMoves DEF Review, Export, Doing
<1>7. QED BY <1>1, <1>2, <1>3, <1>4, <1>5, <1>6 DEF Compute

\* A message that is sent moves its client on.
LEMMA SentMoves ==
  ASSUME TypeInv, NEW c \in Clients, Sending(c), Sent(c) PROVE MovesOn(c)
<1>1. /\ outbox[c] # << >> /\ pos[c] <= Len(Script[c]) /\ pos[c] \in Nat
      /\ pc[c] \in {"send", "raise", "attack"}
  BY DEF TypeInv, TypeOK, ClientsOK, ClientOK, Sending
<1>2. /\ outbox' = [outbox EXCEPT ![c] = Tail(outbox[c])]
      /\ \A d \in Clients \ {c} : pos'[d] = pos[d] /\ pc'[d] = pc[d] /\ outbox'[d] = outbox[d]
  BY DEF Sent, TypeInv, TypeOK
<1>3. outbox'[c] = Tail(outbox[c]) BY <1>2 DEF TypeInv, TypeOK
<1>4. CASE Len(outbox[c]) > 1
  <2>1. pos' = pos /\ pc' = pc BY <1>4 DEF Sent
  <2>2. QED BY <1>1, <1>2, <1>3, <2>1 DEF MovesOn
<1>5. CASE ~(Len(outbox[c]) > 1) /\ pc[c] = "raise"
  <2>1. pos'[c] = pos[c] /\ pc'[c] = "aborted" BY <1>5 DEF Sent, TypeInv, TypeOK
  <2>2. QED BY <1>2, <1>5, <2>1 DEF MovesOn, Stage
<1>6. CASE ~(Len(outbox[c]) > 1) /\ pc[c] # "raise"
  <2>1. pos'[c] = pos[c] + 1 BY <1>6 DEF Sent, TypeInv, TypeOK
  <2>2. QED BY <1>1, <1>2, <2>1 DEF MovesOn
<1>7. QED BY <1>4, <1>5, <1>6

\* So does a produce call that raises.
LEMMA KafkaErrorMoves ==
  ASSUME TypeOK, NEW c \in Clients, Sending(c), KafkaError(c) PROVE MovesOn(c)
<1>1. CASE Fail(c) BY <1>1, FailMoves DEF Sending
<1>2. CASE pc[c] = "attack" /\ ~Fail(c)
  <2>1. /\ pos' = pos /\ pc' = [pc EXCEPT ![c] = "send"]
        /\ \E msgs : outbox' = [outbox EXCEPT ![c] = msgs]
    BY <1>2 DEF KafkaError
  <2>2. pc'[c] = "send" /\ pos'[c] = pos[c] BY <2>1 DEF TypeOK
  <2>3. \A d \in Clients \ {c} : pos'[d] = pos[d] /\ pc'[d] = pc[d] /\ outbox'[d] = outbox[d]
    BY <2>1 DEF TypeOK
  <2>4. QED BY <1>2, <2>2, <2>3 DEF MovesOn, Stage
<1>3. QED BY <1>1, <1>2 DEF KafkaError

\* Whatever happens, every step but the landing of a late message brings some client
\* nearer to its end: no operation is ever gone back to, polled for or started over.
\* A script is finite, and so is every outbox, so no client goes on for ever.
THEOREM EveryStepAdvances == Spec => [][ClientsAdvance]_vars
<1>1. Inv /\ [Next]_vars => [ClientsAdvance]_vars
  <2> SUFFICES ASSUME Inv, Next PROVE ClientsAdvance OBVIOUS
  <2>1. TypeInv /\ TypeOK BY DEF Inv, TypeInv
  <2>2. ASSUME NEW c \in Clients, Compute(c) \/ Send(c) \/ SendTwice(c) PROVE MovesOn(c)
    BY <2>1, <2>2, ComputeMoves, SentMoves DEF Send, SendTwice
  <2>3. ASSUME NEW c \in Clients, Denied(c) \/ TimeOut(c) PROVE MovesOn(c)
    BY <2>1, <2>3, KafkaErrorMoves DEF Denied, TimeOut
  <2>4. ASSUME NEW c \in Clients, Abort(c) PROVE MovesOn(c)
    BY <2>1, <2>4, FailMoves DEF Abort
  <2>5. ASSUME NEW m \in late, LandLate(m) PROVE LandsLate BY <2>5 DEF LandLate, LandsLate
  <2>6. QED BY <2>2, <2>3, <2>4, <2>5 DEF Next, Step, ClientsAdvance
<1>2. QED BY <1>1, Invariant, PTL DEF Spec

-----------------------------------------------------------------------------
(* The gate stays open *)

\* No account lacks the grant for what its operations publish.
THEOREM NoneButTheAttackIsDenied == Spec => []OnlyTheAttackIsDenied
<1>1. Inv => OnlyTheAttackIsDenied BY DEF Inv
<1>2. QED BY <1>1, Invariant, PTL

\* A set of naturals has a least element.
LEMMA Least ==
  ASSUME NEW T \in SUBSET Nat, T # {}
  PROVE  \E x \in T : \A y \in T : x <= y
<1> DEFINE R == OpToRel(<, Nat)
<1>1. IsWellFoundedOn(R, Nat) BY NatLessThanWellFounded
<1>2. \A p \in Nat, q \in Nat : p < q => <<p, q>> \in R BY DEF OpToRel
<1> HIDE DEF R
<1>3. PICK x \in T : \A y \in T : ~(<<y, x>> \in R) BY <1>1, WFMin
<1>4. \A y \in T : ~(y < x) BY <1>2, <1>3
<1>5. QED BY <1>4

\* A set of positions has a greatest element: the last event of a topic that is about a
\* question is there whenever any event about it is.
LEMMA Greatest ==
  ASSUME NEW n \in Nat, NEW T \in SUBSET (1..n), T # {}
  PROVE  \E x \in T : \A y \in T : y <= x
<1> DEFINE U == {n - y : y \in T}
<1>1. U \in SUBSET Nat /\ U # {}
  <2>1. \A y \in T : n - y \in Nat OBVIOUS
  <2>2. QED BY <2>1
<1> HIDE DEF U
<1>2. PICK u \in U : \A v \in U : u <= v BY <1>1, Least
<1>3. PICK x \in T : u = n - x BY <1>2 DEF U
<1>4. \A y \in T : n - y \in U BY DEF U
<1>5. \A y \in T : y \in Nat /\ u <= n - y BY <1>2, <1>4
<1>6. QED BY <1>3, <1>5

\* _latest_question finds an event if the topic it has read to the end holds one.
LEMMA LatestExists ==
  ASSUME TypeOK, NEW t \in Topics, NEW o, NEW e \in Events(t), About(e, t, o)
  PROVE  Latest(t, Len(log[t]), o) # {}
<1> DEFINE n == Len(log[t])
           T == {j \in 1..n : About(log[t][j], t, o)}
<1>1. n \in Nat BY LenProperties DEF TypeOK
<1>2. PICK i \in 1..n : e = log[t][i] BY DEF Events
<1>3. T \in SUBSET (1..n) /\ T # {} BY <1>2
<1>4. PICK x \in T : \A y \in T : y <= x
  <2> HIDE DEF n, T
  <2>1. QED BY <1>1, <1>3, Greatest
<1>5. x \in 1..n /\ About(log[t][x], t, o) BY <1>4
<1>6. ASSUME NEW k \in (x + 1)..n PROVE ~About(log[t][k], t, o)
  <2>1. k \in 1..n /\ ~(k <= x) BY <1>1, <1>5
  <2>2. QED BY <1>4, <2>1
<1>7. log[t][x] \in Latest(t, n, o) BY <1>5, <1>6 DEF Latest
<1>8. QED BY <1>7

\* The step leaves client c where it is; client c turns to publishing on topic t.
Idle(c) == pos'[c] = pos[c] /\ pc'[c] = pc[c] /\ outbox'[c] = outbox[c]
Publishes(c, t) == Sending(c)' /\ outbox'[c] # << >> /\ Head(outbox'[c]).topic = t

\* The gate stays open: an answer accepted can be reviewed and a review that approves can
\* be exported, whatever other events the same run has got since.
GateStaysOpen ==
  \A c \in Clients :
    /\ Doing(c, {"review"}) /\ (\E a \in Events(Accepted) : About(a, Accepted, Op(c)))
         => Idle(c) \/ Publishes(c, Reviewed)
    /\ Doing(c, {"export"}) /\ Exportable(Len(log[Reviewed]), Op(c).run) # {}
         => Idle(c) \/ Publishes(c, Ready)

\* What a client has to send reaches its topic, in order and to the last message.
NothingIsLost ==
  \A c \in Clients : Sending(c) /\ pc[c] # "attack" =>
    LET m == Head(outbox[c])
    IN Idle(c) \/ (m.event \in ToSet(log'[m.topic]) /\ outbox'[c] = Tail(outbox[c]))

\* A step is one client's, or nobody's.
LEMMA OneMoves ==
  ASSUME Inv, [Next]_vars, NEW c \in Clients, ~(Step(c) \/ SendTwice(c) \/ TimeOut(c) \/ Abort(c))
  PROVE  Idle(c)
<1>1. TypeInv /\ TypeOK BY DEF Inv, TypeInv
<1>2. CASE UNCHANGED vars BY <1>2 DEF vars, Idle
<1>3. CASE \E m \in late : LandLate(m) BY <1>3 DEF LandLate, Idle
<1>4. ASSUME NEW d \in Clients, Step(d) \/ SendTwice(d) \/ TimeOut(d) \/ Abort(d) PROVE Idle(c)
  <2>1. d # c BY <1>4
  <2>2. MovesOn(d)
    BY <1>1, <1>4, ComputeMoves, SentMoves, KafkaErrorMoves, FailMoves
    DEF Step, Send, SendTwice, Denied, TimeOut, Abort
  <2>3. QED BY <2>1, <2>2 DEF MovesOn, Idle
<1>5. QED BY <1>2, <1>3, <1>4 DEF Next

\* At the start of an operation a client can only do that operation.
LEMMA OwnStep ==
  ASSUME Inv, MaxFaults = 0, NEW c \in Clients, NEW op \in {"review", "export"}, Doing(c, {op}),
         Step(c) \/ SendTwice(c) \/ TimeOut(c) \/ Abort(c)
  PROVE  IF op = "review" THEN Review(c) ELSE Export(c)
<1>1. pc[c] = "start" /\ Op(c).op = op BY DEF Doing
<1>2. faults = 0 BY DEF Inv, TypeInv, TypeOK
<1>3. ~(SendTwice(c) \/ TimeOut(c) \/ Abort(c)) BY <1>2 DEF SendTwice, TimeOut, Abort
<1>4. ~(Send(c) \/ Denied(c)) BY <1>1 DEF Send, Denied, Sending
<1>5. Compute(c) BY <1>3, <1>4 DEF Step
<1>6. QED
  BY <1>1, <1>5
  DEF Compute, Seed, Ingest, Prepare, TakeQuestion, ReleaseEvidence, DraftAnswer, DraftAgentically,
      AttackDraft, TakeDraft, GuardDraft, Review, Export, Note, Malformed, DirectWrite, Doing, Second

\* Without faults and stale reads neither step of the gate refuses what it should let
\* through; this is the part of GateOpens that needs no fairness.
THEOREM GateNeverShuts == ~StaleReads /\ MaxFaults = 0 => (Spec => [][GateStaysOpen]_vars)
<1> SUFFICES ASSUME ~StaleReads, MaxFaults = 0 PROVE Spec => [][GateStaysOpen]_vars OBVIOUS
<1>1. Inv /\ [Next]_vars => [GateStaysOpen]_vars
  <2> SUFFICES ASSUME Inv, [Next]_vars, NEW c \in Clients, ~Idle(c)
               PROVE  /\ Doing(c, {"review"}) /\ (\E a \in Events(Accepted) : About(a, Accepted, Op(c)))
                           => Publishes(c, Reviewed)
                      /\ Doing(c, {"export"}) /\ Exportable(Len(log[Reviewed]), Op(c).run) # {}
                           => Publishes(c, Ready)
    BY DEF GateStaysOpen
  <2>1. TypeOK BY DEF Inv, TypeInv
  <2>2. Step(c) \/ SendTwice(c) \/ TimeOut(c) \/ Abort(c) BY OneMoves
  <2>3. ASSUME NEW p, NEW t \in Topics, NEW n \in ReadUpTo(p, t) PROVE n = Len(log[t])
    BY DEF ReadUpTo
  <2>4. ASSUME NEW msgs, NEW then \in {"send", "raise"}, Publish(c, msgs, then), msgs # << >>
        PROVE  Publishes(c, Head(msgs).topic)
    <3>1. pc'[c] = then /\ outbox'[c] = msgs BY <2>1, <2>4 DEF Publish, TypeOK
    <3>2. QED BY <2>4, <3>1 DEF Publishes, Sending
  <2>5. ASSUME Doing(c, {"review"}), NEW a \in Events(Accepted), About(a, Accepted, Op(c))
        PROVE  Publishes(c, Reviewed)
    <3>1. Review(c) BY <2>2, <2>5, OwnStep
    <3>2. Latest(Accepted, Len(log[Accepted]), Op(c)) # {} BY <2>1, <2>5, LatestExists DEF Topics
    <3>3. PICK e : Publish(c, ReviewMsgs(c, e), "send") BY <2>3, <3>1, <3>2 DEF Review, Topics
    <3>4. ReviewMsgs(c, e) # << >> /\ Head(ReviewMsgs(c, e)).topic = Reviewed
      BY DEF ReviewMsgs, Msg
    <3>5. QED BY <2>4, <3>3, <3>4
  <2>6. ASSUME Doing(c, {"export"}), Exportable(Len(log[Reviewed]), Op(c).run) # {}
        PROVE  Publishes(c, Ready)
    <3>1. Export(c) BY <2>2, <2>6, OwnStep
    <3> DEFINE x == Exportable(Len(log[Reviewed]), Op(c).run)
               then == IF Op(c).want = "any" THEN "send" ELSE "raise"
    <3>2. Publish(c, ReadyMsgs(c, x), then) BY <2>3, <2>6, <3>1 DEF Export, Topics
    <3>3. ReadyMsgs(c, x) # << >> /\ Head(ReadyMsgs(c, x)).topic = Ready
      BY DEF ReadyMsgs, Msg
    <3>4. then \in {"send", "raise"} OBVIOUS
    <3> HIDE DEF x, then
    <3>5. QED BY <2>4, <3>2, <3>3, <3>4
  <2>7. QED BY <2>5, <2>6
<1>2. QED BY <1>1, Invariant, PTL DEF Spec

\* Nor is anything stopped on its way out: without faults every message but the forged
\* one reaches its topic, because no other is denied.
THEOREM NothingOfItsOwnIsLost == MaxFaults = 0 => (Spec => [][NothingIsLost]_vars)
<1> SUFFICES ASSUME MaxFaults = 0 PROVE Spec => [][NothingIsLost]_vars OBVIOUS
<1>1. Inv /\ [Next]_vars => [NothingIsLost]_vars
  <2> SUFFICES ASSUME Inv, [Next]_vars, NEW c \in Clients, Sending(c), pc[c] # "attack", ~Idle(c)
               PROVE  LET m == Head(outbox[c])
                      IN m.event \in ToSet(log'[m.topic]) /\ outbox'[c] = Tail(outbox[c])
    BY DEF NothingIsLost
  <2> DEFINE m == Head(outbox[c])
  <2>1. TypeInv /\ TypeOK /\ faults = 0 BY DEF Inv, TypeInv, TypeOK
  <2>2. m \in Message /\ m \in ToSet(outbox[c]) BY <2>1, NextMessage
  <2>3. Writable(m) BY <2>2 DEF Inv, OnlyTheAttackIsDenied, Writable, MayWrite
  <2>4. Step(c) \/ SendTwice(c) \/ TimeOut(c) \/ Abort(c) BY OneMoves
  <2>5. ~Denied(c) BY <2>3 DEF Denied, Writable
  <2>6. ~(SendTwice(c) \/ TimeOut(c) \/ Abort(c)) BY <2>1 DEF SendTwice, TimeOut, Abort
  <2>7. ~Compute(c)
    BY DEF Sending, Compute, Seed, Ingest, Prepare, TakeQuestion, ReleaseEvidence, DraftAnswer,
           DraftAgentically, AttackDraft, TakeDraft, GuardDraft, Review, Export, Note, Malformed,
           DirectWrite, Doing, Second
  <2>8. Send(c) BY <2>4, <2>5, <2>6, <2>7 DEF Step
  <2>9. outbox'[c] = Tail(outbox[c]) BY <2>1, <2>8 DEF Send, Sent, TypeOK
  <2>10. log' = [log EXCEPT ![m.topic] = Append(log[m.topic], m.event)] BY <2>8 DEF Send
  <2>11. m.topic \in Topics /\ m.event \in EventOf(m.topic) BY <2>2, MessageParts
  <2> HIDE DEF m
  <2>12. m.event \in ToSet(log'[m.topic])
    <3> DEFINE s == log[m.topic]
               r == Append(s, m.event)
    <3>1. log'[m.topic] = r BY <2>1, <2>10, <2>11 DEF TypeOK
    <3>2. s \in Seq(EventOf(m.topic)) BY <2>1, <2>11 DEF TypeOK
    <3>3. r[Len(s) + 1] = m.event /\ Len(r) = Len(s) + 1 /\ Len(s) \in Nat /\ DOMAIN r = 1..Len(r)
      <4> HIDE DEF s
      <4>1. QED BY <2>11, <3>2, AppendProperties, LenProperties
    <3>4. QED BY <3>1, <3>3 DEF ToSet
  <2>13. QED BY <2>9, <2>12 DEF m
<1>2. QED BY <1>1, Invariant, PTL DEF Spec
=============================================================================
