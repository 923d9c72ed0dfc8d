------------------------- MODULE WorkflowAuditProofs -------------------------
(***************************************************************************)
(* Proofs that the audit timeline of Workflow is complete and never runs   *)
(* ahead and that event ids are unique, for every set of clients, every    *)
(* script and any number of faults: they are about the order in which      *)
(* events are sent and need no ACLs.  With the ACLs an exported answer can *)
(* then be followed back to its evidence.                                  *)
(***************************************************************************)
EXTENDS WorkflowProofs

USE DEF Received, Prepared, Internal, AiSafe, Proposed, Accepted, Rejected, Reviewed, Ready,
        Audit, Alert

\* The event has reached its topic; client c has it still to send.
Landed(id)    == \E t \in Topics : \E e \in Events(t) : e.id = id
Coming(c, id) == \E j \in 1..Len(outbox[c]) : outbox[c][j].event.id = id

\* The same of an audit event of the i-th operation of client c, and of the one it is at.
IsAuditOf(e, c, i) == e.id[1] = c /\ e.id[2] = i
AuditLanded(c, i)  == \E e \in Events(Audit) : IsAuditOf(e, c, i)
AuditComing(c)     == \E j \in 1..Len(outbox[c]) :
                        outbox[c][j].topic = Audit /\ IsAuditOf(outbox[c][j].event, c, pos[c])

\* What an audit message is about is the run itself or has reached its topic.
Sourced(m) ==
  m.topic = Audit => m.event.source = m.event.run \/ Landed(m.event.source)

\* An operation that is being published has its audit event on the topic or to come.
Recorded(c) ==
  Sending(c) /\ Op(c).op # "direct_write" => AuditLanded(c, pos[c]) \/ AuditComing(c)

\* So it has the events that a later audit event may be about.
FirstsComing(c) ==
  Sending(c) => \A k \in 1..LeastEvents(Op(c)) : Landed(Id(c, k)) \/ Coming(c, Id(c, k))
FirstsLanded(c) ==
  \A i \in 1..(pos[c] - 1) : \A k \in 1..LeastEvents(Script[c][i]) : Landed(<<c, i, k>>)

\* An audit message is sent after the event it is about.
InTurn(c) ==
  \A j \in 1..Len(outbox[c]) :
    \/ Sourced(outbox[c][j])
    \/ \E i \in 1..(j - 1) : outbox[c][i].event.id = outbox[c][j].event.source

ClientAudits(c) == Recorded(c) /\ FirstsComing(c) /\ FirstsLanded(c) /\ InTurn(c)

\* An event that has landed, or that was given up on and may still land.
Issued(t) == Events(t) \cup {m.event : m \in {x \in late : x.topic = t}}

\* No two events share an id.
IssuedOnce ==
  \A s, t \in Topics : \A e \in Issued(s), f \in Issued(t) : e.id = f.id => s = t /\ e = f

\* Client c is not past its i-th operation, and has issued at most the first b events of it.
AtMost(c, i) == \A t \in Topics : \A e \in Issued(t) : e.id[1] = c => e.id[2] <= i
UpTo(c, i, b) ==
  \A t \in Topics : \A e \in Issued(t) : e.id[1] = c /\ e.id[2] = i => e.id[3] <= b

\* What it has still to send are the events after the b-th.
NumberedFrom(c, b) == \A j \in 1..Len(outbox[c]) : outbox[c][j].event.id = Id(c, b + j)
ClientIds(c) ==
  /\ AtMost(c, pos[c])
  /\ pc[c] \in {"start", "second"} => UpTo(c, pos[c], 0)
  /\ pc[c] = "attack" => UpTo(c, pos[c], 0) /\ NumberedFrom(c, 0) /\ Len(outbox[c]) = 1
  /\ pc[c] \in {"send", "raise"} => \E b \in Nat : UpTo(c, pos[c], b) /\ NumberedFrom(c, b)
IdsInv == IssuedOnce /\ \A c \in Clients : ClientIds(c)

AuditInv ==
  /\ AuditNeverAhead /\ CompletedOpsAreAudited
  /\ \A c \in Clients : ClientAudits(c)
  /\ \A m \in late : Sourced(m)
  /\ IdsInv

-----------------------------------------------------------------------------
(* Event ids are used once *)

\* Events that have been issued have the type of their topic.
LEMMA IssuedType ==
  ASSUME TypeOK, NEW t \in Topics, NEW e \in Issued(t)
  PROVE  e \in EventOf(t) /\ e.id \in Ids
<1>1. e \in EventOf(t)
  <2>1. CASE e \in Events(t) BY <2>1, EventType
  <2>2. ASSUME NEW m \in late, m.topic = t, m.event = e PROVE e \in EventOf(t)
    <3>1. m \in Message BY DEF TypeOK
    <3>2. QED BY <2>2, <3>1, MessageParts
  <2>3. QED BY <2>1, <2>2 DEF Issued
<1>2. EventOf(t) \subseteq [id : Ids] \/ e.id \in Ids BY <1>1 DEF EventOf, Topics
<1>3. QED BY <1>1 DEF EventOf, Topics

\* What was issued is issued, for a client whose own part does not change.
LEMMA OthersIds ==
  ASSUME IdsInv, NEW d \in Clients, pc'[d] = pc[d], pos'[d] = pos[d], outbox'[d] = outbox[d],
         \A t \in Topics : \A e \in Issued(t)' : e \in Issued(t) \/ e.id[1] # d
  PROVE  ClientIds(d)'
<1> PICK i : i = pos[d] OBVIOUS
<1>1. AtMost(d, i) => AtMost(d, i)' BY DEF AtMost
<1>2. \A b : UpTo(d, i, b) => UpTo(d, i, b)' BY DEF UpTo
<1>3. \A b : NumberedFrom(d, b) => NumberedFrom(d, b)' BY DEF NumberedFrom, Id
<1>4. AtMost(d, pos[d])' <=> AtMost(d, i)' BY DEF AtMost
<1>5. \A b : UpTo(d, pos[d], b)' <=> UpTo(d, i, b)' BY DEF UpTo
<1>6. ClientIds(d) BY DEF IdsInv
<1>7. QED BY <1>1, <1>2, <1>3, <1>4, <1>5, <1>6 DEF ClientIds

\* A step that issues nothing keeps ids in order if the client that takes it goes on
\* with ids it has not used.
LEMMA QuietIds ==
  ASSUME IdsInv, NEW c \in Clients, pos' = pos,
         \A t \in Topics : Issued(t)' \subseteq Issued(t),
         \A d \in Clients \ {c} : pc'[d] = pc[d] /\ outbox'[d] = outbox[d],
         \/ pc'[c] \in {"done", "aborted"}
         \/ pc'[c] = "second" /\ pc[c] = "start"
         \/ /\ pc[c] \in {"start", "second"} /\ NumberedFrom(c, 0)'
            /\ pc'[c] \in {"send", "raise", "attack"}
            /\ pc'[c] = "attack" => Len(outbox'[c]) = 1
  PROVE  IdsInv'
<1> PICK i : i = pos[c] OBVIOUS
<1>1. IssuedOnce' BY DEF IdsInv, IssuedOnce
<1>2. AtMost(c, i) => AtMost(c, i)' BY DEF AtMost
<1>3. UpTo(c, i, 0) => UpTo(c, i, 0)' BY DEF UpTo
<1>4. AtMost(c, pos[c])' <=> AtMost(c, i)' BY DEF AtMost
<1>5. UpTo(c, pos[c], 0)' <=> UpTo(c, i, 0)' BY DEF UpTo
<1>6. ClientIds(c) BY DEF IdsInv
<1>7. ClientIds(c)' BY <1>2, <1>3, <1>4, <1>5, <1>6 DEF ClientIds
<1>8. ASSUME NEW d \in Clients \ {c} PROVE ClientIds(d)' BY OthersIds
<1>9. QED BY <1>1, <1>7, <1>8 DEF IdsInv

\* While nothing lands or is given up on, nothing is issued.
LEMMA NothingIssued ==
  ASSUME TypeOK, log' = log, late' = late PROVE \A t \in Topics : Issued(t)' = Issued(t)
BY SameGrows DEF Issued

\* An operation that raises issues nothing.
LEMMA FailIds ==
  ASSUME Inv, IdsInv, NEW c \in Clients, Fail(c), late' = late PROVE IdsInv'
<1>1. /\ log' = log /\ pos' = pos /\ pc'[c] = "aborted"
      /\ \A d \in Clients \ {c} : pc'[d] = pc[d] /\ outbox'[d] = outbox[d]
  BY DEF Fail, Inv, TypeInv, TypeOK
<1>2. \A t \in Topics : Issued(t)' = Issued(t) BY <1>1, NothingIssued DEF Inv, TypeInv
<1>3. QED BY <1>1, <1>2, QuietIds

\* The message at the head of an outbox has the first id that is not used: once it is
\* issued, however often, ids are still in order.
LEMMA HeadIds ==
  ASSUME Inv, IdsInv, NEW c \in Clients, Sending(c), NEW b \in Nat,
         NEW i, i = pos[c], UpTo(c, i, b), NumberedFrom(c, b), NEW m, m = Head(outbox[c]),
         \A t \in Topics : \A e \in Issued(t)' : e \in Issued(t) \/ (t = m.topic /\ e = m.event)
  PROVE  /\ IssuedOnce' /\ AtMost(c, i)' /\ UpTo(c, i, b + 1)'
         /\ m.topic \in Topics /\ m.event.id = <<c, i, b + 1>>
<1> PICK s : s = outbox[c] OBVIOUS
<1>1. s \in Seq(Message) /\ s # << >> /\ i \in Nat /\ TypeOK
  BY DEF Inv, TypeInv, TypeOK, ClientsOK, ClientOK, Sending
<1>2. m = s[1] /\ 1 \in 1..Len(s) BY <1>1, HeadTailProperties, LenProperties, EmptySeq
<1>3. m.event.id = <<c, i, b + 1>> BY <1>2 DEF NumberedFrom, Id
<1>4. m \in Message /\ m.topic \in Topics BY <1>1, <1>2, NextMessage, MessageParts DEF Inv
<1>5. ASSUME NEW t \in Topics, NEW e \in Issued(t) PROVE e.id # m.event.id
  <2>1. SUFFICES ASSUME e.id[1] = c, e.id[2] = i PROVE e.id[3] # b + 1 BY <1>3
  <2>2. e.id[3] <= b BY <2>1 DEF UpTo
  <2>3. e.id[3] \in Nat BY <1>1, IssuedType DEF Ids
  <2>4. QED BY <2>2, <2>3
<1>6. IssuedOnce'
  <2>1. SUFFICES ASSUME NEW t1 \in Topics, NEW t2 \in Topics, NEW e \in Issued(t1)',
                        NEW f \in Issued(t2)', e.id = f.id
                 PROVE  t1 = t2 /\ e = f
    BY DEF IssuedOnce
  <2>2. CASE e \in Issued(t1) /\ f \in Issued(t2) BY <2>1, <2>2 DEF IdsInv, IssuedOnce
  <2>3. CASE e \in Issued(t1) /\ f = m.event BY <1>5, <2>1, <2>3
  <2>4. CASE f \in Issued(t2) /\ e = m.event BY <1>5, <2>1, <2>4
  <2>5. QED BY <2>2, <2>3, <2>4
<1>7. AtMost(c, i)'
  <2>1. AtMost(c, i) BY DEF IdsInv, ClientIds
  <2>2. i <= i BY <1>1
  <2>3. QED BY <1>3, <2>1, <2>2 DEF AtMost
<1>8. UpTo(c, i, b + 1)'
  <2>1. SUFFICES ASSUME NEW t \in Topics, NEW e \in Issued(t)', e.id[1] = c, e.id[2] = i
                 PROVE  e.id[3] <= b + 1
    BY DEF UpTo
  <2>2. CASE e \in Issued(t)
    <3>1. e.id[3] <= b BY <2>1, <2>2 DEF UpTo
    <3>2. e.id[3] \in Nat BY <1>1, <2>2, IssuedType DEF Ids
    <3>3. QED BY <3>1, <3>2
  <2>3. CASE e = m.event BY <1>3, <2>3
  <2>4. QED BY <2>2, <2>3
<1>9. QED BY <1>3, <1>4, <1>6, <1>7, <1>8

\* A client that sends numbers its messages on from those it has issued.
LEMMA SendingIds ==
  ASSUME IdsInv, NEW c \in Clients, Sending(c)
  PROVE  \E b \in Nat : /\ UpTo(c, pos[c], b) /\ NumberedFrom(c, b)
                        /\ pc[c] = "attack" => b = 0 /\ Len(outbox[c]) = 1
BY DEF IdsInv, ClientIds, Sending

\* The others' ids are not touched by what client c issues.
LEMMA OthersKeepIds ==
  ASSUME IdsInv, NEW c \in Clients, NEW m, m.event.id[1] = c,
         \A t \in Topics : \A e \in Issued(t)' : e \in Issued(t) \/ (t = m.topic /\ e = m.event),
         \A d \in Clients \ {c} : pc'[d] = pc[d] /\ pos'[d] = pos[d] /\ outbox'[d] = outbox[d]
  PROVE  \A d \in Clients \ {c} : ClientIds(d)'
BY OthersIds

\* A queue that is not empty holds one message or more.
LEMMA OneOrMore == \A n \in Nat : n > 0 => n = 1 \/ n > 1
OBVIOUS

\* A message sent leaves the client with the ids behind it, or with a new operation.
LEMMA SentIds ==
  ASSUME Inv, IdsInv, NEW c \in Clients, Sending(c), Sent(c), NEW m, m = Head(outbox[c]),
         \A t \in Topics : \A e \in Events(t)' : e \in Events(t) \/ (t = m.topic /\ e = m.event)
  PROVE  IdsInv'
<1> PICK i : i = pos[c] OBVIOUS
<1> PICK s : s = outbox[c] OBVIOUS
<1> PICK u : u = Tail(s) OBVIOUS
<1> PICK n : n = Len(s) OBVIOUS
<1>1. /\ s \in Seq(Message) /\ s # << >> /\ i \in Nat \ {0} /\ TypeOK
      /\ outbox'[c] = u /\ late' = late
      /\ \A d \in Clients \ {c} : pc'[d] = pc[d] /\ pos'[d] = pos[d] /\ outbox'[d] = outbox[d]
  BY DEF Inv, TypeInv, TypeOK, ClientsOK, ClientOK, Sending, Sent
<1>2. /\ n \in Nat /\ n > 0 /\ Len(u) = n - 1
      /\ \A j \in 1..(n - 1) : u[j] = s[j + 1]
  BY <1>1, HeadTailProperties, EmptySeq
<1>3. \A t \in Topics : \A e \in Issued(t)' : e \in Issued(t) \/ (t = m.topic /\ e = m.event)
  BY <1>1 DEF Issued
<1>4. PICK b \in Nat : /\ UpTo(c, i, b) /\ NumberedFrom(c, b)
                       /\ pc[c] = "attack" => b = 0 /\ Len(outbox[c]) = 1
  BY SendingIds
<1>5. /\ IssuedOnce' /\ AtMost(c, i)' /\ UpTo(c, i, b + 1)'
      /\ m.event.id = <<c, i, b + 1>>
  BY <1>3, <1>4, HeadIds
<1>6. ClientIds(c)'
  <2>1. CASE n > 1
    <3>1. pos' = pos /\ pc' = pc BY <2>1 DEF Sent
    <3>2. AtMost(c, pos[c])' /\ UpTo(c, pos[c], b + 1)' BY <1>5, <3>1 DEF AtMost, UpTo
    <3>3. NumberedFrom(c, b + 1)'
      <4>1. SUFFICES ASSUME NEW j \in 1..(n - 1) PROVE u[j].event.id = <<c, i, (b + 1) + j>>
        BY <1>1, <1>2, <3>1 DEF NumberedFrom, Id
      <4>2. j + 1 \in 1..n /\ b + (j + 1) = (b + 1) + j BY <1>2
      <4>3. s[j + 1].event.id = <<c, i, b + (j + 1)>> BY <1>4, <4>2 DEF NumberedFrom, Id
      <4>4. QED BY <1>2, <4>2, <4>3
    <3>4. pc[c] # "attack"
      <4>1. SUFFICES ASSUME pc[c] = "attack" PROVE FALSE OBVIOUS
      <4>2. Len(outbox[c]) = 1 BY <1>4, <4>1, Zenon
      <4>3. n = 1 BY <4>2
      <4>4. QED BY <2>1, <4>3
    <3>5. QED BY <3>1, <3>2, <3>3, <3>4 DEF ClientIds, Sending
  <2>2. CASE n = 1
    <3>1. \/ pc'[c] = "aborted" /\ pos'[c] = i
          \/ pc'[c] \in {"done", "start"} /\ pos'[c] = i + 1
      BY <2>2 DEF Sent, Inv, TypeInv, TypeOK
    <3>2. CASE pos'[c] = i
      <4>1. pc'[c] = "aborted" BY <1>1, <3>1, <3>2
      <4>2. AtMost(c, pos[c])' BY <1>5, <3>2 DEF AtMost
      <4>3. QED BY <4>1, <4>2 DEF ClientIds
    <3>3. CASE pos'[c] = i + 1
      <4>1. AtMost(c, i + 1)' /\ UpTo(c, i + 1, 0)'
        <5>1. ASSUME NEW t \in Topics, NEW e \in Issued(t)', e.id[1] = c
              PROVE  e.id[2] <= i + 1 /\ e.id[2] # i + 1
          <6>1. e.id[2] <= i BY <1>5, <5>1 DEF AtMost
          <6>2. e.id[2] \in Nat
            <7>1. CASE e \in Issued(t) BY <1>1, <7>1, IssuedType DEF Ids
            <7>2. CASE e = m.event BY <1>1, <1>5, <7>2
            <7>3. QED BY <1>3, <7>1, <7>2
          <6>3. QED BY <1>1, <6>1, <6>2
        <5>2. QED BY <5>1 DEF AtMost, UpTo
      <4>2. AtMost(c, pos[c])' /\ UpTo(c, pos[c], 0)' BY <3>3, <4>1 DEF AtMost, UpTo
      <4>3. pc'[c] \in {"done", "start"} BY <1>1, <3>1, <3>3
      <4>4. QED BY <4>2, <4>3 DEF ClientIds
    <3>4. QED BY <3>1, <3>2, <3>3
  <2>3. n \in Nat /\ n > 0 BY <1>2
  <2>4. n = 1 \/ n > 1 BY <2>3, OneOrMore, Zenon
  <2>5. QED BY <2>1, <2>2, <2>4
<1>7. \A d \in Clients \ {c} : ClientIds(d)' BY <1>1, <1>3, <1>5, OthersKeepIds
<1>8. QED BY <1>5, <1>6, <1>7 DEF IdsInv

-----------------------------------------------------------------------------
(* What has landed stays *)

\* Nothing that has landed is lost when topics grow.
LEMMA LandedStays ==
  ASSUME Grows
  PROVE  /\ \A id : Landed(id) => Landed(id)'
         /\ \A m : Sourced(m) => Sourced(m)'
         /\ \A c, i : AuditLanded(c, i) => AuditLanded(c, i)'
<1>1. \A t \in Topics : Events(t) \subseteq Events(t)' BY DEF Grows
<1>2. ASSUME NEW id, Landed(id) PROVE Landed(id)' BY <1>1, <1>2 DEF Landed
<1>3. ASSUME NEW m, Sourced(m) PROVE Sourced(m)'
  BY <1>2, <1>3 DEF Sourced
<1>4. ASSUME NEW c, NEW i, AuditLanded(c, i) PROVE AuditLanded(c, i)'
  BY <1>1, <1>4 DEF AuditLanded, Topics
<1>5. QED BY <1>2, <1>3, <1>4

\* A client that is neither moved nor has its outbox changed keeps its part.
LEMMA OthersKeep ==
  ASSUME Grows, NEW d \in Clients, ClientAudits(d),
         pc'[d] = pc[d], pos'[d] = pos[d], outbox'[d] = outbox[d]
  PROVE  ClientAudits(d)'
<1>1. /\ \A id : Landed(id) => Landed(id)'
      /\ \A m : Sourced(m) => Sourced(m)'
      /\ \A c, i : AuditLanded(c, i) => AuditLanded(c, i)'
  BY LandedStays
<1>2. Op(d)' = Op(d) /\ Sending(d)' = Sending(d) BY DEF Op, Sending
<1>3. \A k : Id(d, k)' = Id(d, k) BY DEF Id
<1>4. Recorded(d)'
  <2>1. PICK p : p = pos[d] OBVIOUS
  <2>2. AuditLanded(d, p) => AuditLanded(d, p)' BY <1>1
  <2>3. AuditComing(d)' <=> AuditComing(d) BY DEF AuditComing
  <2>4. AuditLanded(d, pos[d])' <=> AuditLanded(d, p)' BY <2>1 DEF AuditLanded
  <2>5. QED BY <1>2, <2>1, <2>2, <2>3, <2>4 DEF ClientAudits, Recorded
<1>5. FirstsComing(d)'
  <2>1. SUFFICES ASSUME Sending(d), NEW k \in 1..LeastEvents(Op(d))
                 PROVE  Landed(Id(d, k))' \/ Coming(d, Id(d, k))'
    BY <1>2 DEF FirstsComing, LeastEvents
  <2>2. PICK id : id = Id(d, k) OBVIOUS
  <2>3. Landed(id) \/ Coming(d, id) BY <2>1, <2>2 DEF ClientAudits, FirstsComing
  <2>4. Landed(id)' \/ Coming(d, id)' BY <1>1, <2>3 DEF Coming
  <2>5. QED BY <1>3, <2>2, <2>4 DEF Landed, Coming
<1>6. FirstsLanded(d)' BY <1>1 DEF ClientAudits, FirstsLanded
<1>7. InTurn(d)'
  <2>1. SUFFICES ASSUME NEW j \in 1..Len(outbox[d])
                 PROVE  \/ Sourced(outbox[d][j])'
                        \/ \E i \in 1..(j - 1) : outbox[d][i].event.id = outbox[d][j].event.source
    BY DEF InTurn
  <2>2. PICK m : m = outbox[d][j] OBVIOUS
  <2>3. Sourced(m) => Sourced(m)' BY <1>1
  <2>4. Sourced(m)' <=> Sourced(outbox[d][j])' BY <2>2 DEF Sourced, Landed
  <2>5. QED BY <2>1, <2>2, <2>3, <2>4 DEF ClientAudits, InTurn
<1>8. QED BY <1>4, <1>5, <1>6, <1>7 DEF ClientAudits

\* A new outbox is in turn if every message of it is.
LEMMA NewOutboxInTurn ==
  ASSUME NEW c \in Clients, NEW w, outbox'[c] = w,
         \A j \in 1..Len(w) : \A m :
           m = w[j] => Sourced(m)' \/ \E i \in 1..(j - 1) : w[i].event.id = m.event.source
  PROVE  InTurn(c)'
<1>1. SUFFICES ASSUME NEW j \in 1..Len(w)
               PROVE  \/ Sourced(outbox[c][j])'
                      \/ \E i \in 1..(j - 1) : w[i].event.id = w[j].event.source
  BY DEF InTurn
<1>2. PICK m : m = w[j] OBVIOUS
<1>3. Sourced(m)' \/ \E i \in 1..(j - 1) : w[i].event.id = m.event.source BY <1>1, <1>2
<1>4. Sourced(m)' <=> Sourced(outbox[c][j])' BY <1>2 DEF Sourced, Landed
<1>5. QED BY <1>2, <1>3, <1>4

\* A step that publishes nothing keeps the invariant if the client that takes it
\* keeps its part and what it gives up on has its source.
LEMMA QuietAudits ==
  ASSUME Inv, AuditInv, NEW c \in Clients, log' = log, pos' = pos,
         \A d \in Clients \ {c} : pc'[d] = pc[d] /\ outbox'[d] = outbox[d],
         Recorded(c)', FirstsComing(c)', InTurn(c)',
         \A m \in late' : Sourced(m), IdsInv'
  PROVE  AuditInv'
<1>1. Grows /\ \A t \in Topics : Events(t)' = Events(t) BY SameGrows DEF Inv, TypeInv
<1>2. /\ \A id : Landed(id) => Landed(id)'
      /\ \A m : Sourced(m) => Sourced(m)'
      /\ \A d, i : AuditLanded(d, i) => AuditLanded(d, i)'
  BY <1>1, LandedStays
<1>3. AuditNeverAhead' BY <1>1 DEF AuditInv, AuditNeverAhead, Topics
<1>4. CompletedOpsAreAudited' BY <1>1 DEF AuditInv, CompletedOpsAreAudited, Topics
<1>5. ASSUME NEW d \in Clients PROVE ClientAudits(d)'
  <2>1. CASE d = c
    <3>1. FirstsLanded(c)' BY <1>2 DEF AuditInv, ClientAudits, FirstsLanded
    <3>2. QED BY <2>1, <3>1 DEF ClientAudits
  <2>2. CASE d # c BY <1>1, <2>2, OthersKeep DEF AuditInv
  <2>3. QED BY <2>1, <2>2
<1>6. \A m \in late' : Sourced(m)' BY <1>2
<1>7. QED BY <1>3, <1>4, <1>5, <1>6 DEF AuditInv

\* A client that raises has nothing to publish any more.
LEMMA FailAudits ==
  ASSUME Inv, AuditInv, NEW c \in Clients, Fail(c), \A m \in late' : Sourced(m), IdsInv'
  PROVE  AuditInv'
<1>1. /\ log' = log /\ pos' = pos /\ pc'[c] = "aborted" /\ outbox'[c] = << >>
      /\ \A d \in Clients \ {c} : pc'[d] = pc[d] /\ outbox'[d] = outbox[d]
  BY DEF Fail, Inv, TypeInv, TypeOK
<1>2. Recorded(c)' /\ FirstsComing(c)' /\ InTurn(c)'
  BY <1>1 DEF Recorded, FirstsComing, InTurn, Sending
<1>3. QED BY <1>1, <1>2, QuietAudits

\* An operation that raises, and nothing else happens.
LEMMA RaiseAudits ==
  ASSUME Inv, AuditInv, NEW c \in Clients, Fail(c), late' = late PROVE AuditInv'
BY FailAudits, FailIds DEF AuditInv

\* The messages of an operation: numbered in turn, an audit message last, every
\* audit message after what it is about.
WellAudited(c, msgs) ==
  /\ LeastEvents(Op(c)) <= Len(msgs)
  /\ \A k \in 1..Len(msgs) : msgs[k].event.id = Id(c, k)
  /\ Op(c).op # "direct_write" => msgs # << >> /\ msgs[Len(msgs)].topic = Audit
  /\ \A j \in 1..Len(msgs) :
       Sourced(msgs[j]) \/ \E i \in 1..(j - 1) : Id(c, i) = msgs[j].event.source

\* The number of events an operation must have is a number.
LEMMA LeastEventsType == \A o : LeastEvents(o) \in Nat
BY FixtureType, LenProperties DEF LeastEvents

\* An operation whose messages are well audited keeps the invariant when it turns
\* to publishing them.
LEMMA PublishAudits ==
  ASSUME Inv, AuditInv, NEW c \in Clients, pc[c] \in {"start", "second"}, Inv', NEW msgs,
         NEW then \in {"send", "raise", "attack"}, then = "attack" => Len(msgs) = 1,
         WellAudited(c, msgs), Publish(c, msgs, then)
  PROVE  AuditInv'
<1>1. /\ log' = log /\ pos' = pos /\ late' = late /\ outbox'[c] = msgs /\ pc'[c] = then
      /\ \A d \in Clients \ {c} : pc'[d] = pc[d] /\ outbox'[d] = outbox[d]
  BY DEF Publish, Inv, TypeInv, TypeOK
<1>2. msgs \in Seq(Message)
  BY <1>1 DEF Inv, TypeInv, TypeOK
<1>3. Len(msgs) \in Nat /\ (msgs # << >> => Len(msgs) \in 1..Len(msgs))
  BY <1>2, LenProperties, EmptySeq
<1>4. Op(c)' = Op(c) /\ \A k : Id(c, k)' = Id(c, k) BY <1>1 DEF Op, Id
<1>5. Recorded(c)'
  <2>1. SUFFICES ASSUME Op(c).op # "direct_write" PROVE AuditComing(c)' BY <1>4 DEF Recorded
  <2>2. msgs[Len(msgs)].topic = Audit /\ Len(msgs) \in 1..Len(msgs)
    BY <1>3, <2>1 DEF WellAudited
  <2>3. msgs[Len(msgs)].event.id = Id(c, Len(msgs)) BY <2>2 DEF WellAudited
  <2>4. IsAuditOf(msgs[Len(msgs)].event, c, pos[c]) BY <2>3 DEF IsAuditOf, Id
  <2>5. QED BY <1>1, <2>2, <2>4 DEF AuditComing, IsAuditOf
<1>6. FirstsComing(c)'
  <2>1. SUFFICES ASSUME NEW k \in 1..LeastEvents(Op(c)) PROVE Coming(c, Id(c, k))'
    BY <1>4 DEF FirstsComing, LeastEvents
  <2>2. k \in 1..Len(msgs) BY <1>3, LeastEventsType DEF WellAudited
  <2>3. msgs[k].event.id = Id(c, k) BY <2>2 DEF WellAudited
  <2>4. QED BY <1>1, <1>4, <2>2, <2>3 DEF Coming
<1>7. InTurn(c)'
  <2>1. SUFFICES ASSUME NEW j \in 1..Len(msgs)
                 PROVE  \/ Sourced(msgs[j])'
                        \/ \E i \in 1..(j - 1) : msgs[i].event.id = msgs[j].event.source
    BY <1>1 DEF InTurn, Sourced, Landed
  <2>2. CASE Sourced(msgs[j])
    <3>1. Grows BY <1>1, SameGrows DEF Inv, TypeInv
    <3>2. QED BY <2>2, <3>1, LandedStays
  <2>3. ASSUME NEW i \in 1..(j - 1), Id(c, i) = msgs[j].event.source
        PROVE  msgs[i].event.id = msgs[j].event.source
    <3>1. i \in 1..Len(msgs) BY <1>3
    <3>2. QED BY <2>3, <3>1 DEF WellAudited
  <2>4. QED BY <2>2, <2>3 DEF WellAudited
<1>8. IdsInv'
  <2>1. NumberedFrom(c, 0)'
    <3>1. \A k \in 1..Len(msgs) : msgs[k].event.id = Id(c, k) BY DEF WellAudited
    <3>2. \A k \in Nat : Id(c, 0 + k) = Id(c, k) OBVIOUS
    <3>3. QED BY <1>1, <1>3, <1>4, <3>1, <3>2 DEF NumberedFrom
  <2>2. \A t \in Topics : Issued(t)' \subseteq Issued(t)
    BY <1>1, NothingIssued DEF Inv, TypeInv
  <2>3. QED BY <1>1, <2>1, <2>2, QuietIds DEF AuditInv
<1>9. QED BY <1>1, <1>5, <1>6, <1>7, <1>8, QuietAudits DEF AuditInv

\* What an audit message of a client is about has its place: the run, what has
\* landed, or the client's event k, if that is before it.
LEMMA AuditSource ==
  ASSUME NEW c, NEW k, NEW p, NEW source,
         source = Op(c).run \/ Landed(source)
  PROVE  Sourced(AuditMsg(c, k, p, source))
BY DEF Sourced, AuditMsg, Msg

\* n messages that are not audit messages, and an audit message of what has landed.
LEMMA SeveralAudited ==
  ASSUME NEW c \in Clients, NEW n \in Nat, NEW f, f = [k \in 1..n |-> f[k]],
         \A k \in 1..n : f[k].topic # Audit /\ f[k].event.id = Id(c, k),
         NEW p, NEW source, source = Op(c).run \/ Landed(source),
         LeastEvents(Op(c)) <= n + 1
  PROVE  WellAudited(c, Append(f, AuditMsg(c, n + 1, p, source)))
<1> DEFINE a == AuditMsg(c, n + 1, p, source)
           S == {f[k] : k \in 1..n} \cup {a}
           s == Append(f, a)
<1>1. Sourced(a) /\ a.topic = Audit /\ a.event.id = Id(c, n + 1)
  BY AuditSource DEF AuditMsg, Msg, Topics
<1> HIDE DEF a
<1>2. f \in [1..n -> S] BY DEF S
<1>3. a \in S OBVIOUS
<1> HIDE DEF S
<1>4. f \in Seq(S) /\ Len(f) = n BY <1>2, FunctionSeq
<1>5. /\ Len(s) = n + 1 /\ s[n + 1] = a /\ s \in Seq(S)
      /\ \A i \in 1..n : s[i] = f[i]
  BY <1>3, <1>4, AppendProperties
<1>6. s # << >> BY <1>5, EmptySeq
<1> HIDE DEF s
<1>7. \A k \in 1..(n + 1) : s[k].event.id = Id(c, k) /\ Sourced(s[k])
  <2>1. ASSUME NEW k \in 1..n PROVE s[k].event.id = Id(c, k) /\ Sourced(s[k])
    BY <1>5 DEF Sourced
  <2>2. QED BY <1>1, <1>5, <2>1
<1>8. WellAudited(c, s) BY <1>1, <1>5, <1>6, <1>7 DEF WellAudited
<1>9. QED BY <1>8 DEF s, a

\* Every operation but the preparation promises no event beyond its first.
LEMMA FewEvents ==
  ASSUME NEW o, o.op # "prepare" PROVE LeastEvents(o) <= 1
BY DEF LeastEvents

\* An audit message on its own.
LEMMA OneAudited ==
  ASSUME NEW c \in Clients, Op(c).op # "prepare",
         NEW p, NEW source, source = Op(c).run \/ Landed(source)
  PROVE  WellAudited(c, <<AuditMsg(c, 1, p, source)>>)
<1> DEFINE a == AuditMsg(c, 1, p, source)
<1>1. Sourced(a) /\ a.topic = Audit /\ a.event.id = Id(c, 1)
  BY AuditSource DEF AuditMsg, Msg, Topics
<1>2. LeastEvents(Op(c)) <= 1 BY FewEvents
<1> HIDE DEF a
<1>3. Len(<<a>>) = 1 /\ <<a>>[1] = a /\ <<a>> # << >> OBVIOUS
<1> DEFINE s == <<a>>
<1> HIDE DEF s
<1>4. WellAudited(c, s) BY <1>1, <1>2, <1>3 DEF WellAudited, s
<1>5. QED BY <1>4 DEF s, a

\* An event and the audit message about it.
LEMMA TwoAudited ==
  ASSUME NEW c \in Clients, Op(c).op # "prepare",
         NEW x, x.topic # Audit, x.event.id = Id(c, 1),
         NEW p, NEW source, source = Id(c, 1)
  PROVE  WellAudited(c, <<x, AuditMsg(c, 2, p, source)>>)
<1> DEFINE a == AuditMsg(c, 2, p, source)
           s == <<x, a>>
<1>1. a.topic = Audit /\ a.event.id = Id(c, 2) /\ a.event.source = Id(c, 1)
  BY DEF AuditMsg, Msg, Topics
<1>2. LeastEvents(Op(c)) <= 2
  BY FewEvents, LeastEventsType
<1>3. Sourced(x) BY DEF Sourced
<1> HIDE DEF a
<1>4. Len(s) = 2 /\ s[1] = x /\ s[2] = a /\ s # << >> OBVIOUS
<1> HIDE DEF s
<1>5. \A k \in 1..2 : s[k].event.id = Id(c, k) BY <1>1, <1>4
<1>6. \A j \in 1..2 : Sourced(s[j]) \/ \E i \in 1..(j - 1) : Id(c, i) = s[j].event.source
  <2>1. Sourced(s[1]) BY <1>3, <1>4
  <2>2. Id(c, 1) = s[2].event.source /\ 1 \in 1..(2 - 1) BY <1>1, <1>4
  <2>3. QED BY <2>1, <2>2
<1>7. WellAudited(c, s) BY <1>1, <1>2, <1>4, <1>5, <1>6 DEF WellAudited
<1>8. QED BY <1>7 DEF s, a

-----------------------------------------------------------------------------
(* One lemma per operation: it keeps the audit invariant *)

\* seed_evidence_events audits the run last.
LEMMA SeedAudits ==
  ASSUME Inv, AuditInv, NEW c \in Clients, Seed(c) PROVE AuditInv'
<1> DEFINE n == Len(Library)
           item(k) == [id |-> Id(c, k), run |-> Op(c).run, evidence |-> Library[k]]
           f == [k \in 1..n |-> Msg("svc-evidence-gateway", Internal, item(k))]
           a == AuditMsg(c, n + 1, "svc-evidence-gateway", Op(c).run)
<1>1. pc[c] = "start" /\ Op(c).op = "seed" /\ n \in Nat BY FixtureType, LenProperties DEF Seed, Doing
<1>2. \A k \in 1..n : f[k].topic # Audit /\ f[k].event.id = Id(c, k) BY DEF Msg
<1>3. f = [k \in 1..n |-> f[k]] OBVIOUS
<1>4. LeastEvents(Op(c)) <= n + 1 BY <1>1, FewEvents, LeastEventsType
<1>5. WellAudited(c, Append(f, a))
  <2> HIDE DEF f, n
  <2>1. QED BY <1>1, <1>2, <1>3, <1>4, SeveralAudited
<1>6. Publish(c, Append(f, a), "send") BY DEF Seed
<1>7. Inv' BY SeedInv
<1>8. QED
  <2> HIDE DEF f, a
  <2>1. QED BY <1>1, <1>5, <1>6, <1>7, PublishAudits

\* ingest_questionnaire_event audits the questionnaire after it has sent it.
LEMMA IngestAudits ==
  ASSUME Inv, AuditInv, NEW c \in Clients, Ingest(c) PROVE AuditInv'
<1> DEFINE x == Msg("svc-ingest", Received, [id |-> Id(c, 1), run |-> Op(c).run])
           a == AuditMsg(c, 2, "svc-ingest", Id(c, 1))
<1>1. pc[c] = "start" /\ Op(c).op = "ingest" /\ Publish(c, <<x, a>>, "send") BY DEF Ingest, Doing
<1>2. x.topic # Audit /\ x.event.id = Id(c, 1) BY DEF Msg
<1>3. WellAudited(c, <<x, a>>)
  <2> HIDE DEF x
  <2>1. QED BY <1>1, <1>2, TwoAudited
<1>4. Inv' BY IngestInv
<1>5. QED
  <2> HIDE DEF x, a
  <2>1. QED BY <1>1, <1>3, <1>4, PublishAudits

\* An event read from a topic has landed.
LEMMA ReadHasLanded ==
  ASSUME Inv, NEW t \in Topics, NEW e \in Events(t) PROVE Landed(e.id)
BY DEF Landed

\* prepare_questions_for_run audits the questionnaire it has read.
LEMMA PrepareAudits ==
  ASSUME Inv, AuditInv, NEW c \in Clients, Prepare(c) PROVE AuditInv'
<1>1. pc[c] = "start" /\ TypeOK /\ Op(c).op = "prepare" BY DEF Inv, TypeInv, Prepare, Doing
<1>2. Inv' BY PrepareInv
<1>3. PICK n \in ReadUpTo("svc-preparer", Received) :
         \/ Fail(c) /\ UNCHANGED <<late, faults>>
         \/ \E e \in Latest(Received, n, Op(c)) : Publish(c, PreparedMsgs(c, e), "send")
  BY DEF Prepare
<1>4. CASE Fail(c) /\ UNCHANGED <<late, faults>> BY <1>4, RaiseAudits
<1>5. ASSUME NEW e \in Latest(Received, n, Op(c)), Publish(c, PreparedMsgs(c, e), "send")
      PROVE  AuditInv'
  <2> DEFINE q == Len(Questionnaire)
             question(k) == [id |-> Id(c, k), run |-> e.run, question |-> Questionnaire[k]]
             f == [k \in 1..q |-> Msg("svc-preparer", Prepared, question(k))]
             a == AuditMsg(c, q + 1, "svc-preparer", e.id)
  <2>1. Landed(e.id) BY <1>1, LatestIs, ReadHasLanded DEF Topics
  <2>2. q \in Nat /\ LeastEvents(Op(c)) <= q + 1
    BY <1>1, FixtureType, LenProperties DEF LeastEvents
  <2>3. \A k \in 1..q : f[k].topic # Audit /\ f[k].event.id = Id(c, k) BY DEF Msg
  <2>4. f = [k \in 1..q |-> f[k]] OBVIOUS
  <2>5. WellAudited(c, Append(f, a))
    <3> HIDE DEF f, q
    <3>1. QED BY <2>1, <2>2, <2>3, <2>4, SeveralAudited
  <2>6. Publish(c, Append(f, a), "send") BY <1>5 DEF PreparedMsgs
  <2> HIDE DEF f, a
  <2>7. QED BY <1>1, <1>2, <2>5, <2>6, PublishAudits
<1>6. QED BY <1>3, <1>4, <1>5

\* The first reads of the gateway, the drafters and the guard publish nothing.
LEMMA TakeAudits ==
  ASSUME Inv, AuditInv, NEW c \in Clients, TakeQuestion(c) \/ TakeDraft(c) PROVE AuditInv'
<1>1. CASE Fail(c) /\ UNCHANGED <<late, faults>> BY <1>1, RaiseAudits
<1>2. CASE \E e : Keep(c, e)
  <2>1. /\ log' = log /\ pos' = pos /\ outbox' = outbox /\ late' = late
        /\ pc'[c] = "second" /\ \A d \in Clients \ {c} : pc'[d] = pc[d]
    BY <1>2 DEF Keep, Inv, TypeInv, TypeOK
  <2>2. Recorded(c)' /\ FirstsComing(c)' BY <2>1 DEF Recorded, FirstsComing, Sending
  <2>3. InTurn(c)'
    <3>1. \A t \in Topics : Events(t)' = Events(t) BY <2>1, SameGrows DEF Inv, TypeInv
    <3>2. QED BY <2>1, <3>1 DEF AuditInv, ClientAudits, InTurn, Sourced, Landed
  <2>4. IdsInv'
    <3>1. \A t \in Topics : Issued(t)' \subseteq Issued(t)
      BY <2>1, NothingIssued DEF Inv, TypeInv
    <3>2. pc[c] = "start" BY DEF TakeQuestion, TakeDraft, Doing
    <3>3. QED BY <2>1, <3>1, <3>2, QuietIds DEF AuditInv
  <2>5. QED BY <2>1, <2>2, <2>3, <2>4, QuietAudits DEF AuditInv
<1>3. QED BY <1>1, <1>2 DEF TakeQuestion, TakeDraft, TakeLatest

\* produce_ai_safe_evidence_for_question audits the question it has read.
LEMMA ReleaseAudits ==
  ASSUME Inv, AuditInv, NEW c \in Clients, ReleaseEvidence(c) PROVE AuditInv'
<1>1. pc[c] = "second" /\ Op(c).op = "evidence" BY DEF ReleaseEvidence, Second
<1>2. Inv' BY ReleaseInv
<1>3. taken[c] \in Events(Prepared) BY <1>1, SecondHolds DEF TakenTopic
<1>4. Landed(taken[c].id) BY <1>3, ReadHasLanded DEF Topics
<1>5. CASE Fail(c) /\ UNCHANGED <<late, faults>> BY <1>5, RaiseAudits
<1>6. ASSUME NEW items \in SetToSeqs(Releasable(Selected[Op(c).question])),
             Publish(c, ReleaseMsgs(c, items), "send")
      PROVE  AuditInv'
  <2> DEFINE k == Len(items)
             f == [i \in 1..k |-> SafeMsg(c, i, items[i])]
             a == AuditMsg(c, k + 1, "svc-evidence-gateway", taken[c].id)
  <2>1. Releasable(Selected[Op(c).question]) \subseteq Evidence
    <3>1. Op(c).question \in Questions BY <1>1, SecondHolds
    <3>2. QED BY <3>1, FixtureType DEF Releasable
  <2>2. k \in Nat BY <2>1, ItemsType
  <2>3. \A i \in 1..k : f[i].topic # Audit /\ f[i].event.id = Id(c, i) BY DEF SafeMsg, Msg
  <2>4. f = [i \in 1..k |-> f[i]] OBVIOUS
  <2>5. LeastEvents(Op(c)) <= k + 1 BY <1>1, <2>2, FewEvents, LeastEventsType
  <2>6. WellAudited(c, Append(f, a))
    <3> HIDE DEF f, k
    <3>1. QED BY <1>4, <2>2, <2>3, <2>4, <2>5, SeveralAudited
  <2>7. Publish(c, Append(f, a), "send") BY <1>6 DEF ReleaseMsgs
  <2> HIDE DEF f, a
  <2>8. QED BY <1>1, <1>2, <2>6, <2>7, PublishAudits
<1>7. QED BY <1>5, <1>6 DEF ReleaseEvidence

\* A drafter audits its proposal after it has sent it.
LEMMA DraftAudited ==
  ASSUME NEW c \in Clients, Op(c).op # "prepare", NEW q, NEW a
  PROVE  WellAudited(c, Draft(c, 1, q, a))
<1> DEFINE e == [id |-> Id(c, 1), run |-> q.run, question |-> q.question,
                 answer |-> a.answer, cites |-> a.cites, text |-> a.text]
           x == Msg("svc-ai-drafter", Proposed, e)
<1>1. x.topic # Audit /\ x.event.id = Id(c, 1) BY DEF Msg
<1>2. Draft(c, 1, q, a) = <<x, AuditMsg(c, 2, "svc-ai-drafter", Id(c, 1))>> BY DEF Draft
<1>3. QED
  <2> HIDE DEF x
  <2>1. QED BY <1>1, <1>2, TwoAudited

\* draft_answer_for_question does so.
LEMMA DraftAnswerAudits ==
  ASSUME Inv, AuditInv, NEW c \in Clients, DraftAnswer(c) PROVE AuditInv'
<1>1. pc[c] = "second" /\ Op(c).op = "draft" /\ Inv' BY DraftAnswerInv DEF DraftAnswer, Second
<1>2. CASE Fail(c) /\ UNCHANGED <<late, faults>> BY <1>2, RaiseAudits
<1>3. ASSUME NEW a, Publish(c, Draft(c, 1, taken[c], a), "send") PROVE AuditInv'
  BY <1>1, <1>3, DraftAudited, PublishAudits
<1>4. QED BY <1>2, <1>3 DEF DraftAnswer

\* So does _produce_attack_draft.
LEMMA AttackDraftAudits ==
  ASSUME Inv, AuditInv, NEW c \in Clients, AttackDraft(c) PROVE AuditInv'
<1>1. pc[c] = "start" /\ Op(c).op = "attack" /\ Inv' BY AttackDraftInv DEF AttackDraft, Doing
<1>2. Publish(c, Draft(c, 1, Op(c), Op(c).draft), "send") BY DEF AttackDraft
<1>3. QED BY <1>1, <1>2, DraftAudited, PublishAudits

\* The tool calls of the agent: every one is audited as about the question, and a
\* proposal that follows is audited after it.
LEMMA ToolCallsAudited ==
  ASSUME NEW c \in Clients, Op(c).op = "agentic", NEW run, Len(run) \in Nat, Len(run) > 0,
         run[Len(run)] = AuditStep, Landed(taken[c].id)
  PROVE  /\ WellAudited(c, ToolCalls(c, run))
         /\ \A q, a : WellAudited(c, ToolCalls(c, run) \o Draft(c, Len(run) + 1, q, a))
<1> DEFINE m == Len(run)
           f == ToolCalls(c, run)
           S == {f[k] : k \in 1..m}
<1>1. m \in Nat /\ m > 0 /\ f = [k \in 1..m |-> f[k]] /\ LeastEvents(Op(c)) <= 1
  BY FewEvents DEF ToolCalls
<1>2. ASSUME NEW k \in 1..m
      PROVE  f[k].event.id = Id(c, k) /\ Sourced(f[k]) /\ (k = m => f[k].topic = Audit)
  <2>1. CASE run[k] = AuditStep
    <3>1. f[k] = AuditMsg(c, k, "svc-ai-drafter", taken[c].id) BY <2>1 DEF ToolCalls
    <3>2. Sourced(f[k]) BY <3>1, AuditSource
    <3>3. QED BY <3>1, <3>2 DEF AuditMsg, Msg
  <2>2. CASE run[k] # AuditStep
    <3>1. f[k] = SafeMsg(c, k, run[k][1]) BY <2>2 DEF ToolCalls
    <3>2. k # m BY <2>2
    <3>3. QED BY <3>1, <3>2 DEF SafeMsg, Msg, Sourced
  <2>3. QED BY <2>1, <2>2
<1>3. f \in Seq(S) /\ Len(f) = m
  <2>1. f \in [1..m -> S] BY <1>1
  <2> HIDE DEF f, S, m
  <2>2. QED BY <1>1, <2>1, FunctionSeq
<1>4. f # << >>
  <2> HIDE DEF f, S, m
  <2>1. QED BY <1>1, <1>3, EmptySeq
<1>5. WellAudited(c, f)
  <2> HIDE DEF f, S, m
  <2>1. QED BY <1>1, <1>2, <1>3, <1>4, LeastEventsType DEF WellAudited
<1>6. ASSUME NEW q, NEW a PROVE WellAudited(c, f \o Draft(c, m + 1, q, a))
  <2> DEFINE e == [id |-> Id(c, m + 1), run |-> q.run, question |-> q.question,
                   answer |-> a.answer, cites |-> a.cites, text |-> a.text]
             x == Msg("svc-ai-drafter", Proposed, e)
             y == AuditMsg(c, m + 2, "svc-ai-drafter", Id(c, m + 1))
             d == <<x, y>>
             s == f \o d
             U == S \cup {x, y}
  <2>1. Draft(c, m + 1, q, a) = d BY <1>1 DEF Draft
  <2>2. x.topic # Audit /\ x.event.id = Id(c, m + 1) BY DEF Msg
  <2>3. y.topic = Audit /\ y.event.id = Id(c, m + 2) /\ y.event.source = Id(c, m + 1)
    BY DEF AuditMsg, Msg
  <2> HIDE DEF x, y, f, S, m
  <2>4. f \in Seq(U) /\ d \in Seq(U) /\ Len(d) = 2 /\ d[1] = x /\ d[2] = y
    <3>1. S \subseteq U OBVIOUS
    <3>2. x \in U /\ y \in U OBVIOUS
    <3> HIDE DEF U
    <3>3. f \in [1..Len(f) -> U] BY <1>3, <3>1, LenProperties, ElementOfSeq
    <3>4. f \in Seq(U) BY <1>1, <1>3, <3>3, FunctionSeq
    <3>5. QED BY <3>2, <3>4
  <2>5. /\ Len(s) = m + 2 /\ s \in Seq(U)
        /\ \A i \in 1..(m + 2) : s[i] = IF i <= m THEN f[i] ELSE d[i - m]
    <3> HIDE DEF d, U, e
    <3>1. /\ Len(s) = Len(f) + Len(d) /\ s \in Seq(U)
          /\ \A i \in 1..(Len(f) + Len(d)) :
               s[i] = IF i <= Len(f) THEN f[i] ELSE d[i - Len(f)]
      BY <2>4, ConcatProperties
    <3> HIDE DEF s
    <3>2. QED BY <1>1, <1>3, <2>4, <3>1
  <2>6. s[m + 1] = x /\ s[m + 2] = y /\ \A i \in 1..m : s[i] = f[i]
    BY <1>1, <2>4, <2>5
  <2> HIDE DEF s, d
  <2>7. s # << >> BY <1>1, <2>5, EmptySeq
  <2>8. \A k \in 1..(m + 2) : s[k].event.id = Id(c, k)
    <3>1. \A k \in 1..m : s[k].event.id = Id(c, k) BY <1>2, <2>6
    <3>2. QED BY <1>1, <2>2, <2>3, <2>6, <3>1
  <2>9. ASSUME NEW j \in 1..(m + 2)
        PROVE  Sourced(s[j]) \/ \E i \in 1..(j - 1) : Id(c, i) = s[j].event.source
    <3>1. CASE j \in 1..m BY <1>2, <2>6, <3>1 DEF Sourced
    <3>2. CASE j = m + 1 BY <2>2, <2>6, <3>2 DEF Sourced
    <3>3. CASE j = m + 2
      <4>1. m + 1 \in 1..(j - 1) BY <1>1, <3>3
      <4>2. QED BY <2>3, <2>6, <3>3, <4>1
    <3>4. QED BY <1>1, <3>1, <3>2, <3>3
  <2>10. WellAudited(c, s)
    BY <1>1, <2>3, <2>5, <2>6, <2>7, <2>8, <2>9, LeastEventsType DEF WellAudited
  <2>11. QED BY <2>1, <2>10 DEF s
<1>7. QED
  <2> HIDE DEF f
  <2>1. QED BY <1>5, <1>6 DEF f

\* draft_answer_agentically_for_question audits every tool call and its proposal.
LEMMA DraftAgenticallyAudits ==
  ASSUME Inv, AuditInv, NEW c \in Clients, DraftAgentically(c) PROVE AuditInv'
<1>1. pc[c] = "second" /\ Op(c).op = "agentic" BY DEF DraftAgentically, Second
<1>2. Inv' BY DraftAgenticallyInv
<1>3. taken[c] \in Events(Prepared) BY <1>1, SecondHolds DEF TakenTopic
<1>4. Landed(taken[c].id) BY <1>3, ReadHasLanded DEF Topics
<1>5. PICK n \in ReadUpTo("svc-evidence-gateway", Internal) :
         \E run \in ToolRuns(Releasable(LibrarySeen(n, Op(c))), MaxCalls) :
           \/ Fail(c) /\ UNCHANGED <<late, faults>>
           \/ run # << >> /\ Publish(c, ToolCalls(c, run), "raise")
           \/ \E a : run # << >> /\ Publish(c, ToolCalls(c, run) \o Draft(c, Len(run) + 1, taken[c], a), "send")
  BY DEF DraftAgentically
<1>6. PICK run \in ToolRuns(Releasable(LibrarySeen(n, Op(c))), MaxCalls) :
           \/ Fail(c) /\ UNCHANGED <<late, faults>>
           \/ run # << >> /\ Publish(c, ToolCalls(c, run), "raise")
           \/ \E a : run # << >> /\ Publish(c, ToolCalls(c, run) \o Draft(c, Len(run) + 1, taken[c], a), "send")
  BY <1>5
<1>7. /\ Len(run) \in Nat
      /\ run # << >> => Len(run) > 0 /\ run[Len(run)] = AuditStep
  BY RunSteps
<1>8. CASE Fail(c) /\ UNCHANGED <<late, faults>> BY <1>2, <1>8, RaiseAudits
<1>9. ASSUME run # << >>
      PROVE  /\ WellAudited(c, ToolCalls(c, run))
             /\ \A q, a : WellAudited(c, ToolCalls(c, run) \o Draft(c, Len(run) + 1, q, a))
  BY <1>1, <1>4, <1>7, <1>9, ToolCallsAudited
<1>10. QED BY <1>1, <1>2, <1>6, <1>8, <1>9, PublishAudits

\* guard_draft_for_question audits its verdict, whichever it is.
LEMMA GuardAudits ==
  ASSUME Inv, AuditInv, NEW c \in Clients, GuardDraft(c) PROVE AuditInv'
<1>1. pc[c] = "second" /\ Op(c).op = "guard" /\ Inv' BY GuardInv DEF GuardDraft, Second
<1>2. PICK n \in ReadUpTo("svc-policy-guard", AiSafe) :
         LET v == Verdict(c, taken[c], SafeSeen(n, Op(c)))
         IN Publish(c, <<v, AuditMsg(c, 2, "svc-policy-guard", Id(c, 1))>>,
                    IF Wanted(Op(c), v.topic) THEN "send" ELSE "raise")
  BY DEF GuardDraft
<1> DEFINE v == Verdict(c, taken[c], SafeSeen(n, Op(c)))
           then == IF Wanted(Op(c), v.topic) THEN "send" ELSE "raise"
<1>3. v.topic # Audit /\ v.event.id = Id(c, 1) BY DEF Verdict, Msg
<1>4. /\ Publish(c, <<v, AuditMsg(c, 2, "svc-policy-guard", Id(c, 1))>>, then)
      /\ then \in {"send", "raise"}
  BY <1>2
<1> HIDE DEF v, then
<1>5. QED BY <1>1, <1>3, <1>4, TwoAudited, PublishAudits

\* review_accepted_answer audits the review after it has sent it.
LEMMA ReviewAudits ==
  ASSUME Inv, AuditInv, NEW c \in Clients, Review(c) PROVE AuditInv'
<1>1. pc[c] = "start" /\ Op(c).op = "review" /\ Inv' BY ReviewInv DEF Review, Doing
<1>2. CASE Fail(c) /\ UNCHANGED <<late, faults>> BY <1>2, RaiseAudits
<1>3. ASSUME NEW e, Publish(c, ReviewMsgs(c, e), "send") PROVE AuditInv'
  <2> DEFINE v == [id |-> Id(c, 1), run |-> e.run, question |-> e.question,
                   decision |-> Op(c).decision, cites |-> e.cites]
             x == Msg("svc-review-export", Reviewed, v)
  <2>1. x.topic # Audit /\ x.event.id = Id(c, 1) BY DEF Msg
  <2>2. Publish(c, <<x, AuditMsg(c, 2, "svc-review-export", Id(c, 1))>>, "send")
    BY <1>3 DEF ReviewMsgs
  <2> HIDE DEF x
  <2>3. QED BY <1>1, <2>1, <2>2, TwoAudited, PublishAudits
<1>4. QED BY <1>2, <1>3 DEF Review

\* The first events of the operations a client is past have landed.
LEMMA EarlierHasLanded ==
  ASSUME AuditInv, NEW c \in Clients, NEW i \in 1..(pos[c] - 1),
         NEW k \in 1..LeastEvents(Script[c][i])
  PROVE  Landed(<<c, i, k>>)
BY DEF AuditInv, ClientAudits, FirstsLanded

\* export_reviewed_response audits the response; a scenario whose export is refused
\* audits the guard's verdict.
LEMMA ExportAudits ==
  ASSUME Inv, AuditInv, NEW c \in Clients, Export(c) PROVE AuditInv'
<1>1. TypeInv /\ pc[c] = "start" /\ Op(c).op = "export" BY DEF Inv, Export, Doing
<1>2. Inv' BY ExportInv
<1>3. PICK n \in ReadUpTo("svc-review-export", Reviewed) :
         LET exportable == Exportable(n, Op(c).run)
         IN \/ Fail(c) /\ UNCHANGED <<late, faults>>
            \/ /\ Op(c).want = "refused"
               /\ Publish(c, <<AuditMsg(c, 1, "svc-review-export", <<c, pos[c] - 1, 1>>)>>, "send")
            \/ Publish(c, ReadyMsgs(c, exportable), IF Op(c).want = "any" THEN "send" ELSE "raise")
  BY DEF Export
<1>4. CASE Fail(c) /\ UNCHANGED <<late, faults>> BY <1>4, RaiseAudits
<1>5. CASE /\ Op(c).want = "refused"
           /\ Publish(c, <<AuditMsg(c, 1, "svc-review-export", <<c, pos[c] - 1, 1>>)>>, "send")
  <2>1. pos[c] \in 1..Len(Script[c]) BY <1>1, OpType, ScriptType
  <2>2. pos[c] > 1 /\ LeastEvents(Script[c][pos[c] - 1]) > 0
    BY <1>1, <1>5, <2>1, ScriptRefersBack DEF Op
  <2>3. pos[c] - 1 \in 1..(pos[c] - 1) BY <2>1, <2>2
  <2>4. 1 \in 1..LeastEvents(Script[c][pos[c] - 1]) BY <2>2, LeastEventsType
  <2>5. Landed(<<c, pos[c] - 1, 1>>) BY <2>3, <2>4, EarlierHasLanded
  <2>6. QED BY <1>1, <1>2, <1>5, <2>5, OneAudited, PublishAudits
<1>6. CASE Publish(c, ReadyMsgs(c, Exportable(n, Op(c).run)),
                   IF Op(c).want = "any" THEN "send" ELSE "raise")
  <2> DEFINE r == [id |-> Id(c, 1), run |-> Op(c).run,
                   reviewed |-> {e.id : e \in Exportable(n, Op(c).run)}]
             x == Msg("svc-review-export", Ready, r)
             then == IF Op(c).want = "any" THEN "send" ELSE "raise"
  <2>1. x.topic # Audit /\ x.event.id = Id(c, 1) BY DEF Msg
  <2>2. /\ Publish(c, <<x, AuditMsg(c, 2, "svc-review-export", Id(c, 1))>>, then)
        /\ then \in {"send", "raise"}
    BY <1>6 DEF ReadyMsgs
  <2> HIDE DEF x, then
  <2>3. QED BY <1>1, <1>2, <2>1, <2>2, TwoAudited, PublishAudits
<1>7. QED BY <1>3, <1>4, <1>5, <1>6

\* A scenario notes an event of an operation it is past.
LEMMA NoteAudits ==
  ASSUME Inv, AuditInv, NEW c \in Clients, Note(c) PROVE AuditInv'
<1>1. TypeInv /\ pc[c] = "start" /\ Op(c).op = "note" BY DEF Inv, Note, Doing
<1>2. Inv' BY NoteInv
<1>3. pos[c] \in 1..Len(Script[c]) BY <1>1, OpType, ScriptType
<1>4. /\ Op(c).back \in 1..(pos[c] - 1)
      /\ Op(c).nth \in 1..LeastEvents(Script[c][pos[c] - Op(c).back])
  BY <1>1, <1>3, ScriptRefersBack DEF Op
<1>5. pos[c] - Op(c).back \in 1..(pos[c] - 1) BY <1>3, <1>4
<1>6. Landed(<<c, pos[c] - Op(c).back, Op(c).nth>>) BY <1>4, <1>5, EarlierHasLanded
<1>7. Publish(c, <<AuditMsg(c, 1, Op(c).principal, <<c, pos[c] - Op(c).back, Op(c).nth>>)>>, "send")
  BY DEF Note
<1> DEFINE source == <<c, pos[c] - Op(c).back, Op(c).nth>>
<1> HIDE DEF source
<1>8. WellAudited(c, <<AuditMsg(c, 1, Op(c).principal, source)>>)
  BY <1>1, <1>6, OneAudited DEF source
<1>9. QED BY <1>1, <1>2, <1>7, <1>8, PublishAudits DEF source

\* run_malformed_draft audits the rejection after it has sent it and the alert.
LEMMA MalformedAudits ==
  ASSUME Inv, AuditInv, NEW c \in Clients, Malformed(c) PROVE AuditInv'
<1>1. pc[c] = "start" /\ Op(c).op = "malformed" /\ Inv' BY MalformedInv DEF Malformed, Doing
<1> DEFINE r == [id |-> Id(c, 1), run |-> Op(c).run, question |-> Op(c).question,
                 draft |-> NoId, reasons |-> {"MALFORMED_EVENT", "FORBIDDEN_WORKFLOW_FIELD"}]
           l == [id |-> Id(c, 2), run |-> Op(c).run, resource |-> Proposed]
           x == Msg("svc-policy-guard", Rejected, r)
           y == Msg("svc-policy-guard", Alert, l)
           z == AuditMsg(c, 3, "svc-policy-guard", Id(c, 1))
           s == <<x, y, z>>
<1>2. x.topic # Audit /\ x.event.id = Id(c, 1) BY DEF Msg
<1>3. y.topic # Audit /\ y.event.id = Id(c, 2) BY DEF Msg
<1>4. z.topic = Audit /\ z.event.id = Id(c, 3) /\ z.event.source = Id(c, 1)
  BY DEF AuditMsg, Msg
<1>5. Publish(c, s, "send") BY DEF Malformed
<1> HIDE DEF x, y, z
<1>6. Len(s) = 3 /\ s[1] = x /\ s[2] = y /\ s[3] = z /\ s # << >> OBVIOUS
<1> HIDE DEF s
<1>7. \A k \in 1..3 : s[k].event.id = Id(c, k) BY <1>2, <1>3, <1>4, <1>6
<1>8. \A j \in 1..3 : Sourced(s[j]) \/ \E i \in 1..(j - 1) : Id(c, i) = s[j].event.source
  <2>1. Sourced(s[1]) /\ Sourced(s[2]) BY <1>2, <1>3, <1>6 DEF Sourced
  <2>2. Id(c, 1) = s[3].event.source /\ 1 \in 1..(3 - 1) BY <1>4, <1>6
  <2>3. QED BY <2>1, <2>2
<1>9. LeastEvents(Op(c)) <= 3 BY <1>1, FewEvents, LeastEventsType
<1>10. WellAudited(c, s) BY <1>4, <1>6, <1>7, <1>8, <1>9 DEF WellAudited
<1>11. QED BY <1>1, <1>5, <1>10, PublishAudits

\* A direct write that is let through leaves no audit event, and none is promised.
LEMMA DirectWriteAudits ==
  ASSUME Inv, AuditInv, NEW c \in Clients, DirectWrite(c) PROVE AuditInv'
<1>1. TypeInv /\ pc[c] = "start" /\ Op(c).op = "direct_write" /\ Inv'
  BY DirectWriteInv DEF Inv, DirectWrite, Doing
<1>2. Op(c).target \in {Ready, Reviewed} BY <1>1, OpType DEF IsOperation, SimpleOps
<1> DEFINE x == Msg("svc-ai-drafter", Op(c).target, Forged(c))
           s == <<x>>
<1>3. x.topic # Audit /\ x.event.id = Id(c, 1) BY <1>2 DEF Msg, Forged
<1>4. Publish(c, s, "attack") BY DEF DirectWrite
<1> HIDE DEF x
<1>5. Len(s) = 1 /\ s[1] = x OBVIOUS
<1> HIDE DEF s
<1>6. LeastEvents(Op(c)) <= 1 BY <1>1, FewEvents
<1>7. Sourced(x) BY <1>3 DEF Sourced
<1>8. WellAudited(c, s) BY <1>1, <1>3, <1>5, <1>6, <1>7 DEF WellAudited
<1>9. QED BY <1>1, <1>4, <1>5, <1>8, PublishAudits

-----------------------------------------------------------------------------
(* Producing keeps the audit invariant *)

\* A topic to which a message with a source was added holds what audit events are about.
LEMMA TimelineGrows ==
  ASSUME AuditInv, Grows, NEW m, Sourced(m),
         \A t \in Topics : \A e \in Events(t)' : e \in Events(t) \/ (t = m.topic /\ e = m.event)
  PROVE  AuditNeverAhead'
<1>1. Sourced(m)' /\ \A id : Landed(id) => Landed(id)' BY LandedStays
<1>2. SUFFICES ASSUME NEW a \in Events(Audit)' PROVE a.source = a.run \/ Landed(a.source)'
  BY DEF AuditNeverAhead, Landed
<1>3. CASE a \in Events(Audit)
  <2>1. a.source = a.run \/ Landed(a.source) BY <1>3 DEF AuditInv, AuditNeverAhead, Landed
  <2>2. QED BY <1>1, <2>1
<1>4. CASE m.topic = Audit /\ a = m.event BY <1>1, <1>4 DEF Sourced
<1>5. QED BY <1>2, <1>3, <1>4 DEF Topics

\* The message at the head of an outbox lands: those behind it are as they were, and
\* what was to come has come or is still to come.
LEMMA SentAudits ==
  ASSUME Inv, AuditInv, NEW c \in Clients, Sending(c), Sent(c), Grows,
         NEW m, m = Head(outbox[c]), m.topic \in Topics, m.event \in Events(m.topic)',
         \A t \in Topics : \A e \in Events(t)' : e \in Events(t) \/ (t = m.topic /\ e = m.event)
  PROVE  AuditInv'
<1> PICK s : s = outbox[c] OBVIOUS
<1> PICK i0 : i0 = pos[c] OBVIOUS
<1> PICK u : u = Tail(s) OBVIOUS
<1> PICK n : n = Len(s) OBVIOUS
<1>1. /\ s \in Seq(Message) /\ s # << >> /\ i0 \in Nat \ {0}
      /\ outbox'[c] = u /\ late' = late
      /\ \A d \in Clients \ {c} : pc'[d] = pc[d] /\ pos'[d] = pos[d] /\ outbox'[d] = outbox[d]
  BY DEF Inv, TypeInv, TypeOK, ClientsOK, ClientOK, Sending, Sent
<1>2. /\ n \in Nat /\ n > 0 /\ s[1] = m /\ Len(u) = n - 1
      /\ \A i \in 1..(n - 1) : u[i] = s[i + 1]
  BY <1>1, HeadTailProperties, EmptySeq
<1>3. /\ \A id : Landed(id) => Landed(id)'
      /\ \A x : Sourced(x) => Sourced(x)'
      /\ \A d, i : AuditLanded(d, i) => AuditLanded(d, i)'
  BY LandedStays
<1>4. Recorded(c) /\ FirstsComing(c) /\ FirstsLanded(c) /\ InTurn(c)
  BY DEF AuditInv, ClientAudits
<1>5. Sourced(m)
  <2>1. \/ Sourced(s[1])
        \/ \E i \in 1..(1 - 1) : s[i].event.id = s[1].event.source
    BY <1>2, <1>4 DEF InTurn
  <2>2. QED BY <1>2, <2>1
<1>6. AuditNeverAhead' BY <1>5, TimelineGrows
<1>7. Landed(m.event.id)' BY DEF Landed
<1>8. ASSUME NEW id, Landed(id) \/ Coming(c, id)
      PROVE  Landed(id)' \/ \E j \in 1..(n - 1) : u[j].event.id = id
  <2>1. CASE Landed(id) BY <1>3, <2>1
  <2>2. ASSUME NEW j \in 1..n, s[j].event.id = id
        PROVE  Landed(id)' \/ \E k \in 1..(n - 1) : u[k].event.id = id
    <3>1. CASE j = 1 BY <1>2, <1>7, <2>2, <3>1
    <3>2. CASE j # 1
      <4>1. j - 1 \in 1..(n - 1) /\ u[j - 1] = s[j] BY <1>2, <3>2
      <4>2. QED BY <2>2, <4>1
    <3>3. QED BY <3>1, <3>2
  <2>3. QED BY <1>8, <2>1, <2>2 DEF Coming
<1>9. ASSUME Op(c).op # "direct_write"
      PROVE  \/ AuditLanded(c, i0)'
             \/ \E j \in 1..(n - 1) : u[j].topic = Audit /\ IsAuditOf(u[j].event, c, i0)
  <2>1. AuditLanded(c, i0) \/ \E j \in 1..n : s[j].topic = Audit /\ IsAuditOf(s[j].event, c, i0)
    BY <1>4, <1>9 DEF Recorded, AuditComing
  <2>2. CASE AuditLanded(c, i0) BY <1>3, <2>2
  <2>3. ASSUME NEW j \in 1..n, s[j].topic = Audit, IsAuditOf(s[j].event, c, i0)
        PROVE  \/ AuditLanded(c, i0)'
               \/ \E k \in 1..(n - 1) : u[k].topic = Audit /\ IsAuditOf(u[k].event, c, i0)
    <3>1. CASE j = 1
      <4>1. m.topic = Audit /\ IsAuditOf(m.event, c, i0) BY <1>2, <2>3, <3>1
      <4>2. m.event \in Events(Audit)' BY <4>1
      <4>3. QED BY <4>1, <4>2 DEF AuditLanded
    <3>2. CASE j # 1
      <4>1. j - 1 \in 1..(n - 1) /\ u[j - 1] = s[j] BY <1>2, <3>2
      <4>2. QED BY <2>3, <4>1
    <3>3. QED BY <3>1, <3>2
  <2>4. QED BY <2>1, <2>2, <2>3
<1>10. IdsInv' BY SentIds DEF AuditInv
<1>11. InTurn(c)'
  <2>1. SUFFICES ASSUME NEW j \in 1..(n - 1), NEW x, x = u[j]
                 PROVE  Sourced(x)' \/ \E i \in 1..(j - 1) : u[i].event.id = x.event.source
    <3>1. outbox'[c] = u /\ Len(u) = n - 1 BY <1>1, <1>2
    <3>2. 1..Len(u) = 1..(n - 1) BY <3>1
    <3>3. ASSUME NEW j \in 1..Len(u), NEW x, x = u[j]
          PROVE  Sourced(x)' \/ \E i \in 1..(j - 1) : u[i].event.id = x.event.source
      BY <2>1, <3>2, <3>3
    <3>4. QED BY <3>1, <3>3, NewOutboxInTurn
  <2>2. j + 1 \in 1..n /\ x = s[j + 1] BY <1>2, <2>1
  <2>3. CASE Sourced(s[j + 1]) BY <1>3, <2>2, <2>3
  <2>4. ASSUME NEW i \in 1..j, s[i].event.id = s[j + 1].event.source
        PROVE  Sourced(x)' \/ \E k \in 1..(j - 1) : u[k].event.id = x.event.source
    <3>1. CASE i = 1
      <4>1. Landed(x.event.source)' BY <1>2, <1>7, <2>2, <2>4, <3>1
      <4>2. QED BY <4>1 DEF Sourced
    <3>2. CASE i # 1
      <4>1. i - 1 \in 1..(j - 1) /\ u[i - 1] = s[i] BY <1>2, <3>2
      <4>2. QED BY <2>2, <2>4, <4>1
    <3>3. QED BY <3>1, <3>2
  <2>5. \/ Sourced(s[j + 1])
        \/ \E i \in 1..((j + 1) - 1) : s[i].event.id = s[j + 1].event.source
    BY <1>4, <2>2 DEF InTurn
  <2>6. QED BY <2>3, <2>4, <2>5
<1>12. CASE n > 1
  <2>1. pos' = pos /\ pc' = pc BY <1>12 DEF Sent
  <2>2. Op(c)' = Op(c) /\ Sending(c)' /\ \A k : Id(c, k)' = Id(c, k)
    BY <2>1 DEF Op, Sending, Id
  <2>3. Recorded(c)'
    <3>1. SUFFICES ASSUME Op(c).op # "direct_write" PROVE AuditLanded(c, pos[c])' \/ AuditComing(c)'
      BY <2>2 DEF Recorded
    <3>2. CASE AuditLanded(c, i0)' BY <2>1, <3>2 DEF AuditLanded
    <3>3. CASE \E j \in 1..(n - 1) : u[j].topic = Audit /\ IsAuditOf(u[j].event, c, i0)
      BY <1>1, <1>2, <2>1, <3>3 DEF AuditComing, IsAuditOf
    <3>4. QED BY <1>9, <3>1, <3>2, <3>3
  <2>4. FirstsComing(c)'
    <3>1. SUFFICES ASSUME NEW k \in 1..LeastEvents(Op(c))
                   PROVE  Landed(Id(c, k))' \/ Coming(c, Id(c, k))'
      BY <2>2 DEF FirstsComing, LeastEvents
    <3>2. PICK id : id = Id(c, k) OBVIOUS
    <3>3. Landed(id) \/ Coming(c, id) BY <1>4, <3>1, <3>2 DEF FirstsComing
    <3>4. Landed(id)' \/ \E j \in 1..(n - 1) : u[j].event.id = id BY <1>8, <3>3
    <3>5. QED BY <1>1, <1>2, <2>2, <3>2, <3>4 DEF Landed, Coming
  <2>5. FirstsLanded(c)' BY <1>3, <1>4, <2>1 DEF FirstsLanded
  <2>6. CompletedOpsAreAudited'
    <3>1. Events(Audit) \subseteq Events(Audit)' BY DEF Grows, Topics
    <3>2. QED BY <2>1, <3>1 DEF AuditInv, CompletedOpsAreAudited
  <2>7. ASSUME NEW d \in Clients PROVE ClientAudits(d)'
    <3>1. CASE d = c BY <1>11, <2>3, <2>4, <2>5, <3>1 DEF ClientAudits
    <3>2. CASE d # c BY <1>1, <3>2, OthersKeep DEF AuditInv
    <3>3. QED BY <3>1, <3>2
  <2>8. \A x \in late' : Sourced(x)' BY <1>1, <1>3 DEF AuditInv
  <2>9. QED BY <1>10, <1>6, <2>6, <2>7, <2>8 DEF AuditInv
<1>13. CASE n = 1
  <2>1. n = 1 BY <1>13
  <2>2. ~Sending(c)' /\ pos'[c] \in {i0, i0 + 1}
    BY <1>13 DEF Sent, Inv, TypeInv, TypeOK, Sending
  <2>3. Recorded(c)' /\ FirstsComing(c)' BY <2>2 DEF Recorded, FirstsComing
  <2>4. FirstsLanded(c)'
    <3>1. SUFFICES ASSUME NEW i \in 1..(pos'[c] - 1), NEW k \in 1..LeastEvents(Script[c][i])
                   PROVE  Landed(<<c, i, k>>)'
      BY DEF FirstsLanded, LeastEvents
    <3>2. CASE i \in 1..(i0 - 1)
      <4>1. Landed(<<c, i, k>>) BY <1>4, <3>2 DEF FirstsLanded
      <4>2. QED BY <1>3, <4>1
    <3>3. CASE i = i0
      <4>1. k \in 1..LeastEvents(Op(c)) /\ Id(c, k) = <<c, i, k>> BY <3>3 DEF Op, Id
      <4>2. Landed(<<c, i, k>>) \/ Coming(c, <<c, i, k>>) BY <1>4, <4>1 DEF FirstsComing
      <4>3. QED BY <1>8, <2>1, <4>2
    <3>4. QED BY <1>1, <2>2, <3>2, <3>3
  <2>5. CompletedOpsAreAudited'
    <3>1. SUFFICES ASSUME NEW d \in Clients, NEW i \in 1..(pos'[d] - 1),
                          Script[d][i].op # "direct_write"
                   PROVE  AuditLanded(d, i)'
      BY DEF CompletedOpsAreAudited, AuditLanded, IsAuditOf
    <3>2. CASE i \in 1..(pos[d] - 1)
      <4>1. AuditLanded(d, i)
        BY <3>1, <3>2 DEF AuditInv, CompletedOpsAreAudited, AuditLanded, IsAuditOf
      <4>2. QED BY <1>3, <4>1
    <3>3. CASE d = c /\ i = i0
      <4>1. Op(c).op # "direct_write" BY <3>1, <3>3 DEF Op
      <4>2. QED BY <1>9, <2>1, <3>3, <4>1
    <3>4. QED BY <1>1, <2>2, <3>1, <3>2, <3>3
  <2>6. ASSUME NEW d \in Clients PROVE ClientAudits(d)'
    <3>1. CASE d = c BY <1>11, <2>3, <2>4, <3>1 DEF ClientAudits
    <3>2. CASE d # c BY <1>1, <3>2, OthersKeep DEF AuditInv
    <3>3. QED BY <3>1, <3>2
  <2>7. \A x \in late' : Sourced(x)' BY <1>1, <1>3 DEF AuditInv
  <2>8. QED BY <1>10, <1>6, <2>5, <2>6, <2>7 DEF AuditInv
<1>14. n \in Nat /\ n > 0 BY <1>2
<1>15. n = 1 \/ n > 1 BY <1>14, OneOrMore, Zenon
<1>16. QED BY <1>12, <1>13, <1>15

\* One copy of the message at the head of an outbox lands, or two.
LEMMA LandsAudits ==
  ASSUME Inv, AuditInv, NEW c \in Clients, Sending(c), Sent(c),
         NEW m, m = Head(outbox[c]),
         NEW r \in {Append(log[m.topic], m.event), Append(Append(log[m.topic], m.event), m.event)},
         log' = [log EXCEPT ![m.topic] = r]
  PROVE  AuditInv'
<1>1. TypeInv /\ TypeOK BY DEF Inv, TypeInv
<1>2. m \in Message /\ m.topic \in Topics BY <1>1, NextMessage, MessageParts
<1>3. /\ Grows /\ m.event \in Events(m.topic)'
      /\ \A t \in Topics : \A e \in Events(t)' : e \in Events(t) \/ (t = m.topic /\ e = m.event)
  BY <1>1, <1>2, AppendGrows
<1>4. QED BY <1>2, <1>3, SentAudits

\* A message sent, once or twice, keeps the invariant.
LEMMA SendAudits ==
  ASSUME Inv, AuditInv, NEW c \in Clients, Send(c) \/ SendTwice(c) PROVE AuditInv'
<1> DEFINE m == Head(outbox[c])
           once == Append(log[m.topic], m.event)
           twice == Append(Append(log[m.topic], m.event), m.event)
<1>1. CASE Send(c)
  <2>1. Sending(c) /\ Sent(c) /\ log' = [log EXCEPT ![m.topic] = once] BY <1>1 DEF Send
  <2>2. QED BY <2>1, LandsAudits
<1>2. CASE SendTwice(c)
  <2>1. Sending(c) /\ Sent(c) /\ log' = [log EXCEPT ![m.topic] = twice] BY <1>2 DEF SendTwice
  <2>2. QED BY <2>1, LandsAudits
<1>3. QED BY <1>1, <1>2

\* A produce call that raises keeps the invariant, if what is given up on has its
\* source: the client ends, or the attack alerts and audits the alert after it.
LEMMA KafkaErrorAudits ==
  ASSUME Inv, AuditInv, NEW c \in Clients, Sending(c), KafkaError(c),
         \A m \in late' : Sourced(m), NEW m, m = Head(outbox[c]),
         \A x \in late' : x \in late \/ x = m
  PROVE  AuditInv'
<1>1. /\ IdsInv /\ log' = log /\ pos' = pos
      /\ \A d \in Clients \ {c} : pc'[d] = pc[d] /\ pos'[d] = pos[d] /\ outbox'[d] = outbox[d]
  BY DEF AuditInv, KafkaError, Fail, Inv, TypeInv, TypeOK
<1> PICK i : i = pos[c] OBVIOUS
<1>2. \A t \in Topics : \A e \in Issued(t)' : e \in Issued(t) \/ (t = m.topic /\ e = m.event)
  <2>1. \A t \in Topics : Events(t)' = Events(t) BY <1>1, SameGrows DEF Inv, TypeInv
  <2>2. QED BY <2>1 DEF Issued
<1>3. PICK b \in Nat : /\ UpTo(c, i, b) /\ NumberedFrom(c, b)
                       /\ pc[c] = "attack" => b = 0 /\ Len(outbox[c]) = 1
  BY <1>1, SendingIds
<1>4. /\ IssuedOnce' /\ AtMost(c, i)' /\ UpTo(c, i, b + 1)'
      /\ m.event.id = <<c, i, b + 1>>
  BY <1>1, <1>2, <1>3, HeadIds
<1>5. \A d \in Clients \ {c} : ClientIds(d)' BY <1>1, <1>2, <1>4, OthersKeepIds
<1>6. AtMost(c, pos[c])' /\ UpTo(c, pos[c], b + 1)' BY <1>1, <1>4 DEF AtMost, UpTo
<1>7. CASE pc[c] # "attack" /\ Fail(c)
  <2>1. pc'[c] = "aborted" BY <1>7 DEF Fail, Inv, TypeInv, TypeOK
  <2>2. ClientIds(c)' BY <1>6, <2>1 DEF ClientIds
  <2>3. IdsInv' BY <1>4, <1>5, <2>2 DEF IdsInv
  <2>4. QED BY <1>7, <2>3, FailAudits
<1>8. CASE pc[c] = "attack"
  <2> DEFINE l == [id |-> Id(c, 2), run |-> Op(c).run, resource |-> Op(c).target]
             x == Msg("svc-policy-guard", Alert, l)
             y == AuditMsg(c, 3, "svc-policy-guard", Id(c, 2))
             s == <<x, y>>
  <2>1. Op(c).op = "direct_write" BY <1>8 DEF Inv, TypeInv, ClientsOK, ClientOK
  <2>2. /\ log' = log /\ pos' = pos /\ outbox'[c] = s /\ pc'[c] = "send"
        /\ \A d \in Clients \ {c} : pc'[d] = pc[d] /\ outbox'[d] = outbox[d]
    BY <1>8 DEF KafkaError, Fail, Inv, TypeInv, TypeOK
  <2>3. /\ x.topic # Audit /\ x.event.id = Id(c, 2) /\ y.event.source = Id(c, 2)
        /\ y.event.id = Id(c, 3)
    BY DEF AuditMsg, Msg
  <2> HIDE DEF x, y
  <2>4. Len(s) = 2 /\ s[1] = x /\ s[2] = y OBVIOUS
  <2> HIDE DEF s
  <2>5. Op(c)' = Op(c) BY <2>2 DEF Op
  <2>6. Recorded(c)' BY <2>1, <2>5 DEF Recorded
  <2>7. FirstsComing(c)'
    <3>1. LeastEvents(Op(c)) = 0 BY <2>1 DEF LeastEvents
    <3>2. LeastEvents(Op(c))' = 0 BY <2>5, <3>1 DEF LeastEvents
    <3>3. QED BY <3>2 DEF FirstsComing
  <2>8. InTurn(c)'
    <3>0. PICK w : w = s OBVIOUS
    <3>1. outbox'[c] = w /\ Len(w) = 2 BY <2>2, <2>4, <3>0
    <3>2. ASSUME NEW j \in 1..2, NEW z, z = w[j]
          PROVE  Sourced(z)' \/ \E k \in 1..(j - 1) : w[k].event.id = z.event.source
      <4>1. CASE j = 1
        <5>1. z = x BY <2>4, <3>0, <3>2, <4>1
        <5>2. QED BY <2>3, <5>1 DEF Sourced
      <4>2. CASE j = 2
        <5>1. w[1].event.id = z.event.source BY <2>3, <2>4, <3>0, <3>2, <4>2
        <5>2. 1 \in 1..(j - 1) BY <4>2
        <5>3. QED BY <5>1, <5>2
      <4>3. QED BY <4>1, <4>2
    <3>3. \A j \in 1..Len(w) : \A z :
            z = w[j] => Sourced(z)' \/ \E k \in 1..(j - 1) : w[k].event.id = z.event.source
      BY <3>1, <3>2
    <3>4. QED BY <3>1, <3>3, NewOutboxInTurn
  <2>9. ClientIds(c)'
    <3>1. b = 0 BY <1>8, <1>3
    <3>2. UpTo(c, pos[c], 1)' BY <1>6, <3>1
    <3>3. NumberedFrom(c, 1)'
      <4>1. Id(c, 2)' = Id(c, 2) /\ Id(c, 3)' = Id(c, 3) BY <2>2 DEF Id
      <4>2. s[1].event.id = Id(c, 1 + 1) /\ s[2].event.id = Id(c, 1 + 2) BY <2>3, <2>4
      <4>3. QED BY <2>2, <2>4, <4>2 DEF NumberedFrom, Id
    <3>4. QED BY <1>6, <2>2, <3>2, <3>3 DEF ClientIds
  <2>10. IdsInv' BY <1>4, <1>5, <2>9 DEF IdsInv
  <2>11. QED BY <2>2, <2>6, <2>7, <2>8, <2>10, QuietAudits
<1>9. QED BY <1>7, <1>8 DEF KafkaError

\* A denial keeps the invariant.
LEMMA DeniedAudits ==
  ASSUME Inv, AuditInv, NEW c \in Clients, Denied(c) PROVE AuditInv'
BY KafkaErrorAudits DEF Denied, AuditInv

\* So does a timeout: what the head of an outbox is about was sent before it.
LEMMA TimeOutAudits ==
  ASSUME Inv, AuditInv, NEW c \in Clients, TimeOut(c) PROVE AuditInv'
<1> PICK s : s = outbox[c] OBVIOUS
<1>1. Sending(c) /\ KafkaError(c) /\ late' = late \cup {Head(s)} BY DEF TimeOut
<1>2. s \in Seq(Message) /\ s # << >>
  BY <1>1 DEF Inv, TypeInv, TypeOK, ClientsOK, ClientOK
<1>3. Head(s) = s[1] /\ 1 \in 1..Len(s) BY <1>2, HeadTailProperties, LenProperties, EmptySeq
<1>4. Sourced(s[1]) \/ \E i \in 1..(1 - 1) : s[i].event.id = s[1].event.source
  BY <1>3 DEF AuditInv, ClientAudits, InTurn
<1>5. Sourced(Head(s)) BY <1>3, <1>4
<1>6. /\ \A m \in late' : Sourced(m)
      /\ \A m \in late' : m \in late \/ m = Head(s)
  BY <1>1, <1>5 DEF AuditInv
<1>7. QED BY <1>1, <1>6, KafkaErrorAudits

\* A client that dies keeps the invariant.
LEMMA AbortAudits ==
  ASSUME Inv, AuditInv, NEW c \in Clients, Abort(c) PROVE AuditInv'
BY RaiseAudits DEF Abort

\* A message that lands late is about something that landed before it was given up.
LEMMA LandLateAudits ==
  ASSUME Inv, AuditInv, NEW m \in late, LandLate(m) PROVE AuditInv'
<1>1. m \in Message /\ Sourced(m) BY DEF Inv, TypeInv, TypeOK, AuditInv
<1> DEFINE r == Append(log[m.topic], m.event)
<1>2. /\ r \in {Append(log[m.topic], m.event), Append(Append(log[m.topic], m.event), m.event)}
      /\ log' = [log EXCEPT ![m.topic] = r]
  BY DEF LandLate
<1> HIDE DEF r
<1>3. /\ Grows
      /\ \A t \in Topics : \A e \in Events(t)' : e \in Events(t) \/ (t = m.topic /\ e = m.event)
  BY <1>1, <1>2, AppendGrows DEF Inv, TypeInv
<1>4. late' \subseteq late /\ UNCHANGED <<pos, pc, taken, outbox, faults>> BY DEF LandLate
<1>5. AuditNeverAhead' BY <1>1, <1>3, TimelineGrows
<1>6. CompletedOpsAreAudited'
  <2>1. Events(Audit) \subseteq Events(Audit)' BY <1>3 DEF Grows, Topics
  <2>2. QED BY <1>4, <2>1 DEF AuditInv, CompletedOpsAreAudited
<1>7. ASSUME NEW d \in Clients PROVE ClientAudits(d)' BY <1>3, <1>4, OthersKeep DEF AuditInv
<1>8. \A x \in late' : Sourced(x)' BY <1>3, <1>4, LandedStays DEF AuditInv
<1>9. IdsInv'
  <2>1. \A t \in Topics : Issued(t)' \subseteq Issued(t) BY <1>3, <1>4 DEF Issued
  <2>2. IssuedOnce' BY <2>1 DEF AuditInv, IdsInv, IssuedOnce
  <2>3. \A d \in Clients : ClientIds(d)' BY <1>4, <2>1, OthersIds DEF AuditInv
  <2>4. QED BY <2>2, <2>3 DEF IdsInv
<1>10. QED BY <1>5, <1>6, <1>7, <1>8, <1>9 DEF AuditInv

-----------------------------------------------------------------------------
(* The theorems *)

\* The audit invariant holds before any client has begun.
LEMMA InitAudits == Init => AuditInv
<1> SUFFICES ASSUME Init PROVE AuditInv OBVIOUS
<1>1. /\ \A t \in Topics : Events(t) = {}
      /\ \A c \in Clients : pos[c] = 1 /\ pc[c] = "start" /\ outbox[c] = << >>
      /\ late = {}
  BY DEF Init, Events
<1>2. AuditNeverAhead /\ CompletedOpsAreAudited
  BY <1>1 DEF AuditNeverAhead, CompletedOpsAreAudited, Topics
<1>3. ASSUME NEW c \in Clients PROVE ClientAudits(c)
  BY <1>1 DEF ClientAudits, Recorded, FirstsComing, FirstsLanded, InTurn, Sending
<1>4. IdsInv
  <2>1. \A t \in Topics : Issued(t) = {} BY <1>1 DEF Issued
  <2>2. QED BY <1>1, <2>1 DEF IdsInv, IssuedOnce, ClientIds, AtMost, UpTo
<1>5. QED BY <1>1, <1>2, <1>3, <1>4 DEF AuditInv

\* Every step of every client keeps it.
LEMMA NextAudits == Inv /\ AuditInv /\ [Next]_vars => AuditInv'
<1> SUFFICES ASSUME Inv, AuditInv, [Next]_vars PROVE AuditInv' OBVIOUS
<1>1. ASSUME NEW c \in Clients, Compute(c) PROVE AuditInv'
  BY <1>1, SeedAudits, IngestAudits, PrepareAudits, TakeAudits, ReleaseAudits, DraftAnswerAudits,
     DraftAgenticallyAudits, AttackDraftAudits, GuardAudits, ReviewAudits, ExportAudits,
     NoteAudits, MalformedAudits, DirectWriteAudits
  DEF Compute
<1>2. ASSUME NEW c \in Clients, Send(c) \/ Denied(c) \/ SendTwice(c) \/ TimeOut(c) \/ Abort(c)
      PROVE  AuditInv'
  BY <1>2, SendAudits, DeniedAudits, TimeOutAudits, AbortAudits
<1>3. ASSUME NEW m \in late, LandLate(m) PROVE AuditInv' BY <1>3, LandLateAudits
<1>4. CASE UNCHANGED vars
  <2>1. log' = log /\ pos' = pos /\ pc' = pc /\ outbox' = outbox /\ late' = late
    BY <1>4 DEF vars
  <2>2. Grows /\ \A t \in Topics : Events(t)' = Events(t)
    BY <2>1, SameGrows DEF Inv, TypeInv
  <2>3. ASSUME NEW d \in Clients PROVE ClientAudits(d)'
    BY <2>1, <2>2, OthersKeep DEF AuditInv
  <2>4. \A m \in late' : Sourced(m)' BY <2>1, <2>2, LandedStays DEF AuditInv
  <2>5. AuditNeverAhead' /\ CompletedOpsAreAudited'
    BY <2>1, <2>2 DEF AuditInv, AuditNeverAhead, CompletedOpsAreAudited, Topics
  <2>6. IdsInv'
    <3>1. \A t \in Topics : Issued(t)' = Issued(t) BY <2>1, NothingIssued DEF Inv, TypeInv
    <3>2. \A d \in Clients : ClientIds(d)' BY <2>1, <3>1, OthersIds DEF AuditInv
    <3>3. QED BY <3>1, <3>2 DEF AuditInv, IdsInv, IssuedOnce
  <2>7. QED BY <2>3, <2>4, <2>5, <2>6 DEF AuditInv
<1>5. QED BY <1>1, <1>2, <1>3, <1>4 DEF Next, Step

\* The inductive invariant, with or without ACLs.
THEOREM AuditInvariant == Spec => [](Inv /\ AuditInv)
<1>1. Init => Inv /\ AuditInv BY InitInv, InitAudits
<1>2. (Inv /\ AuditInv) /\ [Next]_vars => (Inv /\ AuditInv)' BY NextInv, NextAudits
<1>3. QED BY <1>1, <1>2, PTL DEF Spec

\* Whatever times out, lands twice or late, is denied or dies: what an audit event
\* is about is on a topic by the time the audit event is.
THEOREM TimelineNeverAhead == Spec => []AuditNeverAhead
<1>1. AuditInv => AuditNeverAhead BY DEF AuditInv
<1>2. QED BY <1>1, AuditInvariant, PTL

\* And every operation a client went past has its audit event on the topic, except
\* a direct write that was let through.
THEOREM TimelineIsComplete == Spec => []CompletedOpsAreAudited
<1>1. AuditInv => CompletedOpsAreAudited BY DEF AuditInv
<1>2. QED BY <1>1, AuditInvariant, PTL

-----------------------------------------------------------------------------
(* What an event id stands for *)

\* No two events on the topics have the same id.
EventIdsAreUnique ==
  \A s, t \in Topics : \A e \in Events(s), f \in Events(t) : e.id = f.id => s = t /\ e = f

\* An id refers to one event, whatever is sent twice, lands late or is sent after an
\* error: what a verdict, a response or an audit event says of an id is never mistaken.
THEOREM IdsAreUnique == Spec => []EventIdsAreUnique
<1>1. AuditInv => EventIdsAreUnique BY DEF AuditInv, IdsInv, IssuedOnce, Issued, EventIdsAreUnique
<1>2. QED BY <1>1, AuditInvariant, PTL

\* What a review of an accepted answer cites was released, allowed and seeded.
LEMMA ReviewedIsGrounded ==
  ASSUME Inv, AclsEnforced, NEW r, NEW v \in Events(Reviewed),
         v.run = r.run, v.decision \in Approving
  PROVE  AnswerAllowed(v, r)
<1>1. PICK a \in Events(Accepted) : a.run = v.run /\ a.question = v.question /\ a.cites = v.cites
  BY DEF Inv, GateInv, Published, ReviewFollowsAcceptance, ReviewAllowed
<1>2. AcceptAllowed(a) BY DEF Inv, GateInv, Published, AcceptedIsGrounded
<1>3. \E d \in Events(Proposed) :
         /\ d.id = a.draft /\ d.run = v.run /\ d.question = v.question /\ d.cites = v.cites
         /\ d.text \subseteq {"certified"} /\ (d.cites = {} => d.answer = "cannot_answer")
  BY <1>1, <1>2 DEF AcceptAllowed
<1>4. ASSUME NEW x \in v.cites PROVE CitationAllowed(v, x)
  <2>1. PICK s \in Events(AiSafe) : s.run = v.run /\ s.question = v.question /\ s.evidence = x
    BY <1>1, <1>2 DEF AcceptAllowed
  <2>2. ReleaseAllowed(s) BY DEF Inv, GateInv, Published, ReleasedIsAllowed
  <2>3. QED BY <2>1, <2>2 DEF ReleaseAllowed, CitationAllowed
<1>5. QED BY <1>1, <1>3, <1>4 DEF AnswerAllowed

\* With the ACLs enforced, whatever a response lists can be followed back through its
\* one review and the guard's acceptance to a proposed draft and to evidence that was
\* seeded in the run, released for the question and allowed for the model.
THEOREM ExportsAreGrounded == AclsEnforced => (Spec => []ExportedIsGrounded)
<1> SUFFICES ASSUME AclsEnforced PROVE Spec => []ExportedIsGrounded OBVIOUS
<1>1. Inv /\ AuditInv => ExportedIsGrounded
  <2> SUFFICES ASSUME Inv, AuditInv, NEW r \in Events(Ready)
               PROVE  /\ r.reviewed # {}
                      /\ \A id \in r.reviewed :
                           /\ \E v \in Events(Reviewed) : v.id = id
                           /\ \A v \in Events(Reviewed) : v.id = id => AnswerAllowed(v, r)
    BY DEF ExportedIsGrounded
  <2>1. ExportAllowed(r) BY DEF Inv, GateInv, Published, ExportListsApproved
  <2>2. ASSUME NEW id \in r.reviewed, NEW v \in Events(Reviewed), v.id = id
        PROVE  AnswerAllowed(v, r)
    <3>1. PICK w \in Events(Reviewed) : w.id = id /\ w.run = r.run /\ w.decision \in Approving
      BY <2>1 DEF ExportAllowed
    <3>2. v = w BY <2>2, <3>1 DEF AuditInv, IdsInv, IssuedOnce, Issued, Topics
    <3>3. QED BY <3>1, <3>2, ReviewedIsGrounded
  <2>3. QED BY <2>1, <2>2 DEF ExportAllowed
<1>2. QED BY <1>1, AuditInvariant, PTL
=============================================================================
