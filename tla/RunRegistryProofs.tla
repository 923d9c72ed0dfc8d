-------------------------- MODULE RunRegistryProofs --------------------------
(***************************************************************************)
(* Proofs about RunRegistry, for any runs, any clients with any requests,  *)
(* any bound on the registry and any number of failures.                   *)
(***************************************************************************)
EXTENDS RunRegistry, TLAPS, FiniteSetTheorems, SequenceTheorems

Fates == {"none", "running", "told", "failed", "failed_in_trim", "killed_by_trim",
          "killed_by_broker"}
ClientType ==
  [n : Nat \ {0}, at : Ats, phase : {"start", "finish"}, stamp : Nat,
   keep : SUBSET Runs, victims : SUBSET Runs, todo : Seq(Events), alone : BOOLEAN]
Types ==
  /\ DOMAIN runs \subseteq Runs /\ \A r \in DOMAIN runs : runs[r] \in Record
  /\ clock \in Nat /\ failures \in 0 .. MaxFailures
  /\ client \in [Clients -> ClientType] /\ \A c \in Clients : client[c].stamp <= clock
  /\ DOMAIN fate = Clients /\ \A c \in Clients : fate[c] \in [DOMAIN Script[c] -> Fates]
  /\ topics \in [Runs -> SUBSET Events]
  /\ stream \in [Runs -> Statuses \cup {"failed", "none"}]

\* The steps of the trim, and what follows them.
Trims == {"count", "keep", "list", "delete", "announce"}
\* Where a request can be, by its kind and its phase.
PlaceFor(c) == Active(c) =>
  /\ client[c].phase = "start" =>
       MarksStart(c) /\ client[c].at \in {"mark", "insert"} \cup Trims
  /\ client[c].phase = "finish" => client[c].at # "mark"
  /\ client[c].at \in {"reset", "reset_streams"} <=> Req(c).kind = "reset"
  /\ Req(c).kind = "allocate" =>
       /\ client[c].phase = "finish"
       /\ client[c].at \in {"insert", "count", "keep", "list", "delete"}
\* What a request publishes is on the topics or still to be published, and nothing is to
\* be published any more when its outcome is marked.
WorkFor(c) == Active(c) =>
  /\ \A k \in 1 .. Len(Publishes(Req(c).kind)) :
       Publishes(Req(c).kind)[k] \in topics[Run(c)]
         \/ \E l \in 1 .. Len(client[c].todo) : client[c].todo[l] = Publishes(Req(c).kind)[k]
  /\ client[c].phase = "finish" /\ client[c].at \in {"insert"} \cup Trims
       => client[c].todo = << >>
\* A request has no fate before it begins, and one that has failed has ended, or its trim
\* has raised and it is about to tell so.
FateFor(c) ==
  \A n \in DOMAIN Script[c] :
    /\ n > client[c].n \/ (n = client[c].n /\ client[c].at = "idle") => fate[c][n] = "none"
    /\ n = client[c].n /\ Failed(c, n) =>
         client[c].at = "tell_failed" /\ fate[c][n] = "killed_by_trim"
\* A request that has its run to itself finds there what it has marked, or nothing.
ApartFor(c) == Active(c) /\ client[c].alone =>
  \A d \in Clients : d # c => ~(Active(d) /\ Run(d) = Run(c))
RecordedFor(c) ==
  Active(c) /\ client[c].alone /\ client[c].phase = "finish" /\ client[c].at \in Trims
    /\ Req(c).kind # "allocate" /\ Run(c) \in DOMAIN runs
  => runs[Run(c)].status = Final(Req(c).kind)
ClientsOK ==
  \A c \in Clients :
    PlaceFor(c) /\ WorkFor(c) /\ FateFor(c) /\ ApartFor(c) /\ RecordedFor(c)
\* A record shown as running is that of a request that has failed, or that has not yet
\* come to mark its outcome.
Backed(r, c, n) ==
  /\ n \in DOMAIN Script[c]
  /\ \/ Failed(c, n)
     \/ /\ UnderWay(c, n) /\ Script[c][n].run = r
        /\ client[c].phase = "start" \/ client[c].at \in {"work", "insert", "tell_failed"}
BackedOK ==
  \A r \in DOMAIN runs : \A c \in Clients, n \in Nat :
    runs[r].status = "running" /\ runs[r].by = <<c, n>> => Backed(r, c, n)
\* Whoever told a stream "running" will tell it more, or was a direct write that died.
Tellable(r, c, n) ==
  /\ Script[c][n].run = r
  /\ \/ UnderWay(c, n) /\ client[c].phase = "finish" /\ MarksStart(c)
     \/ Script[c][n].kind = "direct_write" /\ Failed(c, n)
ToldOK ==
  \A r \in Runs : stream[r] = "running" =>
    \E c \in Clients : \E n \in DOMAIN Script[c] : Tellable(r, c, n)
Inv == Types /\ ClientsOK /\ BackedOK /\ StatusIsEarned /\ ToldOK

-----------------------------------------------------------------------------
(* Types *)

\* The request a client handles is one of its script.
LEMMA ReqType ==
  ASSUME NEW c \in Clients, client[c].n \in DOMAIN Script[c]
  PROVE  /\ Req(c) \in Request /\ Run(c) \in Runs
         /\ Req(c).kind \in Kinds /\ Req(c).named \in BOOLEAN
         /\ client[c].n \in Nat /\ Script[c] \in Seq(Request)
<1>1. Script[c] \in Seq(Request) BY RegistryConstants
<1>2. client[c].n \in 1 .. Len(Script[c]) BY <1>1, LenProperties
<1>3. Req(c) \in Request BY <1>1, <1>2, ElementOfSeq DEF Req
<1>4. QED BY <1>1, <1>2, <1>3 DEF Request, Run

LEMMA PublishesType == \A k \in Kinds : Publishes(k) \in Seq(Events)
<1>1. /\ << >> \in Seq(Events) /\ <<"evidence">> \in Seq(Events)
      /\ <<"acceptance">> \in Seq(Events)
      /\ <<"rejection">> \in Seq(Events) /\ <<"review">> \in Seq(Events)
      /\ <<"response">> \in Seq(Events)
  BY DEF Events
<1>2. <<"acceptance", "review", "response">> \in Seq(Events) BY DEF Events
<1>3. QED BY <1>1, <1>2 DEF Publishes

LEMMA FinalType == \A k \in Kinds : Final(k) \in Statuses \ {"running"}
BY DEF Final, Statuses

OthersStay(c) == \A d \in Clients : d # c => client'[d] = client[d]

\* A client becomes what the step makes of it.
LEMMA Becomes ==
  ASSUME client \in [Clients -> ClientType], NEW c \in Clients, NEW x \in ClientType,
         client' = [client EXCEPT ![c] = x]
  PROVE  client' \in [Clients -> ClientType] /\ OthersStay(c) /\ client'[c] = x
<1> HIDE DEF ClientType
<1>1. QED BY DEF OthersStay

\* The client stays with its request, at another place.
Moves(c, at) ==
  /\ OthersStay(c) /\ client'[c].n = client[c].n /\ client'[c].alone = client[c].alone
  /\ client'[c].stamp = client[c].stamp /\ client'[c].at = at
Keeps(c) == client'[c].phase = client[c].phase /\ client'[c].todo = client[c].todo
\* It is done with it.
Leaves(c) ==
  /\ OthersStay(c) /\ client'[c].n = client[c].n + 1 /\ client'[c].at = "idle"
  /\ client'[c].stamp = 0

LEMMA IdleType ==
  ASSUME NEW c \in Clients, client[c] \in ClientType
  PROVE  /\ Idle(c) \in ClientType /\ Idle(c).n = client[c].n + 1 /\ Idle(c).at = "idle"
         /\ Idle(c).stamp = 0
<1>1. << >> \in Seq(Events) OBVIOUS
<1>2. NewClient \in ClientType BY <1>1 DEF NewClient, ClientType, Ats
<1>3. client[c].n + 1 \in Nat \ {0} BY DEF ClientType
<1>4. Idle(c) = [NewClient EXCEPT !.n = client[c].n + 1] BY DEF Idle
<1>5. QED BY <1>2, <1>3, <1>4 DEF ClientType, NewClient

LEMMA GoesOn ==
  ASSUME client \in [Clients -> ClientType], NEW c \in Clients, NEW at \in Ats, Goes(c, at)
  PROVE  client' \in [Clients -> ClientType] /\ Moves(c, at) /\ Keeps(c)
<1> DEFINE x == [client[c] EXCEPT !.at = at]
<1>1. client[c] \in ClientType OBVIOUS
<1>2. /\ x \in ClientType /\ x.n = client[c].n /\ x.alone = client[c].alone /\ x.at = at
      /\ x.stamp = client[c].stamp /\ x.phase = client[c].phase /\ x.todo = client[c].todo
  BY <1>1 DEF ClientType
<1>3. client' = [client EXCEPT ![c] = x] BY DEF Goes
<1> HIDE DEF x, ClientType
<1>4. client' \in [Clients -> ClientType] /\ OthersStay(c) /\ client'[c] = x
  BY <1>2, <1>3, Becomes
<1>5. QED BY <1>2, <1>4 DEF Moves, Keeps

LEMMA LeavesOn ==
  ASSUME client \in [Clients -> ClientType], NEW c \in Clients, Ends(c)
  PROVE  client' \in [Clients -> ClientType] /\ Leaves(c)
<1>1. client[c] \in ClientType OBVIOUS
<1>2. client' = [client EXCEPT ![c] = Idle(c)] BY DEF Ends
<1>3. Idle(c) \in ClientType BY <1>1, IdleType
<1> HIDE DEF ClientType
<1>4. client' \in [Clients -> ClientType] /\ OthersStay(c) /\ client'[c] = Idle(c)
  BY <1>2, <1>3, Becomes
<1>5. QED BY <1>1, <1>4, IdleType DEF Leaves

-----------------------------------------------------------------------------
(* What a step of one client leaves alone *)

\* Topics grow, and of the fates only that of the request under way changes.
Frame(c) ==
  /\ \A r \in Runs : topics[r] \subseteq topics'[r]
  /\ \A d \in Clients : d # c => fate'[d] = fate[d]
  /\ \A n \in DOMAIN Script[c] : n # client[c].n => fate'[c][n] = fate[c][n]
\* Records of other runs stay or are deleted.
OnlyOwn(c) == \A r \in DOMAIN runs' : r # Run(c) => r \in DOMAIN runs /\ runs'[r] = runs[r]

\* The request under way has failed when the step is done.
Fails(c) ==
  fate'[c][client[c].n] \in {"failed", "failed_in_trim", "killed_by_trim", "killed_by_broker"}
FailureStays(c) == Failed(c, client[c].n) => Fails(c)
\* The client goes on with its request.
StaysOn(c) == client'[c].n = client[c].n /\ client'[c].at # "idle"

\* The invariants of the other clients.
LEMMA OthersKeep ==
  ASSUME Inv, Types', NEW c \in Clients, Active(c), OthersStay(c), Frame(c), OnlyOwn(c),
         Active(c)' => Run(c)' = Run(c), NEW d \in Clients, d # c
  PROVE  PlaceFor(d)' /\ WorkFor(d)' /\ FateFor(d)' /\ ApartFor(d)' /\ RecordedFor(d)'
<1>1. client'[d] = client[d] /\ fate'[d] = fate[d] BY DEF OthersStay, Frame
<1>2. Req(d)' = Req(d) /\ Run(d)' = Run(d) /\ (Active(d)' <=> Active(d))
  BY <1>1 DEF Req, Run, Active
<1>3. PlaceFor(d) /\ WorkFor(d) /\ FateFor(d) /\ ApartFor(d) /\ RecordedFor(d)
  BY DEF Inv, ClientsOK
<1>4. PlaceFor(d)' BY <1>1, <1>2, <1>3 DEF PlaceFor, MarksStart
<1>5. WorkFor(d)'
  <2>1. Active(d) => Run(d) \in Runs BY ReqType DEF Active
  <2>2. Active(d) => topics[Run(d)] \subseteq topics'[Run(d)] BY <2>1 DEF Frame
  <2>3. QED BY <1>1, <1>2, <1>3, <2>2 DEF WorkFor
<1>6. FateFor(d)' BY <1>1, <1>3 DEF FateFor, Failed
<1>7. ApartFor(d)'
  <2> SUFFICES ASSUME Active(d)', client'[d].alone, NEW e \in Clients, e # d,
                      Active(e)', Run(e)' = Run(d)'
      PROVE FALSE
    BY DEF ApartFor
  <2>1. Active(e) /\ Run(e) = Run(d)
    <3>1. CASE e = c BY <3>1, <1>2
    <3>2. CASE e # c
      <4>1. client'[e] = client[e] BY <3>2 DEF OthersStay
      <4>2. QED BY <4>1, <1>2 DEF Active, Run, Req
    <3>3. QED BY <3>1, <3>2
  <2>2. QED BY <1>1, <1>2, <1>3, <2>1 DEF ApartFor
<1>8. RecordedFor(d)'
  <2> SUFFICES ASSUME Active(d), client[d].alone, client[d].phase = "finish",
                      client[d].at \in Trims, Req(d).kind # "allocate", Run(d) \in DOMAIN runs'
      PROVE runs'[Run(d)].status = Final(Req(d).kind)
    BY <1>1, <1>2 DEF RecordedFor
  <2>1. Run(c) # Run(d) BY <1>3 DEF ApartFor
  <2>2. Run(d) \in DOMAIN runs /\ runs'[Run(d)] = runs[Run(d)] BY <2>1 DEF OnlyOwn
  <2>3. QED BY <1>3, <2>2 DEF RecordedFor
<1>9. QED BY <1>4, <1>5, <1>6, <1>7, <1>8

\* The client itself goes on ...
LEMMA Moved ==
  ASSUME Inv, Types', NEW c \in Clients, Active(c), NEW at \in Ats \ {"idle"}, Moves(c, at),
         Frame(c), OnlyOwn(c), PlaceFor(c)', WorkFor(c)', RecordedFor(c)',
         Fails(c) => at = "tell_failed" /\ fate'[c][client[c].n] = "killed_by_trim"
  PROVE  ClientsOK'
<1>1. /\ Req(c)' = Req(c) /\ Run(c)' = Run(c) /\ client'[c].n = client[c].n
      /\ client'[c].alone = client[c].alone /\ client'[c].at = at /\ OthersStay(c)
  BY DEF Moves, Req, Run
<1>2. \A d \in Clients : d # c =>
        PlaceFor(d)' /\ WorkFor(d)' /\ FateFor(d)' /\ ApartFor(d)' /\ RecordedFor(d)'
  BY <1>1, OthersKeep
<1>3. FateFor(c)'
  <2>1. FateFor(c) BY DEF Inv, ClientsOK
  <2>2. client[c].n \in Nat /\ \A n \in DOMAIN Script[c] : n \in Nat
    BY ReqType, LenProperties DEF Active
  <2>3. QED BY <1>1, <2>1, <2>2 DEF FateFor, Frame, Failed, Fails
<1>4. ApartFor(c)'
  <2> SUFFICES ASSUME client[c].alone, NEW d \in Clients, d # c, Active(d)', Run(d)' = Run(c)
      PROVE FALSE
    BY <1>1 DEF ApartFor
  <2>1. client'[d] = client[d] BY <1>1 DEF OthersStay
  <2>2. Active(d) /\ Run(d) = Run(c) BY <2>1 DEF Active, Run, Req
  <2>3. QED BY <2>2 DEF Inv, ClientsOK, ApartFor
<1>5. QED BY <1>2, <1>3, <1>4 DEF ClientsOK

\* ... or is done with its request.
LEMMA Left ==
  ASSUME Inv, Types', NEW c \in Clients, Active(c), Leaves(c), Frame(c), OnlyOwn(c)
  PROVE  ClientsOK'
<1>1. OthersStay(c) /\ client'[c].n = client[c].n + 1 /\ client'[c].at = "idle"
  BY DEF Leaves
<1>2. ~Active(c)' BY <1>1 DEF Active
<1>3. \A d \in Clients : d # c =>
        PlaceFor(d)' /\ WorkFor(d)' /\ FateFor(d)' /\ ApartFor(d)' /\ RecordedFor(d)'
  BY <1>1, <1>2, OthersKeep
<1>4. FateFor(c)'
  <2>1. FateFor(c) BY DEF Inv, ClientsOK
  <2>2. client[c].n \in Nat /\ \A n \in DOMAIN Script[c] : n \in Nat
    BY ReqType, LenProperties DEF Active
  <2>3. \A n \in DOMAIN Script[c] : n > client[c].n => fate'[c][n] = "none"
    BY <2>1, <2>2 DEF FateFor, Frame
  <2>4. QED BY <1>1, <2>2, <2>3 DEF FateFor, Failed
<1>5. PlaceFor(c)' /\ WorkFor(c)' /\ ApartFor(c)' /\ RecordedFor(c)'
  BY <1>2 DEF PlaceFor, WorkFor, ApartFor, RecordedFor
<1>6. QED BY <1>3, <1>4, <1>5 DEF ClientsOK

\* No record shown as running is that of a request which trims its outcome, or of a reset.
LEMMA NotMine ==
  ASSUME Inv, NEW c \in Clients, Active(c), client[c].phase = "finish",
         client[c].at \in Trims \cup {"reset", "reset_streams"}
  PROVE  \A r \in DOMAIN runs : runs[r].status = "running" => runs[r].by # Me(c)
<1> SUFFICES ASSUME NEW r \in DOMAIN runs, runs[r].status = "running", runs[r].by = Me(c)
    PROVE FALSE
  OBVIOUS
<1>1. client[c].n \in Nat BY ReqType DEF Active
<1>2. Backed(r, c, client[c].n) BY <1>1 DEF Inv, BackedOK, Me
<1>3. ~Failed(c, client[c].n)
  BY <1>2 DEF Inv, ClientsOK, FateFor, Backed, Trims
<1>4. QED BY <1>2, <1>3 DEF Backed, Trims

\* Failures stay failures.
LEMMA FailuresStay ==
  ASSUME NEW c \in Clients, Frame(c), FailureStays(c)
  PROVE  \A d \in Clients : \A n \in DOMAIN Script[d] : Failed(d, n) => Failed(d, n)'
<1> SUFFICES ASSUME NEW d \in Clients, NEW n \in DOMAIN Script[d], Failed(d, n)
    PROVE Failed(d, n)'
  OBVIOUS
<1>1. CASE d = c /\ n = client[c].n BY <1>1 DEF FailureStays, Fails, Failed
<1>2. CASE ~(d = c /\ n = client[c].n) BY <1>2 DEF Frame, Failed
<1>3. QED BY <1>1, <1>2

\* Who backs a running record.
LEMMA BackedStays ==
  ASSUME Inv, Types', NEW c \in Clients, Active(c), OthersStay(c), Frame(c),
         FailureStays(c),
         \A r \in DOMAIN runs' :
           \/ r \in DOMAIN runs /\ runs'[r] = runs[r]
           \/ runs'[r].status # "running"
           \/ r = Run(c) /\ runs'[r].by = Me(c),
         \/ \A r \in DOMAIN runs' : runs'[r].status = "running" => runs'[r].by # Me(c)
         \/ Fails(c)
         \/ StaysOn(c) /\ (client'[c].phase = "start"
                            \/ client'[c].at \in {"work", "insert", "tell_failed"})
  PROVE  BackedOK'
<1> SUFFICES ASSUME NEW r \in DOMAIN runs', NEW d \in Clients, NEW n \in Nat,
                    runs'[r].status = "running", runs'[r].by = <<d, n>>
    PROVE Backed(r, d, n)'
  BY DEF BackedOK
<1>1. \A e \in Clients : \A k \in DOMAIN Script[e] : Failed(e, k) => Failed(e, k)'
  BY FailuresStay
<1>2. client[c].n \in DOMAIN Script[c] BY DEF Active
<1>3. CASE d = c /\ n = client[c].n
  <2>1. runs'[r].by = Me(c) BY <1>3 DEF Me
  <2>2. CASE Fails(c) BY <2>2, <1>2, <1>3 DEF Backed, Fails, Failed
  <2>3. CASE ~Fails(c)
    <3>1. /\ client'[c].n = n /\ client'[c].at # "idle"
          /\ client'[c].phase = "start" \/ client'[c].at \in {"work", "insert", "tell_failed"}
      BY <2>1, <2>3, <1>3 DEF StaysOn
    <3>2. UnderWay(c, n)' BY <3>1, <1>2, <1>3 DEF UnderWay, Active
    <3>3. Script[c][n].run = r
      <4>1. CASE r \in DOMAIN runs /\ runs'[r] = runs[r]
        <5>1. Backed(r, c, n) BY <4>1, <1>3 DEF Inv, BackedOK
        <5>2. ~Failed(c, n) BY <2>3, <1>3 DEF FailureStays
        <5>3. QED BY <5>1, <5>2 DEF Backed
      <4>2. CASE r = Run(c) BY <4>2, <1>3 DEF Run, Req
      <4>3. QED BY <4>1, <4>2
    <3>4. QED BY <1>2, <1>3, <3>1, <3>2, <3>3 DEF Backed
  <2>4. QED BY <2>2, <2>3
<1>4. CASE ~(d = c /\ n = client[c].n)
  <2>1. r \in DOMAIN runs /\ runs'[r] = runs[r] BY <1>4 DEF Me
  <2>2. Backed(r, d, n) BY <2>1 DEF Inv, BackedOK
  <2>3. CASE Failed(d, n) BY <2>2, <2>3, <1>1 DEF Backed
  <2>4. CASE ~Failed(d, n)
    <3>1. UnderWay(d, n) /\ d # c BY <2>2, <2>4, <1>4 DEF Backed, UnderWay
    <3>2. client'[d] = client[d] BY <3>1 DEF OthersStay
    <3>3. QED BY <2>2, <2>4, <3>1, <3>2 DEF Backed, UnderWay, Active
  <2>5. QED BY <2>3, <2>4
<1>5. QED BY <1>3, <1>4

\* Who tells a stream that shows "running".
LEMMA ToldStays ==
  ASSUME Inv, Types', NEW c \in Clients, Active(c), OthersStay(c), Frame(c),
         FailureStays(c),
         \A r \in Runs : stream'[r] = "running" =>
           \/ stream[r] = "running"
           \/ r = Run(c) /\ StaysOn(c) /\ client'[c].phase = "finish" /\ MarksStart(c),
         \/ Fails(c) /\ Req(c).kind = "direct_write"
         \/ StaysOn(c) /\ (client'[c].phase = client[c].phase \/ client'[c].phase = "finish")
         \/ stream'[Run(c)] # "running"
         \/ ~(client[c].phase = "finish" /\ MarksStart(c))
  PROVE  ToldOK'
<1> SUFFICES ASSUME NEW r \in Runs, stream'[r] = "running"
    PROVE \E d \in Clients : \E n \in DOMAIN Script[d] : Tellable(r, d, n)'
  BY DEF ToldOK
<1>1. client[c].n \in DOMAIN Script[c] BY DEF Active
<1>2. CASE r = Run(c) /\ StaysOn(c) /\ client'[c].phase = "finish" /\ MarksStart(c)
  <2>1. PICK n \in DOMAIN Script[c] : n = client[c].n BY <1>1
  <2>2. UnderWay(c, n)' /\ MarksStart(c)' /\ Script[c][n].run = r
    BY <1>2, <2>1 DEF StaysOn, UnderWay, Active, MarksStart, Req, Run
  <2>3. Tellable(r, c, n)' BY <1>2, <2>2 DEF Tellable
  <2>4. QED BY <2>3
<1>3. CASE stream[r] = "running"
  <2>1. PICK d \in Clients : \E n \in DOMAIN Script[d] : Tellable(r, d, n)
    BY <1>3 DEF Inv, ToldOK
  <2>2. PICK n \in DOMAIN Script[d] : Tellable(r, d, n) BY <2>1
  <2>3. Failed(d, n) => Failed(d, n)' BY FailuresStay
  <2>4. CASE Script[d][n].kind = "direct_write" /\ Failed(d, n)
    BY <2>2, <2>3, <2>4 DEF Tellable
  <2>5. CASE UnderWay(d, n) /\ client[d].phase = "finish" /\ MarksStart(d)
    <3>1. CASE d # c
      <4>1. client'[d] = client[d] BY <3>1 DEF OthersStay
      <4>2. QED BY <2>2, <2>5, <4>1 DEF Tellable, UnderWay, Active, MarksStart, Req
    <3>2. CASE d = c
      <4>1. n = client[c].n /\ Run(c) = r /\ Req(c) = Script[c][n]
        BY <2>2, <2>5, <3>2 DEF UnderWay, Tellable, Run, Req
      <4>2. CASE Fails(c) /\ Req(c).kind = "direct_write"
        <5>1. Failed(c, n)' BY <4>1, <4>2 DEF Fails, Failed
        <5>2. Tellable(r, c, n)' BY <2>2, <4>1, <4>2, <5>1, <3>2 DEF Tellable
        <5>3. QED BY <5>2, <3>2
      <4>3. CASE StaysOn(c) /\ client'[c].phase = "finish"
        <5>1. UnderWay(c, n)' /\ MarksStart(c)'
          BY <2>5, <3>2, <4>1, <4>3, <1>1 DEF StaysOn, UnderWay, Active, MarksStart, Req
        <5>2. Tellable(r, c, n)' BY <2>2, <3>2, <4>3, <5>1 DEF Tellable
        <5>3. QED BY <5>2, <3>2
      <4>4. QED BY <2>5, <3>2, <4>1, <4>2, <4>3
    <3>3. QED BY <3>1, <3>2
  <2>6. QED BY <2>2, <2>4, <2>5 DEF Tellable
<1>4. QED BY <1>2, <1>3

\* What a request has published when its outcome is marked.
LEMMA FinalIsEarned ==
  ASSUME Inv, NEW c \in Clients, Active(c), client[c].todo = << >>
  PROVE  LET st == Final(Req(c).kind)  t == topics[Run(c)] IN
           /\ st = "ready_for_ai_drafter" => "evidence" \in t
           /\ st = "waiting_for_human_review" => "acceptance" \in t
           /\ st = "reviewed_pending_export" => "review" \in t
           /\ st = "export_ready" => "response" \in t
<1>1. Req(c).kind \in Kinds BY ReqType DEF Active
<1>2. \A l \in 1 .. Len(client[c].todo) : FALSE BY EmptySeq
<1>3. \A k \in 1 .. Len(Publishes(Req(c).kind)) : Publishes(Req(c).kind)[k] \in topics[Run(c)]
  BY <1>2 DEF Inv, ClientsOK, WorkFor
<1>4. QED BY <1>1, <1>3 DEF Final, Publishes, Kinds, ScenarioKinds

LEMMA EarnedStays ==
  ASSUME Inv, Types', NEW c \in Clients, Frame(c),
         \A r \in DOMAIN runs' :
           \/ r \in DOMAIN runs /\ runs'[r] = runs[r]
           \/ runs'[r].status \in {"running", "allocated"}
           \/ Active(c) /\ client[c].todo = << >> /\ r = Run(c)
              /\ runs'[r].status = Final(Req(c).kind)
  PROVE  StatusIsEarned'
<1> SUFFICES ASSUME NEW r \in DOMAIN runs'
    PROVE /\ runs'[r].status = "ready_for_ai_drafter" => "evidence" \in topics'[r]
          /\ runs'[r].status = "waiting_for_human_review" => "acceptance" \in topics'[r]
          /\ runs'[r].status = "reviewed_pending_export" => "review" \in topics'[r]
          /\ runs'[r].status = "export_ready" => "response" \in topics'[r]
  BY DEF StatusIsEarned
<1>1. r \in Runs /\ topics[r] \subseteq topics'[r] BY DEF Types, Frame
<1>2. CASE r \in DOMAIN runs /\ runs'[r] = runs[r]
  BY <1>1, <1>2 DEF Inv, StatusIsEarned
<1>3. CASE runs'[r].status \in {"running", "allocated"} BY <1>3
<1>4. CASE Active(c) /\ client[c].todo = << >> /\ r = Run(c)
           /\ runs'[r].status = Final(Req(c).kind)
  BY <1>1, <1>4, FinalIsEarned
<1>5. QED BY <1>2, <1>3, <1>4

-----------------------------------------------------------------------------
(* The steps of a request *)

LEMMA ActiveFacts ==
  ASSUME Inv, NEW c \in Clients, Active(c)
  PROVE  /\ Types /\ client \in [Clients -> ClientType] /\ client[c] \in ClientType
         /\ client[c].n \in DOMAIN Script[c] /\ client[c].n \in Nat /\ client[c].at # "idle"
         /\ Run(c) \in Runs /\ Req(c).kind \in Kinds /\ Req(c).named \in BOOLEAN
         /\ client[c].phase \in {"start", "finish"}
         /\ PlaceFor(c) /\ WorkFor(c) /\ FateFor(c) /\ ApartFor(c) /\ RecordedFor(c)
<1>1. client \in [Clients -> ClientType] BY DEF Inv, Types
<1>2. client[c].n \in DOMAIN Script[c] BY DEF Active
<1>3. client[c].phase \in {"start", "finish"} BY <1>1 DEF ClientType
<1> HIDE DEF ClientType
<1>4. QED BY <1>1, <1>2, <1>3, ReqType DEF Inv, Types, ClientsOK, Active

\* Time stamps do not run ahead of the clock.
LEMMA StampsOK ==
  ASSUME Types, NEW c \in Clients, OthersStay(c), clock' \in Nat, clock <= clock',
         client'[c].stamp \in {client[c].stamp, 0}
  PROVE  \A d \in Clients : client'[d].stamp <= clock'
<1> SUFFICES ASSUME NEW d \in Clients PROVE client'[d].stamp <= clock' OBVIOUS
<1>1. client[d] \in ClientType /\ client[c] \in ClientType /\ clock \in Nat
      /\ client[d].stamp <= clock /\ client[c].stamp <= clock
  BY DEF Types
<1>2. client[d].stamp \in Nat /\ client[c].stamp \in Nat BY <1>1 DEF ClientType
<1>3. CASE d = c BY <1>1, <1>2, <1>3
<1>4. CASE d # c BY <1>1, <1>2, <1>4 DEF OthersStay
<1>5. QED BY <1>3, <1>4

LEMMA FatedOn ==
  ASSUME Inv, NEW c \in Clients, Active(c), NEW f \in Fates, Fated(c, f)
  PROVE  /\ DOMAIN fate' = Clients
         /\ \A d \in Clients : fate'[d] \in [DOMAIN Script[d] -> Fates]
         /\ fate'[c][client[c].n] = f /\ \A d \in Clients : d # c => fate'[d] = fate[d]
         /\ \A n \in DOMAIN Script[c] : n # client[c].n => fate'[c][n] = fate[c][n]
<1>1. /\ DOMAIN fate = Clients /\ \A d \in Clients : fate[d] \in [DOMAIN Script[d] -> Fates]
      /\ client[c].n \in DOMAIN Script[c]
  BY DEF Inv, Types, Active
<1> DEFINE g == [fate[c] EXCEPT ![client[c].n] = f]
<1>2. fate' = [fate EXCEPT ![c] = g] BY DEF Fated
<1>3. fate[c] \in [DOMAIN Script[c] -> Fates] BY <1>1
<1> HIDE DEF Fates
<1>4. /\ g \in [DOMAIN Script[c] -> Fates] /\ g[client[c].n] = f
      /\ \A n \in DOMAIN Script[c] : n # client[c].n => g[n] = fate[c][n]
  BY <1>1, <1>3
<1> HIDE DEF g
<1>5. DOMAIN fate' = Clients /\ fate'[c] = g /\ \A d \in Clients : d # c => fate'[d] = fate[d]
  BY <1>1, <1>2
<1>6. QED BY <1>1, <1>4, <1>5

\* What a request that is not at the end of its failure has not done.
LEMMA NotFailed ==
  ASSUME Inv, NEW c \in Clients, Active(c), client[c].at # "tell_failed"
  PROVE  ~Failed(c, client[c].n)
BY ActiveFacts DEF FateFor

LEMMA NewStatusIs ==
  ASSUME Inv, NEW c \in Clients, Active(c)
  PROVE  /\ NewStatus(c) \in Statuses
         /\ Req(c).kind = "allocate" => NewStatus(c) = "allocated"
         /\ Req(c).kind # "allocate" /\ client[c].phase = "start" => NewStatus(c) = "running"
         /\ Req(c).kind # "allocate" /\ client[c].phase = "finish" =>
              NewStatus(c) = Final(Req(c).kind)
<1>1. Req(c).kind \in Kinds /\ client[c].phase \in {"start", "finish"} BY ActiveFacts
<1>2. Final(Req(c).kind) \in Statuses BY <1>1, FinalType
<1>3. CASE Req(c).kind = "allocate"
  <2>0. client[c].phase = "finish" BY <1>3, ActiveFacts DEF PlaceFor
  <2>1. NewStatus(c) = "allocated" BY <1>3, <2>0 DEF NewStatus
  <2>2. QED BY <1>3, <2>1 DEF Statuses
<1>4. CASE Req(c).kind # "allocate" /\ client[c].phase = "start"
  <2>1. NewStatus(c) = "running" BY <1>4 DEF NewStatus
  <2>2. QED BY <1>4, <2>1 DEF Statuses
<1>5. CASE Req(c).kind # "allocate" /\ client[c].phase = "finish"
  <2>1. NewStatus(c) = Final(Req(c).kind) BY <1>5 DEF NewStatus
  <2>2. QED BY <1>2, <1>5, <2>1
<1>6. QED BY <1>1, <1>3, <1>4, <1>5

\* A request writes the record of its run.
LEMMA Writes ==
  ASSUME Inv, NEW c \in Clients, Active(c), Moves(c, "count"), Keeps(c),
         client[c].at \in {"mark", "work", "insert"},
         client' \in [Clients -> ClientType], UNCHANGED <<fate, topics, stream, failures>>,
         clock' \in Nat, clock <= clock', client[c].phase = "start" \/ client[c].todo = << >>,
         DOMAIN runs' = DOMAIN runs \cup {Run(c)}, OnlyOwn(c), runs'[Run(c)] \in Record,
         runs'[Run(c)].status = NewStatus(c), runs'[Run(c)].by = Me(c)
  PROVE  Inv'
<1>1. /\ Types /\ Run(c) \in Runs /\ Req(c).kind \in Kinds /\ client[c].n \in DOMAIN Script[c]
      /\ client[c].phase \in {"start", "finish"} /\ PlaceFor(c) /\ WorkFor(c)
  BY ActiveFacts
<1>2. /\ OthersStay(c) /\ client'[c].n = client[c].n /\ client'[c].at = "count"
      /\ client'[c].phase = client[c].phase /\ client'[c].todo = client[c].todo
      /\ client'[c].stamp = client[c].stamp /\ client'[c].alone = client[c].alone
      /\ Req(c)' = Req(c) /\ Run(c)' = Run(c) /\ (Active(c))'
  BY <1>1 DEF Moves, Keeps, Req, Run, Active
<1>3. Types'
  <2>1. \A d \in Clients : client'[d].stamp <= clock' BY <1>1, <1>2, StampsOK
  <2>2. \A r \in DOMAIN runs' : runs'[r] \in Record BY <1>1 DEF OnlyOwn, Types
  <2>3. DOMAIN runs' \subseteq Runs BY <1>1 DEF Types
  <2>4. QED BY <1>1, <2>1, <2>2, <2>3 DEF Types
<1>4. Frame(c) BY DEF Frame
<1>5. ~Failed(c, client[c].n) /\ FailureStays(c) /\ ~Fails(c)
  BY NotFailed DEF FailureStays, Fails, Failed
<1>6. ClientsOK'
  <2>1. PlaceFor(c)' BY <1>1, <1>2 DEF PlaceFor, Active, Trims, MarksStart
  <2>2. WorkFor(c)' BY <1>1, <1>2 DEF WorkFor, Active
  <2>3. RecordedFor(c)' BY <1>2, <1>1, NewStatusIs DEF RecordedFor
  <2>4. "count" \in Ats \ {"idle"} BY DEF Ats
  <2>5. QED BY <1>3, <1>4, <1>5, <2>1, <2>2, <2>3, <2>4, Moved
<1>7. \A r \in DOMAIN runs' : \/ r \in DOMAIN runs /\ runs'[r] = runs[r]
                              \/ r = Run(c) /\ runs'[r].by = Me(c)
  <2> SUFFICES ASSUME NEW r \in DOMAIN runs'
      PROVE \/ r \in DOMAIN runs /\ runs'[r] = runs[r]
            \/ r = Run(c) /\ runs'[r].by = Me(c)
    OBVIOUS
  <2>1. CASE r = Run(c) BY <2>1
  <2>2. CASE r # Run(c) BY <2>2 DEF OnlyOwn
  <2>3. QED BY <2>1, <2>2
<1>8. BackedOK'
  <2>1. CASE NewStatus(c) = "running"
    <3>1. client'[c].phase = "start" BY <1>1, <1>2, <2>1, NewStatusIs, FinalType
    <3>2. StaysOn(c) BY <1>2 DEF StaysOn
    <3>3. QED BY <1>2, <1>3, <1>4, <1>5, <1>7, <3>1, <3>2, BackedStays
  <2>2. CASE NewStatus(c) # "running"
    <3>1. \A r \in DOMAIN runs' : runs'[r].status = "running" =>
            runs'[r].by # Me(c) \/ client'[c].phase = "start"
      <4> SUFFICES ASSUME NEW r \in DOMAIN runs', runs'[r].status = "running",
                          runs'[r].by = Me(c), client'[c].phase = "finish"
          PROVE FALSE
        BY <1>1, <1>2
      <4>1. r # Run(c) /\ r \in DOMAIN runs /\ runs'[r] = runs[r] BY <2>2 DEF OnlyOwn
      <4>2. Backed(r, c, client[c].n)
        BY <1>1, <4>1, ReqType DEF Inv, BackedOK, Me
      <4>3. Script[c][client[c].n].run = r BY <4>2, <1>5 DEF Backed
      <4>4. QED BY <4>1, <4>3 DEF Run, Req
    <3>2. StaysOn(c) BY <1>2 DEF StaysOn
    <3>3. QED BY <1>2, <1>3, <1>4, <1>5, <1>7, <3>1, <3>2, BackedStays
  <2>3. QED BY <2>1, <2>2
<1>9. StatusIsEarned'
  <2>1. \A r \in DOMAIN runs' :
           \/ r \in DOMAIN runs /\ runs'[r] = runs[r]
           \/ runs'[r].status \in {"running", "allocated"}
           \/ Active(c) /\ client[c].todo = << >> /\ r = Run(c)
              /\ runs'[r].status = Final(Req(c).kind)
    BY <1>1, <1>7, NewStatusIs
  <2>2. QED BY <1>3, <1>4, <2>1, EarnedStays
<1>10. ToldOK'
  <2>1. StaysOn(c) /\ client'[c].phase = client[c].phase BY <1>2 DEF StaysOn
  <2>2. QED BY <1>2, <1>3, <1>4, <1>5, <2>1, ToldStays
<1>11. QED BY <1>3, <1>6, <1>8, <1>9, <1>10 DEF Inv

LEMMA MarkPreserves == ASSUME Inv, NEW c \in Clients, Mark(c) PROVE Inv'
<1>1. Active(c) /\ (client[c].at = "mark" \/ (client[c].at = "work" /\ client[c].todo = << >>))
  BY DEF Mark, Marking, At, Active
<1>2. /\ Types /\ client \in [Clients -> ClientType] /\ client[c].n \in DOMAIN Script[c]
      /\ Run(c) \in Runs /\ client[c].phase \in {"start", "finish"}
      /\ PlaceFor(c) /\ WorkFor(c)
      /\ client[c].n \in Nat /\ client[c] \in ClientType
  BY <1>1, ActiveFacts
<1>3. client[c].phase = "start" \/ client[c].todo = << >> BY <1>1, <1>2 DEF PlaceFor
<1>4. NewStatus(c) \in Statuses /\ Me(c) \in Clients \X Nat BY <1>1, <1>2, NewStatusIs DEF Me
<1>5. UNCHANGED <<clock, fate, topics, stream, failures>> BY DEF Mark
<1>6. clock \in Nat BY <1>2 DEF Types
<1>7. CASE Run(c) \in DOMAIN runs /\ Goes(c, "count")
  <2>1. client' \in [Clients -> ClientType] /\ Moves(c, "count") /\ Keeps(c)
    BY <1>2, <1>7, GoesOn DEF Ats
  <2>2. PICK t : t = (IF RestartsClock(c) THEN client[c].stamp ELSE runs[Run(c)].started)
    OBVIOUS
  <2>3. runs' = [runs EXCEPT ![Run(c)] =
                   [status |-> NewStatus(c), by |-> Me(c), started |-> t]]
    BY <1>7, <2>2 DEF Mark
  <2>4. t \in Nat
    <3>1. client[c].stamp \in Nat BY <1>2 DEF ClientType
    <3>2. runs[Run(c)].started \in Nat BY <1>2, <1>7 DEF Types, Record
    <3>3. QED BY <2>2, <3>1, <3>2
  <2>5. [status |-> NewStatus(c), by |-> Me(c), started |-> t] \in Record
    BY <1>4, <2>4 DEF Record
  <2>6. /\ DOMAIN runs' = DOMAIN runs \cup {Run(c)}
        /\ runs'[Run(c)] = [status |-> NewStatus(c), by |-> Me(c), started |-> t]
        /\ OnlyOwn(c)
    BY <1>7, <2>3 DEF OnlyOwn
  <2> HIDE DEF ClientType, Record
  <2>7. QED BY <1>1, <1>3, <1>5, <1>6, <2>1, <2>5, <2>6, Writes
<1>8. CASE Run(c) \notin DOMAIN runs /\ Goes(c, "insert") /\ UNCHANGED runs
  <2>1. client' \in [Clients -> ClientType] /\ Moves(c, "insert") /\ Keeps(c)
    BY <1>2, <1>8, GoesOn DEF Ats
  <2>2. /\ OthersStay(c) /\ client'[c].n = client[c].n /\ client'[c].at = "insert"
        /\ client'[c].phase = client[c].phase /\ client'[c].todo = client[c].todo
        /\ client'[c].stamp = client[c].stamp /\ Req(c)' = Req(c) /\ Run(c)' = Run(c)
    BY <2>1 DEF Moves, Keeps, Req, Run
  <2>3. Types'
    <3>1. \A d \in Clients : client'[d].stamp <= clock' BY <1>2, <1>5, <1>6, <2>2, StampsOK
    <3>2. QED BY <1>2, <1>5, <1>8, <2>1, <3>1 DEF Types
  <2>4. Frame(c) /\ OnlyOwn(c) BY <1>5, <1>8 DEF Frame, OnlyOwn
  <2>5. FailureStays(c) /\ ~Fails(c) BY <1>1, <1>5, NotFailed DEF FailureStays, Fails, Failed
  <2>6. ClientsOK'
    <3>1. PlaceFor(c)' BY <1>1, <1>2, <2>2 DEF PlaceFor, Active, MarksStart
    <3>2. WorkFor(c)' BY <1>1, <1>2, <1>3, <1>5, <2>2 DEF WorkFor, Active
    <3>3. RecordedFor(c)' BY <2>2 DEF RecordedFor, Trims
    <3>4. "insert" \in Ats \ {"idle"} BY DEF Ats
    <3>5. QED BY <1>1, <2>1, <2>3, <2>4, <2>5, <3>1, <3>2, <3>3, <3>4, Moved
  <2>7. StaysOn(c) BY <2>2 DEF StaysOn
  <2>8. BackedOK' BY <1>1, <1>8, <2>2, <2>3, <2>4, <2>5, <2>7, BackedStays
  <2>9. StatusIsEarned' BY <1>8, <2>3, <2>4, EarnedStays
  <2>10. ToldOK' BY <1>1, <1>5, <2>2, <2>3, <2>4, <2>5, <2>7, ToldStays
  <2>11. QED BY <2>3, <2>6, <2>8, <2>9, <2>10 DEF Inv
<1>9. QED BY <1>7, <1>8 DEF Mark

LEMMA InsertPreserves == ASSUME Inv, NEW c \in Clients, Insert(c) PROVE Inv'
<1>1. Active(c) /\ client[c].at = "insert" BY DEF Insert, At, Active
<1>2. /\ Types /\ client \in [Clients -> ClientType] /\ client[c].n \in DOMAIN Script[c]
      /\ Run(c) \in Runs /\ client[c].phase \in {"start", "finish"}
      /\ PlaceFor(c) /\ WorkFor(c)
      /\ client[c].n \in Nat /\ client[c] \in ClientType
  BY <1>1, ActiveFacts
<1>3. client[c].phase = "start" \/ client[c].todo = << >> BY <1>1, <1>2 DEF WorkFor
<1>4. NewStatus(c) \in Statuses /\ Me(c) \in Clients \X Nat BY <1>1, <1>2, NewStatusIs DEF Me
<1>5. UNCHANGED <<fate, topics, stream, failures>> BY DEF Insert
<1>6. clock \in Nat /\ clock' \in Nat /\ clock <= clock'
  BY <1>2 DEF Insert, Types
<1>7. client' \in [Clients -> ClientType] /\ Moves(c, "count") /\ Keeps(c)
  BY <1>2, GoesOn DEF Insert, Ats
<1>8. PICK t : t = (IF RestartsClock(c) THEN client[c].stamp ELSE clock') OBVIOUS
<1>9. t \in Nat
  <2>1. client[c].stamp \in Nat BY <1>2 DEF ClientType
  <2>2. QED BY <1>6, <1>8, <2>1
<1> DEFINE rec == [status |-> NewStatus(c), by |-> Me(c), started |-> t]
<1>10. rec \in Record /\ rec.status = NewStatus(c) /\ rec.by = Me(c) BY <1>4, <1>9 DEF Record
<1>11. PutRecord(Run(c), rec) BY <1>8 DEF Insert
<1> HIDE DEF rec
<1>12. /\ DOMAIN runs' = DOMAIN runs \cup {Run(c)} /\ runs'[Run(c)] = rec /\ OnlyOwn(c)
  BY <1>11 DEF PutRecord, OnlyOwn
<1> HIDE DEF ClientType, Record
<1>13. QED BY <1>1, <1>3, <1>5, <1>6, <1>7, <1>10, <1>12, Writes

-----------------------------------------------------------------------------
(* The trim *)

\* Records are deleted at most.
Shrinks == \A r \in DOMAIN runs' : r \in DOMAIN runs /\ runs'[r] = runs[r]

LEMMA ShrunkTypes ==
  ASSUME Types, NEW c \in Clients, Shrinks, client' \in [Clients -> ClientType], OthersStay(c),
         client'[c].stamp \in {client[c].stamp, 0}, UNCHANGED clock,
         failures' \in 0 .. MaxFailures, DOMAIN fate' = Clients,
         \A d \in Clients : fate'[d] \in [DOMAIN Script[d] -> Fates],
         topics' \in [Runs -> SUBSET Events],
         stream' \in [Runs -> Statuses \cup {"failed", "none"}]
  PROVE  Types' /\ OnlyOwn(c)
<1>1. clock \in Nat /\ clock' \in Nat /\ clock <= clock' BY DEF Types
<1>2. \A d \in Clients : client'[d].stamp <= clock' BY <1>1, StampsOK
<1>3. DOMAIN runs' \subseteq Runs /\ \A r \in DOMAIN runs' : runs'[r] \in Record
  BY DEF Types, Shrinks
<1>4. OnlyOwn(c) BY DEF OnlyOwn, Shrinks
<1>5. QED BY <1>1, <1>2, <1>3, <1>4 DEF Types

\* A step of the trim deletes records at most, and ends a request for a run id.
LEMMA TrimsOn ==
  ASSUME Inv, NEW c \in Clients, Active(c), client[c].at \in Trims,
         client' \in [Clients -> ClientType], Shrinks,
         UNCHANGED <<clock, fate, topics, stream, failures>>,
         \/ \E at \in Trims : /\ Moves(c, at) /\ Keeps(c)
                              /\ at = "announce" => Req(c).kind # "allocate"
         \/ Leaves(c) /\ Req(c).kind = "allocate"
  PROVE  Inv'
<1>1. /\ Types /\ Run(c) \in Runs /\ Req(c).kind \in Kinds /\ client[c].n \in DOMAIN Script[c]
      /\ client[c].phase \in {"start", "finish"} /\ PlaceFor(c) /\ WorkFor(c) /\ RecordedFor(c)
  BY ActiveFacts
<1>2. OthersStay(c) /\ client'[c].stamp \in {client[c].stamp, 0} BY DEF Moves, Leaves
<1>3. Types' /\ OnlyOwn(c)
  <2>1. /\ failures' \in 0 .. MaxFailures /\ DOMAIN fate' = Clients
        /\ \A d \in Clients : fate'[d] \in [DOMAIN Script[d] -> Fates]
        /\ topics' \in [Runs -> SUBSET Events]
        /\ stream' \in [Runs -> Statuses \cup {"failed", "none"}]
    BY <1>1 DEF Types
  <2>2. QED BY <1>1, <1>2, <2>1, ShrunkTypes
<1>4. Frame(c) BY DEF Frame
<1>5. client[c].at # "tell_failed" BY DEF Trims
<1>6. FailureStays(c) /\ ~Fails(c) BY <1>5, NotFailed DEF FailureStays, Fails, Failed
<1>7. ClientsOK'
  <2>1. CASE Leaves(c) BY <1>3, <1>4, <2>1, Left
  <2>2. ASSUME NEW at \in Trims, Moves(c, at), Keeps(c),
               at = "announce" => Req(c).kind # "allocate"
        PROVE ClientsOK'
    <3>1. /\ client'[c].n = client[c].n /\ client'[c].at = at
          /\ client'[c].phase = client[c].phase /\ client'[c].todo = client[c].todo
          /\ client'[c].alone = client[c].alone /\ Req(c)' = Req(c) /\ Run(c)' = Run(c)
      BY <2>2 DEF Moves, Keeps, Req, Run
    <3>2. PlaceFor(c)' BY <1>1, <2>2, <3>1 DEF PlaceFor, Active, Trims, MarksStart
    <3>3. WorkFor(c)' BY <1>1, <3>1 DEF WorkFor, Active
    <3>4. RecordedFor(c)' BY <1>1, <3>1 DEF RecordedFor, Active, Shrinks
    <3>5. at \in Ats \ {"idle"} BY DEF Trims, Ats
    <3>6. QED BY <1>3, <1>4, <1>6, <2>2, <3>2, <3>3, <3>4, <3>5, Moved
  <2>3. QED BY <2>1, <2>2
<1>8. BackedOK'
  <2>1. CASE client[c].phase = "finish"
    <3>1. \A r \in DOMAIN runs' : runs'[r].status = "running" => runs'[r].by # Me(c)
      BY <2>1, NotMine DEF Shrinks
    <3>2. QED BY <1>2, <1>3, <1>4, <1>6, <3>1, BackedStays DEF Shrinks
  <2>2. CASE client[c].phase = "start"
    <3>1. Req(c).kind # "allocate" BY <1>1, <2>2 DEF PlaceFor
    <3>2. StaysOn(c) /\ client'[c].phase = "start"
      BY <2>2, <3>1 DEF StaysOn, Moves, Keeps, Trims
    <3>3. QED BY <1>2, <1>3, <1>4, <1>6, <3>2, BackedStays DEF Shrinks
  <2>3. QED BY <1>1, <2>1, <2>2
<1>9. StatusIsEarned' BY <1>3, <1>4, EarnedStays DEF Shrinks
<1>10. ToldOK'
  <2>1. Leaves(c) => ~MarksStart(c)
    BY <1>1, <1>2 DEF MarksStart, ScenarioKinds, Leaves, Moves, Trims
  <2>2. \/ StaysOn(c) /\ client'[c].phase = client[c].phase
        \/ ~MarksStart(c)
    BY <2>1 DEF StaysOn, Moves, Keeps, Trims
  <2>3. QED BY <1>2, <1>3, <1>4, <1>6, <2>2, ToldStays
<1>11. QED BY <1>3, <1>7, <1>8, <1>9, <1>10 DEF Inv

\* What `Trimmed` makes of a client.
LEMMA TrimmedOn ==
  ASSUME Inv, NEW c \in Clients, Active(c), client' = [client EXCEPT ![c] = Trimmed(c)]
  PROVE  /\ client' \in [Clients -> ClientType]
         /\ \/ \E at \in Trims : /\ Moves(c, at) /\ Keeps(c)
                                 /\ at = "announce" => Req(c).kind # "allocate"
            \/ Leaves(c) /\ Req(c).kind = "allocate"
<1>1. client \in [Clients -> ClientType] BY ActiveFacts
<1>2. CASE Req(c).kind = "allocate"
  <2>1. Ends(c) BY <1>2 DEF Trimmed, Ends
  <2>2. QED BY <1>1, <1>2, <2>1, LeavesOn
<1>3. CASE Req(c).kind # "allocate"
  <2>1. Goes(c, "announce") BY <1>3 DEF Trimmed, Goes
  <2>2. "announce" \in Ats /\ "announce" \in Trims BY DEF Ats, Trims
  <2>3. QED BY <1>1, <1>3, <2>1, <2>2, GoesOn
<1>4. QED BY <1>2, <1>3

\* The client goes on to another step of the trim with other fields of its own.
LEMMA TrimsWith ==
  ASSUME Inv, NEW c \in Clients, NEW x \in ClientType, client' = [client EXCEPT ![c] = x],
         x.n = client[c].n, x.alone = client[c].alone, x.stamp = client[c].stamp,
         x.phase = client[c].phase, x.todo = client[c].todo,
         x.at \in Trims \ {"announce"}
  PROVE  /\ client' \in [Clients -> ClientType]
         /\ \E at \in Trims : /\ Moves(c, at) /\ Keeps(c)
                              /\ at = "announce" => Req(c).kind # "allocate"
<1>1. client \in [Clients -> ClientType] BY DEF Inv, Types
<1> HIDE DEF ClientType
<1>2. client' \in [Clients -> ClientType] /\ OthersStay(c) /\ client'[c] = x BY <1>1, Becomes
<1>3. Moves(c, x.at) /\ Keeps(c) BY <1>2 DEF Moves, Keeps
<1>4. QED BY <1>2, <1>3

LEMMA CountPreserves == ASSUME Inv, NEW c \in Clients, Count(c) PROVE Inv'
<1>1. Active(c) /\ client[c].at = "count" BY DEF Count, At, Active
<1>2. client[c].at \in Trims /\ Shrinks /\ UNCHANGED <<clock, fate, topics, stream, failures>>
  BY <1>1 DEF Trims, Shrinks, Count
<1>3. CASE client' = [client EXCEPT ![c] = Trimmed(c)] BY <1>1, <1>2, <1>3, TrimmedOn, TrimsOn
<1>4. CASE client' = [client EXCEPT ![c].at = "keep"]
  <2>1. client \in [Clients -> ClientType] BY <1>1, ActiveFacts
  <2>2. "keep" \in Ats /\ "keep" \in Trims BY DEF Ats, Trims
  <2>3. client' \in [Clients -> ClientType] /\ Moves(c, "keep") /\ Keeps(c)
    BY <1>4, <2>1, <2>2, GoesOn DEF Goes
  <2>4. QED BY <1>1, <1>2, <2>2, <2>3, TrimsOn
<1>5. QED BY <1>3, <1>4 DEF Count

LEMMA KeepPreserves == ASSUME Inv, NEW c \in Clients, Keep(c) PROVE Inv'
<1>1. Active(c) /\ client[c].at = "keep" BY DEF Keep, At, Active
<1>2. client[c].at \in Trims /\ Shrinks /\ UNCHANGED <<clock, fate, topics, stream, failures>>
  BY <1>1 DEF Trims, Shrinks, Keep
<1>3. client[c] \in ClientType /\ DOMAIN runs \subseteq Runs BY <1>1, ActiveFacts DEF Types
<1> DEFINE x == [client[c] EXCEPT !.at = "list", !.keep = Newest]
<1>4. client' = [client EXCEPT ![c] = x] BY DEF Keep
<1>5. Newest \in SUBSET Runs BY <1>3 DEF Newest
<1>6. /\ x \in ClientType /\ x.n = client[c].n /\ x.alone = client[c].alone
      /\ x.stamp = client[c].stamp /\ x.phase = client[c].phase /\ x.todo = client[c].todo
      /\ x.at \in Trims \ {"announce"}
  BY <1>3, <1>5 DEF ClientType, Ats, Trims
<1> HIDE DEF x
<1>7. QED BY <1>1, <1>2, <1>4, <1>6, TrimsWith, TrimsOn

LEMMA ListPreserves == ASSUME Inv, NEW c \in Clients, List(c) PROVE Inv'
<1>1. Active(c) /\ client[c].at = "list" BY DEF List, At, Active
<1>2. client[c].at \in Trims /\ Shrinks /\ UNCHANGED <<clock, fate, topics, stream, failures>>
  BY <1>1 DEF Trims, Shrinks, List
<1>3. client[c] \in ClientType /\ DOMAIN runs \subseteq Runs BY <1>1, ActiveFacts DEF Types
<1>4. CASE Others(c) = {}
  <2>1. client' = [client EXCEPT ![c] = Trimmed(c)] BY <1>4 DEF List
  <2>2. QED BY <1>1, <1>2, <2>1, TrimmedOn, TrimsOn
<1>5. CASE Others(c) # {}
  <2> DEFINE x == [client[c] EXCEPT !.at = "delete", !.victims = Others(c)]
  <2>1. client' = [client EXCEPT ![c] = x] BY <1>5 DEF List
  <2>2. Others(c) \in SUBSET Runs BY <1>3 DEF Others
  <2>3. /\ x \in ClientType /\ x.n = client[c].n /\ x.alone = client[c].alone
        /\ x.stamp = client[c].stamp /\ x.phase = client[c].phase /\ x.todo = client[c].todo
        /\ x.at \in Trims \ {"announce"}
    BY <1>3, <2>2 DEF ClientType, Ats, Trims
  <2> HIDE DEF x
  <2>4. QED BY <1>1, <1>2, <2>1, <2>3, TrimsWith, TrimsOn
<1>6. QED BY <1>4, <1>5

LEMMA DeletePreserves == ASSUME Inv, NEW c \in Clients, Delete(c) PROVE Inv'
<1>1. Active(c) /\ client[c].at = "delete" BY DEF Delete, At, Active
<1>2. client[c].at \in Trims /\ UNCHANGED <<clock, fate, topics, stream, failures>>
  BY <1>1 DEF Trims, Delete
<1>3. client[c] \in ClientType BY <1>1, ActiveFacts
<1>4. PICK r \in client[c].victims \cap DOMAIN runs :
        /\ runs' = [x \in DOMAIN runs \ {r} |-> runs[x]]
        /\ client' = [client EXCEPT ![c] =
             IF client[c].victims = {r} THEN Trimmed(c)
             ELSE [client[c] EXCEPT !.victims = client[c].victims \ {r}]]
  BY DEF Delete
<1>5. Shrinks BY <1>4 DEF Shrinks
<1>6. CASE client[c].victims = {r}
  <2>1. client' = [client EXCEPT ![c] = Trimmed(c)] BY <1>4, <1>6
  <2>2. QED BY <1>1, <1>2, <1>5, <2>1, TrimmedOn, TrimsOn
<1>7. CASE client[c].victims # {r}
  <2> DEFINE x == [client[c] EXCEPT !.victims = client[c].victims \ {r}]
  <2>1. client' = [client EXCEPT ![c] = x] BY <1>4, <1>7
  <2>2. client[c].victims \ {r} \in SUBSET Runs BY <1>3 DEF ClientType
  <2>3. /\ x \in ClientType /\ x.n = client[c].n /\ x.alone = client[c].alone
        /\ x.stamp = client[c].stamp /\ x.phase = client[c].phase /\ x.todo = client[c].todo
        /\ x.at \in Trims \ {"announce"}
    BY <1>1, <1>3, <2>2 DEF ClientType, Ats, Trims
  <2> HIDE DEF x
  <2>4. QED BY <1>1, <1>2, <1>5, <2>1, <2>3, TrimsWith, TrimsOn
<1>8. QED BY <1>6, <1>7

-----------------------------------------------------------------------------
(* Telling the stream, and the work itself *)

\* What a step that deletes records at most leaves to show.
LEMMA StepOn ==
  ASSUME Inv, NEW c \in Clients, Active(c), Shrinks, client' \in [Clients -> ClientType],
         OthersStay(c), client'[c].stamp \in {client[c].stamp, 0}, UNCHANGED clock,
         failures' \in 0 .. MaxFailures,
         UNCHANGED fate \/ \E f \in Fates : Fated(c, f),
         topics' \in [Runs -> SUBSET Events], \A r \in Runs : topics[r] \subseteq topics'[r],
         stream' \in [Runs -> Statuses \cup {"failed", "none"}]
  PROVE  Types' /\ OnlyOwn(c) /\ Frame(c) /\ StatusIsEarned'
<1>1. Types BY ActiveFacts
<1>2. CASE UNCHANGED fate
  <2>1. DOMAIN fate' = Clients /\ \A d \in Clients : fate'[d] \in [DOMAIN Script[d] -> Fates]
    BY <1>1, <1>2 DEF Types
  <2>2. Frame(c) BY <1>2 DEF Frame
  <2>3. Types' /\ OnlyOwn(c) BY <1>1, <2>1, ShrunkTypes
  <2>4. QED BY <2>2, <2>3, EarnedStays DEF Shrinks
<1>3. ASSUME NEW f \in Fates, Fated(c, f)
      PROVE Types' /\ OnlyOwn(c) /\ Frame(c) /\ StatusIsEarned'
  <2>1. /\ DOMAIN fate' = Clients
        /\ \A d \in Clients : fate'[d] \in [DOMAIN Script[d] -> Fates]
    BY <1>3, FatedOn
  <2>2. Frame(c) BY <1>3, FatedOn DEF Frame
  <2>3. Types' /\ OnlyOwn(c) BY <1>1, <2>1, ShrunkTypes
  <2>4. QED BY <2>2, <2>3, EarnedStays DEF Shrinks
<1>4. QED BY <1>2, <1>3

LEMMA TrimRaisesPreserves == ASSUME Inv, NEW c \in Clients, TrimRaises(c) PROVE Inv'
<1>1. Active(c) /\ client[c].at = "delete" BY DEF TrimRaises, At, Active
<1>2. /\ Types /\ client \in [Clients -> ClientType] /\ PlaceFor(c) /\ WorkFor(c)
      /\ client[c].phase \in {"start", "finish"}
  BY <1>1, ActiveFacts
<1>3. Shrinks /\ UNCHANGED <<runs, clock, topics, stream, failures>> BY DEF TrimRaises, Shrinks
<1>4. "killed_by_trim" \in Fates /\ Fated(c, "killed_by_trim") BY DEF Fates, TrimRaises
<1>5. fate'[c][client[c].n] = "killed_by_trim" BY <1>1, <1>4, FatedOn
<1>6. Fails(c) /\ FailureStays(c) BY <1>5 DEF Fails, FailureStays
<1>7. /\ failures' \in 0 .. MaxFailures /\ topics' \in [Runs -> SUBSET Events]
      /\ \A r \in Runs : topics[r] \subseteq topics'[r]
      /\ stream' \in [Runs -> Statuses \cup {"failed", "none"}]
  BY <1>2, <1>3 DEF Types
<1>8. CASE /\ Req(c).kind \in ScenarioKinds /\ client[c].phase = "finish"
           /\ Goes(c, "tell_failed")
  <2>1. "tell_failed" \in Ats \ {"idle"} BY DEF Ats
  <2>2. client' \in [Clients -> ClientType] /\ Moves(c, "tell_failed") /\ Keeps(c)
    BY <1>2, <1>8, <2>1, GoesOn
  <2>3. /\ OthersStay(c) /\ client'[c].n = client[c].n /\ client'[c].at = "tell_failed"
        /\ client'[c].phase = client[c].phase /\ client'[c].todo = client[c].todo
        /\ client'[c].stamp = client[c].stamp /\ Req(c)' = Req(c) /\ Run(c)' = Run(c)
        /\ StaysOn(c)
    BY <2>2 DEF Moves, Keeps, Req, Run, StaysOn
  <2>4. Types' /\ OnlyOwn(c) /\ Frame(c) /\ StatusIsEarned'
    BY <1>1, <1>3, <1>4, <1>7, <2>2, <2>3, StepOn
  <2>5. PlaceFor(c)' BY <1>1, <1>2, <1>8, <2>3 DEF PlaceFor, Active, ScenarioKinds
  <2>6. WorkFor(c)' BY <1>1, <1>2, <1>3, <2>3 DEF WorkFor, Active, Trims
  <2>7. RecordedFor(c)' BY <2>3 DEF RecordedFor, Trims
  <2>8. ClientsOK' BY <1>1, <1>5, <2>1, <2>2, <2>4, <2>5, <2>6, <2>7, Moved
  <2>9. BackedOK' BY <1>1, <1>6, <2>3, <2>4, BackedStays, <1>3
  <2>10. ToldOK' BY <1>1, <1>3, <1>6, <2>3, <2>4, ToldStays
  <2>11. QED BY <2>4, <2>8, <2>9, <2>10 DEF Inv
<1>9. CASE ~(Req(c).kind \in ScenarioKinds /\ client[c].phase = "finish") /\ Ends(c)
  <2>1. client' \in [Clients -> ClientType] /\ Leaves(c) BY <1>2, <1>9, LeavesOn
  <2>2. OthersStay(c) /\ client'[c].stamp \in {client[c].stamp, 0} BY <2>1 DEF Leaves
  <2>3. Types' /\ OnlyOwn(c) /\ Frame(c) /\ StatusIsEarned'
    BY <1>1, <1>3, <1>4, <1>7, <2>1, <2>2, StepOn
  <2>4. ClientsOK' BY <1>1, <2>1, <2>3, Left
  <2>5. BackedOK' BY <1>1, <1>3, <1>6, <2>2, <2>3, BackedStays
  <2>6. \/ Req(c).kind = "direct_write"
        \/ ~(client[c].phase = "finish" /\ MarksStart(c))
    BY <1>9 DEF MarksStart
  <2>7. ToldOK' BY <1>1, <1>3, <1>6, <2>2, <2>3, <2>6, ToldStays
  <2>8. QED BY <2>3, <2>4, <2>5, <2>7 DEF Inv
<1>10. QED BY <1>8, <1>9 DEF TrimRaises

LEMMA TellsOn ==
  ASSUME Types, NEW c \in Clients, NEW status \in Statuses \cup {"failed", "none"},
         Run(c) \in Runs,
         Tells(c, status)
  PROVE  /\ stream' \in [Runs -> Statuses \cup {"failed", "none"}]
         /\ \A r \in Runs : stream'[r] = stream[r] \/ (r = Run(c) /\ stream'[r] = status)
         /\ MarksStart(c) => stream'[Run(c)] = status
<1>1. stream \in [Runs -> Statuses \cup {"failed", "none"}] BY DEF Types
<1>2. CASE Req(c).kind \in ScenarioKinds /\ ~Req(c).named /\ UNCHANGED stream
  BY <1>1, <1>2 DEF MarksStart, ScenarioKinds
<1>3. CASE stream' = [stream EXCEPT ![Run(c)] = status]
  <2> HIDE DEF Statuses
  <2>1. QED BY <1>1, <1>3
<1>4. QED BY <1>2, <1>3 DEF Tells

LEMMA AnnouncePreserves == ASSUME Inv, NEW c \in Clients, Announce(c) PROVE Inv'
<1>1. Active(c) /\ client[c].at = "announce" BY DEF Announce, At, Active
<1>2. /\ Types /\ client \in [Clients -> ClientType] /\ PlaceFor(c) /\ WorkFor(c)
      /\ client[c].phase \in {"start", "finish"} /\ Run(c) \in Runs /\ Req(c).kind \in Kinds
      /\ client[c] \in ClientType
  BY <1>1, ActiveFacts
<1>3. Shrinks /\ UNCHANGED <<runs, clock, topics, failures>> BY DEF Announce, Shrinks
<1>4. ~Failed(c, client[c].n) /\ FailureStays(c) BY <1>1, NotFailed DEF FailureStays
<1>5. /\ failures' \in 0 .. MaxFailures /\ topics' \in [Runs -> SUBSET Events]
      /\ \A r \in Runs : topics[r] \subseteq topics'[r]
  BY <1>2, <1>3 DEF Types
<1>6. CASE client[c].phase = "start"
  <2> DEFINE x == [client[c] EXCEPT !.at = "work", !.phase = "finish"]
  <2>1. client' = [client EXCEPT ![c] = x] BY <1>6 DEF Announce
  <2>2. /\ x \in ClientType /\ x.n = client[c].n /\ x.alone = client[c].alone
        /\ x.stamp = client[c].stamp /\ x.at = "work" /\ x.phase = "finish"
        /\ x.todo = client[c].todo
    BY <1>2 DEF ClientType, Ats
  <2> HIDE DEF x, ClientType
  <2>3. client' \in [Clients -> ClientType] /\ OthersStay(c) /\ client'[c] = x
    BY <1>2, <2>1, <2>2, Becomes
  <2>4. /\ Moves(c, "work") /\ client'[c].n = client[c].n /\ client'[c].at = "work"
        /\ client'[c].phase = "finish" /\ client'[c].todo = client[c].todo
        /\ client'[c].stamp = client[c].stamp
        /\ Req(c)' = Req(c) /\ Run(c)' = Run(c) /\ StaysOn(c)
    BY <2>2, <2>3 DEF Moves, Req, Run, StaysOn
  <2>5. "running" \in Fates /\ Fated(c, "running") /\ Tells(c, "running")
    BY <1>6 DEF Fates, Announce
  <2>6. fate'[c][client[c].n] = "running" BY <1>1, <2>5, FatedOn
  <2>7. ~Fails(c) BY <2>6 DEF Fails
  <2>8. /\ stream' \in [Runs -> Statuses \cup {"failed", "none"}]
        /\ \A r \in Runs : stream'[r] = stream[r] \/ r = Run(c)
    BY <1>2, <2>5, TellsOn DEF Statuses
  <2>9. Types' /\ OnlyOwn(c) /\ Frame(c) /\ StatusIsEarned'
    BY <1>1, <1>3, <1>5, <2>3, <2>4, <2>5, <2>8, StepOn
  <2>10. MarksStart(c) BY <1>1, <1>2, <1>6 DEF PlaceFor
  <2>11. PlaceFor(c)' BY <1>1, <1>2, <2>4, <2>10 DEF PlaceFor, Active
  <2>12. WorkFor(c)' BY <1>1, <1>2, <1>3, <2>4 DEF WorkFor, Active, Trims
  <2>13. RecordedFor(c)' BY <2>4 DEF RecordedFor, Trims
  <2>14. "work" \in Ats \ {"idle"} BY DEF Ats
  <2>15. ClientsOK' BY <1>1, <2>4, <2>7, <2>9, <2>11, <2>12, <2>13, <2>14, Moved
  <2>16. BackedOK' BY <1>1, <1>3, <1>4, <2>3, <2>4, <2>9, BackedStays
  <2>17. ToldOK' BY <1>1, <1>4, <2>3, <2>4, <2>8, <2>9, <2>10, ToldStays
  <2>18. QED BY <2>9, <2>15, <2>16, <2>17 DEF Inv
<1>7. CASE client[c].phase = "finish"
  <2>1. /\ Ends(c) /\ Tells(c, Final(Req(c).kind)) /\ "told" \in Fates /\ Fated(c, "told")
    BY <1>7 DEF Announce, Fates
  <2>2. client' \in [Clients -> ClientType] /\ Leaves(c) BY <1>2, <2>1, LeavesOn
  <2>3. OthersStay(c) /\ client'[c].stamp \in {client[c].stamp, 0} BY <2>2 DEF Leaves
  <2>4. Final(Req(c).kind) \in Statuses \ {"running"} BY <1>2, FinalType
  <2>5. /\ stream' \in [Runs -> Statuses \cup {"failed", "none"}]
        /\ \A r \in Runs : stream'[r] = "running" => stream[r] = "running"
        /\ MarksStart(c) => stream'[Run(c)] # "running"
    BY <1>2, <2>1, <2>4, TellsOn
  <2>6. Types' /\ OnlyOwn(c) /\ Frame(c) /\ StatusIsEarned'
    BY <1>1, <1>3, <1>5, <2>1, <2>2, <2>3, <2>5, StepOn
  <2>7. ClientsOK' BY <1>1, <2>2, <2>6, Left
  <2>8. \A r \in DOMAIN runs' : runs'[r].status = "running" => runs'[r].by # Me(c)
    BY <1>1, <1>3, <1>7, NotMine DEF Trims
  <2>9. BackedOK' BY <1>1, <1>3, <1>4, <2>3, <2>6, <2>8, BackedStays
  <2>10. ToldOK' BY <1>1, <1>4, <2>3, <2>5, <2>6, ToldStays
  <2>11. QED BY <2>6, <2>7, <2>9, <2>10 DEF Inv
<1>8. QED BY <1>2, <1>6, <1>7

LEMMA PublishPreserves == ASSUME Inv, NEW c \in Clients, Publish(c) PROVE Inv'
<1>1. Active(c) /\ client[c].at = "work" BY DEF Publish, At, Active
<1>2. /\ Types /\ client \in [Clients -> ClientType] /\ PlaceFor(c) /\ WorkFor(c)
      /\ client[c].phase \in {"start", "finish"} /\ Run(c) \in Runs
      /\ client[c] \in ClientType
  BY <1>1, ActiveFacts
<1>3. Shrinks /\ UNCHANGED <<runs, clock, fate, stream, failures>> BY DEF Publish, Shrinks
<1> DEFINE todo == client[c].todo
<1>4. todo \in Seq(Events) /\ todo # << >> BY <1>2 DEF ClientType, Publish
<1>5. /\ Head(todo) \in Events /\ Tail(todo) \in Seq(Events) /\ Len(todo) \in Nat \ {0}
      /\ Len(Tail(todo)) = Len(todo) - 1 /\ Head(todo) = todo[1]
      /\ \A l \in 1 .. Len(Tail(todo)) : Tail(todo)[l] = todo[l + 1]
  BY <1>4, HeadTailProperties, EmptySeq
<1>6. /\ topics' = [topics EXCEPT ![Run(c)] = topics[Run(c)] \cup {Head(todo)}]
      /\ topics \in [Runs -> SUBSET Events]
  BY <1>2 DEF Publish, Types
<1>7. /\ topics' \in [Runs -> SUBSET Events] /\ \A r \in Runs : topics[r] \subseteq topics'[r]
      /\ topics'[Run(c)] = topics[Run(c)] \cup {Head(todo)}
  BY <1>2, <1>5, <1>6
<1> DEFINE x == [client[c] EXCEPT !.todo = Tail(todo)]
<1>8. client' = [client EXCEPT ![c] = x] BY DEF Publish
<1>9. /\ x \in ClientType /\ x.n = client[c].n /\ x.alone = client[c].alone
      /\ x.stamp = client[c].stamp /\ x.at = "work" /\ x.phase = client[c].phase
      /\ x.todo = Tail(todo)
  BY <1>1, <1>2, <1>5 DEF ClientType
<1> HIDE DEF x, ClientType
<1>10. client' \in [Clients -> ClientType] /\ OthersStay(c) /\ client'[c] = x
  BY <1>2, <1>8, <1>9, Becomes
<1>11. /\ Moves(c, "work") /\ client'[c].n = client[c].n /\ client'[c].at = "work"
       /\ client'[c].phase = client[c].phase /\ client'[c].todo = Tail(todo)
       /\ client'[c].stamp = client[c].stamp
       /\ Req(c)' = Req(c) /\ Run(c)' = Run(c) /\ StaysOn(c)
  BY <1>9, <1>10 DEF Moves, Req, Run, StaysOn
<1>12. failures' \in 0 .. MaxFailures /\ stream' \in [Runs -> Statuses \cup {"failed", "none"}]
  BY <1>2, <1>3 DEF Types
<1>13. Types' /\ OnlyOwn(c) /\ Frame(c) /\ StatusIsEarned'
  BY <1>1, <1>3, <1>7, <1>10, <1>11, <1>12, StepOn
<1>14. FailureStays(c) /\ ~Fails(c)
  BY <1>1, <1>3, NotFailed DEF FailureStays, Fails, Failed
<1>15. PlaceFor(c)' BY <1>1, <1>2, <1>11 DEF PlaceFor, Active, MarksStart
<1>16. WorkFor(c)'
  <2> DEFINE p == Publishes(Req(c).kind)
  <2> SUFFICES ASSUME NEW k \in 1 .. Len(p)
      PROVE p[k] \in topics'[Run(c)] \/ \E l \in 1 .. Len(Tail(todo)) : Tail(todo)[l] = p[k]
    BY <1>11 DEF WorkFor, Trims
  <2>1. p[k] \in topics[Run(c)] \/ \E l \in 1 .. Len(todo) : todo[l] = p[k]
    BY <1>1, <1>2 DEF WorkFor
  <2>2. CASE p[k] \in topics[Run(c)] BY <1>7, <2>2
  <2>3. ASSUME NEW l \in 1 .. Len(todo), todo[l] = p[k]
        PROVE p[k] \in topics'[Run(c)] \/ \E m \in 1 .. Len(Tail(todo)) : Tail(todo)[m] = p[k]
    <3>1. CASE l = 1 BY <1>5, <1>7, <2>3, <3>1
    <3>2. CASE l # 1
      <4>1. l - 1 \in 1 .. Len(Tail(todo)) /\ (l - 1) + 1 = l BY <1>5, <3>2
      <4>2. Tail(todo)[l - 1] = p[k] BY <1>5, <2>3, <4>1
      <4>3. QED BY <4>1, <4>2
    <3>3. QED BY <3>1, <3>2
  <2>4. QED BY <2>1, <2>2, <2>3
<1>17. RecordedFor(c)' BY <1>11 DEF RecordedFor, Trims
<1>18. "work" \in Ats \ {"idle"} BY DEF Ats
<1>19. ClientsOK' BY <1>1, <1>11, <1>13, <1>14, <1>15, <1>16, <1>17, <1>18, Moved
<1>20. BackedOK' BY <1>1, <1>3, <1>10, <1>11, <1>13, <1>14, BackedStays
<1>21. ToldOK' BY <1>1, <1>3, <1>10, <1>11, <1>13, <1>14, ToldStays
<1>22. QED BY <1>13, <1>19, <1>20, <1>21 DEF Inv

\* A failure counted is one of the bound.
LEMMA FailuresType ==
  ASSUME Types, (failures < MaxFailures /\ failures' = failures + 1) \/ UNCHANGED failures
  PROVE  failures' \in 0 .. MaxFailures
BY RegistryConstants DEF Types

LEMMA FailPreserves == ASSUME Inv, NEW c \in Clients, Fail(c) PROVE Inv'
<1>1. Active(c) /\ client[c].at = "work" BY DEF Fail, At, Active
<1>2. /\ Types /\ client \in [Clients -> ClientType] /\ PlaceFor(c) /\ WorkFor(c)
      /\ client[c].phase \in {"start", "finish"}
  BY <1>1, ActiveFacts
<1>3. Shrinks /\ UNCHANGED <<runs, clock, fate, topics, stream>> BY DEF Fail, Shrinks
<1>4. FailureStays(c) /\ ~Fails(c)
  BY <1>1, <1>3, NotFailed DEF FailureStays, Fails, Failed
<1>5. "tell_failed" \in Ats \ {"idle"} BY DEF Ats
<1>6. client' \in [Clients -> ClientType] /\ Moves(c, "tell_failed") /\ Keeps(c)
  BY <1>2, <1>5, GoesOn DEF Fail
<1>7. /\ OthersStay(c) /\ client'[c].n = client[c].n /\ client'[c].at = "tell_failed"
      /\ client'[c].phase = client[c].phase /\ client'[c].todo = client[c].todo
      /\ client'[c].stamp = client[c].stamp /\ Req(c)' = Req(c) /\ Run(c)' = Run(c)
      /\ StaysOn(c)
  BY <1>6 DEF Moves, Keeps, Req, Run, StaysOn
<1>8. failures' \in 0 .. MaxFailures BY <1>2, FailuresType DEF Fail
<1>9. /\ topics' \in [Runs -> SUBSET Events] /\ \A r \in Runs : topics[r] \subseteq topics'[r]
      /\ stream' \in [Runs -> Statuses \cup {"failed", "none"}]
  BY <1>2, <1>3 DEF Types
<1>10. Types' /\ OnlyOwn(c) /\ Frame(c) /\ StatusIsEarned'
  BY <1>1, <1>3, <1>6, <1>7, <1>8, <1>9, StepOn
<1>11. PlaceFor(c)' BY <1>1, <1>2, <1>7 DEF PlaceFor, Active, Trims
<1>12. WorkFor(c)' BY <1>1, <1>2, <1>3, <1>7 DEF WorkFor, Active, Trims
<1>13. RecordedFor(c)' BY <1>7 DEF RecordedFor, Trims
<1>14. ClientsOK' BY <1>1, <1>4, <1>5, <1>6, <1>10, <1>11, <1>12, <1>13, Moved
<1>15. BackedOK' BY <1>1, <1>3, <1>4, <1>7, <1>10, BackedStays
<1>16. ToldOK' BY <1>1, <1>3, <1>4, <1>7, <1>10, ToldStays
<1>17. QED BY <1>10, <1>14, <1>15, <1>16 DEF Inv

LEMMA TellFailedPreserves == ASSUME Inv, NEW c \in Clients, TellFailed(c) PROVE Inv'
<1>1. Active(c) BY DEF TellFailed, At, Active
<1>2. Types /\ client \in [Clients -> ClientType] /\ Run(c) \in Runs BY <1>1, ActiveFacts
<1>3. Shrinks /\ UNCHANGED <<runs, clock, topics, failures>> BY DEF TellFailed, Shrinks
<1>4. PICK f \in {"failed", "failed_in_trim"} : Fated(c, f) BY DEF TellFailed
<1>5. f \in Fates BY DEF Fates
<1>6. fate'[c][client[c].n] = f BY <1>1, <1>4, <1>5, FatedOn
<1>7. Fails(c) /\ FailureStays(c) BY <1>6 DEF Fails, FailureStays
<1>8. client' \in [Clients -> ClientType] /\ Leaves(c) BY <1>2, LeavesOn DEF TellFailed
<1>9. OthersStay(c) /\ client'[c].stamp \in {client[c].stamp, 0} BY <1>8 DEF Leaves
<1>10. /\ stream' \in [Runs -> Statuses \cup {"failed", "none"}]
       /\ \A r \in Runs : stream'[r] = "running" => stream[r] = "running"
       /\ MarksStart(c) => stream'[Run(c)] # "running"
  BY <1>2, TellsOn DEF TellFailed
<1>11. /\ failures' \in 0 .. MaxFailures /\ topics' \in [Runs -> SUBSET Events]
       /\ \A r \in Runs : topics[r] \subseteq topics'[r]
  BY <1>2, <1>3 DEF Types
<1>12. Types' /\ OnlyOwn(c) /\ Frame(c) /\ StatusIsEarned'
  BY <1>1, <1>3, <1>4, <1>5, <1>8, <1>9, <1>10, <1>11, StepOn
<1>13. ClientsOK' BY <1>1, <1>8, <1>12, Left
<1>14. BackedOK' BY <1>1, <1>3, <1>7, <1>9, <1>12, BackedStays
<1>15. ToldOK' BY <1>1, <1>7, <1>9, <1>10, <1>12, ToldStays
<1>16. QED BY <1>12, <1>13, <1>14, <1>15 DEF Inv

LEMMA AlertFailsPreserves == ASSUME Inv, NEW c \in Clients, AlertFails(c) PROVE Inv'
<1>1. Active(c) /\ Req(c).kind = "direct_write" BY DEF AlertFails, At, Active
<1>2. Types /\ client \in [Clients -> ClientType] BY <1>1, ActiveFacts
<1>3. Shrinks /\ UNCHANGED <<runs, clock, topics, stream>> BY DEF AlertFails, Shrinks
<1>4. "killed_by_broker" \in Fates /\ Fated(c, "killed_by_broker") BY DEF Fates, AlertFails
<1>5. fate'[c][client[c].n] = "killed_by_broker" BY <1>1, <1>4, FatedOn
<1>6. Fails(c) /\ FailureStays(c) BY <1>5 DEF Fails, FailureStays
<1>7. client' \in [Clients -> ClientType] /\ Leaves(c) BY <1>2, LeavesOn DEF AlertFails
<1>8. OthersStay(c) /\ client'[c].stamp \in {client[c].stamp, 0} BY <1>7 DEF Leaves
<1>9. failures' \in 0 .. MaxFailures BY <1>2, FailuresType DEF AlertFails
<1>10. /\ topics' \in [Runs -> SUBSET Events] /\ \A r \in Runs : topics[r] \subseteq topics'[r]
       /\ stream' \in [Runs -> Statuses \cup {"failed", "none"}]
  BY <1>2, <1>3 DEF Types
<1>11. Types' /\ OnlyOwn(c) /\ Frame(c) /\ StatusIsEarned'
  BY <1>1, <1>3, <1>4, <1>7, <1>8, <1>9, <1>10, StepOn
<1>12. ClientsOK' BY <1>1, <1>7, <1>11, Left
<1>13. BackedOK' BY <1>1, <1>3, <1>6, <1>8, <1>11, BackedStays
<1>14. ToldOK' BY <1>1, <1>3, <1>6, <1>8, <1>11, ToldStays
<1>15. QED BY <1>11, <1>12, <1>13, <1>14 DEF Inv

-----------------------------------------------------------------------------
(* The reset *)

LEMMA ResetRunsPreserves == ASSUME Inv, NEW c \in Clients, ResetRuns(c) PROVE Inv'
<1>1. Active(c) /\ client[c].at = "reset" BY DEF ResetRuns, At, Active
<1>2. /\ Types /\ client \in [Clients -> ClientType] /\ PlaceFor(c) /\ WorkFor(c)
      /\ client[c].phase \in {"start", "finish"}
  BY <1>1, ActiveFacts
<1>3. UNCHANGED <<clock, fate, topics, stream, failures>> BY DEF ResetRuns
<1>4. Shrinks BY DEF ResetRuns, Shrinks
<1>5. FailureStays(c) /\ ~Fails(c)
  BY <1>1, <1>3, NotFailed DEF FailureStays, Fails, Failed
<1>6. "reset_streams" \in Ats \ {"idle"} BY DEF Ats
<1>7. client' \in [Clients -> ClientType] /\ Moves(c, "reset_streams") /\ Keeps(c)
  BY <1>2, <1>6, GoesOn DEF ResetRuns
<1>8. /\ OthersStay(c) /\ client'[c].n = client[c].n /\ client'[c].at = "reset_streams"
      /\ client'[c].phase = client[c].phase /\ client'[c].todo = client[c].todo
      /\ client'[c].stamp = client[c].stamp /\ Req(c)' = Req(c) /\ Run(c)' = Run(c)
      /\ StaysOn(c)
  BY <1>7 DEF Moves, Keeps, Req, Run, StaysOn
<1>9. /\ failures' \in 0 .. MaxFailures /\ topics' \in [Runs -> SUBSET Events]
      /\ \A r \in Runs : topics[r] \subseteq topics'[r]
      /\ stream' \in [Runs -> Statuses \cup {"failed", "none"}]
  BY <1>2, <1>3 DEF Types
<1>10. Types' /\ OnlyOwn(c) /\ Frame(c) /\ StatusIsEarned'
  BY <1>1, <1>3, <1>4, <1>7, <1>8, <1>9, StepOn
<1>11. PlaceFor(c)' BY <1>1, <1>2, <1>8 DEF PlaceFor, Active, Trims
<1>12. WorkFor(c)' BY <1>1, <1>2, <1>3, <1>8 DEF WorkFor, Active, Trims
<1>13. RecordedFor(c)' BY <1>8 DEF RecordedFor, Trims
<1>14. ClientsOK' BY <1>1, <1>5, <1>6, <1>7, <1>10, <1>11, <1>12, <1>13, Moved
<1>15. \A r \in DOMAIN runs' : FALSE BY DEF ResetRuns
<1>16. BackedOK' BY <1>15 DEF BackedOK
<1>17. ToldOK' BY <1>1, <1>3, <1>5, <1>8, <1>10, ToldStays
<1>18. QED BY <1>10, <1>14, <1>16, <1>17 DEF Inv

LEMMA ResetStreamsPreserves == ASSUME Inv, NEW c \in Clients, ResetStreams(c) PROVE Inv'
<1>1. Active(c) /\ client[c].at = "reset_streams" BY DEF ResetStreams, At, Active
<1>2. /\ Types /\ client \in [Clients -> ClientType] /\ PlaceFor(c)
      /\ client[c].phase \in {"start", "finish"}
  BY <1>1, ActiveFacts
<1>3. Shrinks /\ UNCHANGED <<runs, clock, fate, topics, failures>> BY DEF ResetStreams, Shrinks
<1>4. FailureStays(c) BY <1>1, NotFailed DEF FailureStays
<1>5. client' \in [Clients -> ClientType] /\ Leaves(c) BY <1>2, LeavesOn DEF ResetStreams
<1>6. OthersStay(c) /\ client'[c].stamp \in {client[c].stamp, 0} BY <1>5 DEF Leaves
<1>7. /\ stream' \in [Runs -> Statuses \cup {"failed", "none"}]
      /\ \A r \in Runs : stream'[r] # "running"
  BY DEF ResetStreams
<1>8. /\ failures' \in 0 .. MaxFailures /\ topics' \in [Runs -> SUBSET Events]
      /\ \A r \in Runs : topics[r] \subseteq topics'[r]
  BY <1>2, <1>3 DEF Types
<1>9. Types' /\ OnlyOwn(c) /\ Frame(c) /\ StatusIsEarned'
  BY <1>1, <1>3, <1>5, <1>6, <1>7, <1>8, StepOn
<1>10. ClientsOK' BY <1>1, <1>5, <1>9, Left
<1>11. client[c].phase = "finish" BY <1>1, <1>2 DEF PlaceFor, Trims
<1>12. \A r \in DOMAIN runs' : runs'[r].status = "running" => runs'[r].by # Me(c)
  BY <1>1, <1>3, <1>11, NotMine
<1>13. BackedOK' BY <1>1, <1>3, <1>4, <1>6, <1>9, <1>12, BackedStays
<1>14. ToldOK' BY <1>7 DEF ToldOK
<1>15. QED BY <1>9, <1>10, <1>13, <1>14 DEF Inv

-----------------------------------------------------------------------------
(* A request comes, and the rest *)

\* What the next request of an idle client is.
LEMMA FirstIs ==
  ASSUME NEW c \in Clients, client[c].n \in DOMAIN Script[c]
  PROVE  /\ First(c) \in {"mark", "insert", "reset", "work"}
         /\ MarksStart(c) <=> First(c) = "mark"
         /\ First(c) = "insert" <=> Req(c).kind = "allocate"
         /\ First(c) = "reset" <=> Req(c).kind = "reset"
<1>1. Req(c).kind \in Kinds BY ReqType
<1>2. CASE MarksStart(c)
  <2>1. Req(c).kind # "allocate" /\ Req(c).kind # "reset"
    BY <1>2 DEF MarksStart, ScenarioKinds
  <2>2. First(c) = "mark" BY <1>2, <2>1 DEF First
  <2>3. QED BY <1>2, <2>1, <2>2
<1>3. CASE Req(c).kind = "allocate"
  <2>1. ~MarksStart(c) BY <1>3 DEF MarksStart, ScenarioKinds
  <2>2. First(c) = "insert" BY <1>3, <2>1 DEF First
  <2>3. QED BY <1>3, <2>1, <2>2
<1>4. CASE Req(c).kind = "reset"
  <2>1. ~MarksStart(c) BY <1>4 DEF MarksStart, ScenarioKinds
  <2>2. First(c) = "reset" BY <1>4, <2>1 DEF First
  <2>3. QED BY <1>4, <2>1, <2>2
<1>5. CASE ~MarksStart(c) /\ Req(c).kind # "allocate" /\ Req(c).kind # "reset"
  <2>1. First(c) = "work" BY <1>5 DEF First
  <2>2. QED BY <1>5, <2>1
<1>6. QED BY <1>2, <1>3, <1>4, <1>5

LEMMA BeginPreserves == ASSUME Inv, NEW c \in Clients, Begin(c) PROVE Inv'
<1>1. Types /\ client \in [Clients -> ClientType] /\ clock \in Nat BY DEF Inv, Types
<1>2. client[c].n \in DOMAIN Script[c] /\ client[c].at = "idle" /\ ~Active(c)
  BY DEF Begin, At, Active
<1>3. UNCHANGED <<runs, fate, topics, stream, failures>> BY DEF Begin
<1>4. clock' \in Nat /\ clock <= clock'
  <2>1. clock' = clock + 1 \/ clock' = clock BY DEF Begin
  <2>2. QED BY <1>1, <2>1
<1>5. Req(c).kind \in Kinds /\ Publishes(Req(c).kind) \in Seq(Events)
  BY <1>2, ReqType, PublishesType
<1> DEFINE own == [client[c] EXCEPT
                     !.at = First(c), !.stamp = clock', !.todo = Publishes(Req(c).kind),
                     !.phase = IF MarksStart(c) THEN "start" ELSE "finish",
                     !.alone = \A e \in Clients : ~(Active(e) /\ Run(e) = Run(c))]
           other(d) == [client[d] EXCEPT !.alone = @ /\ ~(Active(d) /\ Run(d) = Run(c))]
<1>6. client' = [d \in Clients |-> IF d = c THEN own ELSE other(d)] BY DEF Begin
<1>7. /\ own \in ClientType /\ own.n = client[c].n /\ own.at = First(c)
      /\ own.stamp = clock' /\ own.todo = Publishes(Req(c).kind)
      /\ own.phase = IF MarksStart(c) THEN "start" ELSE "finish"
      /\ own.alone <=> \A e \in Clients : ~(Active(e) /\ Run(e) = Run(c))
  <2>1. client[c] \in ClientType BY <1>1
  <2>2. First(c) \in Ats BY <1>2, FirstIs DEF Ats
  <2>3. (\A e \in Clients : ~(Active(e) /\ Run(e) = Run(c))) \in BOOLEAN OBVIOUS
  <2> DEFINE al == \A e \in Clients : ~(Active(e) /\ Run(e) = Run(c))
  <2> HIDE DEF al
  <2>4. al \in BOOLEAN BY DEF al
  <2>5. own = [client[c] EXCEPT
                 !.at = First(c), !.stamp = clock', !.todo = Publishes(Req(c).kind),
                 !.phase = IF MarksStart(c) THEN "start" ELSE "finish", !.alone = al]
    BY DEF al
  <2> HIDE DEF own
  <2>6. /\ own \in ClientType /\ own.n = client[c].n /\ own.at = First(c)
        /\ own.stamp = clock' /\ own.todo = Publishes(Req(c).kind)
        /\ own.phase = IF MarksStart(c) THEN "start" ELSE "finish"
        /\ own.alone = al
    BY <1>4, <1>5, <2>1, <2>2, <2>4, <2>5 DEF ClientType
  <2>7. QED BY <2>6 DEF al
<1>8. ASSUME NEW d \in Clients
      PROVE /\ other(d) \in ClientType
            /\ other(d).n = client[d].n /\ other(d).at = client[d].at
            /\ other(d).stamp = client[d].stamp /\ other(d).todo = client[d].todo
            /\ other(d).phase = client[d].phase
            /\ other(d).alone => client[d].alone /\ ~(Active(d) /\ Run(d) = Run(c))
  <2>1. client[d] \in ClientType /\ client[d].alone \in BOOLEAN BY <1>1 DEF ClientType
  <2> DEFINE al == client[d].alone /\ ~(Active(d) /\ Run(d) = Run(c))
  <2>2. other(d) = [client[d] EXCEPT !.alone = al] OBVIOUS
  <2> HIDE DEF al, other
  <2>3. al \in BOOLEAN BY DEF al
  <2>4. /\ other(d) \in ClientType /\ other(d).n = client[d].n /\ other(d).at = client[d].at
        /\ other(d).stamp = client[d].stamp /\ other(d).todo = client[d].todo
        /\ other(d).phase = client[d].phase /\ other(d).alone = al
    BY <2>1, <2>2, <2>3 DEF ClientType
  <2>5. QED BY <2>4 DEF al
<1>9. /\ client'[c] = own /\ \A d \in Clients : d # c => client'[d] = other(d)
      /\ client' \in [Clients -> ClientType]
  BY <1>6, <1>7, <1>8
<1> HIDE DEF own, other, ClientType
<1>10. ASSUME NEW d \in Clients, d # c
       PROVE /\ client'[d].n = client[d].n /\ client'[d].at = client[d].at
             /\ client'[d].stamp = client[d].stamp /\ client'[d].todo = client[d].todo
             /\ client'[d].phase = client[d].phase
             /\ Req(d)' = Req(d) /\ Run(d)' = Run(d) /\ (Active(d)' <=> Active(d))
             /\ client'[d].alone => client[d].alone /\ ~(Active(d) /\ Run(d) = Run(c))
  <2>1. client'[d] = other(d) BY <1>9, <1>10
  <2>2. QED BY <1>8, <2>1 DEF Req, Run, Active
<1>11. /\ client'[c].n = client[c].n /\ client'[c].at = First(c) /\ client'[c].stamp = clock'
       /\ client'[c].todo = Publishes(Req(c).kind)
       /\ client'[c].phase = IF MarksStart(c) THEN "start" ELSE "finish"
       /\ Req(c)' = Req(c) /\ Run(c)' = Run(c)
       /\ client'[c].alone => \A e \in Clients : ~(Active(e) /\ Run(e) = Run(c))
  BY <1>7, <1>9 DEF Req, Run
<1>12. Types'
  <2>1. \A d \in Clients : client'[d].stamp <= clock'
    <3> SUFFICES ASSUME NEW d \in Clients PROVE client'[d].stamp <= clock' OBVIOUS
    <3>1. CASE d = c BY <1>4, <1>11, <3>1
    <3>2. CASE d # c
      <4>1. client'[d].stamp = client[d].stamp BY <1>10, <3>2
      <4>2. client[d].stamp \in Nat /\ client[d].stamp <= clock BY <1>1 DEF Types, ClientType
      <4>3. QED BY <1>1, <1>4, <4>1, <4>2
    <3>3. QED BY <3>1, <3>2
  <2>2. QED BY <1>1, <1>3, <1>4, <1>9, <2>1 DEF Types
<1>13. ClientsOK'
  <2>1. ASSUME NEW d \in Clients, d # c
        PROVE PlaceFor(d)' /\ WorkFor(d)' /\ FateFor(d)' /\ ApartFor(d)' /\ RecordedFor(d)'
    <3>1. PlaceFor(d) /\ WorkFor(d) /\ FateFor(d) /\ ApartFor(d) /\ RecordedFor(d)
      BY DEF Inv, ClientsOK
    <3>2. PlaceFor(d)' BY <1>10, <2>1, <3>1 DEF PlaceFor, MarksStart
    <3>3. WorkFor(d)' BY <1>3, <1>10, <2>1, <3>1 DEF WorkFor
    <3>4. FateFor(d)' BY <1>3, <1>10, <2>1, <3>1 DEF FateFor, Failed
    <3>5. ApartFor(d)'
      <4> SUFFICES ASSUME Active(d)', client'[d].alone, NEW e \in Clients, e # d,
                          Active(e)', Run(e)' = Run(d)'
          PROVE FALSE
        BY DEF ApartFor
      <4>1. Active(d) /\ client[d].alone /\ Run(d) # Run(c) /\ Run(d)' = Run(d)
        BY <1>10, <2>1
      <4>2. CASE e = c BY <1>11, <4>1, <4>2
      <4>3. CASE e # c
        <5>1. Active(e) /\ Run(e) = Run(d) BY <1>10, <4>1, <4>3
        <5>2. QED BY <3>1, <4>1, <5>1 DEF ApartFor
      <4>4. QED BY <4>2, <4>3
    <3>6. RecordedFor(d)' BY <1>3, <1>10, <2>1, <3>1 DEF RecordedFor
    <3>7. QED BY <3>2, <3>3, <3>4, <3>5, <3>6
  <2>2. PlaceFor(c)'
    <3>1. MarksStart(c)' <=> MarksStart(c) BY <1>11 DEF MarksStart
    <3>2. MarksStart(c) => client'[c].phase = "start" /\ client'[c].at = "mark"
      BY <1>2, <1>11, FirstIs
    <3>3. ~MarksStart(c) => client'[c].phase = "finish" /\ client'[c].at # "mark"
      BY <1>2, <1>11, FirstIs
    <3>4. /\ client'[c].at \in {"reset", "reset_streams"} <=> Req(c).kind = "reset"
          /\ Req(c).kind = "allocate" => client'[c].at = "insert" /\ ~MarksStart(c)
      BY <1>2, <1>11, FirstIs
    <3>5. QED BY <1>11, <3>1, <3>2, <3>3, <3>4 DEF PlaceFor
  <2>3. WorkFor(c)'
    <3>1. Req(c).kind = "allocate" => Publishes(Req(c).kind) = << >> BY DEF Publishes
    <3>2. client'[c].at \in {"insert"} \cup Trims => Req(c).kind = "allocate"
      BY <1>2, <1>11, FirstIs DEF Trims
    <3>3. QED BY <1>11, <3>1, <3>2 DEF WorkFor
  <2>4. FateFor(c)'
    <3>1. FateFor(c) BY DEF Inv, ClientsOK
    <3>2. First(c) # "idle" BY <1>2, FirstIs
    <3>3. fate[c][client[c].n] = "none" BY <1>2, <3>1 DEF FateFor
    <3>4. QED BY <1>3, <1>11, <3>1, <3>2, <3>3 DEF FateFor, Failed
  <2>5. ApartFor(c)'
    <3> SUFFICES ASSUME client'[c].alone, NEW e \in Clients, e # c, Active(e)',
                        Run(e)' = Run(c)'
        PROVE FALSE
      BY DEF ApartFor
    <3>1. Active(e) /\ Run(e) = Run(c) BY <1>10, <1>11
    <3>2. QED BY <1>11, <3>1
  <2>6. RecordedFor(c)'
    <3>1. client'[c].at \in Trims => FALSE BY <1>2, <1>11, FirstIs DEF Trims
    <3>2. QED BY <3>1 DEF RecordedFor
  <2>7. QED BY <2>1, <2>2, <2>3, <2>4, <2>5, <2>6 DEF ClientsOK
<1>14. \A d \in Clients : \A n \in DOMAIN Script[d] :
         UnderWay(d, n) => d # c /\ UnderWay(d, n)'
  BY <1>2, <1>10 DEF UnderWay
<1>15. BackedOK'
  <2> SUFFICES ASSUME NEW r \in DOMAIN runs, NEW d \in Clients, NEW n \in Nat,
                      runs[r].status = "running", runs[r].by = <<d, n>>
      PROVE Backed(r, d, n)'
    BY <1>3 DEF BackedOK
  <2>1. Backed(r, d, n) BY DEF Inv, BackedOK
  <2>2. CASE Failed(d, n) BY <1>3, <2>1, <2>2 DEF Backed, Failed
  <2>3. CASE ~Failed(d, n) /\ UnderWay(d, n)
    <3>1. n \in DOMAIN Script[d] BY <2>1 DEF Backed
    <3>2. d # c /\ UnderWay(d, n)' BY <1>14, <2>3, <3>1
    <3>3. QED BY <1>10, <2>1, <2>3, <3>2 DEF Backed
  <2>4. QED BY <2>1, <2>2, <2>3 DEF Backed
<1>16. StatusIsEarned' BY <1>3 DEF Inv, StatusIsEarned
<1>17. ToldOK'
  <2> SUFFICES ASSUME NEW r \in Runs, stream[r] = "running"
      PROVE \E d \in Clients : \E n \in DOMAIN Script[d] : Tellable(r, d, n)'
    BY <1>3 DEF ToldOK
  <2>1. PICK d \in Clients : \E n \in DOMAIN Script[d] : Tellable(r, d, n)
    BY DEF Inv, ToldOK
  <2>2. PICK n \in DOMAIN Script[d] : Tellable(r, d, n) BY <2>1
  <2>3. CASE Script[d][n].kind = "direct_write" /\ Failed(d, n)
    <3>1. Tellable(r, d, n)' BY <1>3, <2>2, <2>3 DEF Tellable, Failed
    <3>2. QED BY <3>1
  <2>4. CASE UnderWay(d, n) /\ client[d].phase = "finish" /\ MarksStart(d)
    <3>1. d # c /\ UnderWay(d, n)' BY <1>14, <2>4
    <3>2. Tellable(r, d, n)' BY <1>10, <2>2, <2>4, <3>1 DEF Tellable, MarksStart
    <3>3. QED BY <3>2
  <2>5. QED BY <2>2, <2>3, <2>4 DEF Tellable
<1>18. QED BY <1>12, <1>13, <1>15, <1>16, <1>17 DEF Inv

LEMMA StutterPreserves == ASSUME Inv, UNCHANGED vars PROVE Inv'
<1>1. /\ runs' = runs /\ clock' = clock /\ client' = client /\ fate' = fate
      /\ topics' = topics /\ stream' = stream /\ failures' = failures
  BY DEF vars
<1>2. Types' BY <1>1 DEF Inv, Types
<1>3. ASSUME NEW c \in Clients
      PROVE PlaceFor(c)' /\ WorkFor(c)' /\ FateFor(c)' /\ ApartFor(c)' /\ RecordedFor(c)'
  <2>1. PlaceFor(c) /\ WorkFor(c) /\ FateFor(c) /\ ApartFor(c) /\ RecordedFor(c)
    BY DEF Inv, ClientsOK
  <2>2. /\ Active(c)' <=> Active(c)
        /\ Req(c)' = Req(c) /\ Run(c)' = Run(c)
    BY <1>1 DEF Active, Req, Run
  <2>3. PlaceFor(c)' BY <1>1, <2>1, <2>2 DEF PlaceFor, MarksStart
  <2>4. WorkFor(c)' BY <1>1, <2>1, <2>2 DEF WorkFor
  <2>5. FateFor(c)' BY <1>1, <2>1 DEF FateFor, Failed
  <2>6. ApartFor(c)' BY <1>1, <2>1, <2>2 DEF ApartFor, Active, Run, Req
  <2>7. RecordedFor(c)' BY <1>1, <2>1, <2>2 DEF RecordedFor
  <2>8. QED BY <2>3, <2>4, <2>5, <2>6, <2>7
<1>4. BackedOK' BY <1>1 DEF Inv, BackedOK, Backed, Failed, UnderWay, Active
<1>5. StatusIsEarned' BY <1>1 DEF Inv, StatusIsEarned
<1>6. ToldOK'
  BY <1>1 DEF Inv, ToldOK, Tellable, Failed, UnderWay, Active, MarksStart, Req
<1>7. QED BY <1>2, <1>3, <1>4, <1>5, <1>6 DEF Inv, ClientsOK

LEMMA InitInv == Init => Inv
<1> SUFFICES ASSUME Init PROVE Inv OBVIOUS
<1>1. << >> \in Seq(Events) OBVIOUS
<1>2. NewClient \in ClientType BY <1>1 DEF NewClient, ClientType, Ats
<1>3. \A c \in Clients : client[c] = NewClient BY DEF Init
<1>4. \A c \in Clients : client[c].n = 1 /\ client[c].at = "idle" /\ client[c].stamp = 0
  BY <1>3 DEF NewClient
<1>5. \A c \in Clients : ~Active(c) BY <1>4 DEF Active
<1>6. DOMAIN runs = {} BY DEF Init
<1>7. Types
  <2>1. client \in [Clients -> ClientType]
    <3> HIDE DEF ClientType, NewClient
    <3>1. QED BY <1>2 DEF Init
  <2>2. DOMAIN fate = Clients /\ \A c \in Clients : fate[c] \in [DOMAIN Script[c] -> Fates]
    BY DEF Init, Fates
  <2>3. /\ topics \in [Runs -> SUBSET Events]
        /\ stream \in [Runs -> Statuses \cup {"failed", "none"}]
    BY DEF Init
  <2>4. clock = 0 /\ failures \in 0 .. MaxFailures BY RegistryConstants DEF Init
  <2>5. QED BY <1>4, <1>6, <2>1, <2>2, <2>3, <2>4 DEF Types
<1>8. ClientsOK
  <2>1. \A c \in Clients : FateFor(c) BY DEF FateFor, Init, Failed
  <2>2. QED BY <1>5, <2>1 DEF ClientsOK, PlaceFor, WorkFor, ApartFor, RecordedFor
<1>9. BackedOK /\ StatusIsEarned BY <1>6 DEF BackedOK, StatusIsEarned
<1>10. ToldOK BY DEF Init, ToldOK
<1>11. QED BY <1>7, <1>8, <1>9, <1>10 DEF Inv

LEMMA NextInv == Inv /\ [Next]_vars => Inv'
<1> SUFFICES ASSUME Inv, [Next]_vars PROVE Inv' OBVIOUS
<1>1. CASE UNCHANGED vars BY <1>1, StutterPreserves
<1>2. ASSUME NEW c \in Clients, Begin(c) PROVE Inv' BY <1>2, BeginPreserves
<1>3. ASSUME NEW c \in Clients, Handles(c) PROVE Inv'
  BY <1>3, MarkPreserves, InsertPreserves, CountPreserves, KeepPreserves, ListPreserves,
     DeletePreserves, TrimRaisesPreserves, AnnouncePreserves, PublishPreserves,
     TellFailedPreserves, ResetRunsPreserves, ResetStreamsPreserves
  DEF Handles
<1>4. ASSUME NEW c \in Clients, Fail(c) PROVE Inv' BY <1>4, FailPreserves
<1>5. ASSUME NEW c \in Clients, AlertFails(c) PROVE Inv' BY <1>5, AlertFailsPreserves
<1>6. QED BY <1>1, <1>2, <1>3, <1>4, <1>5 DEF Next

\* The invariant holds in every state: requests on one run may meet one another, trims and
\* resets at any step.
THEOREM Invariance == Spec => []Inv
BY InitInv, NextInv, PTL DEF Spec

\* The registry, its clients, the topics and the streams keep their types.
THEOREM TypeCorrect == Spec => []TypeOK
<1>1. Inv => TypeOK
  <2> SUFFICES ASSUME Inv PROVE TypeOK OBVIOUS
  <2>1. Types BY DEF Inv
  <2>2. \A c \in Clients :
          /\ client[c].n \in Nat \ {0} /\ client[c].at \in Ats
          /\ client[c].phase \in {"start", "finish"} /\ client[c].stamp \in 0 .. clock
          /\ client[c].keep \subseteq Runs /\ client[c].victims \subseteq Runs
    BY <2>1 DEF Types, ClientType
  <2>3. QED BY <2>1, <2>2 DEF Types, TypeOK
<1>2. QED BY <1>1, Invariance, PTL

\* A run shown as running is being worked on by the request that wrote the record, or that
\* request has failed (mark_started and mark_completed of api/run_store.py).
THEOREM RunningRunsAreBacked == Spec => []RunningIsBacked
<1>1. Inv => RunningIsBacked
  <2> SUFFICES ASSUME Inv, NEW r \in DOMAIN runs, runs[r].status = "running"
      PROVE UnderWay(runs[r].by[1], runs[r].by[2]) \/ Failed(runs[r].by[1], runs[r].by[2])
    BY DEF RunningIsBacked
  <2>1. PICK c \in Clients, n \in Nat : runs[r].by = <<c, n>>
    <3>1. runs[r] \in Record BY DEF Inv, Types
    <3>2. runs[r].by \in Clients \X Nat BY <3>1 DEF Record
    <3>3. QED BY <3>2
  <2>2. Backed(r, c, n) BY <2>1 DEF Inv, BackedOK
  <2>3. runs[r].by[1] = c /\ runs[r].by[2] = n BY <2>1
  <2>4. QED BY <2>2, <2>3 DEF Backed
<1>2. QED BY <1>1, Invariance, PTL

\* The status of a record is one the topics bear out, whichever request wrote it.
THEOREM StatusesAreEarned == Spec => []StatusIsEarned
<1>1. Inv => StatusIsEarned BY DEF Inv
<1>2. QED BY <1>1, Invariance, PTL

\* A stream that shows "running" is told more, or a direct write has died.
THEOREM OutcomesAreAnnounced == Spec => []OutcomeIsAnnounced
<1>1. Inv => OutcomeIsAnnounced
  <2> SUFFICES ASSUME Inv, NEW r \in Runs, stream[r] = "running"
      PROVE \E c \in Clients : \E n \in DOMAIN Script[c] :
              /\ Script[c][n].run = r
              /\ UnderWay(c, n) \/ (Script[c][n].kind = "direct_write" /\ Failed(c, n))
    BY DEF OutcomeIsAnnounced
  <2>1. QED BY DEF Inv, ToldOK, Tellable
<1>2. QED BY <1>1, Invariance, PTL

\* A request that had its run to itself announces what its record says.
THEOREM AnnouncementsAreRecorded == Spec => []AnnouncedIsRecorded
<1>1. Inv => AnnouncedIsRecorded
  <2> SUFFICES ASSUME Inv, NEW c \in Clients, At(c, "announce"), client[c].phase = "finish",
                      client[c].alone, Run(c) \in DOMAIN runs
      PROVE runs[Run(c)].status = Final(Req(c).kind)
    BY DEF AnnouncedIsRecorded
  <2>1. Active(c) BY DEF At, Active
  <2>2. Req(c).kind # "allocate" BY <2>1, ActiveFacts DEF PlaceFor, At
  <2>3. QED BY <2>1, <2>2 DEF Inv, ClientsOK, RecordedFor, At, Trims
<1>2. QED BY <1>1, Invariance, PTL
==============================================================================
