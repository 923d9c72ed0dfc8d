---------------------------- MODULE SwarmProofs ----------------------------
(***************************************************************************)
(* Proofs about Swarm, for any number of swarms, any list of questions,    *)
(* any concurrency within the cap and any number of exceptions.            *)
(***************************************************************************)
EXTENDS Swarm, TLAPS, FiniteSetTheorems, SequenceTheorems

\* The children of the plan are the numbers from one to the number of questions.
LEMMA Plan == /\ Len(Questions) \in Nat \ {0} /\ Children = 1 .. Len(Questions)
              /\ IsFiniteSet(Children)
<1>1. Len(Questions) \in Nat /\ DOMAIN Questions = 1 .. Len(Questions)
  BY SwarmConstants, LenProperties
<1>2. Len(Questions) # 0 BY SwarmConstants, EmptySeq
<1>3. QED BY <1>1, <1>2, FS_Interval DEF Children

\* A draft or a verdict is written to the topics of a run that exists.
LEMMA RunIdType == \A s \in Swarms, i \in Children : RunId(s, i) \in RunIds
BY DEF RunIds

\* What is appended to a sequence of its type, and what is left without its head.
LEMMA AppendType ==
  ASSUME NEW S, NEW q \in Seq(S), NEW x \in S
  PROVE  /\ Append(q, x) \in Seq(S) /\ Len(q) \in Nat /\ Len(Append(q, x)) = Len(q) + 1
         /\ \A k \in 1 .. Len(q) : Append(q, x)[k] = q[k]
         /\ Append(q, x)[Len(q) + 1] = x
BY AppendProperties, LenProperties

LEMMA TailType ==
  ASSUME NEW S, NEW q \in Seq(S), q # << >>
  PROVE  /\ Tail(q) \in Seq(S) /\ Head(q) \in S /\ Head(q) = q[1] /\ Len(q) \in Nat \ {0}
         /\ Len(Tail(q)) = Len(q) - 1
         /\ \A k \in 1 .. Len(Tail(q)) : Tail(q)[k] = q[k + 1]
BY HeadTailProperties, LenProperties, EmptySeq

-----------------------------------------------------------------------------
(* Types *)

OthersStay(s, i) ==
  \A t \in Swarms, j \in Children : <<t, j>> # <<s, i>> => child'[t][j] = child[t][j]

\* A child that goes somewhere keeps its status, and the others stay where they are.
LEMMA Goes ==
  ASSUME TypeOK, NEW s \in Swarms, NEW i \in Children, NEW at \in Ats, To(s, i, at)
  PROVE  /\ child' \in [Swarms -> [Children -> Child]]
         /\ child'[s][i].at = at /\ child'[s][i].status = child[s][i].status
         /\ OthersStay(s, i)
<1>1. child[s][i] \in Child BY DEF TypeOK
<1>2. [child[s][i] EXCEPT !.at = at] = [at |-> at, status |-> child[s][i].status]
      /\ [child[s][i] EXCEPT !.at = at] \in Child
  BY <1>1 DEF Child
<1>3. child \in [Swarms -> [Children -> Child]] BY DEF TypeOK
<1>4. child' = [child EXCEPT ![s] = [child[s] EXCEPT ![i] = [child[s][i] EXCEPT !.at = at]]]
  BY DEF To
<1> HIDE DEF Child
<1>5. child' \in [Swarms -> [Children -> Child]] /\ OthersStay(s, i)
      /\ child'[s][i] = [at |-> at, status |-> child[s][i].status]
  BY <1>2, <1>3, <1>4 DEF OthersStay
<1>6. QED BY <1>5

\* The same for a child whose status changes, too.
LEMMA GoesWith ==
  ASSUME TypeOK, NEW s \in Swarms, NEW i \in Children, NEW c \in Child,
         child' = [child EXCEPT ![s][i] = c]
  PROVE  /\ child' \in [Swarms -> [Children -> Child]] /\ child'[s][i] = c
         /\ OthersStay(s, i)
<1>1. child \in [Swarms -> [Children -> Child]] BY DEF TypeOK
<1> HIDE DEF Child
<1>2. QED BY <1>1 DEF OthersStay

LEMMA InitType == Init => TypeOK
<1> SUFFICES ASSUME Init PROVE TypeOK OBVIOUS
<1>1. \A S : << >> \in Seq(S) OBVIOUS
<1>2. QED BY <1>1, Plan, SwarmConstants DEF Init, TypeOK, NotRun, NoResult, Child, Ats, Result

\* What a child hands back is a result.
LEMMA OutcomeType == ASSUME TypeOK, NEW s \in Swarms, NEW i \in Children
                     PROVE  Outcome(s, i) \in Result
<1>1. child[s][i] \in Child BY DEF TypeOK
<1>2. Questions[i] \in ToSet(Questions) BY DEF Children, ToSet
<1>3. QED BY <1>1, <1>2 DEF Outcome, Result, Child

\* Every step keeps the types.
LEMMA TypeStep == TypeOK /\ [Next]_vars => TypeOK'
<1> SUFFICES ASSUME TypeOK, [Next]_vars PROVE TypeOK' OBVIOUS
<1> USE DEF poolVars, topicVars
<1>1. ASSUME NEW s \in Swarms, Submit(s) PROVE TypeOK'
  <2>1. submitted[s] + 1 \in Children BY <1>1, Plan DEF Submit, TypeOK
  <2>2. Append(queue[s], submitted[s] + 1) \in Seq(Children)
    BY <2>1, AppendType DEF TypeOK
  <2>3. queue' \in [Swarms -> Seq(Children)] BY <1>1, <2>2 DEF Submit, TypeOK
  <2>4. submitted' \in [Swarms -> 0 .. Len(Questions)]
    BY <1>1, <2>1, Plan DEF Submit, TypeOK
  <2>5. QED BY <1>1, <2>3, <2>4 DEF Submit, TypeOK
<1>2. ASSUME NEW s \in Swarms, Take(s) PROVE TypeOK'
  <2>1. Tail(queue[s]) \in Seq(Children) /\ Head(queue[s]) \in Children
    BY <1>2, TailType DEF Take, TypeOK
  <2>2. queue' \in [Swarms -> Seq(Children)] BY <1>2, <2>1 DEF Take, TypeOK
  <2>3. child' \in [Swarms -> [Children -> Child]] BY <1>2, <2>1, Goes DEF Take, Ats, Working
  <2>4. QED BY <1>2, <2>2, <2>3 DEF Take, TypeOK
<1>3. ASSUME NEW s \in Swarms, NEW i \in Children, Intake(s, i) PROVE TypeOK'
  <2>1. child' \in [Swarms -> [Children -> Child]] BY <1>3, Goes DEF Intake, Ats, Working
  <2>2. QED BY <1>3, <2>1 DEF Intake, TypeOK
<1>4. ASSUME NEW s \in Swarms, NEW i \in Children, Draft(s, i) PROVE TypeOK'
  <2>1. child' \in [Swarms -> [Children -> Child]] BY <1>4, Goes DEF Draft, Ats, Working
  <2>2. RunId(s, i) \in RunIds BY RunIdType
  <2>3. Append(drafts[RunId(s, i)], <<s, i>>) \in Seq(Swarms \X Children)
    BY <2>2, AppendType DEF TypeOK
  <2>4. drafts' \in [RunIds -> Seq(Swarms \X Children)]
    BY <1>4, <2>2, <2>3 DEF Draft, TypeOK
  <2>5. QED BY <1>4, <2>1, <2>4 DEF Draft, TypeOK
<1>5. ASSUME NEW s \in Swarms, NEW i \in Children, GuardDraft(s, i) PROVE TypeOK'
  <2>1. PICK v \in {"accepted", "rejected"}, d \in ToSet(drafts[RunId(s, i)]) :
          /\ child' = [child EXCEPT ![s][i] = [at |-> "report", status |-> v]]
          /\ verdicts' = [verdicts EXCEPT ![RunId(s, i)] = @ \cup {[draft |-> d, verdict |-> v]}]
    BY <1>5 DEF GuardDraft
  <2>2. RunId(s, i) \in RunIds /\ drafts[RunId(s, i)] \in Seq(Swarms \X Children)
    BY RunIdType DEF TypeOK
  <2>3. d \in Swarms \X Children BY <2>2, ElementOfSeq, LenProperties DEF ToSet
  <2>4. verdicts' \in [RunIds -> SUBSET [draft : Swarms \X Children, verdict : Statuses]]
    BY <2>1, <2>2, <2>3 DEF TypeOK, Statuses
  <2>5. [at |-> "report", status |-> v] \in Child BY DEF Child, Ats, Working, Statuses
  <2>6. child' \in [Swarms -> [Children -> Child]] BY <2>1, <2>5, GoesWith
  <2>7. QED BY <1>5, <2>4, <2>6 DEF GuardDraft, TypeOK
<1>6. ASSUME NEW s \in Swarms, NEW i \in Children, Report(s, i) PROVE TypeOK'
  <2>1. child' \in [Swarms -> [Children -> Child]] BY <1>6, Goes DEF Report, Ats
  <2>2. QED BY <1>6, <2>1 DEF Report, TypeOK
<1>7. ASSUME NEW s \in Swarms, NEW i \in Children, Raise(s, i) PROVE TypeOK'
  <2>1. [at |-> "done", status |-> "failed"] \in Child BY DEF Child, Ats, Statuses
  <2>2. child' \in [Swarms -> [Children -> Child]] BY <1>7, <2>1, GoesWith DEF Raise
  <2>3. failures' \in 0 .. MaxFailures BY <1>7, SwarmConstants DEF Raise, TypeOK
  <2>4. QED BY <1>7, <2>2, <2>3 DEF Raise, TypeOK
<1>8. ASSUME NEW s \in Swarms, NEW i \in Children, Collect(s, i) PROVE TypeOK'
  <2>1. child' \in [Swarms -> [Children -> Child]] BY <1>8, Goes DEF Collect, Ats
  <2>2. Outcome(s, i) \in Result BY OutcomeType
  <2>3. byIndex' \in [Swarms -> [Children -> Result]] BY <1>8, <2>2 DEF Collect, TypeOK
  <2>4. QED BY <1>8, <2>1, <2>3 DEF Collect, TypeOK
<1>9. ASSUME NEW s \in Swarms, Return(s) PROVE TypeOK'
  <2>1. byIndex[s] \in [Children -> Result] BY DEF TypeOK
  <2>2. result' \in [Swarms -> [Children -> Result] \cup {<< >>}]
    BY <1>9, <2>1 DEF Return, TypeOK
  <2>3. QED BY <1>9, <2>2 DEF Return, TypeOK
<1>10. CASE UNCHANGED vars BY <1>10 DEF vars, TypeOK
<1>11. QED BY <1>1, <1>2, <1>3, <1>4, <1>5, <1>6, <1>7, <1>8, <1>9, <1>10
           DEF Next, MainStep, ChildStep

\* The swarm is type correct whatever its constants.
THEOREM TypeCorrect == Spec => []TypeOK
BY InitType, TypeStep, PTL DEF Spec

-----------------------------------------------------------------------------
(* The plan: who waits, who works, what has been collected *)

\* A child waits for a thread once at most, and has not begun; one that is not yet
\* submitted has not either.
QueueOK ==
  \A s \in Swarms :
    /\ \A k \in 1 .. Len(queue[s]) :
         queue[s][k] <= submitted[s] /\ child[s][queue[s][k]].at = "planned"
    /\ \A k, l \in 1 .. Len(queue[s]) : queue[s][k] = queue[s][l] => k = l
    /\ \A i \in Children : i > submitted[s] => child[s][i].at = "planned"
\* A child that has come to its end has a status.
ReportsOK ==
  \A s \in Swarms, i \in Children :
    child[s][i].at \in {"report", "done", "collected"} => child[s][i].status \in Statuses
\* The place of a child holds its outcome from the moment it is collected.
CollectedOK ==
  \A s \in Swarms, i \in Children :
    byIndex[s][i] = IF child[s][i].at = "collected" THEN Outcome(s, i) ELSE NoResult
ReturnedOK ==
  \A s \in Swarms : Returned(s) =>
    result[s] = byIndex[s] /\ \A i \in Children : child[s][i].at = "collected"
Inv == TypeOK /\ QueueOK /\ ReportsOK /\ CollectedOK /\ ReturnedOK

\* The steps that a child takes while it works.
LEMMA Works ==
  ASSUME Inv, NEW s \in Swarms, NEW i \in Children,
         child[s][i].at \in Working, child'[s][i].at \in Working \cup {"done"},
         child'[s][i].at \in {"report", "done"} => child'[s][i].status \in Statuses,
         OthersStay(s, i),
         UNCHANGED <<queue, submitted, byIndex, result>>
  PROVE  QueueOK' /\ ReportsOK' /\ CollectedOK' /\ ReturnedOK'
<1> USE DEF OthersStay
<1>1. /\ child[s][i].at # "planned" /\ child[s][i].at # "collected"
      /\ child'[s][i].at # "collected"
  BY DEF Working
<1>2. \A t \in Swarms : \A k \in 1 .. Len(queue[t]) : queue[t][k] \in Children
  BY ElementOfSeq DEF Inv, TypeOK
<1>3. QueueOK'
  <2>1. \A t \in Swarms : \A k \in 1 .. Len(queue[t]) : child'[t][queue[t][k]].at = "planned"
    BY <1>1, <1>2 DEF Inv, QueueOK
  <2>2. \A t \in Swarms, j \in Children : j > submitted[t] => child'[t][j].at = "planned"
    BY <1>1 DEF Inv, QueueOK
  <2>3. QED BY <2>1, <2>2 DEF Inv, QueueOK
<1>4. ReportsOK' BY <1>1 DEF Inv, ReportsOK
<1>5. CollectedOK'
  <2> SUFFICES ASSUME NEW t \in Swarms, NEW j \in Children
      PROVE byIndex'[t][j] = IF child'[t][j].at = "collected" THEN Outcome(t, j)' ELSE NoResult
    BY DEF CollectedOK
  <2>1. CASE t = s /\ j = i BY <2>1, <1>1 DEF Inv, CollectedOK
  <2>2. CASE ~(t = s /\ j = i)
    <3>1. child'[t][j] = child[t][j] BY <2>2
    <3>2. QED BY <3>1 DEF Inv, CollectedOK, Outcome
  <2>3. QED BY <2>1, <2>2
<1>6. ReturnedOK' BY <1>1 DEF Inv, ReturnedOK, Returned
<1>7. QED BY <1>3, <1>4, <1>5, <1>6

LEMMA InitInv == Init => Inv
<1> SUFFICES ASSUME Init PROVE Inv OBVIOUS
<1>1. TypeOK BY InitType
<1>2. Len(<< >>) = 0 OBVIOUS
<1>3. QueueOK BY <1>2, Plan DEF Init, QueueOK, NotRun
<1>4. ReportsOK /\ CollectedOK BY DEF Init, ReportsOK, CollectedOK, NotRun
<1>5. ReturnedOK BY DEF Init, ReturnedOK, Returned
<1>6. QED BY <1>1, <1>3, <1>4, <1>5 DEF Inv

\* Every step keeps the invariant.
LEMMA NextInv == Inv /\ [Next]_vars => Inv'
<1> SUFFICES ASSUME Inv, [Next]_vars PROVE Inv' OBVIOUS
<1>0. TypeOK /\ TypeOK' BY TypeStep DEF Inv
<1> DEFINE Rest == QueueOK /\ ReportsOK /\ CollectedOK /\ ReturnedOK
<1>1. ASSUME NEW s \in Swarms, Submit(s) PROVE Rest'
  <2> DEFINE n == submitted[s] + 1
  <2>1. /\ n \in Children /\ n > submitted[s] /\ queue[s] \in Seq(Children)
        /\ \A t \in Swarms : submitted[t] \in Nat
    BY <1>1, Plan DEF Submit, Inv, TypeOK
  <2>2. /\ queue'[s] = Append(queue[s], n) /\ submitted'[s] = n
        /\ \A t \in Swarms \ {s} : queue'[t] = queue[t] /\ submitted'[t] = submitted[t]
        /\ UNCHANGED <<child, byIndex, result>>
    BY <1>1 DEF Submit, Inv, TypeOK, topicVars
  <2>3. \A k \in 1 .. Len(queue[s]) : queue[s][k] \in Children /\ queue[s][k] \in Nat
    BY <2>1, ElementOfSeq, Plan
  <2>4. QueueOK'
    <3> SUFFICES ASSUME NEW t \in Swarms
        PROVE /\ \A k \in 1 .. Len(queue'[t]) :
                   queue'[t][k] <= submitted'[t] /\ child[t][queue'[t][k]].at = "planned"
              /\ \A k, l \in 1 .. Len(queue'[t]) : queue'[t][k] = queue'[t][l] => k = l
              /\ \A i \in Children : i > submitted'[t] => child[t][i].at = "planned"
      BY <2>2 DEF QueueOK
    <3>1. CASE t # s BY <3>1, <2>2 DEF Inv, QueueOK
    <3>2. CASE t = s
      <4> DEFINE q == queue'[s]
      <4>1. /\ Len(queue[s]) \in Nat /\ Len(q) = Len(queue[s]) + 1 /\ q[Len(queue[s]) + 1] = n
            /\ \A k \in 1 .. Len(queue[s]) : q[k] = queue[s][k]
        BY <2>1, <2>2, AppendType
      <4>2. /\ \A k \in 1 .. Len(queue[s]) :
                 queue[s][k] <= submitted[s] /\ child[s][queue[s][k]].at = "planned"
            /\ \A k, l \in 1 .. Len(queue[s]) : queue[s][k] = queue[s][l] => k = l
            /\ \A i \in Children : i > submitted[s] => child[s][i].at = "planned"
        BY DEF Inv, QueueOK
      <4> HIDE DEF q
      <4>3. \A k \in 1 .. Len(q) : q[k] <= n /\ child[s][q[k]].at = "planned"
        <5> SUFFICES ASSUME NEW k \in 1 .. Len(q) PROVE q[k] <= n /\ child[s][q[k]].at = "planned"
          OBVIOUS
        <5>1. CASE k = Len(queue[s]) + 1
          <6>1. q[k] = n BY <4>1, <5>1
          <6>2. child[s][n].at = "planned" BY <4>2, <2>1
          <6>3. n <= n BY <2>1, Plan
          <6>4. QED BY <6>1, <6>2, <6>3
        <5>2. CASE k \in 1 .. Len(queue[s])
          <6>1. q[k] = queue[s][k] BY <4>1, <5>2
          <6>2. queue[s][k] <= submitted[s] /\ child[s][queue[s][k]].at = "planned" BY <4>2, <5>2
          <6>3. queue[s][k] <= n BY <2>1, <2>3, <5>2, <6>2
          <6>4. QED BY <6>1, <6>2, <6>3
        <5>3. QED BY <4>1, <5>1, <5>2
      <4>4. \A k, l \in 1 .. Len(q) : q[k] = q[l] => k = l
        <5>1. \A k \in 1 .. Len(queue[s]) : q[k] = queue[s][k] /\ q[k] # n
          <6>1. \A k \in 1 .. Len(queue[s]) :
                  queue[s][k] <= submitted[s] /\ queue[s][k] \in Nat
            BY <4>2, <2>3
          <6>2. n > submitted[s] /\ n \in Nat /\ submitted[s] \in Nat BY <2>1, Plan
          <6> HIDE DEF n
          <6>3. QED BY <4>1, <6>1, <6>2
        <5>2. \A k \in 1 .. Len(q) : k = Len(queue[s]) + 1 \/ k \in 1 .. Len(queue[s]) BY <4>1
        <5> HIDE DEF n
        <5>3. QED BY <4>1, <4>2, <5>1, <5>2
      <4>5. \A i \in Children : i > n => child[s][i].at = "planned"
        BY <4>2, <2>1, Plan
      <4>6. QED BY <3>2, <4>3, <4>4, <4>5, <2>2 DEF q
    <3>3. QED BY <3>1, <3>2
  <2>5. ReportsOK' /\ CollectedOK' /\ ReturnedOK'
    BY <2>2 DEF Inv, ReportsOK, CollectedOK, ReturnedOK, Returned, Outcome
  <2>6. QED BY <2>4, <2>5
<1>2. ASSUME NEW s \in Swarms, Take(s) PROVE Rest'
  <2> DEFINE h == Head(queue[s])
  <2>1. /\ queue[s] \in Seq(Children) /\ h \in Children /\ h = queue[s][1]
        /\ Len(queue[s]) \in Nat \ {0} /\ Len(Tail(queue[s])) = Len(queue[s]) - 1
        /\ \A k \in 1 .. Len(Tail(queue[s])) : Tail(queue[s])[k] = queue[s][k + 1]
        /\ To(s, h, "intake")
    BY <1>2, TailType DEF Take, Inv, TypeOK
  <2>2. /\ queue'[s] = Tail(queue[s]) /\ \A t \in Swarms \ {s} : queue'[t] = queue[t]
        /\ UNCHANGED <<submitted, byIndex, result>>
    BY <1>2 DEF Take, Inv, TypeOK, topicVars
  <2>3. /\ \A k \in 1 .. Len(queue[s]) : queue[s][k] \in Children
             /\ queue[s][k] <= submitted[s] /\ child[s][queue[s][k]].at = "planned"
        /\ \A k, l \in 1 .. Len(queue[s]) : queue[s][k] = queue[s][l] => k = l
        /\ \A i \in Children : i > submitted[s] => child[s][i].at = "planned"
    BY <2>1, ElementOfSeq DEF Inv, QueueOK
  <2>4. /\ child[s][h].at = "planned" /\ h <= submitted[s]
        /\ \A k \in 2 .. Len(queue[s]) : queue[s][k] # h
    BY <2>1, <2>3
  <2> HIDE DEF h
  <2>5. child'[s][h].at = "intake" /\ OthersStay(s, h)
    BY <1>0, <2>1, Goes DEF Ats, Working
  <2> USE DEF OthersStay
  <2>6. QueueOK'
    <3> SUFFICES ASSUME NEW t \in Swarms
        PROVE /\ \A k \in 1 .. Len(queue'[t]) :
                   queue'[t][k] <= submitted[t] /\ child'[t][queue'[t][k]].at = "planned"
              /\ \A k, l \in 1 .. Len(queue'[t]) : queue'[t][k] = queue'[t][l] => k = l
              /\ \A i \in Children : i > submitted[t] => child'[t][i].at = "planned"
      BY <2>2 DEF QueueOK
    <3>1. CASE t # s
      <4>1. \A k \in 1 .. Len(queue[t]) : queue[t][k] \in Children
        BY ElementOfSeq DEF Inv, TypeOK
      <4>2. \A j \in Children : child'[t][j] = child[t][j] BY <3>1, <2>5
      <4>3. QED BY <3>1, <2>2, <4>1, <4>2 DEF Inv, QueueOK
    <3>2. CASE t = s
      <4> DEFINE q == queue'[s]
      <4>1. /\ Len(q) = Len(queue[s]) - 1
            /\ \A k \in 1 .. Len(q) : q[k] = queue[s][k + 1] /\ k + 1 \in 2 .. Len(queue[s])
        BY <2>1, <2>2
      <4> HIDE DEF q
      <4>2. \A k \in 1 .. Len(q) : q[k] \in Children /\ q[k] <= submitted[s] /\ q[k] # h
                                     /\ child[s][q[k]].at = "planned"
        BY <4>1, <2>1, <2>3, <2>4
      <4>3. \A k \in 1 .. Len(q) : child'[s][q[k]].at = "planned" BY <4>2, <2>5
      <4>4. \A k, l \in 1 .. Len(q) : q[k] = q[l] => k = l BY <4>1, <2>1, <2>3
      <4>5. \A i \in Children : i > submitted[s] => i # h
        BY <2>1, <2>4, Plan DEF Inv, TypeOK
      <4>6. QED BY <3>2, <4>2, <4>3, <4>4, <4>5, <2>3, <2>5 DEF q
    <3>3. QED BY <3>1, <3>2
  <2>7. ReportsOK' BY <2>5 DEF Inv, ReportsOK
  <2>8. CollectedOK'
    <3> SUFFICES ASSUME NEW t \in Swarms, NEW j \in Children
        PROVE byIndex[t][j] = IF child'[t][j].at = "collected" THEN Outcome(t, j)' ELSE NoResult
      BY <2>2 DEF CollectedOK
    <3>1. CASE t = s /\ j = h BY <3>1, <2>4, <2>5 DEF Inv, CollectedOK
    <3>2. CASE ~(t = s /\ j = h)
      <4>1. child'[t][j] = child[t][j] BY <3>2, <2>5
      <4>2. QED BY <4>1 DEF Inv, CollectedOK, Outcome
    <3>3. QED BY <3>1, <3>2
  <2>9. ReturnedOK' BY <2>1, <2>2, <2>4, <2>5 DEF Inv, ReturnedOK, Returned
  <2>10. QED BY <2>6, <2>7, <2>8, <2>9
<1>3. ASSUME NEW s \in Swarms, NEW i \in Children, Intake(s, i) PROVE Rest'
  <2>1. OthersStay(s, i) /\ child'[s][i].at = "draft" /\ child[s][i].at \in Working
    BY <1>0, <1>3, Goes DEF Intake, Ats, Working
  <2>2. QED BY <1>3, <2>1, Works DEF Intake, Working, poolVars
<1>4. ASSUME NEW s \in Swarms, NEW i \in Children, Draft(s, i) PROVE Rest'
  <2>1. OthersStay(s, i) /\ child'[s][i].at = "guard" /\ child[s][i].at \in Working
    BY <1>0, <1>4, Goes DEF Draft, Ats, Working
  <2>2. QED BY <1>4, <2>1, Works DEF Draft, Working, poolVars
<1>5. ASSUME NEW s \in Swarms, NEW i \in Children, GuardDraft(s, i) PROVE Rest'
  <2>1. PICK v \in {"accepted", "rejected"} :
          child' = [child EXCEPT ![s][i] = [at |-> "report", status |-> v]]
    BY <1>5 DEF GuardDraft
  <2>2. [at |-> "report", status |-> v] \in Child /\ v \in Statuses
    BY DEF Child, Ats, Working, Statuses
  <2>3. child'[s][i] = [at |-> "report", status |-> v] /\ OthersStay(s, i)
    BY <1>0, <2>1, <2>2, GoesWith
  <2>4. QED BY <1>5, <2>2, <2>3, Works DEF GuardDraft, Working, poolVars
<1>6. ASSUME NEW s \in Swarms, NEW i \in Children, Report(s, i) PROVE Rest'
  <2>1. child[s][i].status \in Statuses BY <1>6 DEF Report, Inv, ReportsOK
  <2>2. /\ OthersStay(s, i) /\ child[s][i].at \in Working
        /\ child'[s][i].at = "done" /\ child'[s][i].status = child[s][i].status
    BY <1>0, <1>6, Goes DEF Report, Ats, Working
  <2>3. QED BY <1>6, <2>1, <2>2, Works DEF Report, poolVars
<1>7. ASSUME NEW s \in Swarms, NEW i \in Children, Raise(s, i) PROVE Rest'
  <2>1. [at |-> "done", status |-> "failed"] \in Child BY DEF Child, Ats, Statuses
  <2>2. child'[s][i] = [at |-> "done", status |-> "failed"] /\ OthersStay(s, i)
    BY <1>0, <1>7, <2>1, GoesWith DEF Raise
  <2>3. QED BY <1>7, <2>2, Works DEF Raise, poolVars, Statuses
<1>8. ASSUME NEW s \in Swarms, NEW i \in Children, Collect(s, i) PROVE Rest'
  <2>1. /\ child[s][i].at = "done" /\ child'[s][i].at = "collected"
        /\ child'[s][i].status = child[s][i].status /\ OthersStay(s, i)
    BY <1>0, <1>8, Goes DEF Collect, Ats
  <2> USE DEF OthersStay
  <2>2. /\ byIndex'[s][i] = Outcome(s, i)
        /\ \A t \in Swarms, j \in Children : <<t, j>> # <<s, i>> => byIndex'[t][j] = byIndex[t][j]
        /\ UNCHANGED <<queue, submitted, result>>
    BY <1>8 DEF Collect, Inv, TypeOK, poolVars
  <2>3. \A t \in Swarms : \A k \in 1 .. Len(queue[t]) : queue[t][k] \in Children
    BY ElementOfSeq DEF Inv, TypeOK
  <2>4. QueueOK'
    <3>1. \A t \in Swarms : \A k \in 1 .. Len(queue[t]) : child'[t][queue[t][k]].at = "planned"
      BY <2>1, <2>3 DEF Inv, QueueOK
    <3>2. \A t \in Swarms, j \in Children : j > submitted[t] => child'[t][j].at = "planned"
      BY <2>1 DEF Inv, QueueOK
    <3>3. QED BY <2>2, <3>1, <3>2 DEF Inv, QueueOK
  <2>5. ReportsOK' BY <2>1 DEF Inv, ReportsOK
  <2>6. CollectedOK'
    <3> SUFFICES ASSUME NEW t \in Swarms, NEW j \in Children
        PROVE byIndex'[t][j] = IF child'[t][j].at = "collected" THEN Outcome(t, j)' ELSE NoResult
      BY DEF CollectedOK
    <3>1. CASE <<t, j>> = <<s, i>> BY <3>1, <2>1, <2>2 DEF Outcome
    <3>2. CASE <<t, j>> # <<s, i>> BY <3>2, <2>1, <2>2 DEF Inv, CollectedOK, Outcome
    <3>3. QED BY <3>1, <3>2
  <2>7. ReturnedOK'
    <3> SUFFICES ASSUME NEW t \in Swarms, Returned(t)
        PROVE result[t] = byIndex'[t] /\ \A j \in Children : child'[t][j].at = "collected"
      BY <2>2 DEF ReturnedOK, Returned
    <3>1. t # s BY <2>1 DEF Inv, ReturnedOK
    <3>2. byIndex'[t] = byIndex[t] BY <1>8, <3>1 DEF Collect, Inv, TypeOK
    <3>3. QED BY <3>1, <3>2, <2>1 DEF Inv, ReturnedOK
  <2>8. QED BY <2>4, <2>5, <2>6, <2>7
<1>9. ASSUME NEW s \in Swarms, Return(s) PROVE Rest'
  <2>1. UNCHANGED <<queue, submitted, child, byIndex>> BY <1>9 DEF Return, poolVars
  <2>2. \A i \in Children : child[s][i].at = "collected" BY <1>9 DEF Return, Inv, CollectedOK
  <2>3. /\ result'[s] = byIndex[s]
        /\ \A t \in Swarms \ {s} : result'[t] = result[t]
    BY <1>9 DEF Return, Inv, TypeOK
  <2>4. ReturnedOK' BY <2>1, <2>2, <2>3 DEF Inv, ReturnedOK, Returned
  <2>5. QueueOK' /\ ReportsOK' BY <2>1 DEF Inv, QueueOK, ReportsOK
  <2>6. CollectedOK' BY <2>1 DEF Inv, CollectedOK, Outcome
  <2>7. QED BY <2>4, <2>5, <2>6
<1>10. CASE UNCHANGED vars
  <2>1. UNCHANGED <<queue, submitted, child, byIndex, result>> BY <1>10 DEF vars
  <2>2. QueueOK' /\ ReportsOK' BY <2>1 DEF Inv, QueueOK, ReportsOK
  <2>3. CollectedOK' /\ ReturnedOK'
    BY <2>1 DEF Inv, CollectedOK, ReturnedOK, Returned, Outcome
  <2>4. QED BY <1>0, <2>2, <2>3 DEF Inv
<1>11. QED
  BY <1>0, <1>1, <1>2, <1>3, <1>4, <1>5, <1>6, <1>7, <1>8, <1>9, <1>10
     DEF Next, MainStep, ChildStep, Inv

\* The plan of a swarm, its pool and its results fit together in every state.
THEOREM Invariance == Spec => []Inv
BY InitInv, NextInv, PTL DEF Spec

\* If every child has one of the three statuses, the counts add up to the children.
LEMMA CountsAddUp ==
  ASSUME NEW f, \A i \in Children : f[i].status \in Statuses
  PROVE  Cardinality({i \in Children : f[i].status = "accepted"})
           + Cardinality({i \in Children : f[i].status = "rejected"})
           + Cardinality({i \in Children : f[i].status = "failed"}) = Len(Questions)
<1> DEFINE A == {i \in Children : f[i].status = "accepted"}
           R == {i \in Children : f[i].status = "rejected"}
           F == {i \in Children : f[i].status = "failed"}
<1>1. IsFiniteSet(A) /\ IsFiniteSet(R) /\ IsFiniteSet(F)
  <2>1. A \subseteq Children /\ R \subseteq Children /\ F \subseteq Children OBVIOUS
  <2>2. QED BY <2>1, Plan, FS_Subset
<1>2. A \cap R = {} /\ (A \cup R) \cap F = {} OBVIOUS
<1>3. (A \cup R) \cup F = Children BY DEF Statuses
<1>4. Cardinality(Children) = Len(Questions) BY Plan, FS_Interval
<1> HIDE DEF A, R, F
<1>5. IsFiniteSet(A \cup R) /\ Cardinality(A \cup R) = Cardinality(A) + Cardinality(R)
  <2>1. Cardinality(A \cap R) = 0 BY <1>2, FS_EmptySet
  <2>2. Cardinality(A) \in Nat /\ Cardinality(R) \in Nat BY <1>1, FS_CardinalityType
  <2>3. /\ IsFiniteSet(A \cup R)
        /\ Cardinality(A \cup R) = Cardinality(A) + Cardinality(R) - Cardinality(A \cap R)
    BY <1>1, FS_Union
  <2>4. QED BY <2>1, <2>2, <2>3
<1>6. Cardinality((A \cup R) \cup F) = Cardinality(A \cup R) + Cardinality(F)
  <2>1. Cardinality((A \cup R) \cap F) = 0 BY <1>2, FS_EmptySet
  <2>2. Cardinality(A \cup R) \in Nat /\ Cardinality(F) \in Nat
    BY <1>1, <1>5, FS_CardinalityType
  <2>3. Cardinality((A \cup R) \cup F)
          = Cardinality(A \cup R) + Cardinality(F) - Cardinality((A \cup R) \cap F)
    BY <1>1, <1>5, FS_Union
  <2>4. QED BY <2>1, <2>2, <2>3
<1>7. QED BY <1>3, <1>4, <1>5, <1>6 DEF A, R, F

\* What a swarm returns is one result per question, in the order of the plan, each the
\* outcome of its child, and the counts add up.
THEOREM ResultsMatch == Spec => []ResultMatchesPlan
<1>1. ASSUME Inv, NEW s \in Swarms, Returned(s)
      PROVE  /\ \A i \in Children : result[s][i] = Outcome(s, i) /\ child[s][i].at = "collected"
             /\ CountOf(s, "accepted") + CountOf(s, "rejected") + CountOf(s, "failed")
                  = Len(Questions)
  <2>1. \A i \in Children : child[s][i].at = "collected" BY <1>1 DEF Inv, ReturnedOK
  <2>2. \A i \in Children : result[s][i] = Outcome(s, i)
    BY <1>1, <2>1 DEF Inv, ReturnedOK, CollectedOK
  <2>3. \A i \in Children : result[s][i].status \in Statuses
    <3> SUFFICES ASSUME NEW i \in Children PROVE result[s][i].status \in Statuses OBVIOUS
    <3>1. child[s][i].status \in Statuses BY <1>1, <2>1 DEF Inv, ReportsOK
    <3>2. result[s][i] = Outcome(s, i) BY <2>2
    <3>3. QED BY <3>1, <3>2 DEF Outcome
  <2>4. QED BY <2>1, <2>2, <2>3, CountsAddUp DEF CountOf
<1>2. Inv => ResultMatchesPlan BY <1>1 DEF ResultMatchesPlan
<1>3. QED BY <1>2, Invariance, PTL

-----------------------------------------------------------------------------
(* Whose draft is judged *)

\* The drafts in a run are those of the children that work under its id.
DraftsOK ==
  \A r \in RunIds : \A k \in 1 .. Len(drafts[r]) : RunId(drafts[r][k][1], drafts[r][k][2]) = r
OwnInv == TypeOK /\ DraftsOK /\ ReportsItsOwnDraft

\* With ids of their own, two children work under one run id only if they are the same.
LEMMA RunIdsAreOwn ==
  ASSUME IsInjective(SwarmId), DOMAIN SwarmId = Swarms, NEW s \in Swarms, NEW t \in Swarms,
         NEW i \in Children, NEW j \in Children, RunId(s, i) = RunId(t, j)
  PROVE  s = t /\ i = j
<1>1. SwarmId[s] = SwarmId[t] /\ Questions[i] = Questions[j] BY DEF RunId
<1>2. QED BY <1>1, SwarmConstants DEF IsInjective, Children

\* The draft that the guard judges for a child is its own.
LEMMA JudgesItsOwn ==
  ASSUME IsInjective(SwarmId), DOMAIN SwarmId = Swarms, OwnInv,
         NEW s \in Swarms, NEW i \in Children, NEW d \in ToSet(drafts[RunId(s, i)])
  PROVE  d = <<s, i>>
<1> DEFINE r == RunId(s, i)
<1>1. r \in RunIds /\ drafts[r] \in Seq(Swarms \X Children)
  BY RunIdType DEF OwnInv, TypeOK
<1>2. PICK k \in 1 .. Len(drafts[r]) : d = drafts[r][k]
  BY <1>1, LenProperties DEF ToSet
<1>3. d \in Swarms \X Children BY <1>1, <1>2, ElementOfSeq
<1>4. RunId(d[1], d[2]) = RunId(s, i) BY <1>1, <1>2 DEF OwnInv, DraftsOK
<1>5. d[1] \in Swarms /\ d[2] \in Children /\ d = <<d[1], d[2]>> BY <1>3
<1>6. d[1] = s /\ d[2] = i BY <1>4, <1>5, RunIdsAreOwn
<1>7. QED BY <1>5, <1>6

\* The verdicts that children report stay those on their own drafts.
LEMMA OwnInvariance ==
  ASSUME IsInjective(SwarmId), DOMAIN SwarmId = Swarms
  PROVE  Spec => []OwnInv
<1>1. Init => OwnInv
  <2> SUFFICES ASSUME Init PROVE OwnInv OBVIOUS
  <2>1. TypeOK BY InitType
  <2>2. DraftsOK BY DEF Init, DraftsOK
  <2>3. ReportsItsOwnDraft BY DEF Init, ReportsItsOwnDraft, NotRun
  <2>4. QED BY <2>1, <2>2, <2>3 DEF OwnInv
<1>2. OwnInv /\ [Next]_vars => OwnInv'
  <2> SUFFICES ASSUME OwnInv, [Next]_vars PROVE OwnInv' OBVIOUS
  <2>0. TypeOK /\ TypeOK' BY TypeStep DEF OwnInv
  <2>1. ASSUME NEW s \in Swarms, NEW i \in Children, NEW at \in Ats, To(s, i, at),
               UNCHANGED verdicts
        PROVE  ReportsItsOwnDraft'
    <3>1. \A t \in Swarms, j \in Children : child'[t][j].status = child[t][j].status
      <4>1. child'[s][i].status = child[s][i].status /\ OthersStay(s, i)
        BY <2>0, <2>1, Goes
      <4>2. QED BY <4>1 DEF OthersStay
    <3>2. QED BY <2>1, <3>1 DEF OwnInv, ReportsItsOwnDraft
  <2>2. ASSUME NEW s \in Swarms, Submit(s) PROVE OwnInv'
    BY <2>0, <2>2 DEF Submit, topicVars, OwnInv, DraftsOK, ReportsItsOwnDraft
  <2>3. ASSUME NEW s \in Swarms, Take(s) PROVE OwnInv'
    <3>1. Head(queue[s]) \in Children BY <2>3, TailType DEF Take, OwnInv, TypeOK
    <3>2. ReportsItsOwnDraft' BY <2>1, <2>3, <3>1 DEF Take, topicVars, Ats, Working
    <3>3. QED BY <2>0, <2>3, <3>2 DEF Take, topicVars, OwnInv, DraftsOK
  <2>4. ASSUME NEW s \in Swarms, NEW i \in Children,
               Intake(s, i) \/ Report(s, i) \/ Collect(s, i)
        PROVE  OwnInv'
    <3>1. ReportsItsOwnDraft'
      BY <2>1, <2>4 DEF Intake, Report, Collect, topicVars, Ats, Working
    <3>2. QED BY <2>0, <2>4, <3>1 DEF Intake, Report, Collect, topicVars, OwnInv, DraftsOK
  <2>5. ASSUME NEW s \in Swarms, NEW i \in Children, Draft(s, i) PROVE OwnInv'
    <3>1. ReportsItsOwnDraft' BY <2>1, <2>5 DEF Draft, Ats, Working
    <3>2. RunId(s, i) \in RunIds /\ drafts[RunId(s, i)] \in Seq(Swarms \X Children)
      BY RunIdType DEF OwnInv, TypeOK
    <3>3. /\ drafts'[RunId(s, i)] = Append(drafts[RunId(s, i)], <<s, i>>)
          /\ \A r \in RunIds : r # RunId(s, i) => drafts'[r] = drafts[r]
      BY <2>5, <3>2 DEF Draft, OwnInv, TypeOK
    <3>4. DraftsOK'
      <4> SUFFICES ASSUME NEW r \in RunIds, NEW k \in 1 .. Len(drafts'[r])
          PROVE RunId(drafts'[r][k][1], drafts'[r][k][2]) = r
        BY DEF DraftsOK, RunId
      <4>1. CASE r # RunId(s, i) BY <4>1, <3>3 DEF OwnInv, DraftsOK
      <4>2. CASE r = RunId(s, i) /\ k = Len(drafts[r]) + 1
        <5>1. drafts'[r][k] = <<s, i>> BY <4>2, <3>2, <3>3, AppendType
        <5>2. QED BY <5>1, <4>2
      <4>3. CASE r = RunId(s, i) /\ k # Len(drafts[r]) + 1
        <5>1. k \in 1 .. Len(drafts[r]) /\ drafts'[r][k] = drafts[r][k]
          BY <4>3, <3>2, <3>3, AppendType
        <5>2. QED BY <5>1 DEF OwnInv, DraftsOK
      <4>4. QED BY <4>1, <4>2, <4>3
    <3>5. QED BY <2>0, <3>1, <3>4 DEF OwnInv
  <2>6. ASSUME NEW s \in Swarms, NEW i \in Children, GuardDraft(s, i) PROVE OwnInv'
    <3> DEFINE r == RunId(s, i)
    <3>1. r \in RunIds /\ drafts[r] \in Seq(Swarms \X Children)
      BY RunIdType DEF OwnInv, TypeOK
    <3>2. PICK v \in {"accepted", "rejected"}, d \in ToSet(drafts[r]) :
            /\ child' = [child EXCEPT ![s][i] = [at |-> "report", status |-> v]]
            /\ verdicts' = [verdicts EXCEPT ![r] = @ \cup {[draft |-> d, verdict |-> v]}]
      BY <2>6 DEF GuardDraft
    <3>4. d = <<s, i>> BY JudgesItsOwn
    <3>5. [at |-> "report", status |-> v] \in Child BY DEF Child, Ats, Working, Statuses
    <3>6. child'[s][i].status = v /\ OthersStay(s, i)
      <4>1. child'[s][i] = [at |-> "report", status |-> v] /\ OthersStay(s, i)
        BY <2>0, <3>2, <3>5, GoesWith
      <4>2. QED BY <4>1
    <3>7. /\ [draft |-> <<s, i>>, verdict |-> v] \in verdicts'[r]
          /\ \A x \in RunIds : verdicts[x] \subseteq verdicts'[x]
      BY <3>1, <3>2, <3>4 DEF OwnInv, TypeOK
    <3> HIDE DEF r
    <3>8. ReportsItsOwnDraft'
      <4> SUFFICES ASSUME NEW t \in Swarms, NEW j \in Children,
                          child'[t][j].status \in {"accepted", "rejected"}
          PROVE [draft |-> <<t, j>>, verdict |-> child'[t][j].status] \in verdicts'[RunId(t, j)]
        BY DEF ReportsItsOwnDraft, RunId
      <4>1. CASE <<t, j>> = <<s, i>> BY <4>1, <3>6, <3>7 DEF r
      <4>2. CASE <<t, j>> # <<s, i>>
        BY <4>2, <3>6, <3>7, RunIdType DEF OwnInv, ReportsItsOwnDraft, OthersStay
      <4>3. QED BY <4>1, <4>2
    <3>9. DraftsOK' BY <2>6 DEF GuardDraft, OwnInv, DraftsOK, RunId
    <3>10. QED BY <2>0, <3>8, <3>9 DEF OwnInv
  <2>7. ASSUME NEW s \in Swarms, NEW i \in Children, Raise(s, i) PROVE OwnInv'
    <3>1. [at |-> "done", status |-> "failed"] \in Child BY DEF Child, Ats, Statuses
    <3>2. child'[s][i] = [at |-> "done", status |-> "failed"] /\ OthersStay(s, i)
      BY <2>0, <2>7, <3>1, GoesWith DEF Raise
    <3>3. UNCHANGED <<drafts, verdicts>> BY <2>7 DEF Raise, topicVars
    <3>4. ReportsItsOwnDraft' BY <3>2, <3>3 DEF OwnInv, ReportsItsOwnDraft, RunId, OthersStay
    <3>5. QED BY <2>0, <3>3, <3>4 DEF OwnInv, DraftsOK, RunId
  <2>8. ASSUME NEW s \in Swarms, Return(s) PROVE OwnInv'
    BY <2>0, <2>8 DEF Return, topicVars, OwnInv, DraftsOK, ReportsItsOwnDraft
  <2>9. CASE UNCHANGED vars
    BY <2>0, <2>9 DEF vars, OwnInv, DraftsOK, ReportsItsOwnDraft
  <2>10. QED BY <2>2, <2>3, <2>4, <2>5, <2>6, <2>7, <2>8, <2>9 DEF Next, MainStep, ChildStep
<1>3. QED BY <1>1, <1>2, PTL DEF Spec

\* A child of a swarm with an id of its own reports the published verdict on its own
\* draft, however many swarms put the same questions to their agents.
THEOREM OwnDrafts ==
  ASSUME IsInjective(SwarmId), DOMAIN SwarmId = Swarms
  PROVE  Spec => []ReportsItsOwnDraft
<1>1. OwnInv => ReportsItsOwnDraft BY DEF OwnInv
<1>2. QED BY <1>1, OwnInvariance, PTL

-----------------------------------------------------------------------------
(* Every step leads on *)

\* The ways a child can go.
Forward == {<<"planned", "intake">>, <<"intake", "draft">>, <<"draft", "guard">>,
            <<"guard", "report">>, <<"report", "done">>, <<"done", "collected">>}
             \cup (Working \X {"done"})
Moves(s, i) == OthersStay(s, i) /\ <<child[s][i].at, child'[s][i].at>> \in Forward

\* A step of the caller or of a thread submits a child, moves one on, or returns.
LEMMA StepMoves ==
  ASSUME Inv, [Next]_vars
  PROVE  \/ \E s \in Swarms : Submit(s) \/ Return(s)
         \/ \E s \in Swarms, i \in Children : Moves(s, i) /\ UNCHANGED <<submitted, result>>
         \/ UNCHANGED vars
<1> USE DEF poolVars, topicVars
<1>1. TypeOK BY DEF Inv
<1>2. ASSUME NEW s \in Swarms, NEW i \in Children, NEW at \in Ats, To(s, i, at),
             <<child[s][i].at, at>> \in Forward
      PROVE  Moves(s, i)
  BY <1>1, <1>2, Goes DEF Moves
<1>3. ASSUME NEW s \in Swarms, NEW i \in Children, NEW c \in Child,
             child' = [child EXCEPT ![s][i] = c], <<child[s][i].at, c.at>> \in Forward
      PROVE  Moves(s, i)
  BY <1>1, <1>3, GoesWith DEF Moves
<1>4. ASSUME NEW s \in Swarms, Take(s)
      PROVE  \E i \in Children : Moves(s, i) /\ UNCHANGED <<submitted, result>>
  <2>1. Head(queue[s]) \in Children /\ Head(queue[s]) = queue[s][1] /\ 1 \in 1 .. Len(queue[s])
    BY <1>1, <1>4, TailType DEF Take, TypeOK
  <2>2. child[s][Head(queue[s])].at = "planned" BY <2>1 DEF Inv, QueueOK
  <2>3. QED BY <1>2, <1>4, <2>1, <2>2 DEF Take, Ats, Working, Forward
<1>5. ASSUME NEW s \in Swarms, NEW i \in Children,
             Intake(s, i) \/ Draft(s, i) \/ Report(s, i) \/ Collect(s, i)
      PROVE  Moves(s, i) /\ UNCHANGED <<submitted, result>>
  BY <1>2, <1>5 DEF Intake, Draft, Report, Collect, Ats, Working, Forward
<1>6. ASSUME NEW s \in Swarms, NEW i \in Children, GuardDraft(s, i)
      PROVE  Moves(s, i) /\ UNCHANGED <<submitted, result>>
  <2>1. PICK v \in {"accepted", "rejected"} :
          child' = [child EXCEPT ![s][i] = [at |-> "report", status |-> v]]
    BY <1>6 DEF GuardDraft
  <2>2. [at |-> "report", status |-> v] \in Child BY DEF Child, Ats, Working, Statuses
  <2>3. QED BY <1>3, <1>6, <2>1, <2>2 DEF GuardDraft, Forward
<1>7. ASSUME NEW s \in Swarms, NEW i \in Children, Raise(s, i)
      PROVE  Moves(s, i) /\ UNCHANGED <<submitted, result>>
  <2>1. [at |-> "done", status |-> "failed"] \in Child BY DEF Child, Ats, Statuses
  <2>2. QED BY <1>3, <1>7, <2>1 DEF Raise, Forward
<1>8. QED BY <1>4, <1>5, <1>6, <1>7 DEF Next, MainStep, ChildStep

\* How far along a child is.
Stage(at) ==
  CASE at = "planned" -> 0 [] at = "intake" -> 1 [] at = "draft" -> 2 [] at = "guard" -> 3
    [] at = "report" -> 4 [] at = "done" -> 5 [] at = "collected" -> 6

\* No child, no list of submitted children and no answer goes back, and every step
\* takes one of them further: a swarm of n questions has at most 7 * n + 1 steps.
OnlyAdvances ==
  /\ \A s \in Swarms :
       /\ submitted[s] <= submitted'[s] /\ (Returned(s) => result'[s] = result[s])
       /\ \A i \in Children : Stage(child[s][i].at) <= Stage(child'[s][i].at)
  /\ \E s \in Swarms :
       \/ submitted[s] < submitted'[s]
       \/ ~Returned(s) /\ result'[s] # << >>
       \/ \E i \in Children : Stage(child[s][i].at) < Stage(child'[s][i].at)

\* However children start, end and raise, no step of a swarm is ever taken twice: there
\* is no retry and no loop that could keep it from returning.
THEOREM SwarmAdvances == Spec => [][OnlyAdvances]_vars
<1>1. ASSUME Inv, Inv', [Next]_vars PROVE [OnlyAdvances]_vars
  <2>1. /\ \A s \in Swarms : submitted[s] \in Nat
        /\ \A s \in Swarms, i \in Children : child[s][i].at \in Ats /\ Stage(child[s][i].at) \in 0 .. 6
    <3>1. submitted \in [Swarms -> 0 .. Len(Questions)] BY <1>1 DEF Inv, TypeOK
    <3>2. \A s \in Swarms, i \in Children : child[s][i].at \in Ats
      BY <1>1 DEF Inv, TypeOK, Child
    <3>3. \A at \in Ats : Stage(at) \in 0 .. 6 BY DEF Ats, Working, Stage
    <3>4. QED BY <3>1, <3>2, <3>3, Plan
  <2>2. ASSUME NEW s \in Swarms, Submit(s) PROVE OnlyAdvances
    <3>1. /\ submitted'[s] = submitted[s] + 1
          /\ \A t \in Swarms \ {s} : submitted'[t] = submitted[t]
          /\ UNCHANGED <<child, result>>
      BY <1>1, <2>2 DEF Submit, Inv, TypeOK
    <3>2. QED BY <2>1, <3>1 DEF OnlyAdvances
  <2>3. ASSUME NEW s \in Swarms, Return(s) PROVE OnlyAdvances
    <3>1. /\ ~Returned(s) /\ result'[s] = byIndex[s] /\ byIndex[s] # << >>
          /\ \A t \in Swarms \ {s} : result'[t] = result[t]
          /\ UNCHANGED <<child, submitted>>
      <4>1. byIndex[s] \in [Children -> Result] BY <1>1 DEF Inv, TypeOK
      <4>2. 1 \in DOMAIN byIndex[s] BY <4>1, Plan
      <4>3. byIndex[s] # << >>
        <5>1. << >> \in Seq(Result) /\ Len(<< >>) = 0 BY EmptySeq
        <5>2. DOMAIN << >> = 1 .. Len(<< >>) BY <5>1, LenProperties, Zenon
        <5>3. 1 \notin DOMAIN << >> BY <5>1, <5>2
        <5>4. QED BY <4>2, <5>3
      <4>4. QED BY <1>1, <2>3, <4>3 DEF Return, Returned, Inv, TypeOK, poolVars
    <3>2. QED BY <2>1, <3>1 DEF OnlyAdvances
  <2>4. ASSUME NEW s \in Swarms, NEW i \in Children, Moves(s, i), UNCHANGED <<submitted, result>>
        PROVE  OnlyAdvances
    <3>1. Stage(child[s][i].at) < Stage(child'[s][i].at)
      BY <2>4 DEF Moves, Forward, Working, Stage
    <3>2. ASSUME NEW t \in Swarms, NEW j \in Children
          PROVE  Stage(child[t][j].at) <= Stage(child'[t][j].at)
      <4>1. CASE <<t, j>> # <<s, i>> BY <2>1, <2>4, <4>1 DEF Moves, OthersStay
      <4>2. CASE t = s /\ j = i
        <5>1. Stage(child[s][i].at) \in Nat /\ Stage(child'[s][i].at) \in Nat
          BY <2>1, <2>4 DEF Moves, Forward, Working, Stage
        <5>2. QED BY <3>1, <4>2, <5>1
      <4>3. QED BY <4>1, <4>2
    <3>3. QED BY <2>1, <2>4, <3>1, <3>2 DEF OnlyAdvances
  <2>5. QED BY <1>1, <2>2, <2>3, <2>4, StepMoves
<1>2. QED BY <1>1, Invariance, PTL DEF Spec

\* A child that has been submitted and not taken waits for a thread.
WaitsOK ==
  \A s \in Swarms, i \in Children :
    child[s][i].at = "planned" /\ i <= submitted[s] =>
      \E k \in 1 .. Len(queue[s]) : queue[s][k] = i
\* The guard finds a draft in the run of a child that has come so far.
DraftedOK ==
  \A s \in Swarms, i \in Children :
    child[s][i].at = "guard" => \E d \in Swarms \X Children : d \in ToSet(drafts[RunId(s, i)])

\* What the threads of a swarm can do next: the guards of Submit, Take, ChildStep,
\* Collect and Return.
CanGoOn(s) ==
  \/ submitted[s] < Len(Questions)
  \/ queue[s] # << >> /\ Cardinality(AtWork(s)) < Concurrency[s]
  \/ \E i \in Children :
       \/ child[s][i].at \in {"intake", "draft", "report"}
       \/ child[s][i].at = "guard" /\ ToSet(drafts[RunId(s, i)]) # {}
       \/ child[s][i].at = "done" /\ submitted[s] = Len(Questions)
  \/ result[s] = << >> /\ \A i \in Children : byIndex[s][i] # NoResult
NeverStuck == \A s \in Swarms : Returned(s) \/ CanGoOn(s)

LEMMA WaitsStep == Inv /\ Inv' /\ WaitsOK /\ [Next]_vars => WaitsOK'
<1> SUFFICES ASSUME Inv, Inv', WaitsOK, [Next]_vars,
                    NEW t \in Swarms, NEW j \in Children,
                    child'[t][j].at = "planned", j <= submitted'[t]
    PROVE \E k \in 1 .. Len(queue'[t]) : queue'[t][k] = j
  BY DEF WaitsOK
<1> USE DEF poolVars, topicVars
<1>0. /\ queue[t] \in Seq(Children) /\ submitted[t] \in Nat
      /\ queue \in [Swarms -> Seq(Children)] /\ submitted \in [Swarms -> 0 .. Len(Questions)]
      /\ j \in Nat /\ TypeOK
  BY Plan DEF Inv, TypeOK
<1>1. ASSUME child'[t][j].at = "planned" => child[t][j].at = "planned",
             queue'[t] = queue[t], submitted'[t] = submitted[t]
      PROVE  \E k \in 1 .. Len(queue'[t]) : queue'[t][k] = j
  BY <1>1 DEF WaitsOK
<1>2. CASE Submit(t)
  <2>1. queue'[t] = Append(queue[t], submitted[t] + 1) /\ submitted'[t] = submitted[t] + 1
        /\ child' = child
    BY <1>0, <1>2 DEF Submit
  <2>2. submitted[t] + 1 \in Children BY <1>0, <1>2, Plan DEF Submit
  <2>3. /\ Len(queue[t]) \in Nat /\ Len(queue'[t]) = Len(queue[t]) + 1
        /\ \A k \in 1 .. Len(queue[t]) : queue'[t][k] = queue[t][k]
        /\ queue'[t][Len(queue[t]) + 1] = submitted[t] + 1
    BY <1>0, <2>1, <2>2, AppendType
  <2>4. CASE j <= submitted[t]
    <3>1. PICK k \in 1 .. Len(queue[t]) : queue[t][k] = j BY <2>1, <2>4 DEF WaitsOK
    <3>2. QED BY <2>3, <3>1
  <2>5. CASE j = submitted[t] + 1 BY <2>3, <2>5
  <2>6. QED BY <1>0, <2>1, <2>4, <2>5
<1>3. CASE Take(t)
  <2>1. /\ Head(queue[t]) = queue[t][1] /\ Head(queue[t]) \in Children
        /\ Len(queue[t]) \in Nat \ {0} /\ Len(Tail(queue[t])) = Len(queue[t]) - 1
        /\ \A k \in 1 .. Len(Tail(queue[t])) : Tail(queue[t])[k] = queue[t][k + 1]
    BY <1>0, <1>3, TailType DEF Take
  <2>2. queue'[t] = Tail(queue[t]) /\ submitted'[t] = submitted[t] /\ To(t, Head(queue[t]), "intake")
    BY <1>0, <1>3 DEF Take
  <2>3. child'[t][Head(queue[t])].at = "intake" /\ OthersStay(t, Head(queue[t]))
    <3>1. "intake" \in Ats BY DEF Ats, Working
    <3>2. TypeOK /\ To(t, Head(queue[t]), "intake") /\ Head(queue[t]) \in Children
      BY <1>0, <2>1, <2>2
    <3> HIDE DEF TypeOK, To
    <3>3. QED BY <3>1, <3>2, Goes, Zenon
  <2>4. j # Head(queue[t]) /\ child[t][j].at = "planned" BY <2>3 DEF OthersStay
  <2>5. PICK k \in 1 .. Len(queue[t]) : queue[t][k] = j BY <2>2, <2>4 DEF WaitsOK
  <2>6. k # 1 BY <2>1, <2>4, <2>5
  <2>7. k - 1 \in 1 .. Len(queue'[t]) /\ queue'[t][k - 1] = j
    BY <2>1, <2>2, <2>5, <2>6
  <2>8. QED BY <2>7
<1>4. ASSUME NEW s \in Swarms, s # t, Submit(s) \/ Take(s) \/ Return(s)
      PROVE  \E k \in 1 .. Len(queue'[t]) : queue'[t][k] = j
  <2>1. queue'[t] = queue[t] /\ submitted'[t] = submitted[t]
    BY <1>0, <1>4 DEF Submit, Take, Return
  <2>2. child'[t][j] = child[t][j]
    <3>1. CASE Take(s)
      <4>1. Head(queue[s]) \in Children BY <1>0, <3>1, TailType DEF Take
      <4>2. OthersStay(s, Head(queue[s])) BY <1>0, <3>1, <4>1, Goes DEF Take, Ats, Working
      <4>3. QED BY <1>4, <4>2 DEF OthersStay
    <3>2. QED BY <1>4, <3>1 DEF Submit, Return
  <2>3. QED BY <1>1, <2>1, <2>2
<1>5. CASE Return(t) BY <1>1, <1>5 DEF Return
<1>6. ASSUME NEW s \in Swarms, NEW i \in Children, ChildStep(s, i) \/ Collect(s, i) \/ Raise(s, i)
      PROVE  \E k \in 1 .. Len(queue'[t]) : queue'[t][k] = j
  <2>1. UNCHANGED <<queue, submitted>>
    BY <1>6 DEF ChildStep, Intake, Draft, GuardDraft, Report, Collect, Raise
  <2>2. child[s][i].at # "planned"
    BY <1>6 DEF ChildStep, Intake, Draft, GuardDraft, Report, Collect, Raise, Working
  <2>3. OthersStay(s, i) /\ child'[s][i].at # "planned"
    <3>1. CASE Intake(s, i) \/ Draft(s, i) \/ Report(s, i) \/ Collect(s, i)
      BY <1>0, <3>1, Goes DEF Intake, Draft, Report, Collect, Ats, Working
    <3>2. CASE GuardDraft(s, i)
      <4>1. PICK v \in {"accepted", "rejected"} :
              child' = [child EXCEPT ![s][i] = [at |-> "report", status |-> v]]
        BY <3>2 DEF GuardDraft
      <4>2. [at |-> "report", status |-> v] \in Child BY DEF Child, Ats, Working, Statuses
      <4>3. QED BY <1>0, <4>1, <4>2, GoesWith
    <3>3. CASE Raise(s, i)
      <4>1. [at |-> "done", status |-> "failed"] \in Child BY DEF Child, Ats, Statuses
      <4>2. QED BY <1>0, <3>3, <4>1, GoesWith DEF Raise
    <3>4. QED BY <1>6, <3>1, <3>2, <3>3 DEF ChildStep
  <2>4. child'[t][j] = child[t][j] BY <2>3 DEF OthersStay
  <2>5. QED BY <1>1, <2>1, <2>4
<1>7. CASE UNCHANGED vars BY <1>1, <1>7 DEF vars
<1>8. QED BY <1>2, <1>3, <1>4, <1>5, <1>6, <1>7 DEF Next, MainStep

LEMMA DraftedStep == Inv /\ Inv' /\ DraftedOK /\ [Next]_vars => DraftedOK'
<1> SUFFICES ASSUME Inv, Inv', DraftedOK, [Next]_vars PROVE DraftedOK' OBVIOUS
<1>0. TypeOK /\ \A r \in RunIds : drafts[r] \in Seq(Swarms \X Children) BY DEF Inv, TypeOK
<1>1. ASSUME UNCHANGED drafts,
             \A t \in Swarms, j \in Children :
               child'[t][j].at = "guard" => child[t][j].at = "guard"
      PROVE  DraftedOK'
  BY <1>1 DEF DraftedOK, RunId
<1>2. ASSUME NEW s \in Swarms, NEW i \in Children, Draft(s, i) PROVE DraftedOK'
  <2>1. OthersStay(s, i) BY <1>0, <1>2, Goes DEF Draft, Ats, Working
  <2>2. RunId(s, i) \in RunIds /\ drafts \in [RunIds -> Seq(Swarms \X Children)]
    BY <1>0, RunIdType DEF TypeOK
  <2>3. /\ drafts'[RunId(s, i)] = Append(drafts[RunId(s, i)], <<s, i>>)
        /\ \A r \in RunIds : r # RunId(s, i) => drafts'[r] = drafts[r]
    BY <1>2, <2>2 DEF Draft
  <2>4. /\ <<s, i>> \in ToSet(drafts'[RunId(s, i)])
        /\ \A r \in RunIds : ToSet(drafts[r]) \subseteq ToSet(drafts'[r])
    <3>1. ASSUME NEW q \in Seq(Swarms \X Children)
          PROVE  <<s, i>> \in ToSet(Append(q, <<s, i>>))
                 /\ ToSet(q) \subseteq ToSet(Append(q, <<s, i>>))
      <4>1. /\ Append(q, <<s, i>>) \in Seq(Swarms \X Children) /\ Len(q) \in Nat
            /\ Len(Append(q, <<s, i>>)) = Len(q) + 1
            /\ \A k \in 1 .. Len(q) : Append(q, <<s, i>>)[k] = q[k]
            /\ Append(q, <<s, i>>)[Len(q) + 1] = <<s, i>>
        BY AppendType
      <4>2. DOMAIN q = 1 .. Len(q) /\ DOMAIN Append(q, <<s, i>>) = 1 .. Len(q) + 1
        BY <4>1, LenProperties
      <4>3. QED BY <4>1, <4>2 DEF ToSet
    <3>2. QED BY <1>0, <2>2, <2>3, <3>1
  <2>5. ASSUME NEW t \in Swarms, NEW j \in Children, child'[t][j].at = "guard"
        PROVE  \E d \in Swarms \X Children : d \in ToSet(drafts'[RunId(t, j)])
    <3>1. CASE <<t, j>> = <<s, i>> BY <2>4, <3>1
    <3>2. CASE <<t, j>> # <<s, i>>
      <4>1. PICK d \in Swarms \X Children : d \in ToSet(drafts[RunId(t, j)])
        BY <2>1, <2>5, <3>2 DEF OthersStay, DraftedOK
      <4>2. RunId(t, j) \in RunIds BY RunIdType
      <4>3. QED BY <2>4, <4>1, <4>2
    <3>3. QED BY <3>1, <3>2
  <2>6. QED BY <2>5 DEF DraftedOK, RunId
<1>3. ASSUME NEW s \in Swarms, Submit(s) \/ Return(s) PROVE DraftedOK'
  BY <1>1, <1>3 DEF Submit, Return, topicVars
<1>4. ASSUME NEW s \in Swarms, Take(s) PROVE DraftedOK'
  <2>1. Head(queue[s]) \in Children BY <1>0, <1>4, TailType DEF Take, TypeOK
  <2>2. OthersStay(s, Head(queue[s])) /\ child'[s][Head(queue[s])].at = "intake"
    BY <1>0, <1>4, <2>1, Goes DEF Take, Ats, Working
  <2>3. QED BY <1>1, <1>4, <2>2 DEF Take, topicVars, OthersStay
<1>5. ASSUME NEW s \in Swarms, NEW i \in Children,
             Intake(s, i) \/ Report(s, i) \/ Collect(s, i)
      PROVE  DraftedOK'
  <2>1. OthersStay(s, i) /\ child'[s][i].at # "guard"
    BY <1>0, <1>5, Goes DEF Intake, Report, Collect, Ats, Working
  <2>2. QED BY <1>1, <1>5, <2>1 DEF Intake, Report, Collect, topicVars, OthersStay
<1>6. ASSUME NEW s \in Swarms, NEW i \in Children, GuardDraft(s, i) PROVE DraftedOK'
  <2>1. PICK v \in {"accepted", "rejected"} :
          child' = [child EXCEPT ![s][i] = [at |-> "report", status |-> v]]
    BY <1>6 DEF GuardDraft
  <2>2. [at |-> "report", status |-> v] \in Child BY DEF Child, Ats, Working, Statuses
  <2>3. OthersStay(s, i) /\ child'[s][i].at # "guard" BY <1>0, <2>1, <2>2, GoesWith
  <2>4. QED BY <1>1, <1>6, <2>3 DEF GuardDraft, OthersStay
<1>7. ASSUME NEW s \in Swarms, NEW i \in Children, Raise(s, i) PROVE DraftedOK'
  <2>1. [at |-> "done", status |-> "failed"] \in Child BY DEF Child, Ats, Statuses
  <2>2. OthersStay(s, i) /\ child'[s][i].at # "guard" BY <1>0, <1>7, <2>1, GoesWith DEF Raise
  <2>3. QED BY <1>1, <1>7, <2>2 DEF Raise, topicVars, OthersStay
<1>8. CASE UNCHANGED vars BY <1>1, <1>8 DEF vars
<1>9. QED BY <1>2, <1>3, <1>4, <1>5, <1>6, <1>7, <1>8 DEF Next, MainStep, ChildStep

\* A swarm that has not returned always has a step open to one of its threads, whatever
\* its children have done.  With `OnlyAdvances` this is the argument behind
\* `SwarmReturns`, but for the fairness.
THEOREM SwarmIsNeverStuck == Spec => []NeverStuck
<1>1. ASSUME Init PROVE WaitsOK /\ DraftedOK
  BY <1>1, Plan DEF Init, WaitsOK, DraftedOK, NotRun
<1>2. ASSUME Inv, WaitsOK, DraftedOK, NEW s \in Swarms, ~Returned(s), ~CanGoOn(s)
      PROVE  FALSE
  <2>1. submitted[s] = Len(Questions) BY <1>2, Plan DEF CanGoOn, Inv, TypeOK
  <2>2. ASSUME NEW i \in Children PROVE child[s][i].at \in {"planned", "collected"}
    <3>1. child[s][i].at \in Ats BY <1>2 DEF Inv, TypeOK, Child
    <3>2. child[s][i].at # "guard" BY <1>2 DEF CanGoOn, DraftedOK
    <3>3. QED BY <1>2, <2>1, <3>1, <3>2 DEF CanGoOn, Ats, Working
  <2>3. AtWork(s) = {} BY <2>2 DEF AtWork, Working
  <2>4. Cardinality(AtWork(s)) < Concurrency[s]
    <3>1. Cardinality(AtWork(s)) = 0 BY <2>3, FS_EmptySet
    <3>2. Concurrency[s] \in Nat \ {0} BY SwarmConstants DEF MAX_SWARM_CONCURRENCY
    <3>3. QED BY <3>1, <3>2
  <2>5. queue[s] = << >> BY <1>2, <2>4 DEF CanGoOn
  <2>6. ASSUME NEW i \in Children PROVE child[s][i].at = "collected"
    <3>1. CASE child[s][i].at = "planned"
      <4>1. i <= submitted[s] BY <2>1, Plan
      <4>2. PICK k \in 1 .. Len(queue[s]) : queue[s][k] = i
        BY <1>2, <3>1, <4>1 DEF WaitsOK
      <4>3. Len(queue[s]) = 0 BY <2>5, EmptySeq
      <4>4. QED BY <4>2, <4>3
    <3>2. QED BY <2>2, <3>1
  <2>7. ASSUME NEW i \in Children PROVE byIndex[s][i] # NoResult
    <3>1. byIndex[s][i] = Outcome(s, i) BY <1>2, <2>6 DEF Inv, CollectedOK
    <3>2. child[s][i].status \in Statuses BY <1>2, <2>6 DEF Inv, ReportsOK
    <3>3. QED BY <3>1, <3>2 DEF Outcome, NoResult, Statuses
  <2>8. QED BY <1>2, <2>7 DEF CanGoOn, Returned
<1>3. Inv /\ WaitsOK /\ DraftedOK => NeverStuck BY <1>2 DEF NeverStuck
<1>4. QED BY <1>1, <1>3, WaitsStep, DraftedStep, Invariance, PTL DEF Spec

-----------------------------------------------------------------------------
(* The pool keeps its promise *)

\* A child that the guard has not come to has no verdict in any run.
Early == {"planned", "intake", "draft", "guard"}
UnjudgedOK ==
  \A s \in Swarms, i \in Children : child[s][i].at \in Early =>
    \A r \in RunIds : \A w \in verdicts[r] : w.draft # <<s, i>>

\* What one step does to a child that is judged, and to the verdicts.
LEMMA Judges ==
  ASSUME IsInjective(SwarmId), DOMAIN SwarmId = Swarms, OwnInv,
         NEW s \in Swarms, NEW i \in Children, GuardDraft(s, i)
  PROVE  \E v \in {"accepted", "rejected"} :
           /\ child[s][i].at = "guard" /\ child'[s][i] = [at |-> "report", status |-> v]
           /\ OthersStay(s, i)
           /\ verdicts' = [verdicts EXCEPT
                ![RunId(s, i)] = @ \cup {[draft |-> <<s, i>>, verdict |-> v]}]
<1>1. PICK v \in {"accepted", "rejected"}, d \in ToSet(drafts[RunId(s, i)]) :
        /\ child' = [child EXCEPT ![s][i] = [at |-> "report", status |-> v]]
        /\ verdicts' = [verdicts EXCEPT ![RunId(s, i)] = @ \cup {[draft |-> d, verdict |-> v]}]
  BY DEF GuardDraft
<1>2. d = <<s, i>> BY JudgesItsOwn
<1>3. [at |-> "report", status |-> v] \in Child BY DEF Child, Ats, Working, Statuses
<1>4. child'[s][i] = [at |-> "report", status |-> v] /\ OthersStay(s, i)
  BY <1>1, <1>3, GoesWith DEF OwnInv
<1>5. QED BY <1>1, <1>2, <1>4 DEF GuardDraft

\* No draft is judged before its child has come to the guard, nor twice.
LEMMA UnjudgedStep ==
  ASSUME IsInjective(SwarmId), DOMAIN SwarmId = Swarms,
         Inv, OwnInv, UnjudgedOK, [Next]_vars
  PROVE  UnjudgedOK'
<1>1. \A t \in Swarms, j \in Children : child'[t][j].at \in Early => child[t][j].at \in Early
  <2>1. \A s \in Swarms : Submit(s) \/ Return(s) => UNCHANGED child BY DEF Submit, Return
  <2>2. ASSUME NEW s \in Swarms, NEW i \in Children, Moves(s, i),
               NEW t \in Swarms, NEW j \in Children, child'[t][j].at \in Early
        PROVE  child[t][j].at \in Early
    BY <2>2 DEF Moves, OthersStay, Forward, Early, Working
  <2>3. UNCHANGED vars => UNCHANGED child BY DEF vars
  <2>4. QED BY <2>1, <2>2, <2>3, StepMoves
<1>2. CASE UNCHANGED verdicts BY <1>1, <1>2 DEF UnjudgedOK, RunIds, RunId
<1>3. ASSUME NEW s \in Swarms, NEW i \in Children, GuardDraft(s, i) PROVE UnjudgedOK'
  <2>1. PICK v \in {"accepted", "rejected"} :
          /\ child'[s][i] = [at |-> "report", status |-> v]
          /\ verdicts' = [verdicts EXCEPT
               ![RunId(s, i)] = @ \cup {[draft |-> <<s, i>>, verdict |-> v]}]
    BY <1>3, Judges
  <2>2. \A r \in RunIds :
          verdicts'[r] \subseteq verdicts[r] \cup {[draft |-> <<s, i>>, verdict |-> v]}
    BY <2>1 DEF OwnInv, TypeOK
  <2>3. child'[s][i].at \notin Early BY <2>1 DEF Early
  <2>4. ASSUME NEW t \in Swarms, NEW j \in Children, child'[t][j].at \in Early,
               NEW r \in RunIds, NEW w \in verdicts'[r]
        PROVE  w.draft # <<t, j>>
    <3>1. CASE w \in verdicts[r] BY <1>1, <2>4, <3>1 DEF UnjudgedOK
    <3>2. CASE w = [draft |-> <<s, i>>, verdict |-> v]
      <4>1. w.draft = <<s, i>> BY <3>2
      <4>2. QED BY <2>3, <2>4, <4>1
    <3>3. QED BY <2>2, <3>1, <3>2
  <2>5. QED BY <2>4 DEF UnjudgedOK, RunIds, RunId
<1>4. QED
  BY <1>2, <1>3 DEF Next, MainStep, ChildStep, Submit, Take, Intake, Draft, Report, Collect,
     Return, Raise, topicVars, vars

CollectedNow(s, i) ==
  child'[s][i].at = "collected" /\ child'[s][i].status = child[s][i].status

\* What a child's step does to the two, from where the child is before and after it.
LEMMA SeenOutside ==
  ASSUME NEW s \in Swarms, NEW i \in Children, OthersStay(s, i)
  PROVE  /\ child[s][i].at \in Working /\ child'[s][i].at \in Working
              => UNCHANGED <<Open, Endings>>
         /\ child[s][i].at = "planned" /\ child'[s][i].at \in Working
              => Open' = [Open EXCEPT ![s] = @ \cup {i}] /\ UNCHANGED Endings
         /\ child[s][i].at \in Working /\ child'[s][i].at = "done"
              => /\ Open' = [Open EXCEPT ![s] = @ \ {i}]
                 /\ Endings' = [Endings EXCEPT ![s][i] = child'[s][i].status]
         /\ child[s][i].at = "done" /\ CollectedNow(s, i) => UNCHANGED <<Open, Endings>>
<1>1. \A t \in Swarms : t # s => AtWork(t)' = AtWork(t)
  BY DEF OthersStay, AtWork
<1>2. \A t \in Swarms, j \in Children : <<t, j>> # <<s, i>> => Ended(t, j)' = Ended(t, j)
  BY DEF OthersStay, Ended
<1>3. /\ child[s][i].at \in Working /\ child'[s][i].at \in Working => AtWork(s)' = AtWork(s)
      /\ child[s][i].at = "planned" /\ child'[s][i].at \in Working
           => AtWork(s)' = AtWork(s) \cup {i}
      /\ child[s][i].at \in Working /\ child'[s][i].at = "done" => AtWork(s)' = AtWork(s) \ {i}
      /\ child[s][i].at = "done" /\ CollectedNow(s, i) => AtWork(s)' = AtWork(s)
  BY DEF OthersStay, AtWork, Working, CollectedNow
<1>4. /\ child[s][i].at \in Working \cup {"planned"} /\ child'[s][i].at \in Working
           => Ended(s, i)' = Ended(s, i)
      /\ child'[s][i].at = "done" => Ended(s, i)' = child'[s][i].status
      /\ child[s][i].at = "done" /\ CollectedNow(s, i) => Ended(s, i)' = Ended(s, i)
  <2>1. Working \cap {"done", "collected", "planned"} = {} BY DEF Working
  <2>2. ASSUME child[s][i].at \in Working \cup {"planned"}, child'[s][i].at \in Working
        PROVE  Ended(s, i)' = Ended(s, i)
    BY <2>1, <2>2 DEF Ended
  <2>3. ASSUME child'[s][i].at = "done" PROVE Ended(s, i)' = child'[s][i].status
    BY <2>3 DEF Ended
  <2>4. ASSUME child[s][i].at = "done", CollectedNow(s, i)
        PROVE  Ended(s, i)' = Ended(s, i)
    BY <2>4 DEF Ended, CollectedNow
  <2>5. QED BY <2>2, <2>3, <2>4
<1> HIDE DEF AtWork, Ended
<1>5. ASSUME AtWork(s)' = AtWork(s) PROVE UNCHANGED Open BY <1>1, <1>5 DEF Open
<1>6. ASSUME NEW S, AtWork(s)' = S PROVE Open' = [Open EXCEPT ![s] = S]
  BY <1>1, <1>6 DEF Open
<1>7. ASSUME Ended(s, i)' = Ended(s, i) PROVE UNCHANGED Endings
  BY <1>2, <1>7 DEF Endings
<1>8. ASSUME NEW e, Ended(s, i)' = e PROVE Endings' = [Endings EXCEPT ![s][i] = e]
  BY <1>2, <1>8 DEF Endings
<1>9. Open[s] = AtWork(s) BY DEF Open
<1>10. QED BY <1>3, <1>4, <1>5, <1>6, <1>7, <1>8, <1>9

\* The pool counts as the swarm does.
LEMMA SameCount == ASSUME NEW S PROVE Pool!Cardinality(S) = Cardinality(S)
BY DEF Cardinality, Pool!Cardinality

\* A verdict in one run is a verdict.
LEMMA OneMoreJudged ==
  ASSUME TypeOK, NEW r \in RunIds, NEW w,
         verdicts' = [verdicts EXCEPT ![r] = @ \cup {w}]
  PROVE  Judged' = Judged \cup {w}
<1>1. verdicts \in [RunIds -> SUBSET [draft : Swarms \X Children, verdict : Statuses]]
  BY DEF TypeOK
<1>2. /\ verdicts'[r] = verdicts[r] \cup {w}
      /\ \A q \in RunIds : q # r => verdicts'[q] = verdicts[q]
  BY <1>1
<1>3. RunIds' = RunIds BY DEF RunIds, RunId
<1>4. QED BY <1>2, <1>3 DEF Judged

\* The steps of a child are those of a question of the pool.
LEMMA ChildImplements ==
  ASSUME IsInjective(SwarmId), DOMAIN SwarmId = Swarms, Inv, OwnInv, UnjudgedOK,
         NEW s \in Swarms, NEW i \in Children, UNCHANGED result,
         ChildStep(s, i) \/ Raise(s, i) \/ Collect(s, i)
  PROVE  Pool!Judge(s, i) \/ Pool!End(s, i) \/ UNCHANGED Pool!vars
<1>0. TypeOK /\ RunIds' = RunIds BY DEF Inv, RunIds, RunId
<1>1. ASSUME UNCHANGED verdicts PROVE UNCHANGED Judged BY <1>0, <1>1 DEF Judged
<1>2. CASE Intake(s, i) \/ Draft(s, i)
  <2>1. OthersStay(s, i) /\ child[s][i].at \in Working /\ child'[s][i].at \in Working
    BY <1>0, <1>2, Goes DEF Intake, Draft, Ats, Working
  <2>2. UNCHANGED verdicts BY <1>2 DEF Intake, Draft, topicVars
  <2>3. QED BY <1>1, <2>1, <2>2, SeenOutside DEF Pool!vars
<1>3. CASE GuardDraft(s, i)
  <2>1. PICK v \in {"accepted", "rejected"} :
          /\ child[s][i].at = "guard" /\ child'[s][i] = [at |-> "report", status |-> v]
          /\ OthersStay(s, i)
          /\ verdicts' = [verdicts EXCEPT
               ![RunId(s, i)] = @ \cup {[draft |-> <<s, i>>, verdict |-> v]}]
    BY <1>3, Judges
  <2>2. Judged' = Judged \cup {[draft |-> <<s, i>>, verdict |-> v]}
    BY <1>0, <2>1, OneMoreJudged, RunIdType
  <2>3. child[s][i].at \in Working /\ child'[s][i].at \in Working BY <2>1 DEF Working
  <2>4. UNCHANGED <<Open, Endings>> BY <2>1, <2>3, SeenOutside
  <2>5. i \in Open[s] BY <2>3 DEF Open, AtWork
  <2>6. \A w \in Judged : w.draft # <<s, i>> BY <2>1 DEF UnjudgedOK, Early, Judged
  <2>7. Pool!Judge(s, i) BY <2>1, <2>2, <2>4, <2>5, <2>6 DEF Pool!Judge, Pool!Verdicts
  <2>8. QED BY <2>7
<1>4. CASE Report(s, i)
  <2>1. /\ OthersStay(s, i) /\ child[s][i].at \in Working /\ child'[s][i].at = "done"
        /\ child'[s][i].status = child[s][i].status
    BY <1>0, <1>4, Goes DEF Report, Ats, Working
  <2>2. /\ Open' = [Open EXCEPT ![s] = @ \ {i}]
        /\ Endings' = [Endings EXCEPT ![s][i] = child[s][i].status]
    BY <2>1, SeenOutside
  <2>3. i \in Open[s] BY <2>1 DEF Open, AtWork
  <2>4. UNCHANGED Judged BY <1>1, <1>4 DEF Report, topicVars
  <2>5. child[s][i].status \in Statuses BY <1>4 DEF Report, Inv, ReportsOK
  <2>6. CASE child[s][i].status = "failed"
    BY <2>2, <2>3, <2>4, <2>6 DEF Pool!End
  <2>7. CASE child[s][i].status \in {"accepted", "rejected"}
    <3>1. [draft |-> <<s, i>>, verdict |-> child[s][i].status] \in Judged
      BY <2>7, RunIdType DEF OwnInv, ReportsItsOwnDraft, Judged
    <3>2. PICK w \in Judged : w.draft = <<s, i>> /\ w.verdict = child[s][i].status
      BY <3>1
    <3>3. QED BY <2>2, <2>3, <2>4, <3>2 DEF Pool!End
  <2>8. QED BY <2>5, <2>6, <2>7 DEF Statuses
<1>5. CASE Raise(s, i)
  <2>1. [at |-> "done", status |-> "failed"] \in Child BY DEF Child, Ats, Statuses
  <2>2. /\ OthersStay(s, i) /\ child[s][i].at \in Working
        /\ child'[s][i] = [at |-> "done", status |-> "failed"]
    BY <1>0, <1>5, <2>1, GoesWith DEF Raise
  <2>3. /\ Open' = [Open EXCEPT ![s] = @ \ {i}]
        /\ Endings' = [Endings EXCEPT ![s][i] = "failed"]
    BY <2>2, SeenOutside
  <2>4. i \in Open[s] BY <2>2 DEF Open, AtWork
  <2>5. UNCHANGED Judged BY <1>1, <1>5 DEF Raise, topicVars
  <2>6. QED BY <2>3, <2>4, <2>5 DEF Pool!End
<1>6. CASE Collect(s, i)
  <2>1. OthersStay(s, i) /\ child[s][i].at = "done" /\ CollectedNow(s, i)
    BY <1>0, <1>6, Goes DEF Collect, Ats, CollectedNow
  <2>2. UNCHANGED verdicts BY <1>6 DEF Collect, topicVars
  <2>3. QED BY <1>1, <2>1, <2>2, SeenOutside DEF Pool!vars
<1>7. QED BY <1>2, <1>3, <1>4, <1>5, <1>6 DEF ChildStep

\* Swarms with ids of their own keep the promise of SwarmPool: each question goes to an
\* agent once, its draft is judged once at most, it ends once, and the answer is what
\* the questions ended with, in the order of the plan.
THEOREM PoolRefinement ==
  ASSUME IsInjective(SwarmId), DOMAIN SwarmId = Swarms
  PROVE  Spec => ImplementsSwarmPool
<1>1. Init => Pool!Init
  <2> SUFFICES ASSUME Init PROVE Pool!Init OBVIOUS
  <2>1. \A s \in Swarms : AtWork(s) = {} BY DEF Init, AtWork, NotRun, Working
  <2>2. \A s \in Swarms, i \in Children : Ended(s, i) = "none" BY DEF Init, Ended, NotRun
  <2>3. Judged = {} BY DEF Init, Judged
  <2> HIDE DEF AtWork, Ended
  <2>4. Open = [s \in Swarms |-> {}] BY <2>1 DEF Open
  <2>5. Endings = [s \in Swarms |-> [i \in Children |-> "none"]] BY <2>2 DEF Endings
  <2>6. QED BY <2>3, <2>4, <2>5 DEF Init, Pool!Init, Pool!Plan, Children
<1>2. Init => UnjudgedOK BY DEF Init, UnjudgedOK
<1>3. Inv /\ OwnInv /\ UnjudgedOK /\ [Next]_vars => [Pool!Next]_Pool!vars
  <2> SUFFICES ASSUME Inv, OwnInv, UnjudgedOK, [Next]_vars
      PROVE Pool!Next \/ UNCHANGED Pool!vars
    OBVIOUS
  <2>0. TypeOK /\ RunIds' = RunIds /\ Children = Pool!Plan
    BY DEF Inv, RunIds, RunId, Pool!Plan, Children
  <2>1. ASSUME UNCHANGED <<child, verdicts>> PROVE UNCHANGED <<Open, Endings, Judged>>
    BY <2>0, <2>1 DEF Open, Endings, Judged, AtWork, Ended
  <2>2. ASSUME NEW s \in Swarms, Submit(s) PROVE UNCHANGED Pool!vars
    BY <2>1, <2>2 DEF Submit, topicVars, Pool!vars
  <2>3. ASSUME NEW s \in Swarms, Take(s) PROVE Pool!Next
    <3> DEFINE h == Head(queue[s])
    <3>1. h \in Children /\ h = queue[s][1] /\ 1 \in 1 .. Len(queue[s])
      BY <2>0, <2>3, TailType DEF Take, TypeOK
    <3>2. child[s][h].at = "planned" BY <3>1 DEF Inv, QueueOK
    <3>3. To(s, h, "intake") /\ UNCHANGED <<verdicts, result>>
          /\ Cardinality(AtWork(s)) < Concurrency[s]
      BY <2>3 DEF Take, topicVars
    <3> HIDE DEF h
    <3>4. OthersStay(s, h) /\ child'[s][h].at \in Working
      BY <2>0, <3>1, <3>3, Goes DEF Ats, Working
    <3>5. Open' = [Open EXCEPT ![s] = @ \cup {h}] /\ UNCHANGED Endings
      BY <3>1, <3>2, <3>4, SeenOutside
    <3>6. h \notin Open[s] /\ Endings[s][h] = "none"
      BY <3>1, <3>2 DEF Open, Endings, AtWork, Ended, Working
    <3>7. UNCHANGED Judged BY <2>0, <3>3 DEF Judged
    <3>8. Pool!Cardinality(Open[s]) < Concurrency[s] BY <3>3, SameCount DEF Open
    <3>9. Pool!Begin(s, h) BY <3>3, <3>5, <3>6, <3>7, <3>8 DEF Pool!Begin
    <3>10. QED BY <2>0, <3>1, <3>9 DEF Pool!Next
  <2>4. ASSUME NEW s \in Swarms, Return(s) PROVE Pool!Next
    <3>1. /\ result[s] = << >> /\ result' = [result EXCEPT ![s] = byIndex[s]]
          /\ UNCHANGED <<child, verdicts>> /\ \A i \in Children : byIndex[s][i] # NoResult
      BY <2>4 DEF Return, topicVars
    <3>2. \A i \in Children : child[s][i].at = "collected" /\ byIndex[s][i] = Outcome(s, i)
      BY <3>1 DEF Inv, CollectedOK
    <3>3. \A i \in Children : Ended(s, i) = child[s][i].status /\ child[s][i].status \in Statuses
      BY <3>2 DEF Ended, Inv, ReportsOK
    <3>4. \A i \in Children : Endings[s][i] = child[s][i].status BY <3>3 DEF Endings
    <3>5. \A i \in Children : Endings[s][i] # "none" BY <3>3, <3>4 DEF Statuses
    <3>6. byIndex[s] = [i \in Children |-> [question |-> Questions[i], status |-> Endings[s][i]]]
      <4>1. byIndex[s] \in [Children -> Result] BY <2>0 DEF TypeOK
      <4>2. \A i \in Children :
              byIndex[s][i] = [question |-> Questions[i], status |-> Endings[s][i]]
        BY <3>2, <3>4 DEF Outcome
      <4>3. QED BY <4>1, <4>2
    <3>7. UNCHANGED <<Open, Endings, Judged>> BY <2>1, <3>1
    <3>8. Pool!Return(s) BY <2>0, <3>1, <3>5, <3>6, <3>7 DEF Pool!Return
    <3>9. QED BY <3>8 DEF Pool!Next
  <2>5. ASSUME NEW s \in Swarms, NEW i \in Children,
               ChildStep(s, i) \/ Raise(s, i) \/ Collect(s, i)
        PROVE  Pool!Next \/ UNCHANGED Pool!vars
    <3>1. UNCHANGED result
      BY <2>5 DEF ChildStep, Intake, Draft, GuardDraft, Report, Raise, Collect
    <3>2. QED BY <2>0, <2>5, <3>1, ChildImplements DEF Pool!Next
  <2>6. CASE UNCHANGED vars BY <2>1, <2>6 DEF vars, Pool!vars
  <2>7. QED BY <2>2, <2>3, <2>4, <2>5, <2>6 DEF Next, MainStep
<1>4. Inv /\ OwnInv /\ UnjudgedOK /\ [Next]_vars => UnjudgedOK' BY UnjudgedStep
<1>5. QED
  BY <1>1, <1>2, <1>3, <1>4, Invariance, OwnInvariance, PTL
     DEF Spec, ImplementsSwarmPool, Pool!Spec
=============================================================================
