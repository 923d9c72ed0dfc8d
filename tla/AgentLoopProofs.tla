-------------------------- MODULE AgentLoopProofs --------------------------
(***************************************************************************)
(* Proofs about AgentLoop, for every library, every bound and whatever the *)
(* model does.                                                             *)
(***************************************************************************)
EXTENDS AgentLoop, TLAPS, SequenceTheorems, FunctionTheorems, FiniteSetTheorems

\* What the tool calls have returned.
OnRecord(s) == UNION {s[i] : i \in 1..Len(s)}

\* Every call and every refusal has cost one turn, and a call is audited before the
\* next turn begins.
TurnsOK ==
  /\ pc \in {"turn", "release", "drafted", "exhausted"} => CallsIn(published) = Len(calls)
  /\ pc = "audit" => CallsIn(published) + 1 = Len(calls)
  /\ pc # "failed" => turn = CallsIn(published) + refused + 1
  /\ pc = "exhausted" => turn > MaxTurns
CallsOK ==
  /\ Len(calls) <= MaxCalls
  /\ pc = "release" => Len(calls) < MaxCalls
  /\ pc \in {"release", "drafted"} => Len(calls) > 0
  /\ pc = "drafted" => Len(calls) >= MinCalls
\* What was inspected is published, and it is what the calls have returned, apart from
\* the inspection under way.
ReleasesOK ==
  /\ releasing \cap ItemsIn(published) = {}
  /\ pc # "failed" => inspected = ItemsIn(published)
  /\ pc \in {"turn", "audit", "drafted", "exhausted"} => inspected = OnRecord(calls)
  /\ pc = "release" => inspected \cup releasing = OnRecord(calls) \cup (requested \cap AiAllowed)
  /\ pc = "drafted" => draft \subseteq inspected
\* What is published is a tool run, up to the call under way.
RunOK ==
  /\ IsToolRun(published)
  /\ pc \in {"turn", "drafted", "exhausted"} => LastAudited(published)
Inv == TypeOK /\ TurnsOK /\ CallsOK /\ ReleasesOK /\ RunOK

\* Recording a call adds what it returned.
LEMMA RecordAdds ==
  ASSUME NEW S, NEW s \in Seq(SUBSET S), NEW x \in SUBSET S
  PROVE  /\ Append(s, x) \in Seq(SUBSET S) /\ Len(Append(s, x)) = Len(s) + 1 /\ Len(s) \in Nat
         /\ OnRecord(Append(s, x)) = OnRecord(s) \cup x
<1>1. /\ Len(s) \in Nat /\ Append(s, x) \in Seq(SUBSET S) /\ Len(Append(s, x)) = Len(s) + 1
      /\ Append(s, x)[Len(s) + 1] = x
      /\ \A i \in 1..Len(s) : Append(s, x)[i] = s[i]
  BY AppendProperties, LenProperties
<1> DEFINE u == Append(s, x)
<1>2. /\ Len(u) = Len(s) + 1 /\ u[Len(s) + 1] = x /\ \A i \in 1..Len(s) : u[i] = s[i]
  BY <1>1
<1> HIDE DEF u
<1>3. \A y : (\E i \in 1..Len(u) : y \in u[i]) <=> (\E i \in 1..Len(s) : y \in s[i]) \/ y \in x
  BY <1>1, <1>2
<1>4. OnRecord(u) = OnRecord(s) \cup x BY <1>3 DEF OnRecord
<1>5. QED BY <1>1, <1>4 DEF u

\* The positions of a run are its audits and its releases.
LEMMA RunParts ==
  ASSUME NEW S, NEW s \in Seq(ReleaseSteps(S) \cup {AuditStep})
  PROVE  /\ Len(s) \in Nat /\ DOMAIN s = 1..Len(s)
         /\ AuditsOf(s) \cup ReleasesOf(s) = 1..Len(s)
         /\ IsFiniteSet(AuditsOf(s)) /\ CallsIn(s) \in Nat
         /\ IsFiniteSet(ReleasesOf(s))
         /\ \A k \in ReleasesOf(s) : \E x \in S : s[k] = <<x>> /\ s[k][1] = x
<1>1. /\ Len(s) \in Nat /\ DOMAIN s = 1..Len(s)
      /\ \A k \in 1..Len(s) : s[k] \in ReleaseSteps(S) \cup {AuditStep}
  BY LenProperties
<1>2. AuditsOf(s) \cup ReleasesOf(s) = 1..Len(s) BY <1>1 DEF AuditsOf, ReleasesOf
<1>3. IsFiniteSet(1..Len(s)) BY <1>1, FS_Interval
<1>4. AuditsOf(s) \in SUBSET (1..Len(s)) /\ ReleasesOf(s) \in SUBSET (1..Len(s)) BY <1>2
<1>5. IsFiniteSet(AuditsOf(s)) /\ IsFiniteSet(ReleasesOf(s)) BY <1>3, <1>4, FS_Subset
<1>6. CallsIn(s) \in Nat BY <1>5, FS_CardinalityType DEF CallsIn
<1>7. ASSUME NEW k \in ReleasesOf(s) PROVE \E x \in S : s[k] = <<x>> /\ s[k][1] = x
  <2>1. s[k] \in ReleaseSteps(S) BY <1>1, <1>7 DEF ReleasesOf
  <2>2. PICK x \in S : s[k] = <<x>> BY <2>1 DEF ReleaseSteps
  <2>3. <<x>>[1] = x OBVIOUS
  <2>4. QED BY <2>2, <2>3
<1>8. QED BY <1>1, <1>2, <1>5, <1>6, <1>7

\* Auditing a call.
LEMMA AuditAdds ==
  ASSUME NEW S, NEW s \in Seq(ReleaseSteps(S) \cup {AuditStep})
  PROVE  LET u == Append(s, AuditStep) IN
         /\ u \in Seq(ReleaseSteps(S) \cup {AuditStep}) /\ LastAudited(u)
         /\ CallsIn(u) = CallsIn(s) + 1 /\ ItemsIn(u) = ItemsIn(s)
         /\ IsToolRun(s) => IsToolRun(u)
<1> DEFINE u == Append(s, AuditStep)
<1>1. /\ Len(s) \in Nat /\ u \in Seq(ReleaseSteps(S) \cup {AuditStep}) /\ Len(u) = Len(s) + 1
      /\ u[Len(s) + 1] = AuditStep
      /\ \A i \in 1..Len(s) : u[i] = s[i]
  BY AppendProperties, LenProperties
<1> HIDE DEF u
<1>2. DOMAIN u = 1..(Len(s) + 1) /\ DOMAIN s = 1..Len(s) BY <1>1, LenProperties
<1>3. AuditsOf(u) = AuditsOf(s) \cup {Len(s) + 1} /\ Len(s) + 1 \notin AuditsOf(s)
  BY <1>1, <1>2 DEF AuditsOf
<1>4. ReleasesOf(u) = ReleasesOf(s) /\ \A k \in ReleasesOf(s) : u[k] = s[k]
  BY <1>1, <1>2 DEF ReleasesOf
<1>5. CallsIn(u) = CallsIn(s) + 1
  <2>1. IsFiniteSet(AuditsOf(s)) BY RunParts
  <2>2. QED BY <1>3, <2>1, FS_AddElement DEF CallsIn
<1>6. ItemsIn(u) = ItemsIn(s) BY <1>4 DEF ItemsIn
<1>7. LastAudited(u) BY <1>1 DEF LastAudited
<1>8. ASSUME IsToolRun(s) PROVE IsToolRun(u)
  <2>1. u[1] = AuditStep
    <3>1. CASE s = << >>
      <4>1. Len(s) = 0 BY <3>1
      <4>2. QED BY <1>1, <4>1
    <3>2. CASE s # << >>
      <4>1. Len(s) # 0 /\ s[1] = AuditStep BY <1>8, <3>2, EmptySeq DEF IsToolRun
      <4>2. QED BY <1>1, <4>1
    <3>3. QED BY <3>1, <3>2
  <2>2. QED BY <1>4, <1>8, <2>1 DEF IsToolRun
<1>9. QED BY <1>1, <1>5, <1>6, <1>7, <1>8 DEF u

\* Publishing an item that is not on the topic yet, after some call.
LEMMA ReleaseAdds ==
  ASSUME NEW S, NEW s \in Seq(ReleaseSteps(S) \cup {AuditStep}), NEW x \in S,
         x \notin ItemsIn(s), s # << >>
  PROVE  LET u == Append(s, <<x>>) IN
         /\ u \in Seq(ReleaseSteps(S) \cup {AuditStep})
         /\ CallsIn(u) = CallsIn(s) /\ ItemsIn(u) = ItemsIn(s) \cup {x}
         /\ IsToolRun(s) => IsToolRun(u)
<1> DEFINE e == <<x>>
           u == Append(s, e)
<1>e. e \in ReleaseSteps(S) \cup {AuditStep} /\ e # AuditStep /\ e[1] = x
  BY DEF ReleaseSteps, AuditStep
<1> HIDE DEF e
<1>1. /\ Len(s) \in Nat /\ u \in Seq(ReleaseSteps(S) \cup {AuditStep}) /\ Len(u) = Len(s) + 1
      /\ u[Len(s) + 1] = e
      /\ \A i \in 1..Len(s) : u[i] = s[i]
  BY <1>e, AppendProperties, LenProperties
<1> HIDE DEF u
<1>2. DOMAIN u = 1..(Len(s) + 1) /\ DOMAIN s = 1..Len(s) BY <1>1, LenProperties
<1>3. AuditsOf(u) = AuditsOf(s) BY <1>e, <1>1, <1>2 DEF AuditsOf
<1>4. /\ ReleasesOf(u) = ReleasesOf(s) \cup {Len(s) + 1} /\ Len(s) + 1 \notin ReleasesOf(s)
      /\ \A k \in ReleasesOf(s) : u[k] = s[k]
  BY <1>e, <1>1, <1>2 DEF ReleasesOf
<1>5. CallsIn(u) = CallsIn(s) BY <1>3 DEF CallsIn
<1>6. ItemsIn(u) = ItemsIn(s) \cup {x} BY <1>e, <1>1, <1>4 DEF ItemsIn
<1>8. ASSUME IsToolRun(s) PROVE IsToolRun(u)
  <2>1. u[1] = AuditStep
    <3>1. Len(s) # 0 /\ s[1] = AuditStep BY <1>8, EmptySeq DEF IsToolRun
    <3>2. QED BY <1>1, <3>1
  <2>2. \A k \in ReleasesOf(s) : s[k] # e
    BY <1>e DEF ItemsIn
  <2>3. \A j, k \in ReleasesOf(u) : u[j] = u[k] => j = k
    BY <1>1, <1>4, <1>8, <2>2 DEF IsToolRun
  <2>4. QED BY <2>1, <2>3 DEF IsToolRun
<1>9. QED BY <1>1, <1>5, <1>6, <1>8 DEF u, e

\* A run of at most n calls over finitely many items is as long as ToolRuns allows:
\* each release is of an item of its own.
LEMMA RunLength ==
  ASSUME NEW S, IsFiniteSet(S), NEW n \in Nat, NEW s \in Seq(ReleaseSteps(S) \cup {AuditStep}),
         IsToolRun(s), LastAudited(s), CallsIn(s) <= n
  PROVE  s \in ToolRuns(S, n)
<1> DEFINE R == ReleasesOf(s)
           f == [k \in R |-> s[k][1]]
<1>1. /\ Len(s) \in Nat /\ DOMAIN s = 1..Len(s) /\ AuditsOf(s) \cup R = 1..Len(s)
      /\ IsFiniteSet(AuditsOf(s)) /\ IsFiniteSet(R) /\ CallsIn(s) \in Nat
      /\ \A k \in R : \E x \in S : s[k] = <<x>> /\ s[k][1] = x
  BY RunParts
<1>2. f \in Injection(R, S)
  <2>1. f \in [R -> S] BY <1>1
  <2>2. ASSUME NEW j \in R, NEW k \in R, f[j] = f[k] PROVE j = k
    <3>1. s[j] = <<s[j][1]>> /\ s[k] = <<s[k][1]>> BY <1>1
    <3>2. s[j] = s[k] BY <2>2, <3>1
    <3>3. QED BY <3>2 DEF IsToolRun
  <2>3. QED BY <2>1, <2>2 DEF Injection, IsInjective
<1>3. Cardinality(R) <= Cardinality(S) /\ Cardinality(R) \in Nat /\ Cardinality(S) \in Nat
  BY <1>1, <1>2, FS_Injection, FS_CardinalityType
<1>4. AuditsOf(s) \cap R = {} BY DEF AuditsOf, ReleasesOf
<1> HIDE DEF R, f
<1> DEFINE C == CallsIn(s)
           r == Cardinality(R)
           l == Len(s)
           m == Cardinality(S)
<1>5. Cardinality(AuditsOf(s) \cup R) = C + r
  <2>1. Cardinality(AuditsOf(s) \cap R) = 0 BY <1>4, FS_EmptySet
  <2>2. Cardinality(AuditsOf(s) \cup R) = C + r - Cardinality(AuditsOf(s) \cap R)
    BY <1>1, FS_Union DEF CallsIn
  <2>3. C \in Nat /\ r \in Nat BY <1>1, <1>3
  <2> HIDE DEF C, r
  <2>4. QED BY <2>1, <2>2, <2>3
<1>6. l = C + r
  <2>1. l \in Nat /\ 1 \in Int /\ l \in Int BY <1>1
  <2>2. Cardinality(1..l) = IF 1 > l THEN 0 ELSE l - 1 + 1 BY <2>1, FS_Interval
  <2>3. Cardinality(1..l) = C + r BY <1>1, <1>5
  <2>4. C \in Nat /\ r \in Nat BY <1>1, <1>3
  <2> HIDE DEF C, r, l
  <2>5. QED BY <2>1, <2>2, <2>3, <2>4
<1>7. l \in 0..(n + m)
  <2>1. C \in Nat /\ r \in Nat /\ m \in Nat /\ C <= n /\ r <= m BY <1>1, <1>3
  <2> HIDE DEF C, r, l, m
  <2>2. QED BY <1>6, <2>1
<1>8. s \in [1..Len(s) -> ReleaseSteps(S) \cup {AuditStep}] BY <1>1, LenProperties
<1>9. s \in SeqOf(ReleaseSteps(S) \cup {AuditStep}, n + Cardinality(S)) BY <1>7, <1>8 DEF SeqOf
<1>10. QED BY <1>9 DEF ToolRuns

\* The invariant holds before the first turn.
LEMMA InitInv == Init => Inv
<1> SUFFICES ASSUME Init PROVE Inv OBVIOUS
<1>1. TypeOK BY DEF Init, TypeOK, PCs
<1>2. AuditsOf(published) = {} /\ ReleasesOf(published) = {}
  BY DEF Init, AuditsOf, ReleasesOf
<1>3. CallsIn(published) = 0 /\ ItemsIn(published) = {}
  BY <1>2, FS_EmptySet DEF CallsIn, ItemsIn
<1>4. TurnsOK /\ CallsOK BY <1>3, BoundsType DEF Init, TurnsOK, CallsOK
<1>5. ReleasesOK BY <1>3 DEF Init, ReleasesOK, OnRecord
<1>6. RunOK BY <1>2 DEF Init, RunOK, IsToolRun, LastAudited
<1>7. QED BY <1>1, <1>4, <1>5, <1>6 DEF Inv

\* Every step of the loop keeps the invariant.
LEMMA NextInv == Inv /\ [Next]_vars => Inv'
<1> SUFFICES ASSUME Inv, [Next]_vars PROVE Inv' OBVIOUS
<1>0. /\ Len(calls) \in Nat /\ CallsIn(published) \in Nat
      /\ published \in Seq(ReleaseSteps(AiAllowed) \cup {AuditStep})
  BY LenProperties, RunParts DEF Inv, TypeOK
<1>p. ASSUME UNCHANGED published
      PROVE  /\ CallsIn(published)' = CallsIn(published) /\ ItemsIn(published)' = ItemsIn(published)
             /\ IsToolRun(published)' = IsToolRun(published)
             /\ LastAudited(published)' = LastAudited(published)
  BY <1>p
<1>c. ASSUME UNCHANGED calls
      PROVE  OnRecord(calls)' = OnRecord(calls) /\ Len(calls)' = Len(calls)
  BY <1>c
<1>1. ASSUME Refused, pc = "turn" PROVE Inv'
  <2>p. UNCHANGED published /\ UNCHANGED calls BY <1>1 DEF Refused
  <2>1. TypeOK' /\ TurnsOK' BY <1>0, <1>1, <1>p, <2>p DEF Inv, TypeOK, TurnsOK, Refused
  <2>2. CallsOK' /\ ReleasesOK' /\ RunOK'
    BY <1>1, <1>p, <1>c, <2>p DEF Inv, CallsOK, ReleasesOK, RunOK, Refused
  <2>3. QED BY <2>1, <2>2 DEF Inv
<1>2. CASE Search
  <2>1. calls \in Seq(SUBSET AiAllowed) /\ {} \in SUBSET AiAllowed BY DEF Inv, TypeOK
  <2> DEFINE u == Append(calls, {})
  <2>c. calls' = u /\ UNCHANGED published BY <1>2 DEF Search
  <2>u. u \in Seq(SUBSET AiAllowed) /\ Len(u) = Len(calls) + 1 /\ OnRecord(u) = OnRecord(calls)
    <3>1. \A x \in SUBSET AiAllowed :
            /\ Append(calls, x) \in Seq(SUBSET AiAllowed)
            /\ Len(Append(calls, x)) = Len(calls) + 1
            /\ OnRecord(Append(calls, x)) = OnRecord(calls) \cup x
      BY <2>1, RecordAdds
    <3>2. QED BY <2>1, <3>1
  <2> HIDE DEF u
  <2>2. calls' \in Seq(SUBSET AiAllowed) /\ Len(calls') = Len(calls) + 1 BY <2>c, <2>u
  <2>3. Len(calls) < MaxCalls
    BY <1>0, <1>2, BoundsType DEF Search, Performs, Allowed
  <2>4. TypeOK' BY <1>2, <2>2 DEF Inv, TypeOK, Search, PCs
  <2>n. pc = "turn" /\ pc' = "audit" /\ UNCHANGED <<turn, refused>>
    BY <1>2 DEF Search, Performs
  <2>5. TurnsOK' /\ CallsOK'
    BY <1>0, <1>p, <2>c, <2>2, <2>3, <2>n, BoundsType DEF Inv, TurnsOK, CallsOK, TypeOK
  <2>6. OnRecord(calls)' = OnRecord(calls)
    <3>1. OnRecord(calls)' = OnRecord(u) BY <2>c DEF OnRecord
    <3>2. QED BY <2>u, <3>1
  <2>7. ReleasesOK' /\ RunOK'
    BY <1>2, <1>p, <2>c, <2>6 DEF Inv, ReleasesOK, RunOK, Search, Performs
  <2>8. QED BY <2>4, <2>5, <2>7 DEF Inv
<1>3. CASE Inspect
  <2>p. UNCHANGED published /\ UNCHANGED calls BY <1>3 DEF Inspect
  <2>1. Len(calls) < MaxCalls /\ Len(calls) > 0
    BY <1>0, <1>3, BoundsType DEF Inspect, Performs, Allowed
  <2>2. TypeOK' BY <1>3 DEF Inv, TypeOK, Inspect, PCs
  <2>3. TurnsOK' /\ CallsOK'
    BY <1>3, <1>p, <1>c, <2>p, <2>1 DEF Inv, TurnsOK, CallsOK, Inspect, Performs
  <2>4. ReleasesOK' /\ RunOK'
    BY <1>3, <1>p, <1>c, <2>p DEF Inv, ReleasesOK, RunOK, Inspect, Performs
  <2>5. QED BY <2>2, <2>3, <2>4 DEF Inv
<1>4. ASSUME NEW item \in releasing, pc = "release", inspected' = inspected \cup {item},
             releasing' = releasing \ {item}, published' = Append(published, <<item>>),
             UNCHANGED <<turn, calls, discovered, requested, refused, draft>>,
             pc' \in {"release", "failed"}
      PROVE  Inv'
  <2>1. item \in AiAllowed /\ item \notin ItemsIn(published)
    BY <1>4 DEF Inv, TypeOK, ReleasesOK
  <2>2. published # << >>
    <3>1. CallsIn(published) > 0 BY <1>0, <1>4 DEF Inv, TurnsOK, CallsOK
    <3>2. ASSUME published = << >> PROVE FALSE
      <4>1. AuditsOf(published) = {} BY <3>2 DEF AuditsOf
      <4>2. CallsIn(published) = 0 BY <4>1, FS_EmptySet DEF CallsIn
      <4>3. QED BY <3>1, <4>2
    <3>3. QED BY <3>2
  <2>3. /\ published' \in Seq(ReleaseSteps(AiAllowed) \cup {AuditStep})
        /\ CallsIn(published') = CallsIn(published)
        /\ ItemsIn(published') = ItemsIn(published) \cup {item}
        /\ IsToolRun(published')
    BY <1>0, <1>4, <2>1, <2>2, ReleaseAdds DEF Inv, RunOK
  <2>4. TypeOK' BY <1>4, <2>1, <2>3 DEF Inv, TypeOK, PCs
  <2>5. TurnsOK' /\ CallsOK' BY <1>4, <1>c, <2>3 DEF Inv, TurnsOK, CallsOK
  <2>6. ReleasesOK' BY <1>4, <1>c, <2>1, <2>3 DEF Inv, ReleasesOK
  <2>7. RunOK' BY <1>4, <2>3 DEF RunOK
  <2>8. QED BY <2>4, <2>5, <2>6, <2>7 DEF Inv
<1>5. CASE RecordInspection
  <2>1. calls \in Seq(SUBSET AiAllowed) /\ requested \cap AiAllowed \in SUBSET AiAllowed
    BY DEF Inv, TypeOK
  <2> DEFINE u == Append(calls, requested \cap AiAllowed)
  <2>c. calls' = u /\ UNCHANGED published BY <1>5 DEF RecordInspection
  <2>u. /\ u \in Seq(SUBSET AiAllowed) /\ Len(u) = Len(calls) + 1
        /\ OnRecord(u) = OnRecord(calls) \cup (requested \cap AiAllowed)
    BY <2>1, RecordAdds
  <2> HIDE DEF u
  <2>2. calls' \in Seq(SUBSET AiAllowed) /\ Len(calls') = Len(calls) + 1 BY <2>c, <2>u
  <2>3. TypeOK' BY <1>5, <2>2 DEF Inv, TypeOK, RecordInspection, PCs
  <2>n. pc = "release" /\ pc' = "audit" /\ UNCHANGED <<turn, refused>>
    BY <1>5 DEF RecordInspection
  <2>4. TurnsOK' /\ CallsOK'
    BY <1>0, <1>p, <2>c, <2>2, <2>n, BoundsType DEF Inv, TurnsOK, CallsOK, TypeOK
  <2>5. OnRecord(calls)' = OnRecord(calls) \cup (requested \cap AiAllowed)
    <3>1. OnRecord(calls)' = OnRecord(u) BY <2>c DEF OnRecord
    <3>2. QED BY <2>u, <3>1
  <2>6. ReleasesOK' /\ RunOK'
    BY <1>5, <1>p, <2>c, <2>5 DEF Inv, ReleasesOK, RunOK, RecordInspection
  <2>7. QED BY <2>3, <2>4, <2>6 DEF Inv
<1>6. ASSUME pc = "audit", published' = Append(published, AuditStep),
             UNCHANGED <<calls, discovered, inspected, requested, releasing, refused, draft>>,
             \/ pc' = "turn" /\ turn' = turn + 1
             \/ pc' = "failed" /\ turn' = turn
      PROVE  Inv'
  <2>1. /\ published' \in Seq(ReleaseSteps(AiAllowed) \cup {AuditStep})
        /\ CallsIn(published') = CallsIn(published) + 1
        /\ ItemsIn(published') = ItemsIn(published)
        /\ IsToolRun(published') /\ LastAudited(published')
    BY <1>0, <1>6, AuditAdds DEF Inv, RunOK
  <2>2. TypeOK' BY <1>6, <2>1 DEF Inv, TypeOK, PCs
  <2>3. TurnsOK' /\ CallsOK'
    BY <1>0, <1>6, <1>c, <2>1 DEF Inv, TypeOK, TurnsOK, CallsOK
  <2>4. ReleasesOK' BY <1>6, <1>c, <2>1 DEF Inv, ReleasesOK
  <2>5. RunOK' BY <2>1 DEF RunOK
  <2>6. QED BY <2>2, <2>3, <2>4, <2>5 DEF Inv
<1>7. CASE Finish
  <2>p. UNCHANGED published /\ UNCHANGED calls BY <1>7 DEF Finish
  <2>1. PICK cites \in SUBSET (Evidence \cup Unknown), claims \in BOOLEAN :
          IF cites \subseteq inspected /\ (claims => cites # {})
          THEN pc' = "drafted" /\ draft' = cites
          ELSE pc' = "failed" /\ UNCHANGED draft
    BY <1>7 DEF Finish
  <2>2. Len(calls) >= MinCalls /\ Len(calls) > 0 /\ pc = "turn"
    BY <1>0, <1>7, BoundsType DEF Finish, Performs, Allowed
  <2>3. TypeOK' BY <1>7, <2>1 DEF Inv, TypeOK, Finish, PCs
  <2>4. TurnsOK' /\ CallsOK'
    BY <1>7, <1>p, <1>c, <2>p, <2>1, <2>2 DEF Inv, TurnsOK, CallsOK, Finish
  <2>5. ReleasesOK' /\ RunOK'
    BY <1>7, <1>p, <1>c, <2>p, <2>1, <2>2 DEF Inv, ReleasesOK, RunOK, Finish
  <2>6. QED BY <2>3, <2>4, <2>5 DEF Inv
<1>8. CASE CannotAnswer
  <2>p. UNCHANGED published /\ UNCHANGED calls BY <1>8 DEF CannotAnswer
  <2>1. Len(calls) >= MinCalls /\ Len(calls) > 0 /\ pc = "turn"
    BY <1>0, <1>8, BoundsType DEF CannotAnswer, Performs, Allowed
  <2>2. TypeOK' /\ TurnsOK' /\ CallsOK'
    BY <1>8, <1>p, <1>c, <2>p, <2>1 DEF Inv, TypeOK, TurnsOK, CallsOK, CannotAnswer, PCs
  <2>3. ReleasesOK' /\ RunOK'
    BY <1>8, <1>p, <1>c, <2>p, <2>1 DEF Inv, ReleasesOK, RunOK, CannotAnswer
  <2>4. QED BY <2>2, <2>3 DEF Inv
<1>9. CASE Exhaust \/ ModelFails
  <2>p. UNCHANGED published /\ UNCHANGED calls BY <1>9 DEF Exhaust, ModelFails
  <2>1. TypeOK' BY <1>9 DEF Inv, TypeOK, Exhaust, ModelFails, PCs
  <2>2. TurnsOK' /\ CallsOK'
    BY <1>9, <1>p, <1>c, <2>p DEF Inv, TurnsOK, CallsOK, Exhaust, ModelFails
  <2>3. ReleasesOK' /\ RunOK'
    BY <1>9, <1>p, <1>c, <2>p DEF Inv, ReleasesOK, RunOK, Exhaust, ModelFails
  <2>4. QED BY <2>1, <2>2, <2>3 DEF Inv
<1>10. ASSUME UNCHANGED <<turn, calls, discovered, requested, published, refused, draft>>,
              pc \in {"release", "audit"}, pc' = "failed",
              \/ UNCHANGED <<inspected, releasing>>
              \/ \E item \in releasing :
                   inspected' = inspected \cup {item} /\ releasing' = releasing \ {item}
       PROVE  Inv'
  <2>1. TypeOK' BY <1>10 DEF Inv, TypeOK, PCs
  <2>2. TurnsOK' /\ CallsOK' BY <1>10, <1>p, <1>c DEF Inv, TurnsOK, CallsOK
  <2>3. ReleasesOK' /\ RunOK' BY <1>10, <1>p, <1>c DEF Inv, ReleasesOK, RunOK
  <2>4. QED BY <2>1, <2>2, <2>3 DEF Inv
<1>11. CASE Release
  BY <1>4, <1>11 DEF Release
<1>12. CASE ReleaseFails
  BY <1>4, <1>10, <1>12 DEF ReleaseFails
<1>13. CASE AuditCall
  BY <1>6, <1>13 DEF AuditCall
<1>14. CASE AuditFails
  BY <1>6, <1>10, <1>14 DEF AuditFails
<1>15. CASE UNCHANGED vars
  <2>1. UNCHANGED published /\ UNCHANGED calls BY <1>15 DEF vars
  <2>2. QED BY <1>15, <1>p, <1>c, <2>1 DEF vars, Inv, TypeOK, TurnsOK, CallsOK, ReleasesOK, RunOK
<1>16. QED
  BY <1>1, <1>2, <1>3, <1>5, <1>7, <1>8, <1>9, <1>11, <1>12, <1>13, <1>14, <1>15
  DEF Next, Refuse, RefuseInspection, Performs

\* The inductive invariant.
THEOREM Invariant == Spec => []Inv
BY InitInv, NextInv, PTL DEF Spec

\* Every variable keeps its type; in particular nothing is inspected, published or
\* cited that may not be shown to the model.
THEOREM TypeCorrect == Spec => []TypeOK
<1>1. Inv => TypeOK BY DEF Inv
<1>2. QED BY <1>1, Invariant, PTL

\* Whatever the model does there are at most MaxCalls tool calls, and at least
\* MinCalls before a draft.
THEOREM BoundsHold == Spec => []ToolCallsBounded
<1>1. Inv => ToolCallsBounded BY DEF Inv, CallsOK, ToolCallsBounded
<1>2. QED BY <1>1, Invariant, PTL

\* Whatever the model does, the loop publishes a run the drafting step of Workflow
\* may choose, and a draft cites only what that run has released.
THEOREM PublishesRuns == Spec => []PublishesToolRun
<1>1. Inv => PublishesToolRun
  <2> SUFFICES ASSUME Inv PROVE PublishesToolRun OBVIOUS
  <2>1. /\ published \in Seq(ReleaseSteps(AiAllowed) \cup {AuditStep})
        /\ Len(calls) \in Nat /\ CallsIn(published) \in Nat
    BY LenProperties, RunParts DEF Inv, TypeOK
  <2>2. IsFiniteSet(AiAllowed) /\ MaxCalls \in Nat /\ MinCalls \in Nat
    BY LibraryType, BoundsType, FS_Subset
  <2>3. ASSUME pc \in {"turn", "drafted", "exhausted"}
        PROVE  published \in ToolRuns(AiAllowed, MaxCalls)
    <3>1. IsToolRun(published) /\ LastAudited(published) /\ CallsIn(published) <= MaxCalls
      BY <2>3 DEF Inv, RunOK, TurnsOK, CallsOK
    <3>2. QED BY <2>1, <2>2, <3>1, RunLength
  <2>4. ASSUME pc = "drafted"
        PROVE  /\ published # << >> /\ CallsIn(published) >= MinCalls
               /\ draft \subseteq ItemsIn(published)
    <3>1. CallsIn(published) = Len(calls) /\ Len(calls) > 0 /\ Len(calls) >= MinCalls
      BY <2>4 DEF Inv, TurnsOK, CallsOK
    <3>2. ASSUME published = << >> PROVE FALSE
      <4>1. AuditsOf(published) = {} BY <3>2 DEF AuditsOf
      <4>2. CallsIn(published) = 0 BY <4>1, FS_EmptySet DEF CallsIn
      <4>3. QED BY <3>1, <4>2
    <3>3. draft \subseteq ItemsIn(published) BY <2>4 DEF Inv, ReleasesOK
    <3>4. QED BY <3>1, <3>2, <3>3
  <2>5. QED BY <2>3, <2>4 DEF PublishesToolRun, Inv, RunOK
<1>2. QED BY <1>1, Invariant, PTL

\* Between two turns all that was released is in the audited tool calls.
THEOREM NothingOffTheRecord == Spec => []ReleasesAreOnRecord
<1>1. Inv => ReleasesAreOnRecord
  BY DEF Inv, TurnsOK, ReleasesOK, ReleasesAreOnRecord, OnRecord
<1>2. QED BY <1>1, Invariant, PTL

\* A loop that runs out of turns has refused all but MaxCalls of them.
THEOREM ExhaustionIsEarned == Spec => []ExhaustionNeedsRefusals
<1>1. Inv => ExhaustionNeedsRefusals
  <2>1. Inv => Len(calls) \in Nat /\ CallsIn(published) \in Nat
    BY LenProperties, RunParts DEF Inv, TypeOK
  <2>2. QED BY <2>1, BoundsType DEF Inv, TypeOK, TurnsOK, CallsOK, ExhaustionNeedsRefusals
<1>2. QED BY <1>1, Invariant, PTL
-----------------------------------------------------------------------------
(* The loop ends *)

\* A tool call begins in a turn the loop has.
TurnLeft == turn <= MaxTurns + 1 /\ (pc \in {"release", "audit"} => turn <= MaxTurns)

\* How many steps the loop can still take: three in a turn, and one more for each item
\* that no inspection has brought to light.
Phase(p) == CASE p = "turn" -> 3 [] p = "release" -> 2 [] p = "audit" -> 1
              [] p \in {"drafted", "exhausted", "failed"} -> 0
StepsLeft == 3 * (MaxTurns + 1 - turn) + Phase(pc) + Cardinality(AiAllowed \ inspected)
\* Every step is one of them.
UsesAStep == StepsLeft \in Nat /\ StepsLeft' \in Nat /\ StepsLeft' < StepsLeft

LEMMA TurnStep == TypeOK /\ TurnLeft /\ [Next]_vars => TurnLeft'
<1> SUFFICES ASSUME TypeOK, TurnLeft, [Next]_vars PROVE TurnLeft' OBVIOUS
<1>1. turn \in Nat /\ MaxTurns \in Nat BY BoundsType DEF TypeOK
<1>2. QED
  BY <1>1 DEF TurnLeft, Next, Refuse, Search, RefuseInspection, Inspect, Release,
     RecordInspection, AuditCall, Finish, CannotAnswer, Exhaust, ModelFails, ReleaseFails,
     AuditFails, Performs, Refused, vars

\* Whatever the model does the loop takes no more than 3 * MaxTurns + 3 steps and one
\* for each item it may be shown: neither refusals nor repeated inspections keep it
\* going.  This is the argument behind `Termination`, but for the fairness.
THEOREM LoopAdvances == Spec => [][UsesAStep]_vars
<1>1. ASSUME Inv, Inv', TurnLeft, TurnLeft', Next PROVE UsesAStep
  <2> DEFINE hidden == Cardinality(AiAllowed \ inspected)
             later == Cardinality(AiAllowed \ inspected')
  <2>1. /\ turn \in Nat /\ turn' \in Nat /\ MaxTurns \in Nat
        /\ turn <= MaxTurns + 1 /\ turn' <= MaxTurns + 1
    BY <1>1, BoundsType DEF Inv, TypeOK, TurnLeft
  <2>2. IsFiniteSet(AiAllowed) BY LibraryType, FS_Subset
  <2>3. hidden \in Nat /\ later \in Nat
    <3>1. IsFiniteSet(AiAllowed \ inspected) /\ IsFiniteSet(AiAllowed \ inspected')
      BY <2>2, FS_Subset
    <3>2. QED BY <3>1, FS_CardinalityType
  <2>4. UNCHANGED inspected => later = hidden OBVIOUS
  <2>5. ASSUME NEW item \in releasing, inspected' = inspected \cup {item} PROVE later <= hidden
    <3>1. IsFiniteSet(AiAllowed \ inspected) BY <2>2, FS_Subset
    <3>2. AiAllowed \ inspected' \subseteq AiAllowed \ inspected BY <2>5
    <3>3. QED BY <3>1, <3>2, FS_Subset
  <2>6. ASSUME NEW item \in releasing, inspected' = inspected \cup {item}, pc = "release"
        PROVE  later = hidden - 1
    <3>1. item \in AiAllowed \ inspected
      BY <1>1, <2>6 DEF Inv, TypeOK, ReleasesOK
    <3>2. IsFiniteSet(AiAllowed \ inspected) BY <2>2, FS_Subset
    <3>3. AiAllowed \ inspected' = (AiAllowed \ inspected) \ {item} BY <2>6
    <3>4. QED BY <3>1, <3>2, <3>3, FS_RemoveElement
  <2>7. StepsLeft = 3 * (MaxTurns + 1 - turn) + Phase(pc) + hidden
        /\ StepsLeft' = 3 * (MaxTurns + 1 - turn') + Phase(pc') + later
    BY DEF StepsLeft, Phase
  <2>8. Phase(pc) \in 0 .. 3 /\ Phase(pc') \in 0 .. 3
    BY <1>1 DEF Inv, TypeOK, PCs, Phase
  <2> HIDE DEF hidden, later
  <2>9. StepsLeft \in Nat /\ StepsLeft' \in Nat BY <2>1, <2>3, <2>7, <2>8
  <2>10. CASE Refuse \/ RefuseInspection
    <3>1. turn' = turn + 1 /\ pc' = pc /\ later = hidden
      BY <2>4, <2>10 DEF Refuse, RefuseInspection, Refused
    <3>2. Phase(pc') = Phase(pc) BY <3>1
    <3>3. QED BY <2>1, <2>3, <2>7, <2>8, <2>9, <3>1, <3>2 DEF UsesAStep
  <2>11. CASE AuditCall
    <3>1. turn' = turn + 1 /\ pc = "audit" /\ pc' = "turn" /\ later = hidden
      BY <2>4, <2>11 DEF AuditCall
    <3>2. Phase(pc) = 1 /\ Phase(pc') = 3 BY <3>1 DEF Phase
    <3>3. QED BY <2>1, <2>3, <2>7, <2>9, <3>1, <3>2 DEF UsesAStep
  <2>12. CASE Release
    <3>1. turn' = turn /\ pc' = pc /\ later = hidden - 1
      BY <2>6, <2>12 DEF Release
    <3>2. Phase(pc') = Phase(pc) BY <3>1
    <3>3. QED BY <2>1, <2>3, <2>7, <2>8, <2>9, <3>1, <3>2 DEF UsesAStep
  <2>13. CASE Search \/ Inspect \/ RecordInspection \/ Finish \/ CannotAnswer \/ Exhaust
                \/ ModelFails \/ AuditFails \/ ReleaseFails
    <3>1. turn' = turn
      BY <2>13 DEF Search, Inspect, RecordInspection, Finish, CannotAnswer, Exhaust,
                   ModelFails, AuditFails, ReleaseFails
    <3>2. later <= hidden
      BY <2>3, <2>4, <2>5, <2>13 DEF Search, Inspect, RecordInspection, Finish, CannotAnswer,
                   Exhaust, ModelFails, AuditFails, ReleaseFails
    <3>3. Phase(pc') < Phase(pc)
      BY <2>13 DEF Search, Inspect, RecordInspection, Finish, CannotAnswer, Exhaust,
                   ModelFails, AuditFails, ReleaseFails, Performs, Phase
    <3>4. QED BY <2>1, <2>3, <2>7, <2>8, <2>9, <3>1, <3>2, <3>3 DEF UsesAStep
  <2>14. QED BY <1>1, <2>10, <2>11, <2>12, <2>13 DEF Next
<1>2. Init => TurnLeft BY BoundsType DEF Init, TurnLeft
<1>3. Inv => TypeOK BY DEF Inv
<1>4. Inv /\ Inv' /\ TurnLeft /\ TurnLeft' /\ [Next]_vars => [UsesAStep]_vars BY <1>1
<1>5. QED BY <1>2, <1>3, <1>4, Invariant, TurnStep, PTL DEF Spec
=============================================================================
