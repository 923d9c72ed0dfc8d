----------------------- MODULE RunRegistryBoundProofs -----------------------
(***************************************************************************)
(* Why the registry of RunRegistry keeps its bound: the trim of whoever    *)
(* put a record there has all of it in view, or has raised.                *)
(***************************************************************************)
EXTENDS RunRegistryProofs, WellFoundedInduction

\* The time stamp of a request that is under way is its own.
Restarting(c) == Active(c) /\ RestartsClock(c)
StampsApart ==
  /\ \A r \in DOMAIN runs : runs[r].started <= clock
  /\ \A r, x \in DOMAIN runs : r # x => runs[r].started # runs[x].started
  /\ \A c, d \in Clients : Restarting(c) /\ Restarting(d) /\ c # d =>
       client[c].stamp # client[d].stamp
  /\ \A r \in DOMAIN runs : \A c \in Clients :
       Restarting(c) /\ runs[r].started = client[c].stamp => r = Run(c)
\* A trim keeps no more than the bound.
Few(S) == IsFiniteSet(S) /\ Cardinality(S) \in Nat /\ Cardinality(S) <= MaxRuns
KeepsFew(c) == client[c].at \in {"list", "delete"} => Few(client[c].keep)
\* A trim that is still to choose, or to delete all it does not keep.
Covers(c) ==
  \/ client[c].at \in {"count", "keep", "list"}
  \/ client[c].at = "delete" /\ DOMAIN runs \subseteq client[c].keep \cup client[c].victims
Raised == \E c \in Clients : \E n \in DOMAIN Script[c] : TrimRaised(c, n)
CoveredOK == Few(DOMAIN runs) \/ Raised \/ \E c \in Clients : Covers(c)
BoundInv ==
  /\ IsFiniteSet(DOMAIN runs) /\ StampsApart /\ CoveredOK
  /\ \A c \in Clients : KeepsFew(c)

-----------------------------------------------------------------------------
(* The newest are few *)

\* A nonempty set of numbers has a smallest member.
LEMMA Smallest ==
  ASSUME NEW T, T \subseteq Nat, T # {}
  PROVE  \E x \in T : \A y \in T : x <= y
<1> DEFINE R == {p \in Nat \X Nat : p[1] < p[2]}
<1>1. IsWellFoundedOn(R, Nat) BY NatLessThanWellFounded DEF OpToRel
<1>2. \A x, y \in Nat : y < x => <<y, x>> \in R OBVIOUS
<1> HIDE DEF R
<1>3. PICK x \in T : \A y \in T : <<y, x>> \notin R BY <1>1, WFMin
<1>4. \A y \in T : ~(y < x) BY <1>2, <1>3
<1>5. QED BY <1>4

\* All but the oldest of the newest runs are younger than it.
LEMMA NewestFew ==
  ASSUME Types, IsFiniteSet(DOMAIN runs), StampsApart
  PROVE  Few(Newest)
<1> DEFINE Younger(r) == {x \in DOMAIN runs : runs[x].started > runs[r].started}
<1>1. Newest = {r \in DOMAIN runs : Cardinality(Younger(r)) < MaxRuns} BY DEF Newest
<1>2. \A r \in DOMAIN runs : runs[r].started \in Nat BY DEF Types, Record
<1>3. ASSUME NEW r \in DOMAIN runs
      PROVE IsFiniteSet(Younger(r)) /\ Cardinality(Younger(r)) \in Nat
  <2>1. Younger(r) \subseteq DOMAIN runs OBVIOUS
  <2> HIDE DEF Younger
  <2>2. QED BY <2>1, FS_Subset, FS_CardinalityType
<1>4. IsFiniteSet(Newest) /\ Cardinality(Newest) \in Nat
  <2>1. Newest \subseteq DOMAIN runs BY DEF Newest
  <2>2. QED BY <2>1, FS_Subset, FS_CardinalityType
<1>5. CASE Newest = {} BY <1>4, <1>5, FS_EmptySet, RegistryConstants DEF Few
<1>6. CASE Newest # {}
  <2> DEFINE T == {runs[r].started : r \in Newest}
  <2>1. T \subseteq Nat /\ T # {} BY <1>1, <1>2, <1>6
  <2>2. PICK n \in T : \A k \in T : n <= k
    <3> HIDE DEF T
    <3>1. QED BY <2>1, Smallest
  <2>3. PICK m \in Newest : runs[m].started = n BY <2>2
  <2>4. m \in DOMAIN runs /\ Cardinality(Younger(m)) < MaxRuns BY <1>1, <2>3
  <2>5. Newest \ {m} \subseteq Younger(m)
    <3> SUFFICES ASSUME NEW x \in Newest, x # m
        PROVE x \in DOMAIN runs /\ runs[x].started > runs[m].started
      OBVIOUS
    <3>1. x \in DOMAIN runs BY <1>1
    <3>2. runs[m].started <= runs[x].started BY <2>2, <2>3
    <3>3. runs[m].started # runs[x].started BY <2>4, <3>1 DEF StampsApart
    <3>4. QED BY <1>2, <2>4, <3>1, <3>2, <3>3
  <2>6. IsFiniteSet(Younger(m)) /\ Cardinality(Younger(m)) \in Nat BY <1>3, <2>4
  <2> HIDE DEF Younger
  <2>7. Cardinality(Newest \ {m}) <= Cardinality(Younger(m)) BY <2>5, <2>6, FS_Subset
  <2>8. Cardinality(Newest \ {m}) = Cardinality(Newest) - 1
    BY <1>4, <2>3, FS_RemoveElement
  <2>9. QED BY <1>4, <2>4, <2>6, <2>7, <2>8, RegistryConstants DEF Few
<1>7. QED BY <1>5, <1>6

LEMMA FewSubset == ASSUME NEW S, Few(S), NEW T, T \subseteq S PROVE Few(T)
<1>1. IsFiniteSet(T) /\ Cardinality(T) <= Cardinality(S) BY FS_Subset DEF Few
<1>2. Cardinality(T) \in Nat BY <1>1, FS_CardinalityType
<1>3. QED BY <1>1, <1>2, RegistryConstants DEF Few

-----------------------------------------------------------------------------
(* The steps *)

\* A trim that has raised is remembered.
RaisedStays == Raised => Raised'

LEMMA RaisedOn ==
  ASSUME Inv, NEW c \in Clients, Active(c), NEW f \in Fates, Fated(c, f),
         f \in {"failed_in_trim", "killed_by_trim"} \/ ~TrimRaised(c, client[c].n)
  PROVE  RaisedStays /\ (f \in {"failed_in_trim", "killed_by_trim"} => Raised')
<1>1. /\ fate'[c][client[c].n] = f /\ \A d \in Clients : d # c => fate'[d] = fate[d]
      /\ \A n \in DOMAIN Script[c] : n # client[c].n => fate'[c][n] = fate[c][n]
  BY FatedOn
<1>2. client[c].n \in DOMAIN Script[c] BY DEF Active
<1>3. f \in {"failed_in_trim", "killed_by_trim"} => Raised'
  BY <1>1, <1>2 DEF Raised, TrimRaised
<1>4. ASSUME NEW d \in Clients, NEW n \in DOMAIN Script[d], TrimRaised(d, n) PROVE Raised'
  <2>1. CASE d = c /\ n = client[c].n BY <1>3, <1>4, <2>1
  <2>2. CASE ~(d = c /\ n = client[c].n)
    <3>1. fate'[d][n] = fate[d][n] BY <1>1, <2>2
    <3>2. QED BY <1>4, <3>1 DEF Raised, TrimRaised
  <2>3. QED BY <2>1, <2>2
<1>5. QED BY <1>3, <1>4 DEF RaisedStays, Raised

\* What a step that deletes records at most has to show.
LEMMA Settles ==
  ASSUME Types, BoundInv, NEW c \in Clients, Shrinks, OthersStay(c), UNCHANGED clock,
         Active(c)' => /\ Active(c) /\ client'[c].n = client[c].n
                       /\ client'[c].stamp = client[c].stamp,
         KeepsFew(c)', RaisedStays,
         Covers(c) => Covers(c)' \/ Few(DOMAIN runs)' \/ Raised'
  PROVE  BoundInv'
<1>1. DOMAIN runs' \subseteq DOMAIN runs BY DEF Shrinks
<1>2. IsFiniteSet(DOMAIN runs') BY <1>1, FS_Subset DEF BoundInv
<1>3. ASSUME NEW d \in Clients, Restarting(d)'
      PROVE Restarting(d) /\ client'[d].stamp = client[d].stamp /\ Run(d)' = Run(d)
  <2>1. CASE d = c BY <1>3, <2>1 DEF Restarting, RestartsClock, Req, Run
  <2>2. CASE d # c
    <3>1. client'[d] = client[d] BY <2>2 DEF OthersStay
    <3>2. QED BY <1>3, <3>1 DEF Restarting, RestartsClock, Req, Run, Active
  <2>3. QED BY <2>1, <2>2
<1>4. StampsApart'
  <2>1. StampsApart BY DEF BoundInv
  <2>2. QED BY <1>3, <2>1 DEF StampsApart, Shrinks
<1>5. CoveredOK'
  <2>1. CASE Few(DOMAIN runs) BY <1>1, <2>1, FewSubset DEF CoveredOK
  <2>2. CASE Raised BY <2>2 DEF RaisedStays, CoveredOK
  <2>3. ASSUME NEW d \in Clients, Covers(d) PROVE CoveredOK'
    <3>1. CASE d = c BY <2>3, <3>1 DEF CoveredOK
    <3>2. CASE d # c
      <4>1. client'[d] = client[d] BY <3>2 DEF OthersStay
      <4>2. Covers(d)' BY <1>1, <2>3, <4>1 DEF Covers
      <4>3. QED BY <4>2 DEF CoveredOK
    <3>3. QED BY <3>1, <3>2
  <2>4. QED BY <2>1, <2>2, <2>3 DEF BoundInv, CoveredOK
<1>6. \A d \in Clients : KeepsFew(d)'
  <2> SUFFICES ASSUME NEW d \in Clients, d # c PROVE KeepsFew(d)' OBVIOUS
  <2>1. client'[d] = client[d] BY DEF OthersStay
  <2>2. KeepsFew(d) BY DEF BoundInv
  <2>3. QED BY <2>1, <2>2 DEF KeepsFew
<1>7. QED BY <1>2, <1>4, <1>5, <1>6 DEF BoundInv

\* A step outside the trim.
LEMMA SettlesApart ==
  ASSUME Inv, BoundInv, NEW c \in Clients, Shrinks, UNCHANGED clock, RaisedStays,
         \/ /\ Active(c)
            /\ \E at \in {"insert", "work", "tell_failed", "reset_streams"} : Moves(c, at)
         \/ Leaves(c),
         ~Covers(c) \/ Raised'
  PROVE  BoundInv'
<1>1. Types BY DEF Inv
<1>2. /\ OthersStay(c)
      /\ Active(c)' => /\ Active(c) /\ client'[c].n = client[c].n
                       /\ client'[c].stamp = client[c].stamp
      /\ client'[c].at \in {"insert", "work", "tell_failed", "reset_streams", "idle"}
  BY DEF Moves, Leaves, Active
<1>3. KeepsFew(c)' BY <1>2 DEF KeepsFew
<1>4. QED BY <1>1, <1>2, <1>3, Settles

\* The steps of the trim.
LEMMA TrimmedSettles ==
  ASSUME Inv, BoundInv, NEW c \in Clients, Active(c), Shrinks, UNCHANGED <<clock, fate>>,
         client' = [client EXCEPT ![c] = Trimmed(c)],
         Covers(c) => Few(DOMAIN runs')
  PROVE  BoundInv'
<1>1. /\ OthersStay(c)
      /\ \/ \E at \in Trims : Moves(c, at) /\ client'[c].at = "announce"
         \/ Leaves(c)
  <2>1. client \in [Clients -> ClientType] BY ActiveFacts
  <2>2. CASE Req(c).kind = "allocate"
    <3>1. Ends(c) BY <2>2 DEF Trimmed, Ends
    <3>2. QED BY <2>1, <3>1, LeavesOn DEF Leaves
  <2>3. CASE Req(c).kind # "allocate"
    <3>1. Goes(c, "announce") BY <2>3 DEF Trimmed, Goes
    <3>2. "announce" \in Ats /\ "announce" \in Trims BY DEF Ats, Trims
    <3>3. QED BY <2>1, <3>1, <3>2, GoesOn DEF Moves
  <2>4. QED BY <2>2, <2>3
<1>2. /\ Active(c)' => client'[c].n = client[c].n /\ client'[c].stamp = client[c].stamp
      /\ client'[c].at \in {"announce", "idle"}
  BY <1>1 DEF Moves, Leaves, Active
<1>3. Types BY DEF Inv
<1>4. KeepsFew(c)' BY <1>2 DEF KeepsFew
<1>5. RaisedStays BY DEF RaisedStays, Raised, TrimRaised
<1>6. QED BY <1>1, <1>2, <1>3, <1>4, <1>5, Settles

LEMMA CountSettles == ASSUME Inv, BoundInv, NEW c \in Clients, Count(c) PROVE BoundInv'
<1>1. Active(c) /\ client[c].at = "count" BY DEF Count, At, Active
<1>2. Shrinks /\ UNCHANGED <<runs, clock, fate>> BY DEF Shrinks, Count
<1>3. CASE Cardinality(DOMAIN runs) <= MaxRuns
  <2>1. client' = [client EXCEPT ![c] = Trimmed(c)] BY <1>3 DEF Count
  <2>2. Few(DOMAIN runs') BY <1>2, <1>3, FS_CardinalityType DEF Few, BoundInv
  <2>3. QED BY <1>1, <1>2, <2>1, <2>2, TrimmedSettles
<1>4. CASE ~(Cardinality(DOMAIN runs) <= MaxRuns)
  <2>1. client \in [Clients -> ClientType] /\ Types BY <1>1, ActiveFacts
  <2>2. Goes(c, "keep") BY <1>4 DEF Count, Goes
  <2>3. Moves(c, "keep") BY <2>1, <2>2, GoesOn DEF Ats
  <2>4. KeepsFew(c)' /\ Covers(c)' BY <2>3 DEF Moves, KeepsFew, Covers
  <2>5. RaisedStays BY <1>2 DEF RaisedStays, Raised, TrimRaised
  <2>6. QED BY <1>1, <1>2, <2>1, <2>3, <2>4, <2>5, Settles DEF Moves
<1>5. QED BY <1>3, <1>4

\* The client goes to another step of the trim with other fields of its own.
LEMMA TrimsWithSettles ==
  ASSUME Inv, BoundInv, NEW c \in Clients, Active(c), NEW x \in ClientType,
         client' = [client EXCEPT ![c] = x], x.n = client[c].n, x.stamp = client[c].stamp,
         Few(x.keep), Shrinks, UNCHANGED <<clock, fate>>,
         \/ x.at = "list"
         \/ Covers(c) => x.at = "delete" /\ DOMAIN runs' \subseteq x.keep \cup x.victims
  PROVE  BoundInv'
<1>1. client \in [Clients -> ClientType] /\ Types BY ActiveFacts
<1> HIDE DEF ClientType
<1>2. client'[c] = x /\ OthersStay(c) BY <1>1, Becomes
<1>3. KeepsFew(c)' BY <1>2 DEF KeepsFew
<1>4. Covers(c) => Covers(c)' BY <1>2 DEF Covers
<1>5. RaisedStays BY DEF RaisedStays, Raised, TrimRaised
<1>6. QED BY <1>1, <1>2, <1>3, <1>4, <1>5, Settles

LEMMA KeepSettles == ASSUME Inv, BoundInv, NEW c \in Clients, Keep(c) PROVE BoundInv'
<1>1. Active(c) /\ client[c].at = "keep" BY DEF Keep, At, Active
<1>2. Shrinks /\ UNCHANGED <<runs, clock, fate>> BY DEF Shrinks, Keep
<1>3. client[c] \in ClientType /\ Types BY <1>1, ActiveFacts
<1> DEFINE x == [client[c] EXCEPT !.at = "list", !.keep = Newest]
<1>4. client' = [client EXCEPT ![c] = x] BY DEF Keep
<1>5. Newest \in SUBSET Runs BY <1>3 DEF Newest, Types
<1>6. /\ x \in ClientType /\ x.n = client[c].n /\ x.stamp = client[c].stamp
      /\ x.at = "list" /\ x.keep = Newest
  BY <1>3, <1>5 DEF ClientType, Ats
<1> HIDE DEF x
<1>7. Few(x.keep) BY <1>3, <1>6, NewestFew DEF BoundInv
<1>8. QED BY <1>1, <1>2, <1>4, <1>6, <1>7, TrimsWithSettles

LEMMA ListSettles == ASSUME Inv, BoundInv, NEW c \in Clients, List(c) PROVE BoundInv'
<1>1. Active(c) /\ client[c].at = "list" BY DEF List, At, Active
<1>2. Shrinks /\ UNCHANGED <<runs, clock, fate>> BY DEF Shrinks, List
<1>3. client[c] \in ClientType /\ DOMAIN runs \subseteq Runs BY <1>1, ActiveFacts DEF Types
<1>4. Few(client[c].keep) BY <1>1 DEF BoundInv, KeepsFew
<1>5. CASE Others(c) = {}
  <2>1. client' = [client EXCEPT ![c] = Trimmed(c)] BY <1>5 DEF List
  <2>2. DOMAIN runs' \subseteq client[c].keep BY <1>2, <1>5 DEF Others
  <2>3. Few(DOMAIN runs') BY <1>4, <2>2, FewSubset
  <2>4. QED BY <1>1, <1>2, <2>1, <2>3, TrimmedSettles
<1>6. CASE Others(c) # {}
  <2> DEFINE x == [client[c] EXCEPT !.at = "delete", !.victims = Others(c)]
  <2>1. client' = [client EXCEPT ![c] = x] BY <1>6 DEF List
  <2>2. Others(c) \in SUBSET Runs BY <1>3 DEF Others
  <2>3. /\ x \in ClientType /\ x.n = client[c].n /\ x.stamp = client[c].stamp
        /\ x.at = "delete" /\ x.keep = client[c].keep /\ x.victims = Others(c)
    BY <1>3, <2>2 DEF ClientType, Ats
  <2> HIDE DEF x
  <2>4. DOMAIN runs' \subseteq x.keep \cup x.victims BY <1>2, <2>3 DEF Others
  <2>5. QED BY <1>1, <1>2, <1>4, <2>1, <2>3, <2>4, TrimsWithSettles
<1>7. QED BY <1>5, <1>6

LEMMA DeleteSettles == ASSUME Inv, BoundInv, NEW c \in Clients, Delete(c) PROVE BoundInv'
<1>1. Active(c) /\ client[c].at = "delete" BY DEF Delete, At, Active
<1>2. UNCHANGED <<clock, fate>> BY DEF Delete
<1>3. client[c] \in ClientType BY <1>1, ActiveFacts
<1>4. PICK r \in client[c].victims \cap DOMAIN runs :
        /\ runs' = [x \in DOMAIN runs \ {r} |-> runs[x]]
        /\ client' = [client EXCEPT ![c] =
             IF client[c].victims = {r} THEN Trimmed(c)
             ELSE [client[c] EXCEPT !.victims = client[c].victims \ {r}]]
  BY DEF Delete
<1>5. Shrinks /\ DOMAIN runs' = DOMAIN runs \ {r} BY <1>4 DEF Shrinks
<1>6. Few(client[c].keep) BY <1>1 DEF BoundInv, KeepsFew
<1>7. Covers(c) => DOMAIN runs \subseteq client[c].keep \cup client[c].victims
  BY <1>1 DEF Covers
<1>8. CASE client[c].victims = {r}
  <2>1. client' = [client EXCEPT ![c] = Trimmed(c)] BY <1>4, <1>8
  <2>2. Covers(c) => DOMAIN runs' \subseteq client[c].keep BY <1>5, <1>7, <1>8
  <2>3. Covers(c) => Few(DOMAIN runs') BY <1>6, <2>2, FewSubset
  <2>4. QED BY <1>1, <1>2, <1>5, <2>1, <2>3, TrimmedSettles
<1>9. CASE client[c].victims # {r}
  <2> DEFINE x == [client[c] EXCEPT !.victims = client[c].victims \ {r}]
  <2>1. client' = [client EXCEPT ![c] = x] BY <1>4, <1>9
  <2>2. client[c].victims \ {r} \in SUBSET Runs BY <1>3 DEF ClientType
  <2>3. /\ x \in ClientType /\ x.n = client[c].n /\ x.stamp = client[c].stamp
        /\ x.at = "delete" /\ x.keep = client[c].keep /\ x.victims = client[c].victims \ {r}
    BY <1>1, <1>3, <2>2 DEF ClientType
  <2> HIDE DEF x
  <2>4. Covers(c) => DOMAIN runs' \subseteq x.keep \cup x.victims BY <1>5, <1>7, <2>3
  <2>5. QED BY <1>1, <1>2, <1>5, <1>6, <2>1, <2>3, <2>4, TrimsWithSettles
<1>10. QED BY <1>8, <1>9

LEMMA TrimRaisesSettles == ASSUME Inv, BoundInv, NEW c \in Clients, TrimRaises(c) PROVE BoundInv'
<1>1. Active(c) BY DEF TrimRaises, At, Active
<1>2. Shrinks /\ UNCHANGED <<runs, clock>> BY DEF TrimRaises, Shrinks
<1>3. client \in [Clients -> ClientType] BY <1>1, ActiveFacts
<1>4. RaisedStays /\ Raised' BY <1>1, RaisedOn DEF TrimRaises, Fates
<1>5. Moves(c, "tell_failed") \/ Leaves(c)
  <2>1. CASE Goes(c, "tell_failed") BY <1>3, <2>1, GoesOn DEF Ats
  <2>2. CASE Ends(c) BY <1>3, <2>2, LeavesOn
  <2>3. QED BY <2>1, <2>2 DEF TrimRaises
<1>6. QED BY <1>1, <1>2, <1>4, <1>5, SettlesApart

LEMMA AnnounceSettles == ASSUME Inv, BoundInv, NEW c \in Clients, Announce(c) PROVE BoundInv'
<1>1. Active(c) /\ client[c].at = "announce" BY DEF Announce, At, Active
<1>2. Shrinks /\ UNCHANGED <<runs, clock>> BY DEF Announce, Shrinks
<1>3. client \in [Clients -> ClientType] /\ client[c] \in ClientType BY <1>1, ActiveFacts
<1>4. ~Covers(c) BY <1>1 DEF Covers
<1>5. ~TrimRaised(c, client[c].n) BY <1>1, NotFailed DEF TrimRaised, Failed
<1>6. CASE client[c].phase = "start"
  <2> DEFINE x == [client[c] EXCEPT !.at = "work", !.phase = "finish"]
  <2>1. client' = [client EXCEPT ![c] = x] BY <1>6 DEF Announce
  <2>2. /\ x \in ClientType /\ x.n = client[c].n /\ x.alone = client[c].alone
        /\ x.stamp = client[c].stamp /\ x.at = "work"
    BY <1>3 DEF ClientType, Ats
  <2> HIDE DEF x, ClientType
  <2>3. OthersStay(c) /\ client'[c] = x BY <1>3, <2>1, <2>2, Becomes
  <2>4. Moves(c, "work") BY <2>2, <2>3 DEF Moves
  <2>5. RaisedStays BY <1>1, <1>5, <1>6, RaisedOn DEF Announce, Fates
  <2>6. QED BY <1>1, <1>2, <1>4, <2>4, <2>5, SettlesApart
<1>7. CASE client[c].phase # "start"
  <2>1. Leaves(c) BY <1>3, <1>7, LeavesOn DEF Announce
  <2>2. RaisedStays BY <1>1, <1>5, <1>7, RaisedOn DEF Announce, Fates
  <2>3. QED BY <1>2, <1>4, <2>1, <2>2, SettlesApart
<1>8. QED BY <1>6, <1>7

LEMMA PublishSettles == ASSUME Inv, BoundInv, NEW c \in Clients, Publish(c) PROVE BoundInv'
<1>1. Active(c) /\ client[c].at = "work" BY DEF Publish, At, Active
<1>2. Shrinks /\ UNCHANGED <<runs, clock, fate>> BY DEF Publish, Shrinks
<1>3. client \in [Clients -> ClientType] /\ client[c] \in ClientType BY <1>1, ActiveFacts
<1> DEFINE x == [client[c] EXCEPT !.todo = Tail(client[c].todo)]
<1>4. client' = [client EXCEPT ![c] = x] BY DEF Publish
<1>5. Tail(client[c].todo) \in Seq(Events)
  <2>1. client[c].todo \in Seq(Events) /\ client[c].todo # << >> BY <1>3 DEF ClientType, Publish
  <2>2. QED BY <2>1, HeadTailProperties
<1>6. /\ x \in ClientType /\ x.n = client[c].n /\ x.alone = client[c].alone
      /\ x.stamp = client[c].stamp /\ x.at = "work"
  BY <1>1, <1>3, <1>5 DEF ClientType
<1> HIDE DEF x, ClientType
<1>7. OthersStay(c) /\ client'[c] = x BY <1>3, <1>4, <1>6, Becomes
<1>8. Moves(c, "work") BY <1>6, <1>7 DEF Moves
<1>9. ~Covers(c) BY <1>1 DEF Covers
<1>10. RaisedStays BY <1>2 DEF RaisedStays, Raised, TrimRaised
<1>11. QED BY <1>1, <1>2, <1>8, <1>9, <1>10, SettlesApart

LEMMA FailSettles == ASSUME Inv, BoundInv, NEW c \in Clients, Fail(c) PROVE BoundInv'
<1>1. Active(c) /\ client[c].at = "work" BY DEF Fail, At, Active
<1>2. Shrinks /\ UNCHANGED <<runs, clock, fate>> BY DEF Fail, Shrinks
<1>3. client \in [Clients -> ClientType] BY <1>1, ActiveFacts
<1>4. Moves(c, "tell_failed") BY <1>3, GoesOn DEF Fail, Ats
<1>5. ~Covers(c) BY <1>1 DEF Covers
<1>6. RaisedStays BY <1>2 DEF RaisedStays, Raised, TrimRaised
<1>7. QED BY <1>1, <1>2, <1>4, <1>5, <1>6, SettlesApart

LEMMA TellFailedSettles == ASSUME Inv, BoundInv, NEW c \in Clients, TellFailed(c) PROVE BoundInv'
<1>1. Active(c) /\ client[c].at = "tell_failed" BY DEF TellFailed, At, Active
<1>2. Shrinks /\ UNCHANGED <<runs, clock>> BY DEF TellFailed, Shrinks
<1>3. client \in [Clients -> ClientType] BY <1>1, ActiveFacts
<1>4. Leaves(c) BY <1>3, LeavesOn DEF TellFailed
<1>5. ~Covers(c) BY <1>1 DEF Covers
<1>6. FateFor(c) BY <1>1, ActiveFacts
<1>7. RaisedStays
  <2>1. CASE fate[c][client[c].n] = "killed_by_trim"
    <3>1. Fated(c, "failed_in_trim") BY <2>1 DEF TellFailed
    <3>2. QED BY <1>1, <3>1, RaisedOn DEF Fates
  <2>2. CASE fate[c][client[c].n] # "killed_by_trim"
    <3>1. Fated(c, "failed") BY <2>2 DEF TellFailed
    <3>2. ~TrimRaised(c, client[c].n)
      BY <1>1, <1>6, <2>2 DEF FateFor, Failed, TrimRaised, Active
    <3>3. QED BY <1>1, <3>1, <3>2, RaisedOn DEF Fates
  <2>3. QED BY <2>1, <2>2
<1>8. QED BY <1>2, <1>4, <1>5, <1>7, SettlesApart

LEMMA AlertFailsSettles == ASSUME Inv, BoundInv, NEW c \in Clients, AlertFails(c) PROVE BoundInv'
<1>1. Active(c) /\ client[c].at = "work" BY DEF AlertFails, At, Active
<1>2. Shrinks /\ UNCHANGED <<runs, clock>> BY DEF AlertFails, Shrinks
<1>3. client \in [Clients -> ClientType] BY <1>1, ActiveFacts
<1>4. Leaves(c) BY <1>3, LeavesOn DEF AlertFails
<1>5. ~Covers(c) BY <1>1 DEF Covers
<1>6. ~TrimRaised(c, client[c].n) BY <1>1, NotFailed DEF TrimRaised, Failed
<1>7. RaisedStays BY <1>1, <1>6, RaisedOn DEF AlertFails, Fates
<1>8. QED BY <1>2, <1>4, <1>5, <1>7, SettlesApart

LEMMA ResetRunsSettles == ASSUME Inv, BoundInv, NEW c \in Clients, ResetRuns(c) PROVE BoundInv'
<1>1. Active(c) /\ client[c].at = "reset" BY DEF ResetRuns, At, Active
<1>2. UNCHANGED <<clock, fate>> BY DEF ResetRuns
<1>3. Shrinks BY DEF ResetRuns, Shrinks
<1>4. client \in [Clients -> ClientType] BY <1>1, ActiveFacts
<1>5. Moves(c, "reset_streams") BY <1>4, GoesOn DEF ResetRuns, Ats
<1>6. ~Covers(c) BY <1>1 DEF Covers
<1>7. RaisedStays BY <1>2 DEF RaisedStays, Raised, TrimRaised
<1>8. QED BY <1>1, <1>2, <1>3, <1>5, <1>6, <1>7, SettlesApart

LEMMA ResetStreamsSettles ==
  ASSUME Inv, BoundInv, NEW c \in Clients, ResetStreams(c)
  PROVE  BoundInv'
<1>1. Active(c) /\ client[c].at = "reset_streams" BY DEF ResetStreams, At, Active
<1>2. Shrinks /\ UNCHANGED <<runs, clock, fate>> BY DEF ResetStreams, Shrinks
<1>3. client \in [Clients -> ClientType] BY <1>1, ActiveFacts
<1>4. Leaves(c) BY <1>3, LeavesOn DEF ResetStreams
<1>5. ~Covers(c) BY <1>1 DEF Covers
<1>6. RaisedStays BY <1>2 DEF RaisedStays, Raised, TrimRaised
<1>7. QED BY <1>2, <1>4, <1>5, <1>6, SettlesApart

-----------------------------------------------------------------------------
(* Writing a record *)

\* A record is written with the stamp of its request, the one it has, or a new one.
LEMMA WritesSettles ==
  ASSUME Inv, BoundInv, NEW c \in Clients, Active(c), Moves(c, "count"), OnlyOwn(c),
         DOMAIN runs' = DOMAIN runs \cup {Run(c)}, UNCHANGED fate,
         LET t == runs'[Run(c)].started IN
           \/ RestartsClock(c) /\ t = client[c].stamp /\ clock' = clock
           \/ Run(c) \in DOMAIN runs /\ t = runs[Run(c)].started /\ clock' = clock
           \/ t = clock + 1 /\ clock' = clock + 1
  PROVE  BoundInv'
<1> DEFINE t == runs'[Run(c)].started
<1>1. /\ Types /\ StampsApart /\ clock \in Nat /\ client[c].stamp <= clock
  BY DEF Inv, Types, BoundInv
<1>2. /\ OthersStay(c) /\ client'[c].n = client[c].n /\ client'[c].at = "count"
      /\ client'[c].stamp = client[c].stamp
  BY DEF Moves
<1>3. IsFiniteSet(DOMAIN runs') BY FS_AddElement DEF BoundInv
<1>4. ASSUME NEW d \in Clients
      PROVE /\ Restarting(d)' <=> Restarting(d)
            /\ client'[d].stamp = client[d].stamp /\ Run(d)' = Run(d)
            /\ client[d].stamp \in Nat /\ client[d].stamp <= clock
  <2>1. client'[d].n = client[d].n /\ (client'[d].at # "idle" <=> client[d].at # "idle")
        /\ client'[d].stamp = client[d].stamp
    BY <1>2 DEF OthersStay, Active
  <2>2. client[d] \in ClientType BY <1>1 DEF Types
  <2>3. client[d].stamp \in Nat /\ client[d].stamp <= clock BY <1>1, <2>2 DEF Types, ClientType
  <2>4. QED BY <2>1, <2>3 DEF Restarting, RestartsClock, Active, Req, Run
<1>5. \A r \in DOMAIN runs : runs[r].started \in Nat /\ runs[r].started <= clock
  BY <1>1 DEF Types, Record, StampsApart
<1>6. \A r \in DOMAIN runs' : r # Run(c) => r \in DOMAIN runs /\ runs'[r] = runs[r]
  BY DEF OnlyOwn
<1>7. clock' \in Nat /\ clock <= clock' /\ t <= clock' BY <1>1, <1>4, <1>5
<1>8. \A r \in DOMAIN runs : r # Run(c) => runs[r].started # t
  <2> SUFFICES ASSUME NEW r \in DOMAIN runs, r # Run(c), runs[r].started = t PROVE FALSE
    OBVIOUS
  <2>1. CASE RestartsClock(c) /\ t = client[c].stamp BY <1>1, <2>1 DEF StampsApart, Restarting
  <2>2. CASE Run(c) \in DOMAIN runs /\ t = runs[Run(c)].started
    BY <1>1, <2>2 DEF StampsApart
  <2>3. CASE t = clock + 1 BY <1>1, <1>5, <2>3
  <2>4. QED BY <2>1, <2>2, <2>3
<1>9. \A d \in Clients : Restarting(d) /\ t = client[d].stamp => Run(c) = Run(d)
  <2> SUFFICES ASSUME NEW d \in Clients, Restarting(d), t = client[d].stamp, Run(c) # Run(d)
      PROVE FALSE
    OBVIOUS
  <2>1. CASE RestartsClock(c) /\ t = client[c].stamp BY <1>1, <2>1 DEF StampsApart, Restarting
  <2>2. CASE Run(c) \in DOMAIN runs /\ t = runs[Run(c)].started
    BY <1>1, <2>2 DEF StampsApart
  <2>3. CASE t = clock + 1
    <3>1. client[d].stamp \in Nat /\ client[d].stamp <= clock BY <1>4
    <3>2. QED BY <1>1, <2>3, <3>1
  <2>4. QED BY <2>1, <2>2, <2>3
<1> HIDE DEF t
<1>10. StampsApart'
  <2>1. \A r \in DOMAIN runs' : runs'[r].started <= clock'
    <3> SUFFICES ASSUME NEW r \in DOMAIN runs' PROVE runs'[r].started <= clock' OBVIOUS
    <3>1. CASE r = Run(c) BY <1>7, <3>1 DEF t
    <3>2. CASE r # Run(c) BY <1>1, <1>5, <1>6, <1>7, <3>2
    <3>3. QED BY <3>1, <3>2
  <2>2. \A r, x \in DOMAIN runs' : r # x => runs'[r].started # runs'[x].started
    <3> SUFFICES ASSUME NEW r \in DOMAIN runs', NEW x \in DOMAIN runs', r # x
        PROVE runs'[r].started # runs'[x].started
      OBVIOUS
    <3>1. CASE r = Run(c) BY <1>6, <1>8, <3>1 DEF t
    <3>2. CASE x = Run(c) BY <1>6, <1>8, <3>2 DEF t
    <3>3. CASE r # Run(c) /\ x # Run(c) BY <1>1, <1>6, <3>3 DEF StampsApart
    <3>4. QED BY <3>1, <3>2, <3>3
  <2>3. \A d, e \in Clients : (Restarting(d))' /\ (Restarting(e))' /\ d # e =>
          client'[d].stamp # client'[e].stamp
    BY <1>1, <1>4 DEF StampsApart
  <2>4. \A r \in DOMAIN runs' : \A d \in Clients :
          (Restarting(d))' /\ runs'[r].started = client'[d].stamp => r = Run(d)
    <3> SUFFICES ASSUME NEW r \in DOMAIN runs', NEW d \in Clients, Restarting(d),
                        runs'[r].started = client[d].stamp
        PROVE r = Run(d)
      BY <1>4
    <3>1. CASE r = Run(c) BY <1>9, <3>1 DEF t
    <3>2. CASE r # Run(c) BY <1>1, <1>6, <3>2 DEF StampsApart
    <3>3. QED BY <3>1, <3>2
  <2>5. QED BY <1>4, <2>1, <2>2, <2>3, <2>4 DEF StampsApart
<1>11. CoveredOK' BY <1>2 DEF CoveredOK, Covers
<1>12. \A d \in Clients : KeepsFew(d)'
  <2> SUFFICES ASSUME NEW d \in Clients PROVE KeepsFew(d)' OBVIOUS
  <2>1. CASE d = c BY <1>2, <2>1 DEF KeepsFew
  <2>2. CASE d # c
    <3>1. client'[d] = client[d] BY <1>2, <2>2 DEF OthersStay
    <3>2. KeepsFew(d) BY DEF BoundInv
    <3>3. QED BY <3>1, <3>2 DEF KeepsFew
  <2>3. QED BY <2>1, <2>2
<1>13. QED BY <1>3, <1>10, <1>11, <1>12 DEF BoundInv

LEMMA MarkSettles == ASSUME Inv, BoundInv, NEW c \in Clients, Mark(c) PROVE BoundInv'
<1>1. Active(c) /\ client[c].at \in {"mark", "work"} BY DEF Mark, Marking, At, Active
<1>2. client \in [Clients -> ClientType] BY <1>1, ActiveFacts
<1>3. UNCHANGED <<clock, fate>> BY DEF Mark
<1>4. CASE Run(c) \in DOMAIN runs /\ Goes(c, "count")
  <2>1. Moves(c, "count") BY <1>2, <1>4, GoesOn DEF Ats
  <2>2. PICK t : t = (IF RestartsClock(c) THEN client[c].stamp ELSE runs[Run(c)].started)
    OBVIOUS
  <2>3. runs' = [runs EXCEPT ![Run(c)] =
                   [status |-> NewStatus(c), by |-> Me(c), started |-> t]]
    BY <1>4, <2>2 DEF Mark
  <2>4. /\ DOMAIN runs' = DOMAIN runs \cup {Run(c)} /\ runs'[Run(c)].started = t
        /\ OnlyOwn(c)
    BY <1>4, <2>3 DEF OnlyOwn
  <2>5. QED BY <1>1, <1>3, <1>4, <2>1, <2>2, <2>4, WritesSettles
<1>5. CASE Run(c) \notin DOMAIN runs /\ Goes(c, "insert") /\ UNCHANGED runs
  <2>1. Moves(c, "insert") BY <1>2, <1>5, GoesOn DEF Ats
  <2>2. Shrinks /\ ~Covers(c) BY <1>1, <1>5 DEF Shrinks, Covers
  <2>3. RaisedStays BY <1>3 DEF RaisedStays, Raised, TrimRaised
  <2>4. QED BY <1>1, <1>3, <2>1, <2>2, <2>3, SettlesApart
<1>6. QED BY <1>4, <1>5 DEF Mark

LEMMA InsertSettles == ASSUME Inv, BoundInv, NEW c \in Clients, Insert(c) PROVE BoundInv'
<1>1. Active(c) BY DEF Insert, At, Active
<1>2. client \in [Clients -> ClientType] BY <1>1, ActiveFacts
<1>3. Moves(c, "count") BY <1>2, GoesOn DEF Insert, Ats
<1>4. UNCHANGED fate /\ clock' = IF RestartsClock(c) THEN clock ELSE clock + 1 BY DEF Insert
<1>5. PICK t : t = (IF RestartsClock(c) THEN client[c].stamp ELSE clock') OBVIOUS
<1> DEFINE rec == [status |-> NewStatus(c), by |-> Me(c), started |-> t]
<1>6. PutRecord(Run(c), rec) BY <1>5 DEF Insert
<1>7. rec.started = t OBVIOUS
<1> HIDE DEF rec
<1>8. /\ DOMAIN runs' = DOMAIN runs \cup {Run(c)} /\ runs'[Run(c)] = rec /\ OnlyOwn(c)
  BY <1>6 DEF PutRecord, OnlyOwn
<1>9. QED BY <1>1, <1>3, <1>4, <1>5, <1>7, <1>8, WritesSettles

LEMMA BeginSettles == ASSUME Inv, BoundInv, NEW c \in Clients, Begin(c) PROVE BoundInv'
<1>1. client \in [Clients -> ClientType] /\ clock \in Nat /\ Types BY DEF Inv, Types
<1>2. client[c].n \in DOMAIN Script[c] /\ client[c].at = "idle"
  BY DEF Begin, At
<1>3. UNCHANGED <<runs, fate>> BY DEF Begin
<1>4. clock' = IF RestartsClock(c) THEN clock + 1 ELSE clock BY DEF Begin
<1>5. First(c) \in {"mark", "insert", "reset", "work"} BY <1>2, FirstIs
<1>6. client'[c].n = client[c].n /\ client'[c].at = First(c) /\ client'[c].stamp = clock'
  <2>1. client'[c] = [client[c] EXCEPT
           !.at = First(c), !.stamp = clock', !.todo = Publishes(Req(c).kind),
           !.phase = IF MarksStart(c) THEN "start" ELSE "finish",
           !.alone = \A e \in Clients : ~(Active(e) /\ Run(e) = Run(c))]
    BY DEF Begin
  <2>2. client[c] \in ClientType BY <1>1
  <2>3. QED BY <2>1, <2>2 DEF ClientType
<1>7. ASSUME NEW d \in Clients, d # c
      PROVE /\ client'[d].n = client[d].n /\ client'[d].at = client[d].at
            /\ client'[d].stamp = client[d].stamp /\ client'[d].keep = client[d].keep
            /\ client'[d].victims = client[d].victims
  <2>1. client'[d] = [client[d] EXCEPT !.alone = @ /\ ~(Active(d) /\ Run(d) = Run(c))]
    BY <1>7 DEF Begin
  <2>2. client[d] \in ClientType BY <1>1
  <2>3. QED BY <2>1, <2>2 DEF ClientType
<1>8. ASSUME NEW d \in Clients, d # c
      PROVE /\ Restarting(d)' <=> Restarting(d)
            /\ client'[d].stamp = client[d].stamp /\ Run(d)' = Run(d)
            /\ client[d].stamp \in Nat /\ client[d].stamp <= clock
  <2>1. client[d] \in ClientType BY <1>1
  <2>2. client[d].stamp \in Nat /\ client[d].stamp <= clock BY <1>1, <2>1 DEF Types, ClientType
  <2>3. QED BY <1>7, <1>8, <2>2 DEF Restarting, RestartsClock, Active, Req, Run
<1>9. (Restarting(c))' => client'[c].stamp = clock + 1
  BY <1>4, <1>6 DEF Restarting, RestartsClock, Req
<1>10. \A r \in DOMAIN runs : runs[r].started \in Nat /\ runs[r].started <= clock
  BY <1>1 DEF Types, Record, BoundInv, StampsApart
<1>11. StampsApart'
  <2>1. StampsApart BY DEF BoundInv
  <2>2. \A r \in DOMAIN runs : runs[r].started <= clock' BY <1>1, <1>4, <1>10
  <2>3. \A d, e \in Clients : (Restarting(d))' /\ (Restarting(e))' /\ d # e =>
          client'[d].stamp # client'[e].stamp
    <3> SUFFICES ASSUME NEW d \in Clients, NEW e \in Clients, (Restarting(d))',
                        (Restarting(e))', d # e
        PROVE client'[d].stamp # client'[e].stamp
      OBVIOUS
    <3>1. CASE d = c BY <1>1, <1>8, <1>9, <3>1
    <3>2. CASE e = c BY <1>1, <1>8, <1>9, <3>2
    <3>3. CASE d # c /\ e # c BY <1>8, <2>1, <3>3 DEF StampsApart
    <3>4. QED BY <3>1, <3>2, <3>3
  <2>4. \A r \in DOMAIN runs : \A d \in Clients :
          (Restarting(d))' /\ runs[r].started = client'[d].stamp => r = Run(d)'
    <3> SUFFICES ASSUME NEW r \in DOMAIN runs, NEW d \in Clients, (Restarting(d))',
                        runs[r].started = client'[d].stamp
        PROVE r = Run(d)'
      OBVIOUS
    <3>1. CASE d = c BY <1>1, <1>9, <1>10, <3>1
    <3>2. CASE d # c BY <1>8, <2>1, <3>2 DEF StampsApart
    <3>3. QED BY <3>1, <3>2
  <2>5. QED BY <1>3, <2>1, <2>2, <2>3, <2>4 DEF StampsApart
<1>12. CoveredOK'
  <2>1. CASE Few(DOMAIN runs) BY <1>3, <2>1 DEF CoveredOK
  <2>2. CASE Raised BY <1>3, <2>2 DEF CoveredOK, Raised, TrimRaised
  <2>3. ASSUME NEW d \in Clients, Covers(d) PROVE CoveredOK'
    <3>1. d # c BY <1>2, <2>3 DEF Covers
    <3>2. Covers(d)' BY <1>3, <1>7, <2>3, <3>1 DEF Covers
    <3>3. QED BY <3>2 DEF CoveredOK
  <2>4. QED BY <2>1, <2>2, <2>3 DEF BoundInv, CoveredOK
<1>13. \A d \in Clients : KeepsFew(d)'
  <2> SUFFICES ASSUME NEW d \in Clients PROVE KeepsFew(d)' OBVIOUS
  <2>1. CASE d = c BY <1>5, <1>6, <2>1 DEF KeepsFew
  <2>2. CASE d # c BY <1>7, <2>2 DEF BoundInv, KeepsFew
  <2>3. QED BY <2>1, <2>2
<1>14. QED BY <1>3, <1>11, <1>12, <1>13 DEF BoundInv

-----------------------------------------------------------------------------
(* The bound *)

LEMMA InitBound == Init => BoundInv
<1> SUFFICES ASSUME Init PROVE BoundInv OBVIOUS
<1>1. DOMAIN runs = {} BY DEF Init
<1>2. Few(DOMAIN runs) /\ IsFiniteSet(DOMAIN runs)
  BY <1>1, FS_EmptySet, RegistryConstants DEF Few
<1>3. \A c \in Clients : client[c].at = "idle" BY DEF Init, NewClient
<1>4. StampsApart BY <1>1, <1>3 DEF StampsApart, Restarting, Active
<1>5. \A c \in Clients : KeepsFew(c) BY <1>3 DEF KeepsFew
<1>6. QED BY <1>2, <1>4, <1>5 DEF BoundInv, CoveredOK

LEMMA NextBound == Inv /\ BoundInv /\ [Next]_vars => BoundInv'
<1> SUFFICES ASSUME Inv, BoundInv, [Next]_vars PROVE BoundInv' OBVIOUS
<1>1. CASE UNCHANGED vars
  <2>1. runs' = runs /\ clock' = clock /\ client' = client /\ fate' = fate BY <1>1 DEF vars
  <2>2. StampsApart'
    BY <2>1 DEF BoundInv, StampsApart, Restarting, RestartsClock, Active, Run, Req
  <2>3. CoveredOK' BY <2>1 DEF BoundInv, CoveredOK, Raised, TrimRaised, Covers
  <2>4. QED BY <2>1, <2>2, <2>3 DEF BoundInv, KeepsFew
<1>2. ASSUME NEW c \in Clients, Begin(c) PROVE BoundInv' BY <1>2, BeginSettles
<1>3. ASSUME NEW c \in Clients, Handles(c) PROVE BoundInv'
  BY <1>3, MarkSettles, InsertSettles, CountSettles, KeepSettles, ListSettles,
     DeleteSettles, TrimRaisesSettles, AnnounceSettles, PublishSettles,
     TellFailedSettles, ResetRunsSettles, ResetStreamsSettles
  DEF Handles
<1>4. ASSUME NEW c \in Clients, Fail(c) PROVE BoundInv' BY <1>4, FailSettles
<1>5. ASSUME NEW c \in Clients, AlertFails(c) PROVE BoundInv' BY <1>5, AlertFailsSettles
<1>6. QED BY <1>1, <1>2, <1>3, <1>4, <1>5 DEF Next

\* The registry is over its bound only while a trim is going on, or after one has raised
\* (_trim of api/run_store.py, under requests on any runs).
THEOREM RegistryIsBounded == Spec => []BoundedWhenQuiet
<1>1. BoundInv => BoundedWhenQuiet
  <2> SUFFICES ASSUME BoundInv, Cardinality(DOMAIN runs) > MaxRuns
      PROVE \/ \E c \in Clients : client[c].at \in {"count", "keep", "list", "delete"}
            \/ \E c \in Clients : \E n \in DOMAIN Script[c] : TrimRaised(c, n)
    BY DEF BoundedWhenQuiet
  <2>1. Cardinality(DOMAIN runs) \in Nat BY FS_CardinalityType DEF BoundInv
  <2>2. ~Few(DOMAIN runs) BY <2>1, RegistryConstants DEF Few
  <2>3. QED BY <2>2 DEF BoundInv, CoveredOK, Raised, Covers
<1>2. QED BY <1>1, InitInv, NextInv, InitBound, NextBound, PTL DEF Spec
=============================================================================
