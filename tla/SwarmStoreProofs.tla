-------------------------- MODULE SwarmStoreProofs --------------------------
(***************************************************************************)
(* Proofs about SwarmStore, for any number of launches and requests, any   *)
(* size of the store and any number of resets.                             *)
(***************************************************************************)
EXTENDS SwarmStore, TLAPS, FiniteSetTheorems, WellFoundedInduction

\* A nonempty set of numbers has a smallest member.
LEMMA Smallest ==
  ASSUME NEW T, T \subseteq Nat, T # {}
  PROVE  \E x \in T : \A y \in T : x <= y
<1> DEFINE R == {p \in Nat \X Nat : p[1] < p[2]}
<1>1. IsWellFoundedOn(R, Nat) BY NatLessThanWellFounded DEF OpToRel
<1>2. \A x, y \in Nat : y < x => <<y, x>> \in R OBVIOUS
<1> HIDE DEF R
<1>3. PICK x \in T : \A y \in T : <<y, x>> \notin R BY <1>1, WFMin
<1>4. \A y \in T : ~(y < x) BY <1>2, <1>3
<1>5. QED BY <1>4

LEMMA IdOfType ==
  /\ \A c \in Callers : IdOf(c) \in Ids
  /\ \A b \in Background : IdOf(b) = b /\ b \in Callers /\ b \in Ids
  /\ \A c \in Callers : c \notin Background => c \in Foreground
  /\ \A f \in Foreground : f \in Callers /\ f \notin Background /\ IdOf(f) = GivenId[f]
BY StoreConstants DEF IdOf, Ids, Callers

-----------------------------------------------------------------------------
(* The trim *)

Younger(s, i) == {j \in DOMAIN s : s[j].started > s[i].started}
\* A store as the trim finds it when it does not raise: every entry has a time stamp
\* of its own.
Stamped(s) ==
  /\ IsFiniteSet(DOMAIN s) /\ \A i \in DOMAIN s : s[i].started \in Nat
  /\ \A i, j \in DOMAIN s : s[i].started = s[j].started => i = j

LEMMA YoungerFinite ==
  ASSUME NEW s, Stamped(s), NEW i \in DOMAIN s
  PROVE  IsFiniteSet(Younger(s, i)) /\ Cardinality(Younger(s, i)) \in Nat
<1>1. Younger(s, i) \subseteq DOMAIN s BY DEF Younger
<1>2. QED BY <1>1, FS_Subset, FS_CardinalityType DEF Stamped

\* What the trim keeps is no more than the bound: all but the oldest of the newest are
\* younger than it.
LEMMA NewestFew ==
  ASSUME NEW s, Stamped(s)
  PROVE  IsFiniteSet(Newest(s)) /\ Cardinality(Newest(s)) \in Nat
         /\ Cardinality(Newest(s)) <= MaxSwarms
<1>1. Newest(s) = {i \in DOMAIN s : Cardinality(Younger(s, i)) < MaxSwarms}
  BY DEF Newest, Younger
<1>2. IsFiniteSet(Newest(s)) /\ Cardinality(Newest(s)) \in Nat
  <2>1. Newest(s) \subseteq DOMAIN s BY <1>1
  <2>2. QED BY <2>1, FS_Subset, FS_CardinalityType DEF Stamped
<1>3. CASE Newest(s) = {}
  BY <1>3, <1>2, FS_EmptySet, StoreConstants
<1>4. CASE Newest(s) # {}
  <2> DEFINE T == {s[i].started : i \in Newest(s)}
  <2>1. T \subseteq Nat /\ T # {} BY <1>1, <1>4 DEF Stamped
  <2>2. PICK n \in T : \A k \in T : n <= k
    <3> HIDE DEF T
    <3>1. QED BY <2>1, Smallest
  <2>3. PICK m \in Newest(s) : s[m].started = n BY <2>2
  <2>4. \A j \in Newest(s) : j # m => s[j].started > s[m].started
    <3> SUFFICES ASSUME NEW j \in Newest(s), j # m PROVE s[j].started > s[m].started
      OBVIOUS
    <3>1. s[m].started <= s[j].started BY <2>2, <2>3
    <3>2. s[m].started # s[j].started BY <1>1 DEF Stamped
    <3>3. s[m].started \in Nat /\ s[j].started \in Nat BY <1>1 DEF Stamped
    <3>4. QED BY <3>1, <3>2, <3>3
  <2>5. Newest(s) \ {m} \subseteq Younger(s, m) BY <1>1, <2>4 DEF Younger
  <2>6. /\ m \in DOMAIN s /\ IsFiniteSet(Younger(s, m))
        /\ Cardinality(Younger(s, m)) \in Nat /\ Cardinality(Younger(s, m)) < MaxSwarms
    BY <1>1, <2>3, YoungerFinite
  <2>7. Cardinality(Newest(s) \ {m}) <= Cardinality(Younger(s, m))
    BY <2>5, <2>6, FS_Subset
  <2>8. Cardinality(Newest(s) \ {m}) = Cardinality(Newest(s)) - 1
    BY <1>2, <2>3, FS_RemoveElement
  <2>9. QED BY <1>2, <2>6, <2>7, <2>8, StoreConstants
<1>5. QED BY <1>3, <1>4

\* What the trim removes is older than as many kept entries as the bound allows: those
\* younger than the youngest removed entry are all kept.
LEMMA RemovedIsOld ==
  ASSUME NEW s, Stamped(s), NEW i \in DOMAIN s, i \notin Newest(s),
         NEW n \in Nat, \A j \in DOMAIN s : s[j].started <= n
  PROVE  /\ IsFiniteSet({j \in Newest(s) : s[j].started > s[i].started})
         /\ Cardinality({j \in Newest(s) : s[j].started > s[i].started}) >= MaxSwarms
<1>1. Newest(s) = {j \in DOMAIN s : Cardinality(Younger(s, j)) < MaxSwarms}
  BY DEF Newest, Younger
<1> DEFINE O == DOMAIN s \ Newest(s)
           T == {n - s[j].started : j \in O}
           K == {j \in Newest(s) : s[j].started > s[i].started}
<1>2. T \subseteq Nat /\ T # {} BY DEF Stamped
<1>3. PICK x \in T : \A y \in T : x <= y
  <2> HIDE DEF T
  <2>1. QED BY <1>2, Smallest
<1>4. PICK m \in O : x = n - s[m].started BY <1>3
<1>5. \A j \in O : s[j].started <= s[m].started
  <2> SUFFICES ASSUME NEW j \in O PROVE s[j].started <= s[m].started OBVIOUS
  <2>1. n - s[m].started <= n - s[j].started BY <1>3, <1>4
  <2>2. s[m].started \in Nat /\ s[j].started \in Nat BY DEF Stamped
  <2>3. QED BY <2>1, <2>2
<1>6. Younger(s, m) \subseteq K
  <2> SUFFICES ASSUME NEW j \in Younger(s, m) PROVE j \in K OBVIOUS
  <2>1. j \in DOMAIN s /\ s[j].started > s[m].started BY DEF Younger
  <2>2. s[m].started \in Nat /\ s[j].started \in Nat /\ s[i].started \in Nat
    BY <2>1 DEF Stamped
  <2>3. j \notin O BY <1>5, <2>1, <2>2
  <2>4. s[i].started <= s[m].started BY <1>5
  <2>5. QED BY <2>1, <2>2, <2>3, <2>4
<1>7. IsFiniteSet(K) /\ Cardinality(K) \in Nat
  <2>1. K \subseteq Newest(s) OBVIOUS
  <2>2. QED BY <2>1, NewestFew, FS_Subset, FS_CardinalityType
<1>8. /\ Cardinality(Younger(s, m)) \in Nat
      /\ ~(Cardinality(Younger(s, m)) < MaxSwarms)
  BY <1>1, YoungerFinite
<1>9. Cardinality(Younger(s, m)) <= Cardinality(K)
  <2> HIDE DEF K
  <2>1. QED BY <1>6, <1>7, FS_Subset
<1>10. QED BY <1>7, <1>8, <1>9, StoreConstants

-----------------------------------------------------------------------------
(* Time stamps and what readers are shown *)

TimesOK ==
  /\ IsFiniteSet(DOMAIN store)
  /\ \A i \in DOMAIN store : store[i].started <= clock
  /\ \A c \in Callers : caller[c].stamp <= clock /\ (caller[c].stamp = NoTime <=> At(c, "new"))
\* No two entries and no two writers have one time stamp.
DistinctOK ==
  /\ \A i, j \in DOMAIN store : store[i].started = store[j].started /\ i # j =>
       store[i].started = NoTime
  /\ \A c, d \in Callers : caller[c].stamp = caller[d].stamp /\ c # d =>
       caller[c].stamp = NoTime
  /\ \A i \in DOMAIN store, c \in Callers : store[i].started = caller[c].stamp /\ i # IdOf(c) =>
       store[i].started = NoTime
\* An entry without a time stamp is that of a launch that has failed.
OrphansOK ==
  \A i \in DOMAIN store : store[i].started = NoTime => i \in Background /\ At(i, "failed")
\* A swarm that is stored as running has not ended under any of its writers, and what is
\* stored of an ended one is the end of one of them.
RunsOf(i) == {c \in Callers : IdOf(c) = i}
Agrees(i, status) ==
  \/ status = "running" /\ \A c \in RunsOf(i) : EndOf(c) = "none"
  \/ \E c \in RunsOf(i) : EndOf(c) = status
ShownOK == \A i \in DOMAIN store : Agrees(i, store[i].status)
\* A request names the id of a launch only when the launch has returned it.
NamedOK ==
  \A f \in Foreground : IdOf(f) \in Background => At(f, "new") \/ Returned(IdOf(f))
Inv ==
  /\ TypeOK /\ TimesOK /\ DistinctOK /\ OrphansOK /\ ShownOK /\ NamedOK
  /\ BoundedUnlessOrphaned

OthersStay(c) == \A d \in Callers : d # c => caller'[d] = caller[d]

LEMMA GoesOn ==
  ASSUME TypeOK, NEW c \in Callers, NEW at \in Stages, Goes(c, at)
  PROVE  /\ caller' \in [Callers -> [at : Stages, stamp : Nat]] /\ OthersStay(c)
         /\ caller'[c].at = at /\ caller'[c].stamp = caller[c].stamp
<1>1. caller \in [Callers -> [at : Stages, stamp : Nat]] BY DEF TypeOK
<1>2. caller[c] \in [at : Stages, stamp : Nat] BY <1>1
<1>3. [caller[c] EXCEPT !.at = at] = [at |-> at, stamp |-> caller[c].stamp]
      /\ [caller[c] EXCEPT !.at = at] \in [at : Stages, stamp : Nat]
  BY <1>2
<1>4. caller' = [caller EXCEPT ![c] = [caller[c] EXCEPT !.at = at]] BY DEF Goes
<1>5. caller' \in [Callers -> [at : Stages, stamp : Nat]] /\ OthersStay(c)
      /\ caller'[c] = [at |-> at, stamp |-> caller[c].stamp]
  BY <1>1, <1>3, <1>4 DEF OthersStay
<1>6. QED BY <1>5

LEMMA StampsOn ==
  ASSUME TypeOK, NEW c \in Callers, NEW at \in Stages, Stamps(c, at)
  PROVE  /\ caller' \in [Callers -> [at : Stages, stamp : Nat]] /\ OthersStay(c)
         /\ caller'[c].at = at /\ caller'[c].stamp = clock + 1
         /\ clock' = clock + 1 /\ clock \in Nat
<1>1. caller \in [Callers -> [at : Stages, stamp : Nat]] /\ clock \in Nat BY DEF TypeOK
<1>2. [at |-> at, stamp |-> clock + 1] \in [at : Stages, stamp : Nat] BY <1>1
<1>3. caller' = [caller EXCEPT ![c] = [at |-> at, stamp |-> clock + 1]] BY DEF Stamps
<1>4. caller' \in [Callers -> [at : Stages, stamp : Nat]] /\ OthersStay(c)
      /\ caller'[c] = [at |-> at, stamp |-> clock + 1]
  BY <1>1, <1>2, <1>3 DEF OthersStay
<1>5. QED BY <1>1, <1>4 DEF Stamps

\* What an operation that stores an entry leaves: the entry and others as they were.
LEMMA Stored ==
  ASSUME NEW id, NEW e, Stores(id, e), IsFiniteSet(DOMAIN store)
  PROVE  /\ DOMAIN store' \subseteq DOMAIN store \cup {id} /\ IsFiniteSet(DOMAIN store')
         /\ \A i \in DOMAIN store' : store'[i] = IF i = id THEN e ELSE store[i]
<1> DEFINE s == Put(id, e)
<1>1. /\ DOMAIN s = DOMAIN store \cup {id}
      /\ \A i \in DOMAIN s : s[i] = IF i = id THEN e ELSE store[i]
  BY DEF Put
<1>2. IsFiniteSet(DOMAIN s) BY <1>1, FS_AddElement
<1>3. store' = s \/ store' = Trimmed(s) BY DEF Stores
<1> HIDE DEF s
<1>4. Newest(s) \subseteq DOMAIN s BY DEF Newest
<1>5. /\ DOMAIN store' \subseteq DOMAIN s
      /\ \A i \in DOMAIN store' : store'[i] = s[i]
  <2>1. CASE store' = s BY <2>1
  <2>2. CASE store' = [i \in Newest(s) |-> s[i]] BY <2>2, <1>4
  <2>3. QED BY <1>3, <2>1, <2>2 DEF Trimmed
<1>6. IsFiniteSet(DOMAIN store') BY <1>2, <1>5, FS_Subset
<1>7. QED BY <1>1, <1>5, <1>6

\* It also leaves the bound, or an entry without a time stamp, and what it removes is
\* old: then all entries had a time stamp, and the store had grown beyond its bound.
LEMMA StoredTrimmed ==
  ASSUME NEW id, NEW e, Stores(id, e), IsFiniteSet(DOMAIN store), NEW n \in Nat,
         \A i \in DOMAIN store : store[i].started \in Nat /\ store[i].started <= n,
         e.started \in Nat, e.started <= n,
         \A i \in DOMAIN store : i # id /\ store[i].started = e.started =>
           e.started = NoTime,
         \A i, j \in DOMAIN store : store[i].started = store[j].started /\ i # j =>
           store[i].started = NoTime
  PROVE  /\ OverFull(store') => \E i \in DOMAIN store' : store'[i].started = NoTime
         /\ \A i \in DOMAIN store : i \notin DOMAIN store' =>
              /\ id \in DOMAIN store =>
                   OverFull(store) /\ \A j \in DOMAIN store : j # id => store[j].started # NoTime
              /\ i # id \/ store[i].started <= e.started =>
                   Cardinality({j \in DOMAIN store' :
                     store'[j].started > store[i].started}) >= MaxSwarms
<1> DEFINE s == Put(id, e)
<1>1. /\ DOMAIN s = DOMAIN store \cup {id}
      /\ \A i \in DOMAIN s : s[i] = IF i = id THEN e ELSE store[i]
  BY DEF Put
<1>2. IsFiniteSet(DOMAIN s) BY <1>1, FS_AddElement
<1>3. store' = IF TrimRaises(s) THEN s ELSE Trimmed(s) BY DEF Stores
<1> HIDE DEF s
<1>4. CASE TrimRaises(s)
  BY <1>1, <1>3, <1>4 DEF TrimRaises
<1>5. CASE ~OverFull(s) BY <1>1, <1>3, <1>5 DEF TrimRaises, Trimmed
<1>6. CASE OverFull(s) /\ ~TrimRaises(s)
  <2>1. store' = [i \in Newest(s) |-> s[i]] BY <1>3, <1>6 DEF Trimmed
  <2>2. \A i \in DOMAIN s : s[i].started # NoTime BY <1>6 DEF TrimRaises
  <2>3. Stamped(s) BY <1>1, <1>2, <2>2 DEF Stamped
  <2>4. ~OverFull(store')
    <3>1. DOMAIN store' = Newest(s) BY <2>1
    <3>2. QED BY <3>1, <2>3, NewestFew, StoreConstants DEF OverFull
  <2>5. ASSUME NEW i \in DOMAIN store, i \notin DOMAIN store', id \in DOMAIN store
        PROVE  OverFull(store) /\ \A j \in DOMAIN store : j # id => store[j].started # NoTime
    <3>1. DOMAIN s = DOMAIN store BY <1>1, <2>5
    <3>2. QED BY <3>1, <1>1, <1>6, <2>2 DEF OverFull
  <2>6. ASSUME NEW i \in DOMAIN store, i \notin DOMAIN store',
               i # id \/ store[i].started <= e.started
        PROVE  Cardinality({j \in DOMAIN store' : store'[j].started > store[i].started})
                 >= MaxSwarms
    <3> DEFINE K == {j \in DOMAIN store' : store'[j].started > store[i].started}
               L == {j \in Newest(s) : s[j].started > s[i].started}
    <3>1. i \in DOMAIN s /\ i \notin Newest(s) /\ store[i].started <= s[i].started
          /\ store[i].started \in Nat
      BY <1>1, <2>1, <2>6
    <3>2. \A j \in DOMAIN s : s[j].started <= n BY <1>1
    <3>3. L \subseteq K
      <4>1. Newest(s) \subseteq DOMAIN s BY DEF Newest
      <4>2. \A j \in DOMAIN s : s[j].started \in Nat BY <2>3 DEF Stamped
      <4>3. QED BY <2>1, <3>1, <4>1, <4>2
    <3>4. IsFiniteSet(L) /\ Cardinality(L) >= MaxSwarms /\ Cardinality(L) \in Nat
      BY <2>3, <3>1, <3>2, RemovedIsOld, FS_CardinalityType
    <3>5. K \subseteq Newest(s) BY <2>1
    <3> HIDE DEF K, L
    <3>6. Cardinality(L) <= Cardinality(K) /\ Cardinality(K) \in Nat
      BY <2>3, <3>3, <3>5, NewestFew, FS_Subset, FS_CardinalityType
    <3>7. Cardinality(K) >= MaxSwarms BY <3>4, <3>6, StoreConstants
    <3>8. QED BY <3>7 DEF K
  <2>7. QED BY <2>4, <2>5, <2>6
<1>7. QED BY <1>4, <1>5, <1>6

-----------------------------------------------------------------------------
(* The steps of a writer *)

\* How the other runs have ended stays.
LEMMA SameEnd ==
  ASSUME NEW c \in Callers, OthersStay(c)
  PROVE  \A d \in Callers : d # c => EndOf(d)' = EndOf(d)
BY DEF OthersStay, EndOf, At

\* A writer that is not new goes on to where its id, if it is a launch's, has got out.
LEMMA NamedStep ==
  ASSUME TypeOK, NamedOK, NEW c \in Callers, OthersStay(c),
         /\ c \in Foreground => caller[c].at # "new" \/ (IdOf(c) \in Background => Returned(IdOf(c)))
         /\ c \in Background /\ Returned(c) => Returned(c)'
  PROVE  NamedOK'
<1> SUFFICES ASSUME NEW f \in Foreground, IdOf(f) \in Background
             PROVE  caller'[f].at = "new" \/ Returned(IdOf(f))'
  BY DEF NamedOK, At, IdOf
<1> DEFINE b == IdOf(f)
<1>1. f \in Callers /\ f \notin Background /\ b \in Callers /\ b \in Background /\ b # f
  BY IdOfType
<1>2. Returned(b) => Returned(b)'
  <2> HIDE DEF b
  <2>1. CASE b = c BY <1>1, <2>1
  <2>2. CASE b # c BY <1>1, <2>2 DEF OthersStay, Returned
  <2>3. QED BY <2>1, <2>2
<1>3. caller[f].at = "new" \/ Returned(b) BY DEF NamedOK, At
<1>4. CASE f = c BY <1>1, <1>2, <1>3, <1>4
<1>5. CASE f # c
  <2>1. caller'[f] = caller[f] BY <1>1, <1>5 DEF OthersStay
  <2>2. QED BY <1>2, <1>3, <2>1
<1>6. QED BY <1>4, <1>5

\* A writer goes on, with the time stamp it has or a new one, and stores nothing.
LEMMA Unstored ==
  ASSUME Inv, NEW c \in Callers, OthersStay(c), UNCHANGED <<store, resets>>,
         caller' \in [Callers -> [at : Stages, stamp : Nat]],
         caller[c].at # "failed", caller'[c].at # "new",
         \A d \in Callers : EndOf(d)' = EndOf(d), NamedOK',
         \/ clock' = clock /\ caller'[c].stamp = caller[c].stamp /\ caller[c].at # "new"
         \/ clock' = clock + 1 /\ caller'[c].stamp = clock + 1
  PROVE  Inv'
<1>1. clock \in Nat /\ \A d \in Callers : caller[d].stamp \in Nat BY DEF Inv, TypeOK
<1>2. \A d \in Callers : d # c => caller'[d] = caller[d] BY DEF OthersStay
<1>3. \A i \in DOMAIN store : store[i].started \in Nat /\ store[i].started <= clock
  BY DEF Inv, TypeOK, TimesOK, Entry
<1>4. \A d \in Callers : caller[d].stamp <= clock BY DEF Inv, TimesOK
<1>5. TypeOK' BY <1>1 DEF Inv, TypeOK
<1>6. TimesOK'
  <2>1. \A d \in Callers : caller'[d].stamp <= clock'
                           /\ (caller'[d].stamp = NoTime <=> caller'[d].at = "new")
    <3> SUFFICES ASSUME NEW d \in Callers
        PROVE caller'[d].stamp <= clock' /\ (caller'[d].stamp = NoTime <=> caller'[d].at = "new")
      OBVIOUS
    <3>1. caller[d].stamp <= clock /\ (caller[d].stamp = NoTime <=> caller[d].at = "new")
      BY DEF Inv, TimesOK, At
    <3>2. CASE d # c BY <1>1, <1>2, <3>1, <3>2
    <3>3. CASE d = c BY <1>1, <3>1, <3>3 DEF NoTime
    <3>4. QED BY <3>2, <3>3
  <2>2. \A i \in DOMAIN store : store[i].started <= clock' BY <1>1, <1>3
  <2>3. QED BY <2>1, <2>2 DEF Inv, TimesOK, At
<1>7. DistinctOK'
  <2>1. \A d, k \in Callers : caller'[d].stamp = caller'[k].stamp /\ d # k =>
          caller'[d].stamp = NoTime
    <3> SUFFICES ASSUME NEW d \in Callers, NEW k \in Callers,
                        caller'[d].stamp = caller'[k].stamp, d # k
        PROVE caller'[d].stamp = NoTime
      OBVIOUS
    <3>1. caller[d].stamp = caller[k].stamp
      BY <1>1, <1>2, <1>4
    <3>2. caller[d].stamp = NoTime /\ caller[k].stamp = NoTime BY <3>1 DEF Inv, DistinctOK
    <3>3. CASE d # c BY <1>2, <3>2, <3>3
    <3>4. CASE k # c BY <1>2, <3>2, <3>4
    <3>5. QED BY <3>3, <3>4
  <2>2. \A i \in DOMAIN store, d \in Callers :
          store[i].started = caller'[d].stamp /\ i # IdOf(d) => store[i].started = NoTime
    <3> SUFFICES ASSUME NEW i \in DOMAIN store, NEW d \in Callers,
                        store[i].started = caller'[d].stamp, i # IdOf(d)
        PROVE store[i].started = NoTime
      OBVIOUS
    <3>1. caller'[d].stamp = caller[d].stamp BY <1>1, <1>2, <1>3
    <3>2. QED BY <3>1 DEF Inv, DistinctOK
  <2>3. QED BY <2>1, <2>2 DEF Inv, DistinctOK
<1>8. OrphansOK'
  <2> SUFFICES ASSUME NEW i \in DOMAIN store, store[i].started = NoTime
      PROVE i \in Background /\ caller'[i].at = "failed"
    BY DEF OrphansOK, At
  <2>1. i \in Background /\ caller[i].at = "failed" /\ i \in Callers
    BY IdOfType DEF Inv, OrphansOK, At
  <2>2. QED BY <1>2, <2>1
<1>9. ShownOK'
  <2>1. \A i \in DOMAIN store : Agrees(i, store[i].status)' <=> Agrees(i, store[i].status)
    BY DEF Agrees, RunsOf, IdOf
  <2>2. QED BY <2>1 DEF Inv, ShownOK
<1>10. BoundedUnlessOrphaned' BY DEF Inv, BoundedUnlessOrphaned, OverFull
<1>11. QED BY <1>5, <1>6, <1>7, <1>8, <1>9, <1>10 DEF Inv

Forgets ==
  \A i \in DOMAIN store : i \notin DOMAIN store' =>
    Cardinality({j \in DOMAIN store' : store'[j].started > store[i].started}) >= MaxSwarms

\* A writer stores an entry with its time stamp, that of the entry before it or none.
LEMMA Storing ==
  ASSUME Inv, NEW c \in Callers, OthersStay(c), UNCHANGED <<clock, resets>>,
         caller' \in [Callers -> [at : Stages, stamp : Nat]],
         caller[c].at \notin {"new", "failed"}, caller'[c].at # "new",
         caller'[c].stamp = caller[c].stamp,
         NEW e \in Entry, Stores(IdOf(c), e),
         \/ e.started = caller[c].stamp
         \/ IdOf(c) \in DOMAIN store /\ e.started = store[IdOf(c)].started
         \/ e.started = NoTime,
         e.started = NoTime => c \in Background /\ caller'[c].at = "failed",
         NamedOK', Agrees(IdOf(c), e.status)'
  PROVE  Inv' /\ Forgets
<1> DEFINE id == IdOf(c)
<1>1. /\ clock \in Nat /\ e.started \in Nat /\ id \in Ids
      /\ \A d \in Callers : caller[d].stamp \in Nat /\ caller[d].stamp <= clock
      /\ \A i \in DOMAIN store : store[i].started \in Nat /\ store[i].started <= clock
      /\ IsFiniteSet(DOMAIN store)
  BY IdOfType DEF Inv, TypeOK, TimesOK, Entry
<1>2. \A d \in Callers : d # c => caller'[d] = caller[d] BY DEF OthersStay
<1>3. e.started <= clock BY <1>1 DEF NoTime
<1>4. \A d \in Callers : caller'[d].stamp = caller[d].stamp BY <1>2
<1>5. \A i \in DOMAIN store : i # id /\ store[i].started = e.started => e.started = NoTime
  BY DEF Inv, DistinctOK
<1>6. \A i, j \in DOMAIN store : store[i].started = store[j].started /\ i # j =>
        store[i].started = NoTime
  BY DEF Inv, DistinctOK
<1>7. /\ DOMAIN store' \subseteq DOMAIN store \cup {id} /\ IsFiniteSet(DOMAIN store')
      /\ \A i \in DOMAIN store' : store'[i] = IF i = id THEN e ELSE store[i]
  <2> HIDE DEF id
  <2>1. Stores(id, e) BY DEF id
  <2>2. QED BY <1>1, <2>1, Stored
<1>8. /\ OverFull(store') => \E i \in DOMAIN store' : store'[i].started = NoTime
      /\ \A i \in DOMAIN store : i \notin DOMAIN store' =>
           /\ id \in DOMAIN store =>
                OverFull(store) /\ \A j \in DOMAIN store : j # id => store[j].started # NoTime
           /\ i # id \/ store[i].started <= e.started =>
                Cardinality({j \in DOMAIN store' :
                  store'[j].started > store[i].started}) >= MaxSwarms
  <2> HIDE DEF id
  <2>1. Stores(id, e) BY DEF id
  <2>2. \A i \in DOMAIN store : store[i].started \in Nat /\ store[i].started <= clock BY <1>1
  <2>3. IsFiniteSet(DOMAIN store) /\ clock \in Nat /\ e.started \in Nat /\ e.started <= clock
    BY <1>1, <1>3
  <2>4. QED BY <1>5, <1>6, <2>1, <2>2, <2>3, StoredTrimmed, Zenon
<1>9. TypeOK'
  <2>1. \A i \in DOMAIN store' : store'[i] \in Entry BY <1>7 DEF Inv, TypeOK
  <2>2. DOMAIN store' \subseteq Ids BY <1>1, <1>7 DEF Inv, TypeOK
  <2>3. QED BY <2>1, <2>2 DEF Inv, TypeOK
<1>10. TimesOK'
  <2>1. \A i \in DOMAIN store' : store'[i].started <= clock BY <1>1, <1>3, <1>7
  <2>2. \A d \in Callers : caller'[d].stamp = NoTime <=> caller'[d].at = "new"
    BY <1>2 DEF Inv, TimesOK, At
  <2>3. QED BY <1>1, <1>4, <1>7, <2>1, <2>2 DEF TimesOK, At
<1>11. DistinctOK'
  <2>1. \A i, j \in DOMAIN store' : store'[i].started = store'[j].started /\ i # j =>
          store'[i].started = NoTime
    BY <1>5, <1>6, <1>7
  <2>2. \A d, k \in Callers : caller'[d].stamp = caller'[k].stamp /\ d # k =>
          caller'[d].stamp = NoTime
    BY <1>4 DEF Inv, DistinctOK
  <2>3. \A i \in DOMAIN store', d \in Callers :
          store'[i].started = caller'[d].stamp /\ i # IdOf(d) => store'[i].started = NoTime
    <3> SUFFICES ASSUME NEW i \in DOMAIN store', NEW d \in Callers,
                        store'[i].started = caller'[d].stamp, i # IdOf(d)
        PROVE store'[i].started = NoTime
      OBVIOUS
    <3>1. store'[i].started = caller[d].stamp BY <1>4
    <3>2. CASE i # id
      <4>1. i \in DOMAIN store /\ store'[i] = store[i] BY <1>7, <3>2
      <4>2. QED BY <3>1, <4>1 DEF Inv, DistinctOK
    <3>3. CASE i = id
      <4>1. store'[i] = e /\ d # c BY <1>7, <3>3
      <4>2. CASE e.started = caller[c].stamp
        BY <3>1, <4>1, <4>2 DEF Inv, DistinctOK
      <4>3. CASE id \in DOMAIN store /\ e.started = store[id].started
        BY <3>1, <3>3, <4>1, <4>3 DEF Inv, DistinctOK
      <4>4. QED BY <4>1, <4>2, <4>3
    <3>4. QED BY <3>2, <3>3
  <2>4. QED BY <2>1, <2>2, <2>3 DEF DistinctOK
<1>12. OrphansOK'
  <2> SUFFICES ASSUME NEW i \in DOMAIN store', store'[i].started = NoTime
      PROVE i \in Background /\ caller'[i].at = "failed"
    BY DEF OrphansOK, At
  <2>1. CASE i = id
    <3>1. e.started = NoTime BY <1>7, <2>1
    <3>2. c \in Background /\ c = id BY <3>1, IdOfType
    <3>3. QED BY <2>1, <3>1, <3>2
  <2>2. CASE i # id
    <3>1. i \in Background /\ caller[i].at = "failed" /\ i \in Callers
      BY <1>7, <2>2, IdOfType DEF Inv, OrphansOK, At
    <3>2. QED BY <1>2, <3>1
  <2>3. QED BY <2>1, <2>2
<1>13. ShownOK'
  <2> SUFFICES ASSUME NEW i \in DOMAIN store' PROVE Agrees(i, store[i].status)'
    BY DEF ShownOK
  <2>1. CASE i = id
    <3>1. store'[i] = e BY <1>7, <2>1
    <3>2. QED BY <2>1, <3>1 DEF Agrees
  <2>2. CASE i # id
    <3>1. i \in DOMAIN store /\ store'[i] = store[i] BY <1>7, <2>2
    <3>2. Agrees(i, store[i].status) BY <3>1 DEF Inv, ShownOK
    <3>3. \A d \in RunsOf(i) : EndOf(d)' = EndOf(d)
      BY <2>2, SameEnd DEF RunsOf
    <3>4. RunsOf(i)' = RunsOf(i) BY DEF RunsOf, IdOf
    <3>5. QED BY <3>1, <3>2, <3>3, <3>4 DEF Agrees
  <2>3. QED BY <2>1, <2>2
<1>14. BoundedUnlessOrphaned' BY <1>8 DEF BoundedUnlessOrphaned, OverFull
<1>15. Forgets
  <2> SUFFICES ASSUME NEW i \in DOMAIN store, i \notin DOMAIN store'
      PROVE Cardinality({j \in DOMAIN store' : store'[j].started > store[i].started}) >= MaxSwarms
    BY DEF Forgets
  <2>1. i = id => store[i].started <= e.started
    <3>1. SUFFICES ASSUME i = id PROVE store[i].started <= e.started OBVIOUS
    <3>2. PICK j \in DOMAIN store : store[j].started = NoTime
      BY <1>8, <3>1 DEF Inv, BoundedUnlessOrphaned
    <3>3. j = id BY <1>8, <3>1, <3>2
    <3>4. QED BY <1>1, <3>1, <3>2, <3>3 DEF NoTime
  <2>2. QED BY <1>8, <2>1
<1>16. QED BY <1>9, <1>10, <1>11, <1>12, <1>13, <1>14, <1>15 DEF Inv

-----------------------------------------------------------------------------
(* The theorems *)

LEMMA InitInv == Init => Inv
<1> SUFFICES ASSUME Init PROVE Inv OBVIOUS
<1>1. DOMAIN store = {} /\ IsFiniteSet(DOMAIN store) /\ Cardinality(DOMAIN store) = 0
  BY FS_EmptySet DEF Init
<1>2. TypeOK BY <1>1, StoreConstants DEF Init, TypeOK, Stages, NoTime
<1>3. TimesOK BY <1>1 DEF Init, TimesOK, NoTime, At
<1>4. DistinctOK /\ OrphansOK /\ ShownOK /\ NamedOK
  BY <1>1, IdOfType DEF Init, DistinctOK, OrphansOK, ShownOK, NamedOK, At
<1>5. BoundedUnlessOrphaned BY <1>1, StoreConstants DEF BoundedUnlessOrphaned, OverFull
<1>6. QED BY <1>2, <1>3, <1>4, <1>5 DEF Inv

\* A reader of the store sees no swarm change but the one stored, and of that what has
\* been stored.  All others are shown as before or forgotten.
LEMMA Seen ==
  ASSUME Inv, NEW id \in Ids, NEW e \in Entry, Stores(id, e)
  PROVE  /\ Shown(id)' \in {e.status, "unknown"}
         /\ \A i \in Ids : i # id => Shown(i)' \in {Shown(i), "unknown"}
<1>1. /\ DOMAIN store' \subseteq DOMAIN store \cup {id}
      /\ \A i \in DOMAIN store' : store'[i] = IF i = id THEN e ELSE store[i]
  BY Stored DEF Inv, TimesOK
<1>2. QED BY <1>1 DEF Shown

\* What a step does to what readers are shown.
Seeing(id) == \A i \in Ids : i # id => Shown(i)' \in {Shown(i), "unknown"}
Quiet == UNCHANGED store /\ \A c \in Callers : EndOf(c)' = EndOf(c)
Reserving(id) ==
  /\ Seeing(id) /\ Shown(id)' \in {"running", "unknown"}
  /\ \A c \in Callers : EndOf(c)' = EndOf(c)
  /\ \A c \in RunsOf(id) : EndOf(c) = "none"
Ending(c) ==
  /\ Seeing(IdOf(c)) /\ Shown(IdOf(c))' \in {EndOf(c)', "unknown"}
  /\ EndOf(c) = "none" /\ EndOf(c)' \in {"completed", "failed"}
  /\ \A d \in Callers : d # c => EndOf(d)' = EndOf(d)
ViewStep == Quiet \/ (\E id \in Ids : Reserving(id)) \/ (\E c \in Callers : Ending(c))

\* A step of a writer that stores nothing is not seen.
LEMMA QuietStep ==
  ASSUME Inv, NEW c \in Callers, OthersStay(c), UNCHANGED <<store, resets>>,
         caller' \in [Callers -> [at : Stages, stamp : Nat]],
         caller[c].at # "failed", caller'[c].at # "new",
         caller[c].at # "done", caller'[c].at # "done",
         caller'[c].at = "failed" => c \notin Background, NamedOK',
         \/ clock' = clock /\ caller'[c].stamp = caller[c].stamp /\ caller[c].at # "new"
         \/ clock' = clock + 1 /\ caller'[c].stamp = clock + 1
  PROVE  Inv' /\ Forgets /\ ViewStep
<1>1. \A d \in Callers : EndOf(d)' = EndOf(d)
  <2>1. EndOf(c)' = EndOf(c) BY DEF EndOf, At
  <2>2. QED BY <2>1, SameEnd
<1>2. Inv' BY <1>1, Unstored
<1>3. Forgets BY DEF Forgets
<1>4. QED BY <1>1, <1>2, <1>3 DEF ViewStep, Quiet

LEMMA LaunchPreserves ==
  ASSUME Inv, NEW b \in Background, LaunchStep(b)
  PROVE  Inv' /\ Forgets /\ ViewStep
<1>1. TypeOK /\ NamedOK /\ b \in Callers /\ IdOf(b) = b /\ b \in Ids /\ b \notin Foreground
  BY IdOfType DEF Inv
<1>2. CASE StampLaunch(b)
  <2>1. caller[b].at = "new" BY <1>2 DEF StampLaunch, At
  <2>2. /\ caller' \in [Callers -> [at : Stages, stamp : Nat]] /\ OthersStay(b)
        /\ caller'[b].at = "stamped" /\ caller'[b].stamp = clock + 1 /\ clock' = clock + 1
    BY <1>1, <1>2, StampsOn DEF StampLaunch, Stages
  <2>3. UNCHANGED <<store, resets>> BY <1>2 DEF StampLaunch
  <2>4. NamedOK' BY <1>1, <2>1, <2>2, NamedStep DEF Returned
  <2>5. QED BY <1>1, <2>1, <2>2, <2>3, <2>4, QuietStep
<1>3. CASE Reserve(b)
  <2>1. PICK e : /\ e = Running(b) /\ Stores(b, e)
                 /\ caller[b].at = "stamped" /\ UNCHANGED <<clock, resets>>
    BY <1>3 DEF Reserve, At
  <2>2. PICK at \in {"refused", "reserved"} : Goes(b, at) BY <1>3 DEF Reserve
  <2>3. /\ caller' \in [Callers -> [at : Stages, stamp : Nat]] /\ OthersStay(b)
        /\ caller'[b].at = at /\ caller'[b].stamp = caller[b].stamp
    BY <1>1, <2>2, GoesOn DEF Stages
  <2>4. caller[b].stamp \in Nat /\ caller[b].stamp # NoTime
    BY <1>1, <2>1 DEF Inv, TypeOK, TimesOK, At
  <2>5. e \in Entry /\ e.started = caller[b].stamp /\ e.status = "running"
    BY <2>1, <2>4 DEF Running, Entry
  <2>6. NamedOK' BY <1>1, <2>1, <2>3, NamedStep DEF Returned
  <2>7. \A d \in Callers : EndOf(d)' = EndOf(d)
    <3>1. EndOf(b)' = EndOf(b) BY <2>1, <2>3 DEF EndOf, At
    <3>2. QED BY <1>1, <2>3, <3>1, SameEnd
  <2>8. \A d \in RunsOf(b) : EndOf(d) = "none"
    <3> SUFFICES ASSUME NEW d \in Callers, IdOf(d) = b PROVE EndOf(d) = "none" BY DEF RunsOf
    <3>1. CASE d \in Background
      <4>1. d = b BY <3>1 DEF IdOf
      <4>2. QED BY <2>1, <4>1 DEF EndOf, At
    <3>2. CASE d \notin Background
      <4>1. d \in Foreground BY <3>2, IdOfType
      <4>2. ~Returned(b) BY <2>1 DEF Returned
      <4>3. At(d, "new") BY <1>1, <4>1, <4>2 DEF NamedOK
      <4>4. QED BY <4>3 DEF EndOf, At
    <3>3. QED BY <3>1, <3>2
  <2>9. Agrees(b, e.status)'
    <3>1. RunsOf(b)' = RunsOf(b) BY DEF RunsOf, IdOf
    <3>2. \A d \in RunsOf(b) : EndOf(d)' = "none" BY <2>7, <2>8 DEF RunsOf
    <3>3. QED BY <2>5, <3>1, <3>2 DEF Agrees
  <2>10. Inv' /\ Forgets BY <1>1, <2>1, <2>3, <2>4, <2>5, <2>6, <2>9, Storing
  <2>11. Reserving(b)
    <3>1. Seeing(b) /\ Shown(b)' \in {"running", "unknown"}
      BY <1>1, <2>1, <2>5, Seen DEF Seeing
    <3>2. QED BY <2>7, <2>8, <3>1 DEF Reserving
  <2>12. QED BY <1>1, <2>10, <2>11 DEF ViewStep
<1>4. CASE StartThread(b)
  <2>1. caller[b].at = "reserved" /\ UNCHANGED <<store, clock, resets>>
    BY <1>4 DEF StartThread, At
  <2>2. PICK at \in {"started", "unstarted"} : Goes(b, at) BY <1>4 DEF StartThread
  <2>3. /\ caller' \in [Callers -> [at : Stages, stamp : Nat]] /\ OthersStay(b)
        /\ caller'[b].at = at /\ caller'[b].stamp = caller[b].stamp
    BY <1>1, <2>2, GoesOn DEF Stages
  <2>4. NamedOK' BY <1>1, <2>1, <2>3, NamedStep DEF Returned
  <2>5. QED BY <1>1, <2>1, <2>3, <2>4, QuietStep
<1>5. QED BY <1>2, <1>3, <1>4 DEF LaunchStep

LEMMA CallerPreserves ==
  ASSUME Inv, NEW c \in Callers, CallerStep(c)
  PROVE  Inv' /\ Forgets /\ ViewStep
<1>1. TypeOK /\ NamedOK /\ IdOf(c) \in Ids BY IdOfType DEF Inv
<1>2. c \in Background => IdOf(c) = c BY IdOfType
<1>3. RunsOf(IdOf(c))' = RunsOf(IdOf(c)) /\ c \in RunsOf(IdOf(c)) /\ IdOf(c)' = IdOf(c)
  BY DEF RunsOf, IdOf
<1>4. CASE Begin(c)
  <2>1. /\ caller[c].at \in {"new", "started"}
        /\ c \in Background => caller[c].at = "started"
        /\ IdOf(c) \in Background => Returned(IdOf(c))
    BY <1>4 DEF Begin, At
  <2>2. /\ caller' \in [Callers -> [at : Stages, stamp : Nat]] /\ OthersStay(c)
        /\ caller'[c].at = "running" /\ caller'[c].stamp = clock + 1 /\ clock' = clock + 1
    BY <1>1, <1>4, StampsOn DEF Begin, Stages
  <2>3. UNCHANGED <<store, resets>> BY <1>4 DEF Begin
  <2>4. NamedOK' BY <1>1, <2>1, <2>2, NamedStep DEF Returned
  <2>5. QED BY <1>1, <2>1, <2>2, <2>3, <2>4, QuietStep
<1>5. CASE Finish(c)
  <2>1. caller[c].at = "running" /\ UNCHANGED <<store, clock, resets>> BY <1>5 DEF Finish, At
  <2>2. PICK at \in {"ended", "broken"} : Goes(c, at) BY <1>5 DEF Finish
  <2>3. /\ caller' \in [Callers -> [at : Stages, stamp : Nat]] /\ OthersStay(c)
        /\ caller'[c].at = at /\ caller'[c].stamp = caller[c].stamp
    BY <1>1, <2>2, GoesOn DEF Stages
  <2>4. NamedOK' BY <1>1, <2>1, <2>3, NamedStep DEF Returned
  <2>5. QED BY <1>1, <2>1, <2>3, <2>4, QuietStep
<1>6. CASE Save(c)
  <2>1. PICK e : /\ e = [status |-> "completed", started |-> caller[c].stamp]
                 /\ caller[c].at = "ended" /\ Goes(c, "done") /\ Stores(IdOf(c), e)
                 /\ UNCHANGED <<clock, resets>>
    BY <1>6 DEF Save, At
  <2>2. /\ caller' \in [Callers -> [at : Stages, stamp : Nat]] /\ OthersStay(c)
        /\ caller'[c].at = "done" /\ caller'[c].stamp = caller[c].stamp
    BY <1>1, <2>1, GoesOn DEF Stages
  <2>3. caller[c].stamp \in Nat /\ caller[c].stamp # NoTime
    BY <1>1, <2>1 DEF Inv, TypeOK, TimesOK, At
  <2>4. e \in Entry /\ e.started = caller[c].stamp /\ e.status = "completed"
    BY <2>1, <2>3 DEF Entry
  <2>5. EndOf(c) = "none" /\ EndOf(c)' = "completed" BY <2>1, <2>2 DEF EndOf, At
  <2>6. NamedOK' BY <1>1, <2>1, <2>2, NamedStep DEF Returned
  <2>7. Agrees(IdOf(c), e.status)' BY <1>3, <2>4, <2>5 DEF Agrees
  <2>8. Inv' /\ Forgets BY <1>1, <2>1, <2>2, <2>3, <2>4, <2>6, <2>7, Storing
  <2>9. Ending(c)
    <3>1. Seeing(IdOf(c)) /\ Shown(IdOf(c))' \in {"completed", "unknown"}
      BY <1>1, <2>1, <2>4, Seen DEF Seeing
    <3>2. QED BY <2>2, <2>5, <3>1, SameEnd DEF Ending
  <2>10. QED BY <2>8, <2>9 DEF ViewStep
<1>7. CASE Fail(c)
  <2>1. caller[c].at = "broken" /\ Goes(c, "failed") /\ UNCHANGED <<clock, resets>>
    BY <1>7 DEF Fail, At
  <2>2. /\ caller' \in [Callers -> [at : Stages, stamp : Nat]] /\ OthersStay(c)
        /\ caller'[c].at = "failed" /\ caller'[c].stamp = caller[c].stamp
    BY <1>1, <2>1, GoesOn DEF Stages
  <2>3. NamedOK' BY <1>1, <2>1, <2>2, NamedStep DEF Returned
  <2>4. CASE c \notin Background
    <3>1. UNCHANGED store BY <1>7, <2>4 DEF Fail
    <3>2. QED BY <2>1, <2>2, <2>3, <2>4, <3>1, QuietStep
  <2>5. CASE c \in Background
    <3>1. PICK e : /\ e = [status |-> "failed",
                           started |-> IF c \in DOMAIN store THEN store[c].started ELSE NoTime]
                   /\ Stores(IdOf(c), e)
      BY <1>2, <1>7, <2>5 DEF Fail
    <3>2. c \in DOMAIN store => store[c].started \in Nat BY DEF Inv, TypeOK, Entry
    <3>3. /\ e \in Entry /\ e.status = "failed"
          /\ \/ c \in DOMAIN store /\ e.started = store[c].started
             \/ e.started = NoTime
      BY <3>1, <3>2 DEF Entry, NoTime
    <3>4. EndOf(c) = "none" /\ EndOf(c)' = "failed" BY <2>1, <2>2, <2>5 DEF EndOf, At
    <3>5. Agrees(IdOf(c), e.status)' BY <1>3, <3>3, <3>4 DEF Agrees
    <3>6. Inv' /\ Forgets BY <1>1, <1>2, <2>1, <2>2, <2>3, <2>5, <3>1, <3>3, <3>5, Storing
    <3>7. Ending(c)
      <4>1. Seeing(IdOf(c)) /\ Shown(IdOf(c))' \in {"failed", "unknown"}
        BY <1>1, <3>1, <3>3, Seen DEF Seeing
      <4>2. QED BY <2>2, <3>4, <4>1, SameEnd DEF Ending
    <3>8. QED BY <3>6, <3>7 DEF ViewStep
  <2>6. QED BY <2>4, <2>5
<1>8. QED BY <1>4, <1>5, <1>6, <1>7 DEF CallerStep

\* After a reset nothing is left to agree with.
LEMMA ResetPreserves == ASSUME Inv, Reset PROVE Inv'
<1>1. /\ DOMAIN store' = {} /\ IsFiniteSet(DOMAIN store') /\ Cardinality(DOMAIN store') = 0
      /\ UNCHANGED <<caller, clock>> /\ resets' \in 0 .. MaxResets
  BY FS_EmptySet, StoreConstants DEF Reset, Inv, TypeOK
<1>2. TypeOK' BY <1>1 DEF Inv, TypeOK
<1>3. TimesOK' BY <1>1 DEF Inv, TimesOK, At
<1>4. DistinctOK' /\ OrphansOK' /\ ShownOK' /\ NamedOK'
  BY <1>1 DEF Inv, DistinctOK, OrphansOK, ShownOK, NamedOK, At, Returned, IdOf
<1>5. BoundedUnlessOrphaned' BY <1>1, StoreConstants DEF BoundedUnlessOrphaned, OverFull
<1>6. QED BY <1>2, <1>3, <1>4, <1>5 DEF Inv

LEMMA NextPreserves ==
  ASSUME Inv, Next
  PROVE  Inv' /\ (Reset \/ (Forgets /\ ViewStep))
BY LaunchPreserves, CallerPreserves, ResetPreserves DEF Next

LEMMA NextInv == Inv /\ [Next]_vars => Inv'
<1> SUFFICES ASSUME Inv, [Next]_vars PROVE Inv' OBVIOUS
<1>1. CASE Next BY <1>1, NextPreserves
<1>2. CASE UNCHANGED vars
  <2>1. UNCHANGED <<store, caller, clock, resets>> BY <1>2 DEF vars
  <2>2. TypeOK' /\ TimesOK' /\ DistinctOK' /\ OrphansOK' /\ NamedOK'
    BY <2>1 DEF Inv, TypeOK, TimesOK, DistinctOK, OrphansOK, NamedOK, At, Returned, IdOf
  <2>3. ShownOK' BY <2>1 DEF Inv, ShownOK, Agrees, RunsOf, IdOf, EndOf, At
  <2>4. BoundedUnlessOrphaned' BY <2>1 DEF Inv, BoundedUnlessOrphaned, OverFull
  <2>5. QED BY <2>2, <2>3, <2>4 DEF Inv
<1>3. QED BY <1>1, <1>2

\* The entries of the store, the writers and their time stamps fit together in every
\* state.
THEOREM Invariance == Spec => []Inv
BY InitInv, NextInv, PTL DEF Spec

\* The store of swarms keeps its bound as long as it holds no entry without a start.
THEOREM StoreIsBounded == Spec => []BoundedUnlessOrphaned
<1>1. Inv => BoundedUnlessOrphaned BY DEF Inv
<1>2. QED BY <1>1, Invariance, PTL

\* Outside a reset a swarm is forgotten only when MaxSwarms younger ones are kept,
\* whichever writers store and trim in which order.
THEOREM OnlyTheOldAreForgotten == Spec => ForgottenOnlyForYounger
<1> DEFINE A == \A i \in DOMAIN store : resets' = resets /\ i \notin DOMAIN store' =>
                  Cardinality({j \in DOMAIN store' :
                    store'[j].started > store[i].started}) >= MaxSwarms
<1>1. ASSUME Inv, [Next]_vars PROVE [A]_vars
  <2>1. CASE Next
    <3>1. Reset \/ Forgets BY <1>1, <2>1, NextPreserves
    <3>2. CASE Forgets BY <3>2 DEF Forgets
    <3>3. CASE Reset
      <4>1. resets' # resets BY <1>1, <3>3 DEF Reset, Inv, TypeOK
      <4>2. QED BY <4>1
    <3>4. QED BY <3>1, <3>2, <3>3
  <2>2. CASE UNCHANGED vars BY <2>2
  <2>3. QED BY <1>1, <2>1, <2>2
<1>2. QED BY <1>1, Invariance, PTL DEF Spec, ForgottenOnlyForYounger

\* A step of the store is a step of the view, or is not seen.
LEMMA ViewImplemented ==
  ASSUME ViewStep \/ Reset \/ UNCHANGED vars
  PROVE  [View!Next]_(View!vars)
<1> USE DEF View!vars
<1>1. CASE Quiet
  <2>1. \A i \in Ids : Shown(i)' = Shown(i) BY <1>1 DEF Quiet, Shown
  <2>2. QED BY <1>1, <2>1 DEF Quiet
<1>2. CASE Reset
  <2>1. UNCHANGED caller /\ DOMAIN store' = {} BY <1>2 DEF Reset
  <2>2. \A i \in Ids : Shown(i)' = "unknown" BY <2>1 DEF Shown
  <2>3. \A c \in Callers : EndOf(c)' = EndOf(c) BY <2>1 DEF EndOf, At
  <2>4. View!Forget BY <2>2, <2>3 DEF View!Forget
  <2>5. QED BY <2>4 DEF View!Next
<1>3. CASE UNCHANGED vars
  <2>1. \A i \in Ids : Shown(i)' = Shown(i) BY <1>3 DEF vars, Shown
  <2>2. \A c \in Callers : EndOf(c)' = EndOf(c) BY <1>3 DEF vars, EndOf, At
  <2>3. QED BY <2>1, <2>2
<1>4. ASSUME NEW id \in Ids, Reserving(id) PROVE [View!Next]_(View!vars)
  <2>1. View!OthersAtMostForgotten(id)
    BY <1>4 DEF Reserving, Seeing, View!OthersAtMostForgotten
  <2>2. \A c \in Callers : [d \in Callers |-> IdOf(d)][c] = id => EndOf(c) = "none"
    BY <1>4 DEF Reserving, RunsOf
  <2>3. View!Reserve(id) BY <1>4, <2>1, <2>2 DEF Reserving, View!Reserve
  <2>4. QED BY <2>3 DEF View!Next
<1>5. ASSUME NEW c \in Callers, Ending(c) PROVE [View!Next]_(View!vars)
  <2>1. IdOf(c) \in Ids BY IdOfType
  <2>2. View!OthersAtMostForgotten(IdOf(c))
    BY <1>5 DEF Ending, Seeing, View!OthersAtMostForgotten
  <2>3. [d \in Callers |-> EndOf(d)'] = [[d \in Callers |-> EndOf(d)] EXCEPT ![c] = EndOf(c)']
    BY <1>5 DEF Ending
  <2>4. View!End(c) BY <1>5, <2>1, <2>2, <2>3 DEF Ending, View!End, View!Ends
  <2>5. QED BY <2>4 DEF View!Next
<1>6. QED BY <1>1, <1>2, <1>3, <1>4, <1>5 DEF ViewStep

\* The store implements the view of its readers.
THEOREM StoreImplementsView == Spec => ImplementsSwarmView
<1>1. Init => View!Init
  <2> SUFFICES ASSUME Init PROVE View!Init OBVIOUS
  <2>1. \A c \in Callers : ~At(c, "done") /\ ~At(c, "failed") BY DEF Init, At
  <2>2. \A c \in Callers : EndOf(c) = "none" BY <2>1 DEF EndOf
  <2>3. \A i \in Ids : Shown(i) = "unknown" BY DEF Init, Shown
  <2>4. QED BY <2>2, <2>3 DEF View!Init
<1>2. Inv /\ [Next]_vars => [View!Next]_(View!vars)
  <2> SUFFICES ASSUME Inv, [Next]_vars PROVE [View!Next]_(View!vars) OBVIOUS
  <2>1. ViewStep \/ Reset \/ UNCHANGED vars BY NextPreserves
  <2>2. QED BY <2>1, ViewImplemented
<1>3. QED BY <1>1, <1>2, Invariance, PTL DEF Spec, ImplementsSwarmView, View!Spec

-----------------------------------------------------------------------------
(* What RunningEnds rests on, besides fairness *)

\* How far a writer is; it has come to its end at 6.
Stage(c) ==
  CASE At(c, "new") -> 0 [] At(c, "stamped") -> 1 [] At(c, "reserved") -> 2
    [] At(c, "started") -> 3 [] At(c, "running") -> 4
    [] caller[c].at \in {"ended", "broken"} -> 5 [] OTHER -> 6
\* Every step but a reset takes one writer on and leaves the others where they are.
WritersAdvance ==
  [][resets' = resets + 1 \/ \E c \in Callers : Stage(c)' > Stage(c) /\ OthersStay(c)]_vars

LEMMA StagesRise ==
  ASSUME TypeOK, Next
  PROVE  resets' = resets + 1 \/ \E c \in Callers : Stage(c)' > Stage(c) /\ OthersStay(c)
<1>1. ASSUME NEW c \in Callers, NEW at \in Stages, Goes(c, at)
      PROVE  OthersStay(c) /\ caller'[c].at = at
  BY <1>1, GoesOn
<1>2. ASSUME NEW c \in Callers, NEW at \in Stages, Stamps(c, at)
      PROVE  OthersStay(c) /\ caller'[c].at = at
  BY <1>2, StampsOn
<1>3. ASSUME NEW b \in Background, LaunchStep(b)
      PROVE  \E c \in Callers : Stage(c)' > Stage(c) /\ OthersStay(c)
  <2>1. b \in Callers BY DEF Callers
  <2>2. CASE StampLaunch(b)
    <3>1. OthersStay(b) /\ caller'[b].at = "stamped" /\ caller[b].at = "new"
      BY <1>2, <2>1, <2>2 DEF StampLaunch, Stages, At
    <3>2. Stage(b)' = 1 /\ Stage(b) = 0 BY <3>1 DEF Stage, At
    <3>3. QED BY <2>1, <3>1, <3>2
  <2>3. CASE Reserve(b)
    <3>1. PICK at \in {"refused", "reserved"} : Goes(b, at) BY <2>3 DEF Reserve
    <3>2. OthersStay(b) /\ caller'[b].at = at /\ caller[b].at = "stamped"
      BY <1>1, <2>1, <2>3, <3>1 DEF Reserve, Stages, At
    <3>3. Stage(b)' \in {2, 6} /\ Stage(b) = 1 BY <3>2 DEF Stage, At
    <3>4. QED BY <2>1, <3>2, <3>3
  <2>4. CASE StartThread(b)
    <3>1. PICK at \in {"started", "unstarted"} : Goes(b, at) BY <2>4 DEF StartThread
    <3>2. OthersStay(b) /\ caller'[b].at = at /\ caller[b].at = "reserved"
      BY <1>1, <2>1, <2>4, <3>1 DEF StartThread, Stages, At
    <3>3. Stage(b)' \in {3, 6} /\ Stage(b) = 2 BY <3>2 DEF Stage, At
    <3>4. QED BY <2>1, <3>2, <3>3
  <2>5. QED BY <1>3, <2>2, <2>3, <2>4 DEF LaunchStep
<1>4. ASSUME NEW c \in Callers, CallerStep(c)
      PROVE  Stage(c)' > Stage(c) /\ OthersStay(c)
  <2>1. CASE Begin(c)
    <3>1. OthersStay(c) /\ caller'[c].at = "running" /\ caller[c].at \in {"new", "started"}
      BY <1>2, <2>1 DEF Begin, Stages, At
    <3>2. Stage(c)' = 4 /\ Stage(c) \in {0, 3} BY <3>1 DEF Stage, At
    <3>3. QED BY <3>1, <3>2
  <2>2. CASE Finish(c)
    <3>1. PICK at \in {"ended", "broken"} : Goes(c, at) BY <2>2 DEF Finish
    <3>2. OthersStay(c) /\ caller'[c].at = at /\ caller[c].at = "running"
      BY <1>1, <2>2, <3>1 DEF Finish, Stages, At
    <3>3. Stage(c)' = 5 /\ Stage(c) = 4 BY <3>2 DEF Stage, At
    <3>4. QED BY <3>2, <3>3
  <2>3. CASE Save(c) \/ Fail(c)
    <3>1. PICK at \in {"done", "failed"} : Goes(c, at) BY <2>3 DEF Save, Fail
    <3>2. OthersStay(c) /\ caller'[c].at = at /\ caller[c].at \in {"ended", "broken"}
      BY <1>1, <2>3, <3>1 DEF Save, Fail, Stages, At
    <3>3. Stage(c)' = 6 /\ Stage(c) = 5 BY <3>2 DEF Stage, At
    <3>4. QED BY <3>2, <3>3
  <2>4. QED BY <1>4, <2>1, <2>2, <2>3 DEF CallerStep
<1>5. QED BY <1>3, <1>4 DEF Next, Reset

\* WritersAdvance: no launch or request goes back, so each takes at most six steps, and
\* none of them waits for another writer.
THEOREM LaunchesAdvance == Spec => WritersAdvance
<1> DEFINE A == resets' = resets + 1 \/ \E c \in Callers : Stage(c)' > Stage(c) /\ OthersStay(c)
<1>1. ASSUME Inv, [Next]_vars PROVE [A]_vars
  <2>1. TypeOK BY <1>1 DEF Inv
  <2>2. CASE Next BY <2>1, <2>2, StagesRise
  <2>3. CASE UNCHANGED vars BY <2>3
  <2>4. QED BY <1>1, <2>2, <2>3
<1>2. QED BY <1>1, Invariance, PTL DEF Spec, WritersAdvance

\* Whoever has an entry has stored it: a launch from its reservation on, a request at
\* its end.
HeldOK ==
  \A i \in DOMAIN store :
    IF i \in Background THEN ~At(i, "new") /\ ~At(i, "stamped")
    ELSE \E f \in Foreground : GivenId[f] = i /\ At(f, "done")

\* A swarm that readers see running is of a launch that has still to save or fail it,
\* unless its thread could not be started or its request was refused by a raising trim.
LaunchIsBacked ==
  \A i \in Ids : Shown(i) = "running" =>
    /\ i \in Background
    /\ caller[i].at \in {"reserved", "started", "running", "ended", "broken",
                         "unstarted", "refused"}

LEMMA HeldStep ==
  ASSUME Inv, HeldOK, [Next]_vars
  PROVE  HeldOK'
<1>1. TypeOK /\ IsFiniteSet(DOMAIN store) BY DEF Inv, TimesOK
<1>2. CASE Reset \/ UNCHANGED vars
  BY <1>2 DEF Reset, vars, HeldOK, At
<1>3. ASSUME NEW c \in Callers, OthersStay(c), caller[c].at # "done",
             caller'[c].at \notin {"new", "stamped"} \/ (caller[c].at = "new" /\ store' = store),
             DOMAIN store' \subseteq DOMAIN store
               \/ /\ DOMAIN store' \subseteq DOMAIN store \cup {IdOf(c)}
                  /\ c \in Background \/ (caller'[c].at = "done" /\ caller[c].at # "new")
      PROVE  HeldOK'
  <2> SUFFICES ASSUME NEW i \in DOMAIN store'
      PROVE  IF i \in Background THEN caller'[i].at \notin {"new", "stamped"}
             ELSE \E f \in Foreground : GivenId[f] = i /\ caller'[f].at = "done"
    BY DEF HeldOK, At
  <2>1. CASE i = IdOf(c) /\ i \notin DOMAIN store
    <3>1. caller'[c].at \notin {"new", "stamped"} BY <1>3, <2>1
    <3>2. CASE c \in Background
      <4>1. i = c BY <2>1, <3>2 DEF IdOf
      <4>2. QED BY <3>1, <3>2, <4>1
    <3>3. CASE c \notin Background
      <4>1. c \in Foreground /\ caller'[c].at = "done" /\ caller[c].at # "new"
        BY <1>3, <2>1, <3>3, IdOfType
      <4>2. CASE i \in Background
        <5>1. i \in Callers /\ i # c BY <3>3, <4>2, IdOfType
        <5>2. Returned(i) BY <2>1, <4>1, <4>2 DEF Inv, NamedOK, At
        <5>3. caller'[i] = caller[i] BY <1>3, <5>1 DEF OthersStay
        <5>4. QED BY <4>2, <5>2, <5>3 DEF Returned
      <4>3. CASE i \notin Background
        <5>1. GivenId[c] = i BY <2>1, <4>1, IdOfType
        <5>2. QED BY <4>1, <4>3, <5>1
      <4>4. QED BY <4>2, <4>3
    <3>4. QED BY <3>2, <3>3
  <2>2. CASE i \in DOMAIN store
    <3>1. CASE i \in Background
      <4>1. caller[i].at \notin {"new", "stamped"} BY <2>2, <3>1 DEF HeldOK, At
      <4>2. CASE i = c BY <1>3, <3>1, <4>1, <4>2
      <4>3. CASE i # c
        <5>1. i \in Callers BY <3>1 DEF Callers
        <5>2. caller'[i] = caller[i] BY <1>3, <4>3, <5>1 DEF OthersStay
        <5>3. QED BY <3>1, <4>1, <5>2
      <4>4. QED BY <4>2, <4>3
    <3>2. CASE i \notin Background
      <4>1. PICK f \in Foreground : GivenId[f] = i /\ caller[f].at = "done"
        BY <2>2, <3>2 DEF HeldOK, At
      <4>2. f # c /\ f \in Callers BY <1>3, <4>1 DEF Callers
      <4>3. caller'[f] = caller[f] BY <1>3, <4>2 DEF OthersStay
      <4>4. QED BY <3>2, <4>1, <4>3
    <3>3. QED BY <3>1, <3>2
  <2>3. QED BY <1>3, <2>1, <2>2
<1>4. ASSUME NEW b \in Background, LaunchStep(b) PROVE HeldOK'
  <2>1. b \in Callers /\ IdOf(b) = b BY IdOfType
  <2>2. CASE StampLaunch(b)
    <3>1. OthersStay(b) /\ caller[b].at = "new" /\ store' = store
      BY <1>1, <2>1, <2>2, StampsOn DEF StampLaunch, Stages, At
    <3>2. QED BY <1>3, <2>1, <3>1
  <2>3. CASE Reserve(b)
    <3>1. PICK at \in {"refused", "reserved"} : Goes(b, at) BY <2>3 DEF Reserve
    <3>2. OthersStay(b) /\ caller'[b].at = at /\ caller[b].at = "stamped"
      BY <1>1, <2>1, <2>3, <3>1, GoesOn DEF Reserve, Stages, At
    <3>3. DOMAIN store' \subseteq DOMAIN store \cup {b}
      BY <1>1, <2>3, Stored DEF Reserve
    <3>4. QED BY <1>3, <2>1, <3>2, <3>3
  <2>4. CASE StartThread(b)
    <3>1. PICK at \in {"started", "unstarted"} : Goes(b, at) BY <2>4 DEF StartThread
    <3>2. OthersStay(b) /\ caller'[b].at = at /\ caller[b].at = "reserved" /\ store' = store
      BY <1>1, <2>1, <2>4, <3>1, GoesOn DEF StartThread, Stages, At
    <3>3. QED BY <1>3, <2>1, <3>2
  <2>5. QED BY <1>4, <2>2, <2>3, <2>4 DEF LaunchStep
<1>5. ASSUME NEW c \in Callers, CallerStep(c) PROVE HeldOK'
  <2>1. CASE Begin(c)
    <3>1. OthersStay(c) /\ caller'[c].at = "running" /\ caller[c].at \in {"new", "started"}
          /\ store' = store
      BY <1>1, <2>1, StampsOn DEF Begin, Stages, At
    <3>2. QED BY <1>3, <3>1
  <2>2. CASE Finish(c)
    <3>1. PICK at \in {"ended", "broken"} : Goes(c, at) BY <2>2 DEF Finish
    <3>2. OthersStay(c) /\ caller'[c].at = at /\ caller[c].at = "running" /\ store' = store
      BY <1>1, <2>2, <3>1, GoesOn DEF Finish, Stages, At
    <3>3. QED BY <1>3, <3>2
  <2>3. CASE Save(c)
    <3>1. OthersStay(c) /\ caller'[c].at = "done" /\ caller[c].at = "ended"
      BY <1>1, <2>3, GoesOn DEF Save, Stages, At
    <3>2. DOMAIN store' \subseteq DOMAIN store \cup {IdOf(c)}
      BY <1>1, <2>3, Stored DEF Save
    <3>3. QED BY <1>3, <3>1, <3>2
  <2>4. CASE Fail(c)
    <3>1. OthersStay(c) /\ caller'[c].at = "failed" /\ caller[c].at = "broken"
      BY <1>1, <2>4, GoesOn DEF Fail, Stages, At
    <3>2. CASE c \in Background
      <4>1. DOMAIN store' \subseteq DOMAIN store \cup {c}
        BY <1>1, <2>4, <3>2, Stored DEF Fail
      <4>2. IdOf(c) = c BY <3>2 DEF IdOf
      <4>3. QED BY <1>3, <3>1, <3>2, <4>1, <4>2
    <3>3. CASE c \notin Background
      <4>1. store' = store BY <2>4, <3>3 DEF Fail
      <4>2. QED BY <1>3, <3>1, <4>1
    <3>4. QED BY <3>2, <3>3
  <2>5. QED BY <1>5, <2>1, <2>2, <2>3, <2>4 DEF CallerStep
<1>6. QED BY <1>2, <1>4, <1>5 DEF Next

LEMMA HeldIsBacked == Inv /\ HeldOK => LaunchIsBacked
<1> SUFFICES ASSUME Inv, HeldOK, NEW i \in Ids, Shown(i) = "running"
             PROVE  /\ i \in Background
                    /\ caller[i].at \in {"reserved", "started", "running", "ended", "broken",
                                         "unstarted", "refused"}
  BY DEF LaunchIsBacked
<1>1. i \in DOMAIN store /\ store[i].status = "running" BY DEF Shown
<1>2. \A c \in RunsOf(i) : EndOf(c) = "none"
  <2>1. Agrees(i, store[i].status) BY <1>1 DEF Inv, ShownOK
  <2>2. \A c \in Callers : EndOf(c) \in {"none", "completed", "failed"} BY DEF EndOf
  <2>3. QED BY <1>1, <2>1, <2>2 DEF Agrees, RunsOf
<1>3. i \in Background
  <2>1. ASSUME i \notin Background PROVE FALSE
    <3>1. PICK f \in Foreground : GivenId[f] = i /\ At(f, "done") BY <1>1, <2>1 DEF HeldOK
    <3>2. f \in RunsOf(i) BY <3>1, IdOfType DEF RunsOf
    <3>3. EndOf(f) = "completed" BY <3>1 DEF EndOf, At
    <3>4. QED BY <1>2, <3>2, <3>3
  <2>2. QED BY <2>1
<1>4. caller[i].at \in Stages
  <2>1. i \in Callers BY <1>3 DEF Callers
  <2>2. QED BY <2>1 DEF Inv, TypeOK
<1>5. /\ ~At(i, "new") /\ ~At(i, "stamped") BY <1>1, <1>3 DEF HeldOK
<1>6. ~At(i, "done") /\ ~At(i, "failed")
  <2>1. i \in RunsOf(i) BY <1>3, IdOfType DEF RunsOf
  <2>2. EndOf(i) = "none" BY <1>2, <2>1
  <2>3. QED BY <1>3, <2>2 DEF EndOf, At
<1>7. QED BY <1>3, <1>4, <1>5, <1>6 DEF At, Stages

\* LaunchIsBacked: no entry is left running by a writer that is done with it, whatever
\* trims and resets come between.  With LaunchesAdvance and fairness this is why
\* RunningEnds holds.
THEOREM RunningHasAWriter == Spec => []LaunchIsBacked
<1>1. Init => HeldOK BY DEF Init, HeldOK
<1>2. Inv /\ HeldOK /\ [Next]_vars => HeldOK' BY HeldStep
<1>3. QED BY <1>1, <1>2, HeldIsBacked, Invariance, PTL DEF Spec
=============================================================================
