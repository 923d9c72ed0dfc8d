---------------------------- MODULE RunStreamProofs ----------------------------
(***************************************************************************)
(* Proofs about RunStream, for any publishers and streams, any sizes of    *)
(* the buffer and the queues, any number of events and resets, and clients *)
(* that may leave before they are served.                                  *)
(***************************************************************************)
EXTENDS RunStream, TLAPS, SequenceTheorems, FiniteSetTheorems

Pos == Nat \ {0}
StreamRec ==
  [at : {"new", "opened", "serving", "ended", "gone", "refused"},
   from : Elapsed \cup {FromStart}, truncated : BOOLEAN, start : Pos,
   snapshot : Seq(Pos), queue : Seq(Pos), taken : Seq(Pos),
   skipped : SUBSET Pos, lost : SUBSET Pos, closing : BOOLEAN, gap : BOOLEAN]
PubRec ==
  [at : {"idle", "put", "full", "again", "raised"}, id : Nat, to : Streams \cup {NoStream}]
Types ==
  /\ history \in Seq(Event) /\ first \in Pos /\ truncated \in BOOLEAN
  /\ first <= Len(history) + 1 /\ Len(history) + 1 - first <= BufferSize
  /\ subscriber \in Streams \cup {NoStream} /\ resets \in 0 .. MaxResets
  /\ pub \in [Publishers -> PubRec] /\ stream \in [Streams -> StreamRec]

\* What a stream was given or has in its copy and its queue.
Got(s) == ToSet(Received(s))
\* The order of the events of one publisher; the ids of different publishers differ, so
\* that no event is there twice.
OrderedFor(s) ==
  \A i, j \in 1 .. Len(Received(s)) :
    i < j /\ history[Received(s)[i]].by = history[Received(s)[j]].by
      => Received(s)[i] < Received(s)[j]
\* What is accounted for: no event between the oldest and the newest is missing.
CompleteFor(s) ==
  \E last \in 0 .. Len(history) :
    /\ Accounted(s) = stream[s].start .. last /\ stream[s].start <= last + 1
    /\ subscriber = s => last = Len(history)
StreamOK(s) ==
  /\ Len(stream[s].queue) <= QueueSize
  /\ Got(s) \subseteq Ids /\ stream[s].lost \subseteq Ids /\ stream[s].skipped \subseteq Ids
  /\ stream[s].lost \cap Got(s) = {}
  /\ OrderedFor(s)
  /\ Opened(s) => CompleteFor(s)
  /\ subscriber = s => Opened(s)

Busy(p) == pub[p].at \in {"put", "full", "again"}
\* The stream of publisher p has an event of another one.
Foreign(p) == \E i \in Ids : i \in Accounted(pub[p].to) /\ history[i].by # p
\* An event on its way is its publisher's newest, and its place is free unless another
\* publisher came between.
PubOK(p) ==
  /\ pub[p].id \in Ids \cup {0}
  /\ Busy(p) =>
       /\ pub[p].to \in Streams /\ Opened(pub[p].to)
       /\ pub[p].id \in Ids /\ history[pub[p].id].by = p
       /\ pub[p].id \notin stream[pub[p].to].lost
       /\ \A i \in Got(pub[p].to) : history[i].by = p => i < pub[p].id
  /\ pub[p].at = "again" => Len(stream[pub[p].to].queue) < QueueSize \/ Foreign(p)
  /\ pub[p].at = "raised" => pub[p].to \in Streams /\ Opened(pub[p].to) /\ Foreign(p)
Inv ==
  /\ Types
  /\ \A s \in Streams : StreamOK(s)
  /\ \A p \in Publishers : PubOK(p)

-----------------------------------------------------------------------------
(* Sequences *)

\* The elements of a sequence are those at its positions.
LEMMA Elements ==
  ASSUME NEW S, NEW q \in Seq(S)
  PROVE  ToSet(q) = {q[i] : i \in 1 .. Len(q)} /\ ToSet(q) \subseteq S
BY LenProperties, ElementOfSeq DEF ToSet

\* Taking the head of the middle part leaves the whole as it is.
LEMMA TakeMiddle ==
  ASSUME NEW S, NEW a \in Seq(S), NEW b \in Seq(S), NEW c \in Seq(S), b # << >>
  PROVE  Append(a, Head(b)) \o Tail(b) \o c = a \o b \o c
<1>1. /\ Head(b) \in S /\ Tail(b) \in Seq(S) /\ Len(Tail(b)) = Len(b) - 1
      /\ \A i \in 1 .. Len(Tail(b)) : Tail(b)[i] = b[i + 1]
      /\ Len(b) \in Nat \ {0} /\ Len(a) \in Nat /\ Head(b) = b[1]
  BY HeadTailProperties, EmptySeq, LenProperties
<1> DEFINE a2 == Append(a, Head(b))
<1>2. /\ a2 \in Seq(S) /\ Len(a2) = Len(a) + 1
      /\ \A i \in 1 .. Len(a) : a2[i] = a[i]
      /\ a2[Len(a) + 1] = b[1]
  BY <1>1, AppendProperties
<1> HIDE DEF a2
<1>3. a2 \o Tail(b) = a \o b
  <2>1. /\ a2 \o Tail(b) \in Seq(S) /\ Len(a2 \o Tail(b)) = Len(a) + Len(b)
        /\ \A i \in 1 .. Len(a) + Len(b) : (a2 \o Tail(b))[i] =
             IF i <= Len(a) + 1 THEN a2[i] ELSE Tail(b)[i - (Len(a) + 1)]
    BY <1>1, <1>2, ConcatProperties
  <2>2. /\ a \o b \in Seq(S) /\ Len(a \o b) = Len(a) + Len(b)
        /\ \A i \in 1 .. Len(a) + Len(b) : (a \o b)[i] =
             IF i <= Len(a) THEN a[i] ELSE b[i - Len(a)]
    BY ConcatProperties
  <2>3. ASSUME NEW i \in 1 .. Len(a) + Len(b) PROVE (a2 \o Tail(b))[i] = (a \o b)[i]
    <3>1. CASE i <= Len(a) BY <1>1, <1>2, <2>1, <2>2, <3>1
    <3>2. CASE i = Len(a) + 1 BY <1>1, <1>2, <2>1, <2>2, <3>2
    <3>3. CASE i > Len(a) + 1
      <4>1. i - (Len(a) + 1) \in 1 .. Len(Tail(b)) /\ (i - (Len(a) + 1)) + 1 = i - Len(a)
        BY <1>1, <3>3
      <4>2. Tail(b)[i - (Len(a) + 1)] = b[i - Len(a)] BY <1>1, <4>1
      <4>3. QED BY <1>1, <2>1, <2>2, <3>3, <4>2
    <3>4. Len(a) \in Int /\ i \in Int BY <1>1
    <3>5. i <= Len(a) \/ i = Len(a) + 1 \/ i > Len(a) + 1 BY <3>4
    <3>6. QED BY <3>1, <3>2, <3>3, <3>5
  <2>4. QED BY <2>1, <2>2, <2>3, SeqEqual
<1>4. QED BY <1>3 DEF a2

\* The head of the middle part is in the whole.
LEMMA HeadOfMiddle ==
  ASSUME NEW S, NEW a \in Seq(S), NEW b \in Seq(S), NEW c \in Seq(S), b # << >>
  PROVE  Head(b) \in ToSet(a \o b \o c) /\ Head(b) \in S
<1>1. Head(b) \in S /\ Head(b) = b[1] /\ Len(b) \in Nat \ {0} /\ Len(a) \in Nat
  BY HeadTailProperties, EmptySeq, LenProperties
<1>2. /\ a \o b \in Seq(S) /\ Len(a \o b) = Len(a) + Len(b)
      /\ \A i \in 1 .. Len(a) + Len(b) : (a \o b)[i] =
           IF i <= Len(a) THEN a[i] ELSE b[i - Len(a)]
  BY ConcatProperties
<1>3. (a \o b)[Len(a) + 1] = Head(b) BY <1>1, <1>2
<1> DEFINE ab == a \o b
<1>4. /\ ab \in Seq(S) /\ Len(ab) \in Nat /\ Len(a) + 1 \in 1 .. Len(ab)
      /\ ab[Len(a) + 1] = Head(b)
  BY <1>1, <1>2, <1>3
<1> HIDE DEF ab
<1>5. /\ ab \o c \in Seq(S) /\ Len(ab \o c) = Len(ab) + Len(c) /\ Len(c) \in Nat
      /\ \A i \in 1 .. Len(ab) + Len(c) : (ab \o c)[i] =
           IF i <= Len(ab) THEN ab[i] ELSE c[i - Len(ab)]
  BY <1>4, ConcatProperties, LenProperties
<1>6. Len(a) + 1 \in 1 .. Len(ab \o c) /\ (ab \o c)[Len(a) + 1] = Head(b)
  BY <1>1, <1>4, <1>5
<1> DEFINE w == ab \o c
<1>7. w \in Seq(S) /\ Len(a) + 1 \in 1 .. Len(w) /\ w[Len(a) + 1] = Head(b)
  BY <1>5, <1>6
<1> HIDE DEF w
<1>8. Head(b) \in ToSet(w) BY <1>7, Elements
<1>9. QED BY <1>1, <1>8 DEF ab, w

\* Taking the head of the last part when the middle is empty leaves the whole as it is.
LEMMA TakeLast ==
  ASSUME NEW S, NEW a \in Seq(S), NEW c \in Seq(S), c # << >>
  PROVE  Append(a, Head(c)) \o << >> \o Tail(c) = a \o << >> \o c
<1>1. << >> \in Seq(S) OBVIOUS
<1>2. Head(c) \in S /\ Tail(c) \in Seq(S) BY HeadTailProperties, EmptySeq
<1>3. Append(a, Head(c)) \in Seq(S) BY <1>2, AppendProperties
<1>4. Append(a, Head(c)) \o << >> = Append(a, Head(c)) /\ a \o << >> = a
  BY <1>3, ConcatEmptySeq
<1>5. Append(a, Head(c)) \o Tail(c) \o << >> = a \o c \o << >> BY <1>1, TakeMiddle
<1>6. Append(a, Head(c)) \o Tail(c) \in Seq(S) /\ a \o c \in Seq(S)
  BY <1>2, <1>3, ConcatProperties
<1>7. /\ Append(a, Head(c)) \o Tail(c) \o << >> = Append(a, Head(c)) \o Tail(c)
      /\ a \o c \o << >> = a \o c
  BY <1>6, ConcatEmptySeq
<1>8. QED BY <1>4, <1>5, <1>7

\* An element at the end of the last part is one at the end of the whole.
LEMMA AppendLast ==
  ASSUME NEW S, NEW a \in Seq(S), NEW c \in Seq(S), NEW x \in S
  PROVE  a \o Append(c, x) = Append(a \o c, x)
<1>1. << x >> \in Seq(S) OBVIOUS
<1>2. Append(c, x) = c \o <<x>> BY AppendIsConcat
<1>3. a \o c \in Seq(S) BY ConcatProperties
<1>4. Append(a \o c, x) = (a \o c) \o <<x>> BY <1>3, AppendIsConcat
<1>5. (a \o c) \o <<x>> = a \o (c \o <<x>>) BY <1>1, ConcatAssociative
<1>6. QED BY <1>2, <1>4, <1>5

\* Without the head of the last part the whole lacks one element.
LEMMA DropLast ==
  ASSUME NEW S, NEW a \in Seq(S), NEW c \in Seq(S), c # << >>
  PROVE  LET R == a \o c  T == a \o Tail(c)  k == Len(a) + 1 IN
           /\ R \in Seq(S) /\ T \in Seq(S) /\ k \in 1 .. Len(R) /\ R[k] = Head(c)
           /\ Len(T) = Len(R) - 1 /\ Len(R) \in Nat \ {0}
           /\ \A i \in 1 .. Len(T) : T[i] = IF i < k THEN R[i] ELSE R[i + 1]
<1>1. /\ Tail(c) \in Seq(S) /\ Len(Tail(c)) = Len(c) - 1
      /\ \A i \in 1 .. Len(Tail(c)) : Tail(c)[i] = c[i + 1]
      /\ Len(c) \in Nat \ {0} /\ Len(a) \in Nat /\ Head(c) = c[1]
  BY HeadTailProperties, EmptySeq, LenProperties
<1> DEFINE R == a \o c
           T == a \o Tail(c)
           k == Len(a) + 1
<1>2. /\ R \in Seq(S) /\ Len(R) = Len(a) + Len(c)
      /\ \A i \in 1 .. Len(a) + Len(c) : R[i] = IF i <= Len(a) THEN a[i] ELSE c[i - Len(a)]
  BY ConcatProperties
<1>3. /\ T \in Seq(S) /\ Len(T) = Len(a) + Len(c) - 1
      /\ \A i \in 1 .. Len(a) + Len(c) - 1 :
           T[i] = IF i <= Len(a) THEN a[i] ELSE Tail(c)[i - Len(a)]
  BY <1>1, ConcatProperties
<1> HIDE DEF R, T
<1>4. k \in 1 .. Len(R) /\ R[k] = Head(c) BY <1>1, <1>2
<1>5. ASSUME NEW i \in 1 .. Len(T) PROVE T[i] = IF i < k THEN R[i] ELSE R[i + 1]
  <2>1. CASE i < k BY <1>1, <1>2, <1>3, <2>1
  <2>2. CASE i >= k
    <3>1. i - Len(a) \in 1 .. Len(Tail(c)) /\ (i - Len(a)) + 1 = (i + 1) - Len(a)
      BY <1>1, <1>3, <2>2
    <3>2. Tail(c)[i - Len(a)] = c[(i + 1) - Len(a)] BY <1>1, <3>1
    <3>3. T[i] = Tail(c)[i - Len(a)] BY <1>1, <1>3, <2>2
    <3>4. R[i + 1] = c[(i + 1) - Len(a)] BY <1>1, <1>2, <1>3, <2>2
    <3>5. ~(i < k) BY <1>1, <1>3, <2>2
    <3>6. QED BY <3>2, <3>3, <3>4, <3>5
  <2>3. QED BY <1>1, <1>3, <2>1, <2>2
<1>6. QED BY <1>1, <1>2, <1>3, <1>4, <1>5 DEF R, T

\* The copy of the buffer counts up.
LEMMA CopyCounts ==
  ASSUME Types
  PROVE  /\ IdsFrom(first) \in Seq(Pos)
         /\ Len(IdsFrom(first)) = Len(history) + 1 - first
         /\ \A i \in 1 .. Len(history) + 1 - first : IdsFrom(first)[i] = first + i - 1
<1>1. Len(history) \in Nat /\ first \in Nat /\ first > 0 BY LenProperties DEF Types, Pos
<1> DEFINE n == Len(history) + 1 - first
<1>2. n \in Nat BY <1>1 DEF Types
<1>3. IdsFrom(first) \in [1 .. n -> Pos] BY <1>1, <1>2 DEF IdsFrom, Pos
<1>4. IdsFrom(first) \in Seq(Pos) BY <1>2, <1>3, SeqDef
<1>5. Len(IdsFrom(first)) = n
  <2>1. Len(IdsFrom(first)) \in Nat /\ DOMAIN IdsFrom(first) = 1 .. Len(IdsFrom(first))
    BY <1>4, LenProperties
  <2>2. DOMAIN IdsFrom(first) = 1 .. n BY <1>3
  <2>3. QED BY <1>2, <2>1, <2>2
<1>6. QED BY <1>4, <1>5 DEF IdsFrom

-----------------------------------------------------------------------------
(* What a step leaves of a stream and of a publisher *)

LEMMA Constants ==
  BufferSize \in Nat \ {0} /\ QueueSize \in Nat \ {0} /\ MaxResets \in Nat
BY StreamConstants

\* The parts of a stream.
LEMMA Parts ==
  ASSUME Types, NEW s \in Streams
  PROVE  /\ stream[s].taken \in Seq(Pos) /\ stream[s].snapshot \in Seq(Pos)
         /\ stream[s].queue \in Seq(Pos) /\ stream[s].taken \o stream[s].snapshot \in Seq(Pos)
         /\ Received(s) \in Seq(Pos) /\ Len(history) \in Nat
         /\ Received(s) = (stream[s].taken \o stream[s].snapshot) \o stream[s].queue
         /\ Len(stream[s].queue) \in Nat
<1>1. stream[s] \in StreamRec /\ history \in Seq(Event) BY DEF Types
<1>2. /\ stream[s].taken \in Seq(Pos) /\ stream[s].snapshot \in Seq(Pos)
      /\ stream[s].queue \in Seq(Pos)
  BY <1>1 DEF StreamRec
<1>3. stream[s].taken \o stream[s].snapshot \in Seq(Pos) BY <1>2, ConcatProperties
<1>4. /\ Received(s) = (stream[s].taken \o stream[s].snapshot) \o stream[s].queue
      /\ Received(s) \in Seq(Pos)
  BY <1>2, <1>3, ConcatProperties, ConcatAssociative DEF Received
<1>5. QED BY <1>1, <1>2, <1>3, <1>4, LenProperties

\* The history keeps what it has.
Extends == Len(history) <= Len(history') /\ \A i \in Ids : history'[i] = history[i]

\* A stream that keeps its events, with what is on its way to it, stays in order.
LEMMA StreamStays ==
  ASSUME Types, Types', NEW s \in Streams, StreamOK(s), Extends,
         Received(s)' = Received(s), stream'[s].lost = stream[s].lost,
         stream'[s].skipped \subseteq Ids, Len(stream'[s].queue) <= Len(stream[s].queue),
         stream'[s].start = stream[s].start, Opened(s)' = Opened(s),
         Carried(s)' = Carried(s),
         subscriber' = s => subscriber = s /\ Len(history') = Len(history)
  PROVE  StreamOK(s)'
<1>1. Received(s) \in Seq(Pos) /\ Len(history) \in Nat /\ Len(history') \in Nat
  BY Parts, LenProperties DEF Types
<1>2. Got(s)' = Got(s) /\ Accounted(s)' = Accounted(s) BY DEF Got, Accounted
<1>3. Ids \subseteq Ids' BY <1>1 DEF Extends, Ids
<1>4. Len(stream'[s].queue) <= QueueSize
  <2>1. stream'[s] \in StreamRec BY DEF Types
  <2>2. Len(stream'[s].queue) \in Nat BY <2>1, LenProperties DEF StreamRec
  <2>3. QED BY <2>2, Parts, Constants DEF StreamOK
<1>5. OrderedFor(s)'
  <2>1. ASSUME NEW i \in 1 .. Len(Received(s)) PROVE Received(s)[i] \in Ids
    <3>1. Received(s)[i] \in Got(s) BY <1>1, Elements DEF Got
    <3>2. QED BY <3>1 DEF StreamOK
  <2>2. ASSUME NEW i \in 1 .. Len(Received(s))
        PROVE  history'[Received(s)[i]] = history[Received(s)[i]]
    BY <2>1 DEF Extends
  <2>3. OrderedFor(s) BY DEF StreamOK
  <2>4. QED BY <2>2, <2>3 DEF OrderedFor
<1>6. Opened(s)' => CompleteFor(s)'
  <2>1. SUFFICES ASSUME Opened(s), CompleteFor(s) PROVE CompleteFor(s)'
    BY DEF StreamOK
  <2>2. PICK last \in 0 .. Len(history) :
          /\ Accounted(s) = stream[s].start .. last /\ stream[s].start <= last + 1
          /\ subscriber = s => last = Len(history)
    BY <2>1 DEF CompleteFor
  <2>3. /\ last \in 0 .. Len(history')
        /\ Accounted(s)' = stream'[s].start .. last /\ stream'[s].start <= last + 1
        /\ subscriber' = s => last = Len(history')
    BY <1>1, <1>2, <2>2 DEF Extends
  <2>4. QED BY <2>3 DEF CompleteFor
<1>7. QED BY <1>2, <1>3, <1>4, <1>5, <1>6 DEF StreamOK

\* A publisher that does nothing keeps its place: what a stream gains belongs to others.
LEMMA PubStays ==
  ASSUME Types, Types', NEW p \in Publishers, PubOK(p), Extends, pub'[p] = pub[p],
         \A s \in Streams : StreamOK(s),
         \A s \in Streams : Opened(s) =>
           /\ Opened(s)' /\ Accounted(s) \subseteq Accounted(s)'
           /\ \A i \in Got(s)' : i \in Got(s) \/ (i \in Ids /\ history[i].by # p)
           /\ \A i \in stream'[s].lost : i \in stream[s].lost \/ i \in Got(s) \/ history[i].by # p
           /\ \/ Len(stream'[s].queue) <= Len(stream[s].queue)
              \/ \E i \in Ids : i \in Accounted(s)' /\ history[i].by # p
  PROVE  PubOK(p)'
<1>1. /\ pub[p] \in PubRec /\ Len(history) \in Nat /\ Len(history') \in Nat
  BY LenProperties DEF Types
<1>2. Ids \subseteq Ids' BY <1>1 DEF Extends, Ids
<1>3. pub'[p].id \in Ids' \cup {0} BY <1>2 DEF PubOK
<1>4. ASSUME pub[p].to \in Streams, Opened(pub[p].to), Foreign(p) PROVE Foreign(p)'
  BY <1>2, <1>4 DEF Foreign, Extends
<1>5. ASSUME Busy(p)
      PROVE  /\ pub[p].to \in Streams /\ Opened(pub[p].to)'
             /\ pub[p].id \in Ids /\ history'[pub[p].id].by = p
             /\ pub[p].id \notin stream'[pub[p].to].lost
             /\ \A i \in Got(pub[p].to)' : history'[i].by = p => i < pub[p].id
  <2>1. /\ pub[p].to \in Streams /\ Opened(pub[p].to)
        /\ pub[p].id \in Ids /\ history[pub[p].id].by = p
        /\ pub[p].id \notin stream[pub[p].to].lost
        /\ \A i \in Got(pub[p].to) : history[i].by = p => i < pub[p].id
    BY <1>5 DEF PubOK
  <2>2. pub[p].id \notin Got(pub[p].to) BY <1>1, <2>1 DEF Ids
  <2>3. Got(pub[p].to) \subseteq Ids BY <2>1 DEF StreamOK
  <2>4. QED BY <2>1, <2>2, <2>3 DEF Extends
<1>6. ASSUME pub[p].at = "again"
      PROVE  Len(stream'[pub[p].to].queue) < QueueSize \/ Foreign(p)'
  <2>1. Busy(p) /\ pub[p].to \in Streams /\ Opened(pub[p].to)
    BY <1>6 DEF PubOK, Busy
  <2>2. stream'[pub[p].to] \in StreamRec BY <2>1 DEF Types
  <2>3. Len(stream'[pub[p].to].queue) \in Nat /\ Len(stream[pub[p].to].queue) \in Nat
    BY <2>1, <2>2, Parts, LenProperties DEF StreamRec
  <2>4. CASE \E i \in Ids : i \in Accounted(pub[p].to)' /\ history[i].by # p
    BY <1>2, <2>4 DEF Foreign, Extends
  <2>5. CASE Foreign(p) BY <1>4, <2>1, <2>5
  <2>6. CASE /\ Len(stream[pub[p].to].queue) < QueueSize
             /\ Len(stream'[pub[p].to].queue) <= Len(stream[pub[p].to].queue)
    BY <2>3, <2>6, Constants
  <2>7. QED BY <1>6, <2>1, <2>4, <2>5, <2>6 DEF PubOK
<1>7. ASSUME pub[p].at = "raised" PROVE pub[p].to \in Streams /\ Opened(pub[p].to)' /\ Foreign(p)'
  <2>1. pub[p].to \in Streams /\ Opened(pub[p].to) /\ Foreign(p) BY <1>7 DEF PubOK
  <2>2. QED BY <1>4, <2>1
<1>8. Busy(p)' <=> Busy(p) BY DEF Busy
<1>9. QED BY <1>2, <1>3, <1>5, <1>6, <1>7, <1>8 DEF PubOK

\* A stream's record after an update is a stream's record.
LEMMA NewAt ==
  ASSUME NEW r \in StreamRec, NEW g \in BOOLEAN,
         NEW a \in {"new", "opened", "serving", "ended", "gone", "refused"}
  PROVE  /\ [r EXCEPT !.at = a] \in StreamRec
         /\ [r EXCEPT !.at = a, !.gap = g] \in StreamRec
BY DEF StreamRec

LEMMA NewQueue ==
  ASSUME NEW r \in StreamRec, NEW q \in Seq(Pos), NEW l \in SUBSET Pos
  PROVE  /\ [r EXCEPT !.queue = q] \in StreamRec
         /\ [r EXCEPT !.lost = l] \in StreamRec
         /\ [r EXCEPT !.queue = q, !.lost = l] \in StreamRec
BY DEF StreamRec

-----------------------------------------------------------------------------
(* The steps of the generators *)

\* What a step of the generator of s is: the events it has and will get stay, whether
\* its own registration goes or not.
Moves(s) ==
  /\ UNCHANGED <<bufferVars, resets, pub>>
  /\ subscriber' \in {subscriber, NoStream}
  /\ stream' \in [Streams -> StreamRec]
  /\ \A t \in Streams \ {s} : stream'[t] = stream[t]
  /\ Received(s)' = Received(s) /\ stream'[s].lost = stream[s].lost
  /\ stream'[s].start = stream[s].start /\ stream'[s].skipped \subseteq Ids
  /\ Len(stream'[s].queue) <= Len(stream[s].queue)
  /\ Opened(s) /\ Opened(s)'

LEMMA MovesKeep ==
  ASSUME Inv, NEW s \in Streams, Moves(s)
  PROVE  Inv'
<1>1. Types' BY DEF Inv, Types, Moves, bufferVars
<1>2. Extends /\ Len(history') = Len(history) /\ Len(history) \in Nat
  BY LenProperties DEF Inv, Types, Moves, bufferVars, Extends
<1>3. \A t \in Streams : Carried(t)' = Carried(t) BY DEF Moves, Carried
<1>4. ASSUME NEW t \in Streams
      PROVE  /\ Received(t)' = Received(t) /\ stream'[t].lost = stream[t].lost
             /\ stream'[t].start = stream[t].start /\ stream'[t].skipped \subseteq Ids
             /\ Len(stream'[t].queue) <= Len(stream[t].queue)
             /\ Opened(t)' = Opened(t)
  <2>1. CASE t = s BY <2>1 DEF Moves, Opened
  <2>2. CASE t # s
    <3>1. stream'[t] = stream[t] /\ stream[t].skipped \subseteq Ids
      BY <2>2 DEF Moves, Inv, StreamOK
    <3>2. Len(stream[t].queue) \in Nat BY Parts DEF Inv
    <3>3. QED BY <3>1, <3>2 DEF Received, Opened
  <2>3. QED BY <2>1, <2>2
<1>5. ASSUME NEW t \in Streams PROVE StreamOK(t)'
  <2>1. subscriber' = t => subscriber = t BY NoValues DEF Moves
  <2>2. QED BY <1>1, <1>2, <1>3, <1>4, <2>1, StreamStays DEF Inv
<1>6. ASSUME NEW p \in Publishers PROVE PubOK(p)'
  <2>1. pub'[p] = pub[p] BY DEF Moves
  <2>2. ASSUME NEW t \in Streams
        PROVE  Got(t)' = Got(t) /\ Accounted(t)' = Accounted(t)
    BY <1>3, <1>4 DEF Got, Accounted
  <2>3. Types /\ PubOK(p) /\ \A t \in Streams : StreamOK(t) BY DEF Inv
  <2>4. QED BY <1>1, <1>2, <1>4, <2>1, <2>2, <2>3, PubStays
<1>7. QED BY <1>1, <1>5, <1>6 DEF Inv

\* The head of the copy, or of the queue once the copy is empty, is taken.
LEMMA TakesFromSnapshot ==
  ASSUME Types, NEW s \in Streams, stream[s].snapshot # << >>,
         stream'[s].taken = Append(stream[s].taken, Head(stream[s].snapshot)),
         stream'[s].snapshot = Tail(stream[s].snapshot),
         stream'[s].queue = stream[s].queue
  PROVE  /\ Received(s)' = Received(s) /\ Head(stream[s].snapshot) \in Got(s)
         /\ Head(stream[s].snapshot) \in Pos
<1>1. /\ stream[s].taken \in Seq(Pos) /\ stream[s].snapshot \in Seq(Pos)
      /\ stream[s].queue \in Seq(Pos)
  BY Parts
<1>2. Append(stream[s].taken, Head(stream[s].snapshot)) \o Tail(stream[s].snapshot)
        \o stream[s].queue
      = stream[s].taken \o stream[s].snapshot \o stream[s].queue
  <2> DEFINE a == stream[s].taken
             b == stream[s].snapshot
             c == stream[s].queue
  <2>1. a \in Seq(Pos) /\ b \in Seq(Pos) /\ c \in Seq(Pos) /\ b # << >> BY <1>1
  <2> HIDE DEF a, b, c
  <2>2. Append(a, Head(b)) \o Tail(b) \o c = a \o b \o c BY <2>1, TakeMiddle
  <2>3. QED BY <2>2 DEF a, b, c
<1>3. /\ Head(stream[s].snapshot)
           \in ToSet(stream[s].taken \o stream[s].snapshot \o stream[s].queue)
      /\ Head(stream[s].snapshot) \in Pos
  BY <1>1, HeadOfMiddle
<1>4. QED BY <1>2, <1>3 DEF Received, Got

LEMMA TakesFromQueue ==
  ASSUME Types, NEW s \in Streams, stream[s].snapshot = << >>, stream[s].queue # << >>,
         stream'[s].taken = Append(stream[s].taken, Head(stream[s].queue)),
         stream'[s].snapshot = << >>,
         stream'[s].queue = Tail(stream[s].queue)
  PROVE  /\ Received(s)' = Received(s) /\ Head(stream[s].queue) \in Pos
         /\ Len(stream'[s].queue) <= Len(stream[s].queue)
<1>1. stream[s].taken \in Seq(Pos) /\ stream[s].queue \in Seq(Pos) BY Parts
<1>2. Append(stream[s].taken, Head(stream[s].queue)) \o << >> \o Tail(stream[s].queue)
      = stream[s].taken \o << >> \o stream[s].queue
  BY <1>1, TakeLast
<1>3. /\ Head(stream[s].queue) \in Pos
      /\ Len(Tail(stream[s].queue)) = Len(stream[s].queue) - 1
      /\ Len(stream[s].queue) \in Nat
  BY <1>1, HeadTailProperties, EmptySeq, LenProperties
<1>4. Received(s)' = Received(s) BY <1>2 DEF Received
<1>5. Len(stream'[s].queue) <= Len(stream[s].queue) BY <1>3
<1>6. QED BY <1>3, <1>4, <1>5

LEMMA BeginMoves ==
  ASSUME Inv, NEW s \in Streams, Begin(s)
  PROVE  Moves(s)
<1> DEFINE g == /\ stream[s].from # FromStart /\ stream[s].truncated
                /\ stream[s].snapshot # << >>
                /\ stream[s].from < history[Head(stream[s].snapshot)].elapsed
<1>1. /\ stream[s].at = "opened"
      /\ stream' = [stream EXCEPT ![s].at = "serving", ![s].gap = g]
      /\ UNCHANGED <<bufferVars, subscriber, resets, pub>>
  BY DEF Begin
<1>2. g \in BOOLEAN OBVIOUS
<1> HIDE DEF g
<1>3. stream \in [Streams -> StreamRec] /\ Len(stream[s].queue) \in Nat
      /\ stream[s].skipped \subseteq Ids
  BY Parts DEF Inv, Types, StreamOK
<1>4. stream' \in [Streams -> StreamRec]
  <2>1. stream[s] \in StreamRec BY <1>3
  <2>2. [stream[s] EXCEPT !.at = "serving", !.gap = g] \in StreamRec BY <1>2, <2>1, NewAt
  <2>3. QED BY <1>1, <1>3, <2>2
<1>5. /\ \A t \in Streams \ {s} : stream'[t] = stream[t]
      /\ stream'[s].at = "serving" /\ stream'[s].taken = stream[s].taken
      /\ stream'[s].snapshot = stream[s].snapshot /\ stream'[s].queue = stream[s].queue
      /\ stream'[s].lost = stream[s].lost /\ stream'[s].start = stream[s].start
      /\ stream'[s].skipped = stream[s].skipped
  BY <1>1, <1>3 DEF StreamRec
<1>6. Received(s)' = Received(s) BY <1>5 DEF Received
<1>7. Opened(s) /\ Opened(s)' BY <1>1, <1>5 DEF Opened
<1>8. QED BY <1>1, <1>3, <1>4, <1>5, <1>6, <1>7 DEF Moves

LEMMA ReplayMoves ==
  ASSUME Inv, NEW s \in Streams, Replay(s)
  PROVE  Moves(s)
<1> DEFINE i == Head(stream[s].snapshot)
           k == IF Filtered(s, i) THEN stream[s].skipped \cup {i} ELSE stream[s].skipped
           c == stream[s].closing \/ (~Filtered(s, i) /\ history[i].terminal)
           q == Tail(stream[s].snapshot)
           a == Append(stream[s].taken, i)
           r == stream[s]
           r2 == stream'[s]
<1>1. /\ r.at = "serving" /\ r.snapshot # << >>
      /\ stream' = [stream EXCEPT ![s].snapshot = q, ![s].taken = a,
                                  ![s].skipped = k, ![s].closing = c]
      /\ UNCHANGED <<bufferVars, subscriber, resets, pub>>
  BY DEF Replay
<1>2. c \in BOOLEAN OBVIOUS
<1>3. /\ stream \in [Streams -> StreamRec] /\ r \in StreamRec /\ Len(r.queue) \in Nat
      /\ r.skipped \subseteq Ids /\ Got(s) \subseteq Ids
      /\ r.taken \in Seq(Pos) /\ r.snapshot \in Seq(Pos)
  BY Parts DEF Inv, Types, StreamOK
<1>4. i \in Got(s) /\ i \in Pos
  BY <1>1, <1>3, HeadOfMiddle, Parts DEF Inv, Got, Received
<1>5. q \in Seq(Pos) /\ a \in Seq(Pos)
  BY <1>1, <1>3, <1>4, HeadTailProperties, AppendProperties
<1>6. k \subseteq Ids /\ k \subseteq Pos
  <2>1. i \in Ids BY <1>3, <1>4
  <2>2. k \subseteq Ids BY <1>3, <2>1
  <2>3. stream[s].skipped \subseteq Pos BY <1>3 DEF StreamRec
  <2>4. QED BY <1>4, <2>2, <2>3
<1> HIDE DEF i, k, c, q, a
<1>7. /\ \A t \in Streams \ {s} : stream'[t] = stream[t]
      /\ r2 = [r EXCEPT !.snapshot = q, !.taken = a, !.skipped = k, !.closing = c]
  BY <1>1, <1>3
<1> HIDE DEF r, r2
<1>8. /\ r2 \in StreamRec /\ r2.at = r.at /\ r2.taken = a /\ r2.lost = r.lost
      /\ r2.start = r.start /\ r2.snapshot = q /\ r2.queue = r.queue /\ r2.skipped = k
  <2>1. r \in StreamRec /\ k \in SUBSET Pos BY <1>3, <1>6
  <2>2. r2 = [r EXCEPT !.snapshot = q, !.taken = a, !.skipped = k, !.closing = c]
    BY <1>7
  <2>3. r2 \in StreamRec BY <1>2, <1>5, <2>1, <2>2 DEF StreamRec
  <2>4. /\ r2.at = r.at /\ r2.taken = a /\ r2.lost = r.lost
        /\ r2.start = r.start /\ r2.snapshot = q /\ r2.queue = r.queue
        /\ r2.skipped = k
    BY <2>1, <2>2 DEF StreamRec
  <2>5. QED BY <2>3, <2>4
<1>9. Received(s)' = Received(s)
  BY <1>1, <1>8, TakesFromSnapshot DEF r, r2, i, q, a, Inv
<1>10. stream' \in [Streams -> StreamRec] BY <1>1, <1>3, <1>7, <1>8 DEF r2
<1>11. Opened(s) /\ Opened(s)' BY <1>1, <1>8 DEF Opened, r, r2
<1>12. QED BY <1>1, <1>3, <1>6, <1>7, <1>8, <1>9, <1>10, <1>11 DEF Moves, r, r2

LEMMA ServeMoves ==
  ASSUME Inv, NEW s \in Streams, Serve(s)
  PROVE  Moves(s)
<1> DEFINE i == Head(stream[s].queue)
           c == stream[s].closing \/ history[i].terminal
           q == Tail(stream[s].queue)
           a == Append(stream[s].taken, i)
           r == stream[s]
           r2 == stream'[s]
<1>1. /\ r.at = "serving" /\ r.snapshot = << >> /\ r.queue # << >>
      /\ stream' = [stream EXCEPT ![s].queue = q, ![s].taken = a, ![s].closing = c]
      /\ UNCHANGED <<bufferVars, subscriber, resets, pub>>
  BY DEF Serve
<1>2. c \in BOOLEAN OBVIOUS
<1>3. /\ stream \in [Streams -> StreamRec] /\ r \in StreamRec
      /\ r.skipped \subseteq Ids
      /\ r.taken \in Seq(Pos) /\ r.queue \in Seq(Pos)
  BY Parts DEF Inv, Types, StreamOK
<1>4. q \in Seq(Pos) /\ a \in Seq(Pos)
  BY <1>1, <1>3, HeadTailProperties, AppendProperties
<1> HIDE DEF i, c, q, a
<1>5. /\ \A t \in Streams \ {s} : stream'[t] = stream[t]
      /\ r2 = [r EXCEPT !.queue = q, !.taken = a, !.closing = c]
  BY <1>1, <1>3
<1> HIDE DEF r, r2
<1>7. /\ r2 \in StreamRec /\ r2.at = r.at /\ r2.taken = a /\ r2.lost = r.lost
      /\ r2.start = r.start /\ r2.queue = q /\ r2.snapshot = r.snapshot
      /\ r2.skipped = r.skipped
  <2>1. r \in StreamRec BY <1>3
  <2>2. r2 = [r EXCEPT !.queue = q, !.taken = a, !.closing = c] BY <1>5
  <2>3. r2 \in StreamRec BY <1>2, <1>4, <2>1, <2>2 DEF StreamRec
  <2>4. /\ r2.at = r.at /\ r2.taken = a /\ r2.lost = r.lost
        /\ r2.start = r.start /\ r2.queue = q /\ r2.snapshot = r.snapshot
        /\ r2.skipped = r.skipped
    BY <2>1, <2>2 DEF StreamRec
  <2>5. QED BY <2>3, <2>4
<1>8. Received(s)' = Received(s) /\ Len(r2.queue) <= Len(r.queue)
  BY <1>1, <1>7, TakesFromQueue DEF r, r2, i, q, a, Inv
<1>9. stream' \in [Streams -> StreamRec] BY <1>1, <1>3, <1>5, <1>7 DEF r2
<1>10. Opened(s) /\ Opened(s)' BY <1>1, <1>7 DEF Opened, r, r2
<1>11. QED BY <1>1, <1>3, <1>5, <1>7, <1>8, <1>9, <1>10 DEF Moves, r, r2

\* A stream that ends, or whose client leaves before or after it began.
LEMMA LeaveMoves ==
  ASSUME Inv, NEW s \in Streams, Expire(s) \/ Disconnect(s) \/ Abandon(s)
  PROVE  Moves(s)
<1>1. PICK at \in {"ended", "gone"} :
        /\ stream[s].at \in {"opened", "serving"}
        /\ stream' = [stream EXCEPT ![s].at = at]
        /\ subscriber' \in {subscriber, NoStream}
        /\ UNCHANGED <<bufferVars, resets, pub>>
  BY DEF Expire, Disconnect, Abandon, Detach, bufferVars
<1>2. /\ stream \in [Streams -> StreamRec] /\ Len(stream[s].queue) \in Nat
      /\ stream[s].skipped \subseteq Ids
  BY Parts DEF Inv, Types, StreamOK
<1>3. stream' \in [Streams -> StreamRec]
  <2>1. [stream[s] EXCEPT !.at = at] \in StreamRec BY <1>2, NewAt
  <2>2. QED BY <1>1, <1>2, <2>1
<1>4. /\ \A t \in Streams \ {s} : stream'[t] = stream[t]
      /\ stream'[s].at = at /\ stream'[s].taken = stream[s].taken
      /\ stream'[s].snapshot = stream[s].snapshot /\ stream'[s].queue = stream[s].queue
      /\ stream'[s].lost = stream[s].lost /\ stream'[s].start = stream[s].start
      /\ stream'[s].skipped = stream[s].skipped
  BY <1>1, <1>2 DEF StreamRec
<1>5. Received(s)' = Received(s) BY <1>4 DEF Received
<1>6. Opened(s) /\ Opened(s)' BY <1>1, <1>4 DEF Opened
<1>7. QED BY <1>1, <1>2, <1>3, <1>4, <1>5, <1>6 DEF Moves

-----------------------------------------------------------------------------
(* The steps of the publishers *)

\* What is on its way to t, publisher by publisher.
LEMMA OnTheirWay ==
  ASSUME NEW t
  PROVE  /\ \A i : i \in Carried(t) <=>
              \E q \in Publishers : pub[q].to = t /\ Busy(q) /\ pub[q].id = i
         /\ \A i : i \in Carried(t)' <=>
              \E q \in Publishers : pub'[q].to = t /\ Busy(q)' /\ pub'[q].id = i
BY DEF Carried, Busy

\* Every event on its way is its own publisher's.
LEMMA CarriedByOne ==
  ASSUME Inv, NEW p \in Publishers, NEW q \in Publishers, p # q, Busy(p), Busy(q)
  PROVE  pub[p].id # pub[q].id
BY DEF Inv, PubOK

LEMMA BusyFacts ==
  ASSUME Inv, NEW p \in Publishers, Busy(p)
  PROVE  /\ pub[p].to \in Streams /\ Opened(pub[p].to) /\ pub[p].id \in Ids
         /\ pub[p].id \in Pos /\ history[pub[p].id].by = p
         /\ pub[p].id \notin stream[pub[p].to].lost
         /\ \A i \in Got(pub[p].to) : history[i].by = p => i < pub[p].id
         /\ pub[p].id \notin Got(pub[p].to)
         /\ pub[p].id \in Carried(pub[p].to)
<1>1. /\ pub[p].to \in Streams /\ Opened(pub[p].to) /\ pub[p].id \in Ids
      /\ history[pub[p].id].by = p
      /\ pub[p].id \notin stream[pub[p].to].lost
      /\ \A i \in Got(pub[p].to) : history[i].by = p => i < pub[p].id
  BY DEF Inv, PubOK
<1>2. pub[p].id \in Pos /\ pub[p].id \in Nat BY <1>1, LenProperties DEF Ids, Pos, Inv, Types
<1>3. pub[p].id \notin Got(pub[p].to) BY <1>1, <1>2
<1>4. pub[p].id \in Carried(pub[p].to) BY OnTheirWay
<1>5. QED BY <1>1, <1>2, <1>3, <1>4

\* The others keep their place when p changes one stream s and nothing in the buffer.
LEMMA OthersStay ==
  ASSUME Inv, Types', NEW p \in Publishers, NEW s \in Streams,
         UNCHANGED <<bufferVars, subscriber, resets>>,
         \A q \in Publishers \ {p} : pub'[q] = pub[q],
         \A t \in Streams \ {s} : stream'[t] = stream[t] /\ Carried(t)' = Carried(t),
         StreamOK(s)', PubOK(p)', Opened(s)', Accounted(s)' = Accounted(s),
         \A i \in Got(s)' : i \in Got(s) \/ (i \in Ids /\ history[i].by = p),
         \A i \in stream'[s].lost : i \in stream[s].lost \/ i \in Got(s) \/ history[i].by = p,
         \/ Len(stream'[s].queue) <= Len(stream[s].queue)
         \/ \E i \in Ids : i \in Accounted(s) /\ history[i].by = p
  PROVE  Inv'
<1>1. Extends /\ Types /\ Len(history) \in Nat /\ Len(history') = Len(history)
  BY LenProperties DEF Inv, Types, bufferVars, Extends
<1>2. ASSUME NEW t \in Streams, t # s PROVE StreamOK(t)'
  <2>1. stream'[t] = stream[t] /\ Carried(t)' = Carried(t) BY <1>2
  <2>2. Received(t)' = Received(t) /\ Opened(t)' = Opened(t)
    BY <2>1 DEF Received, Opened
  <2>3. Len(stream[t].queue) \in Nat BY <1>1, Parts
  <2>4. stream[t].skipped \subseteq Ids /\ StreamOK(t) BY DEF Inv, StreamOK
  <2>5. QED BY <1>1, <2>1, <2>2, <2>3, <2>4, StreamStays
<1>3. ASSUME NEW q \in Publishers, q # p PROVE PubOK(q)'
  <2>1. PubOK(q) /\ (\A t \in Streams : StreamOK(t)) /\ pub'[q] = pub[q]
    BY <1>3 DEF Inv
  <2>2. ASSUME NEW t \in Streams, Opened(t)
        PROVE  /\ Opened(t)' /\ Accounted(t) \subseteq Accounted(t)'
               /\ \A i \in Got(t)' : i \in Got(t) \/ (i \in Ids /\ history[i].by # q)
               /\ \A i \in stream'[t].lost :
                    i \in stream[t].lost \/ i \in Got(t) \/ history[i].by # q
               /\ \/ Len(stream'[t].queue) <= Len(stream[t].queue)
                  \/ \E i \in Ids : i \in Accounted(t)' /\ history[i].by # q
    <3>1. CASE t = s BY <1>3, <3>1
    <3>2. CASE t # s
      <4>1. stream'[t] = stream[t] /\ Carried(t)' = Carried(t) BY <3>2
      <4>2. Got(t)' = Got(t) /\ Opened(t)' /\ Accounted(t)' = Accounted(t)
        BY <2>2, <4>1 DEF Got, Received, Opened, Accounted
      <4>3. Len(stream[t].queue) \in Nat BY <1>1, Parts
      <4>4. QED BY <4>1, <4>2, <4>3
    <3>3. QED BY <3>1, <3>2
  <2>3. QED BY <1>1, <2>1, <2>2, PubStays
<1>4. QED BY <1>2, <1>3 DEF Inv

\* An event put into a queue with room is the last its stream will get.
LEMMA EnqueueKeeps ==
  ASSUME Inv, NEW p \in Publishers, pub[p].at \in {"put", "again"}, HasRoom(p), Enqueue(p),
         pub' = [pub EXCEPT ![p] = Idle], UNCHANGED <<bufferVars, subscriber, resets>>
  PROVE  Inv'
<1>0. PICK s \in Streams, id \in Pos : s = pub[p].to /\ id = pub[p].id
  BY BusyFacts DEF Busy
<1> DEFINE r == stream[s]
           q == Append(stream[s].queue, id)
           r2 == stream'[s]
<1>1. /\ Busy(p) /\ s \in Streams /\ Opened(s) /\ id \in Ids /\ id \in Pos
      /\ history[id].by = p /\ id \notin r.lost /\ id \notin Got(s) /\ id \in Carried(s)
      /\ \A i \in Got(s) : history[i].by = p => i < id
  BY <1>0, BusyFacts DEF Busy
<1>2. /\ stream \in [Streams -> StreamRec] /\ r \in StreamRec
      /\ pub \in [Publishers -> PubRec] /\ StreamOK(s)
      /\ r.queue \in Seq(Pos) /\ Len(r.queue) \in Nat
      /\ r.taken \o r.snapshot \in Seq(Pos) /\ Received(s) \in Seq(Pos)
      /\ Received(s) = (r.taken \o r.snapshot) \o r.queue
  BY <1>1, Parts DEF Inv, Types
<1>3. q \in Seq(Pos) /\ Len(q) = Len(r.queue) + 1 BY <1>1, <1>2, AppendProperties
<1>4. stream' = [stream EXCEPT ![s].queue = q] BY <1>0 DEF Enqueue
<1>5. Len(r.queue) < QueueSize BY <1>0 DEF HasRoom
<1> HIDE DEF q
<1>6. /\ r2 = [r EXCEPT !.queue = q] /\ \A t \in Streams \ {s} : stream'[t] = stream[t]
  BY <1>1, <1>2, <1>4
<1>7. /\ r2 \in StreamRec /\ r2.at = r.at /\ r2.taken = r.taken /\ r2.snapshot = r.snapshot
      /\ r2.queue = q /\ r2.lost = r.lost /\ r2.skipped = r.skipped /\ r2.start = r.start
  <2>1. r \in StreamRec BY <1>2
  <2> HIDE DEF r, r2
  <2>2. r2 = [r EXCEPT !.queue = q] BY <1>6
  <2>3. QED BY <1>3, <2>1, <2>2 DEF StreamRec
<1>8. /\ pub'[p] = Idle /\ \A x \in Publishers \ {p} : pub'[x] = pub[x]
      /\ pub' \in [Publishers -> PubRec]
  <2>1. Idle \in PubRec BY DEF Idle, PubRec
  <2>2. QED BY <1>2, <2>1
<1>9. Types'
  <2>1. stream' \in [Streams -> StreamRec] BY <1>2, <1>4, <1>6, <1>7
  <2>2. QED BY <1>8, <2>1 DEF Inv, Types, bufferVars
<1>10. Received(s)' = Append(Received(s), id)
  <2>1. Received(s)' = (r.taken \o r.snapshot) \o q BY <1>7 DEF Received
  <2>2. q = Append(r.queue, id) BY DEF q
  <2> DEFINE a == r.taken \o r.snapshot
             c == r.queue
  <2>3. a \in Seq(Pos) /\ c \in Seq(Pos) BY <1>2
  <2> HIDE DEF a, c
  <2>4. a \o Append(c, id) = Append(a \o c, id) BY <2>3, AppendLast
  <2>5. QED BY <1>2, <2>1, <2>2, <2>4 DEF a, c
<1> DEFINE R == Received(s)
<1>11. /\ Len(Received(s)') = Len(R) + 1 /\ Len(R) \in Nat
       /\ \A i \in 1 .. Len(R) : Received(s)'[i] = R[i] /\ R[i] \in Got(s)
       /\ Received(s)'[Len(R) + 1] = id /\ Received(s)' \in Seq(Pos)
  <2>1. R \in Seq(Pos) BY <1>2
  <2>2. \A i \in 1 .. Len(R) : R[i] \in Got(s) BY <2>1, Elements DEF Got
  <2> HIDE DEF R
  <2>3. /\ Len(Append(R, id)) = Len(R) + 1 /\ Len(R) \in Nat /\ Append(R, id) \in Seq(Pos)
        /\ \A i \in 1 .. Len(R) : Append(R, id)[i] = R[i]
        /\ Append(R, id)[Len(R) + 1] = id
    BY <1>1, <2>1, AppendProperties, LenProperties
  <2>4. QED BY <1>10, <2>2, <2>3 DEF R
<1>12. Got(s)' = Got(s) \cup {id}
  <2>1. Got(s)' = {Received(s)'[i] : i \in 1 .. Len(Received(s)')}
    BY <1>11, Elements DEF Got
  <2>2. Got(s) = {R[i] : i \in 1 .. Len(R)} BY <1>2, Elements DEF Got
  <2>3. 1 .. Len(Received(s)') = 1 .. Len(R) \cup {Len(R) + 1} BY <1>11
  <2> HIDE DEF R
  <2>4. QED BY <1>11, <2>1, <2>2, <2>3
<1>13. ~Busy(p)' /\ \A x \in Publishers \ {p} : Busy(x)' <=> Busy(x)
  BY <1>8 DEF Busy, Idle
<1>14. \A t \in Streams \ {s} : Carried(t)' = Carried(t)
  <2>1. \A t \in Streams \ {s} : t # pub[p].to BY <1>0
  <2>2. ASSUME NEW t \in Streams \ {s}, NEW i PROVE i \in Carried(t)' <=> i \in Carried(t)
    BY <1>8, <1>13, <2>1, OnTheirWay
  <2>3. QED BY <2>2
<1>15. Carried(s) = Carried(s)' \cup {id}
  <2>1. ASSUME NEW i PROVE i \in Carried(s) <=> i \in Carried(s)' \/ i = id
    <3>1. i \in Carried(s)' => i \in Carried(s) BY <1>8, <1>13, OnTheirWay
    <3>2. i \in Carried(s) => i \in Carried(s)' \/ i = id
      BY <1>0, <1>8, <1>13, OnTheirWay
    <3>3. QED BY <1>1, <3>1, <3>2
  <2>2. QED BY <2>1
<1>16. Accounted(s)' = Accounted(s) BY <1>7, <1>12, <1>15 DEF Accounted, Got
<1>17. OrderedFor(s)'
  <2>1. OrderedFor(s) BY <1>2 DEF StreamOK
  <2>2. history' = history BY DEF bufferVars
  <2>3. SUFFICES ASSUME NEW i \in 1 .. Len(R) + 1, NEW j \in 1 .. Len(R) + 1, i < j,
                        history[Received(s)'[i]].by = history[Received(s)'[j]].by
                 PROVE  Received(s)'[i] < Received(s)'[j]
    BY <1>11, <2>2 DEF OrderedFor
  <2>4. i \in 1 .. Len(R) BY <1>11, <2>3
  <2>5. CASE j \in 1 .. Len(R) BY <1>11, <2>1, <2>3, <2>4, <2>5 DEF OrderedFor
  <2>6. CASE j = Len(R) + 1 BY <1>1, <1>11, <2>3, <2>4, <2>6
  <2>7. QED BY <1>11, <2>5, <2>6
<1>18. StreamOK(s)'
  <2>1. UNCHANGED <<history, subscriber>> BY DEF bufferVars
  <2>2. Len(r2.queue) <= QueueSize BY <1>2, <1>3, <1>5, <1>7, Constants
  <2>3. CompleteFor(s)'
    <3>1. CompleteFor(s) BY <1>1, <1>2 DEF StreamOK
    <3>2. QED BY <1>7, <1>16, <2>1, <3>1 DEF CompleteFor
  <2>4. QED BY <1>1, <1>2, <1>7, <1>12, <1>17, <2>1, <2>2, <2>3 DEF StreamOK, Ids, Opened
<1>19. PubOK(p)' BY <1>8 DEF PubOK, Busy, Idle
<1>20. id \in Accounted(s) BY <1>1 DEF Accounted
<1>21. Opened(s)' BY <1>1, <1>7 DEF Opened
<1>22. QED
  <2>1. /\ \A x \in Publishers \ {p} : pub'[x] = pub[x]
        /\ \A t \in Streams \ {s} : stream'[t] = stream[t] /\ Carried(t)' = Carried(t)
    BY <1>6, <1>8, <1>14
  <2>2. \A i \in Got(s)' : i \in Got(s) \/ (i \in Ids /\ history[i].by = p)
    BY <1>1, <1>12
  <2>3. \A i \in stream'[s].lost : i \in stream[s].lost BY <1>7
  <2>4. QED BY <1>1, <1>9, <1>16, <1>18, <1>19, <1>20, <1>21, <2>1, <2>2, <2>3, OthersStay

\* put_nowait found the queue full: only where the publisher stands changes.
LEMMA FullKeeps ==
  ASSUME Inv, NEW p \in Publishers, pub[p].at = "put",
         pub' = [pub EXCEPT ![p].at = "full"], UNCHANGED <<bufferVars, subscriber, resets, stream>>
  PROVE  Inv'
<1>1. /\ pub \in [Publishers -> PubRec] /\ Busy(p)
      /\ pub'[p].at = "full" /\ pub'[p].id = pub[p].id /\ pub'[p].to = pub[p].to
      /\ \A x \in Publishers \ {p} : pub'[x] = pub[x]
      /\ pub' \in [Publishers -> PubRec]
  BY DEF Inv, Types, Busy, PubRec
<1>2. Types' BY <1>1 DEF Inv, Types, bufferVars
<1>3. \A x \in Publishers : Busy(x)' <=> Busy(x) BY <1>1 DEF Busy
<1>4. ASSUME NEW t \in Streams PROVE Carried(t)' = Carried(t)
  <2>1. ASSUME NEW i PROVE i \in Carried(t)' <=> i \in Carried(t)
    BY <1>1, <1>3, OnTheirWay
  <2>2. QED BY <2>1
<1>5. ASSUME NEW t \in Streams
      PROVE  /\ Received(t)' = Received(t) /\ Accounted(t)' = Accounted(t)
             /\ Got(t)' = Got(t) /\ Opened(t)' = Opened(t) /\ StreamOK(t)'
  <2>1. /\ Received(t)' = Received(t) /\ Got(t)' = Got(t) /\ Opened(t)' = Opened(t)
    BY DEF Received, Got, Opened
  <2>2. Accounted(t)' = Accounted(t) BY <1>4, <2>1 DEF Accounted
  <2>3. Extends /\ Len(history') = Len(history) /\ Len(stream[t].queue) \in Nat
    BY Parts, LenProperties DEF Inv, Types, bufferVars, Extends
  <2>4. StreamOK(t) /\ stream[t].skipped \subseteq Ids /\ Types BY DEF Inv, StreamOK
  <2>5. StreamOK(t)' BY <1>2, <1>4, <2>1, <2>3, <2>4, StreamStays
  <2>6. QED BY <2>1, <2>2, <2>5
<1>6. PubOK(p)'
  <2>1. PubOK(p) BY DEF Inv
  <2>2. QED BY <1>1, <1>3, <1>5, <2>1 DEF PubOK, Ids, bufferVars
<1>7. PICK s \in Streams : s = pub[p].to BY <1>1, BusyFacts
<1>8. Opened(s)' /\ Len(stream[s].queue) \in Nat
  BY <1>1, <1>5, <1>7, BusyFacts, Parts DEF Inv
<1>9. QED BY <1>1, <1>2, <1>4, <1>5, <1>6, <1>8, OthersStay

\* The head of a full queue leaves it: its stream has lost it, and nothing else.
LEMMA DropOldestKeeps ==
  ASSUME Inv, NEW p \in Publishers, DropOldest(p)
  PROVE  Inv'
<1>0. PICK s \in Streams : s = pub[p].to BY BusyFacts DEF Busy, DropOldest
<1>1. /\ pub[p].at = "full" /\ Busy(p) /\ Opened(s)
      /\ pub' = [pub EXCEPT ![p].at = "again"]
      /\ UNCHANGED <<bufferVars, subscriber, resets>>
  BY <1>0, BusyFacts DEF DropOldest, Busy
<1>2. /\ stream \in [Streams -> StreamRec] /\ stream[s] \in StreamRec
      /\ pub \in [Publishers -> PubRec] /\ StreamOK(s) /\ Types
      /\ stream[s].queue \in Seq(Pos) /\ Len(stream[s].queue) \in Nat
      /\ stream[s].taken \o stream[s].snapshot \in Seq(Pos) /\ Received(s) \in Seq(Pos)
      /\ Received(s) = (stream[s].taken \o stream[s].snapshot) \o stream[s].queue
  BY <1>1, Parts DEF Inv, Types
<1>3. /\ pub'[p].at = "again" /\ pub'[p].id = pub[p].id /\ pub'[p].to = pub[p].to
      /\ \A x \in Publishers \ {p} : pub'[x] = pub[x]
      /\ pub' \in [Publishers -> PubRec]
  BY <1>1, <1>2 DEF PubRec
<1>4. \A x \in Publishers : Busy(x)' <=> Busy(x) BY <1>1, <1>3 DEF Busy
<1>5. ASSUME NEW t \in Streams PROVE Carried(t)' = Carried(t)
  <2>1. ASSUME NEW i PROVE i \in Carried(t)' <=> i \in Carried(t)
    BY <1>3, <1>4, OnTheirWay
  <2>2. QED BY <2>1
<1>6. CASE stream[s].queue = << >>
  <2>1. stream' = stream BY <1>0, <1>6 DEF DropOldest
  <2>2. Types' BY <1>1, <1>3, <2>1 DEF Inv, Types, bufferVars
  <2>3. /\ Received(s)' = Received(s) /\ Got(s)' = Got(s) /\ Opened(s)' = Opened(s)
    BY <2>1 DEF Received, Got, Opened
  <2>4. Accounted(s)' = Accounted(s) BY <1>5, <2>1, <2>3 DEF Accounted
  <2>5. Extends /\ Len(history') = Len(history)
    BY <1>1, LenProperties DEF Inv, Types, bufferVars, Extends
  <2>6. stream[s].skipped \subseteq Ids BY <1>2 DEF StreamOK
  <2>7. StreamOK(s)'
    <3>1. /\ stream'[s].lost = stream[s].lost /\ stream'[s].skipped \subseteq Ids
          /\ Len(stream'[s].queue) <= Len(stream[s].queue)
          /\ stream'[s].start = stream[s].start /\ Carried(s)' = Carried(s)
      BY <1>2, <1>5, <2>1, <2>6
    <3>2. subscriber' = s => subscriber = s BY <1>1
    <3>3. QED BY <1>2, <2>2, <2>3, <2>5, <3>1, <3>2, StreamStays
  <2>8. Len(stream[s].queue) < QueueSize BY <1>6, Constants
  <2>9. PubOK(p)'
    <3>1. PubOK(p) BY DEF Inv
    <3>2. QED BY <1>0, <1>1, <1>3, <1>4, <2>1, <2>3, <2>8, <3>1 DEF PubOK, Ids, bufferVars
  <2>10. QED
    <3>1. /\ \A x \in Publishers \ {p} : pub'[x] = pub[x]
          /\ \A t \in Streams \ {s} : stream'[t] = stream[t] /\ Carried(t)' = Carried(t)
      BY <1>3, <1>5, <2>1
    <3>2. /\ \A i \in Got(s)' : i \in Got(s)
          /\ \A i \in stream'[s].lost : i \in stream[s].lost
          /\ Len(stream'[s].queue) <= Len(stream[s].queue)
      BY <1>2, <2>1, <2>3
    <3>3. Opened(s)' BY <1>1, <2>3
    <3>4. QED BY <1>1, <2>2, <2>4, <2>7, <2>9, <3>1, <3>2, <3>3, OthersStay
<1>7. CASE stream[s].queue # << >>
  <2> DEFINE r == stream[s]
             r2 == stream'[s]
             q == Tail(stream[s].queue)
             h == Head(stream[s].queue)
             l == stream[s].lost \cup {Head(stream[s].queue)}
  <2>1. stream' = [stream EXCEPT ![s].queue = q, ![s].lost = l]
    BY <1>0, <1>7 DEF DropOldest
  <2>2. /\ q \in Seq(Pos) /\ h \in Pos /\ Len(q) = Len(r.queue) - 1
    BY <1>2, <1>7, HeadTailProperties, EmptySeq
  <2>3. l \in SUBSET Pos
    <3>1. r.lost \in SUBSET Pos BY <1>2 DEF StreamRec
    <3>2. QED BY <2>2, <3>1
  <2> HIDE DEF q, l
  <2>4. /\ r2 = [r EXCEPT !.queue = q, !.lost = l]
        /\ \A t \in Streams \ {s} : stream'[t] = stream[t]
    BY <1>2, <2>1
  <2>5. /\ r2 \in StreamRec /\ r2.at = r.at /\ r2.taken = r.taken
        /\ r2.snapshot = r.snapshot /\ r2.queue = q /\ r2.lost = l
        /\ r2.skipped = r.skipped /\ r2.start = r.start
    <3>1. r \in StreamRec BY <1>2
    <3> HIDE DEF r, r2
    <3>2. r2 = [r EXCEPT !.queue = q, !.lost = l] BY <2>4
    <3>3. QED BY <2>2, <2>3, <3>1, <3>2 DEF StreamRec
  <2>6. Types'
    <3>1. stream' \in [Streams -> StreamRec] BY <1>2, <2>1, <2>4, <2>5
    <3>2. QED BY <1>1, <1>3, <3>1 DEF Inv, Types, bufferVars
  <2> DEFINE R == Received(s)
             T == (stream[s].taken \o stream[s].snapshot) \o Tail(stream[s].queue)
             k == Len(stream[s].taken \o stream[s].snapshot) + 1
  <2>7. Received(s)' = T BY <2>5 DEF Received, q
  <2>8. /\ R \in Seq(Pos) /\ T \in Seq(Pos) /\ k \in 1 .. Len(R) /\ R[k] = h
        /\ Len(T) = Len(R) - 1 /\ Len(R) \in Nat \ {0}
        /\ \A i \in 1 .. Len(T) : T[i] = IF i < k THEN R[i] ELSE R[i + 1]
    <3> DEFINE a == stream[s].taken \o stream[s].snapshot
               c == stream[s].queue
    <3>1. a \in Seq(Pos) /\ c \in Seq(Pos) /\ c # << >> BY <1>2, <1>7
    <3> HIDE DEF a, c
    <3>2. /\ a \o c \in Seq(Pos) /\ a \o Tail(c) \in Seq(Pos)
          /\ Len(a) + 1 \in 1 .. Len(a \o c) /\ (a \o c)[Len(a) + 1] = Head(c)
          /\ Len(a \o Tail(c)) = Len(a \o c) - 1 /\ Len(a \o c) \in Nat \ {0}
          /\ \A i \in 1 .. Len(a \o Tail(c)) : (a \o Tail(c))[i] =
               IF i < Len(a) + 1 THEN (a \o c)[i] ELSE (a \o c)[i + 1]
      BY <3>1, DropLast
    <3>3. R = a \o c BY <1>2 DEF a, c
    <3>4. QED BY <3>2, <3>3 DEF a, c
  <2> HIDE DEF T, k
  <2>9. Got(s) = {R[i] : i \in 1 .. Len(R)} /\ Got(s)' = {T[i] : i \in 1 .. Len(T)}
    BY <2>7, <2>8, Elements DEF Got
  <2> HIDE DEF R
  <2>10. \A i, j \in 1 .. Len(R) : R[i] = R[j] => i = j
    <3>1. OrderedFor(s) BY <1>2 DEF StreamOK
    <3>2. \A i \in 1 .. Len(R) : R[i] \in Nat
      BY <2>8, ElementOfSeq DEF Pos
    <3>3. SUFFICES ASSUME NEW i \in 1 .. Len(R), NEW j \in 1 .. Len(R), R[i] = R[j], i < j
                   PROVE  FALSE
      BY <2>8
    <3>4. R[i] < R[j] BY <3>1, <3>3 DEF OrderedFor, R
    <3>5. QED BY <3>2, <3>3, <3>4
  <2>11. Got(s) = Got(s)' \cup {h} /\ h \notin Got(s)'
    <3>1. ASSUME NEW i \in 1 .. Len(T) PROVE T[i] \in Got(s) /\ T[i] # h
      <4>1. PICK x \in 1 .. Len(R) : T[i] = R[x] /\ x # k
        <5>1. CASE i < k
          <6>1. i \in 1 .. Len(R) /\ T[i] = R[i] /\ i # k BY <2>8, <5>1
          <6>2. QED BY <6>1
        <5>2. CASE i >= k
          <6>1. i + 1 \in 1 .. Len(R) /\ T[i] = R[i + 1] /\ i + 1 # k BY <2>8, <5>2
          <6>2. QED BY <6>1
        <5>3. QED BY <2>8, <5>1, <5>2
      <4>2. QED BY <2>8, <2>9, <2>10, <4>1
    <3>2. ASSUME NEW i \in 1 .. Len(R), i # k PROVE R[i] \in Got(s)'
      <4>1. CASE i < k
        <5>1. i \in 1 .. Len(T) /\ T[i] = R[i] BY <2>8, <4>1
        <5>2. QED BY <2>9, <5>1
      <4>2. CASE i > k
        <5>1. i - 1 \in 1 .. Len(T) /\ T[i - 1] = R[i] BY <2>8, <4>2
        <5>2. QED BY <2>9, <5>1
      <4>3. QED BY <2>8, <3>2, <4>1, <4>2
    <3>3. QED BY <2>8, <2>9, <3>1, <3>2
  <2>12. Accounted(s)' = Accounted(s)
    BY <1>5, <2>5, <2>11 DEF Accounted, Got, l
  <2>13. OrderedFor(s)'
    <3>1. OrderedFor(s) BY <1>2 DEF StreamOK
    <3>2. history' = history BY <1>1 DEF bufferVars
    <3>3. SUFFICES ASSUME NEW i \in 1 .. Len(T), NEW j \in 1 .. Len(T), i < j,
                          history[T[i]].by = history[T[j]].by
                   PROVE  T[i] < T[j]
      BY <2>7, <3>2 DEF OrderedFor
    <3>4. PICK x \in 1 .. Len(R), y \in 1 .. Len(R) : x < y /\ T[i] = R[x] /\ T[j] = R[y]
      <4>1. CASE j < k
        <5>1. i \in 1 .. Len(R) /\ j \in 1 .. Len(R) /\ T[i] = R[i] /\ T[j] = R[j]
          BY <2>8, <3>3, <4>1
        <5>2. QED BY <3>3, <5>1
      <4>2. CASE i < k /\ j >= k
        <5>1. i \in 1 .. Len(R) /\ j + 1 \in 1 .. Len(R) /\ T[i] = R[i] /\ T[j] = R[j + 1]
              /\ i < j + 1
          BY <2>8, <3>3, <4>2
        <5>2. QED BY <5>1
      <4>3. CASE i >= k
        <5>1. i + 1 \in 1 .. Len(R) /\ j + 1 \in 1 .. Len(R) /\ T[i] = R[i + 1]
              /\ T[j] = R[j + 1] /\ i + 1 < j + 1
          BY <2>8, <3>3, <4>3
        <5>2. QED BY <5>1
      <4>4. QED BY <2>8, <3>3, <4>1, <4>2, <4>3
    <3>5. QED BY <3>1, <3>3, <3>4 DEF OrderedFor, R
  <2>14. Opened(s)' BY <1>1, <2>5 DEF Opened
  <2>15. h \in Got(s) /\ h \in Ids BY <1>2, <2>11 DEF StreamOK
  <2>16. StreamOK(s)'
    <3>1. UNCHANGED <<history, subscriber>> BY <1>1 DEF bufferVars
    <3>2. Len(r2.queue) <= QueueSize BY <1>2, <2>2, <2>5, Constants DEF StreamOK
    <3>3. CompleteFor(s)'
      <4>1. CompleteFor(s) BY <1>1, <1>2 DEF StreamOK
      <4>2. QED BY <2>5, <2>12, <3>1, <4>1 DEF CompleteFor
    <3>4. /\ Got(s)' \subseteq Ids' /\ stream'[s].lost \subseteq Ids'
          /\ stream'[s].skipped \subseteq Ids' /\ stream'[s].lost \cap Got(s)' = {}
      BY <1>2, <2>5, <2>11, <2>15, <3>1 DEF StreamOK, Ids, l
    <3>5. QED BY <2>13, <2>14, <3>2, <3>3, <3>4 DEF StreamOK
  <2>17. PubOK(p)'
    <3>1. PubOK(p) /\ history' = history BY <1>1 DEF Inv, bufferVars
    <3>2. Len(r2.queue) < QueueSize BY <1>2, <2>2, <2>5, Constants DEF StreamOK
    <3>3. /\ pub[p].id \in Ids /\ history[pub[p].id].by = p
          /\ pub[p].id \notin l
          /\ \A i \in Got(s)' : history[i].by = p => i < pub[p].id
      BY <1>0, <1>1, <2>11, BusyFacts DEF l
    <3>4. QED BY <1>0, <1>1, <1>3, <1>4, <2>5, <2>14, <3>1, <3>2, <3>3 DEF PubOK, Ids
  <2>18. QED
    <3>1. \A i \in Got(s)' : i \in Got(s) BY <2>11
    <3>2. \A i \in stream'[s].lost : i \in stream[s].lost \/ i \in Got(s)
      BY <2>5, <2>15 DEF l
    <3>3. Len(r2.queue) <= Len(r.queue) BY <1>2, <2>2, <2>5
    <3>4. /\ \A x \in Publishers \ {p} : pub'[x] = pub[x]
          /\ \A t \in Streams \ {s} : stream'[t] = stream[t] /\ Carried(t)' = Carried(t)
      BY <1>3, <1>5, <2>4
    <3>5. QED BY <1>1, <2>6, <2>12, <2>14, <2>16, <2>17, <3>1, <3>2, <3>3, <3>4, OthersStay
<1>8. QED BY <1>6, <1>7

\* The second put_nowait fails: the queue is full, so another publisher used the place.
LEMMA RaiseKeeps ==
  ASSUME Inv, NEW p \in Publishers, pub[p].at = "again", ~HasRoom(p),
         pub' = [pub EXCEPT ![p].at = "raised"],
         stream' = [stream EXCEPT ![pub[p].to].lost = @ \cup {pub[p].id}],
         UNCHANGED <<bufferVars, subscriber, resets>>
  PROVE  Inv'
<1>0. PICK s \in Streams, id \in Pos : s = pub[p].to /\ id = pub[p].id
  BY BusyFacts DEF Busy
<1>1. /\ Busy(p) /\ Opened(s) /\ id \in Ids /\ history[id].by = p
      /\ id \notin Got(s) /\ id \in Carried(s)
  BY <1>0, BusyFacts DEF Busy
<1> DEFINE r == stream[s]
           r2 == stream'[s]
           l == stream[s].lost \cup {id}
<1>2. /\ stream \in [Streams -> StreamRec] /\ stream[s] \in StreamRec
      /\ pub \in [Publishers -> PubRec] /\ StreamOK(s) /\ Types
      /\ Len(stream[s].queue) \in Nat
  BY <1>1, Parts DEF Inv, Types
<1>3. /\ pub'[p].at = "raised" /\ pub'[p].id = pub[p].id /\ pub'[p].to = pub[p].to
      /\ \A x \in Publishers \ {p} : pub'[x] = pub[x]
      /\ pub' \in [Publishers -> PubRec]
  BY <1>2 DEF PubRec
<1>4. ~Busy(p)' /\ \A x \in Publishers \ {p} : Busy(x)' <=> Busy(x) BY <1>3 DEF Busy
<1>5. l \in SUBSET Pos
  <2>1. stream[s].lost \in SUBSET Pos BY <1>2 DEF StreamRec
  <2>2. QED BY <2>1
<1>6. stream' = [stream EXCEPT ![s].lost = l] BY <1>0
<1> HIDE DEF l
<1>7. r2 = [r EXCEPT !.lost = l] /\ \A t \in Streams \ {s} : stream'[t] = stream[t]
  BY <1>2, <1>6
<1>8. /\ r2 \in StreamRec /\ r2.at = r.at /\ r2.taken = r.taken /\ r2.snapshot = r.snapshot
      /\ r2.queue = r.queue /\ r2.lost = l /\ r2.skipped = r.skipped /\ r2.start = r.start
  <2>1. r \in StreamRec BY <1>2
  <2> HIDE DEF r, r2
  <2>2. r2 = [r EXCEPT !.lost = l] BY <1>7
  <2>3. QED BY <1>5, <2>1, <2>2 DEF StreamRec
<1>9. Types'
  <2>1. stream' \in [Streams -> StreamRec] BY <1>2, <1>6, <1>7, <1>8
  <2>2. QED BY <1>3, <2>1 DEF Inv, Types, bufferVars
<1>10. /\ Received(s)' = Received(s) /\ Got(s)' = Got(s) /\ Opened(s)'
  BY <1>1, <1>8 DEF Received, Got, Opened
<1>11. \A t \in Streams \ {s} : Carried(t)' = Carried(t)
  <2>1. \A t \in Streams \ {s} : t # pub[p].to BY <1>0
  <2>2. ASSUME NEW t \in Streams \ {s}, NEW i PROVE i \in Carried(t)' <=> i \in Carried(t)
    BY <1>3, <1>4, <2>1, OnTheirWay
  <2>3. QED BY <2>2
<1>12. Carried(s) = Carried(s)' \cup {id}
  <2>1. ASSUME NEW i PROVE i \in Carried(s) <=> i \in Carried(s)' \/ i = id
    <3>1. i \in Carried(s)' => i \in Carried(s) BY <1>3, <1>4, OnTheirWay
    <3>2. i \in Carried(s) => i \in Carried(s)' \/ i = id
      BY <1>0, <1>3, <1>4, OnTheirWay
    <3>3. QED BY <1>1, <3>1, <3>2
  <2>2. QED BY <2>1
<1>13. Accounted(s)' = Accounted(s) BY <1>8, <1>10, <1>12 DEF Accounted, Got, l
<1>14. StreamOK(s)'
  <2>1. UNCHANGED <<history, subscriber>> BY DEF bufferVars
  <2>2. Len(r2.queue) <= QueueSize BY <1>2, <1>8 DEF StreamOK
  <2>3. CompleteFor(s)'
    <3>1. CompleteFor(s) BY <1>1, <1>2 DEF StreamOK
    <3>2. QED BY <1>8, <1>13, <2>1, <3>1 DEF CompleteFor
  <2>4. OrderedFor(s)'
    <3>1. OrderedFor(s) BY <1>2 DEF StreamOK
    <3>2. QED BY <1>10, <2>1, <3>1 DEF OrderedFor
  <2>5. /\ Got(s)' \subseteq Ids' /\ stream'[s].lost \subseteq Ids'
        /\ stream'[s].skipped \subseteq Ids' /\ stream'[s].lost \cap Got(s)' = {}
    BY <1>1, <1>2, <1>8, <1>10, <2>1 DEF StreamOK, Ids, l
  <2>6. QED BY <1>10, <2>2, <2>3, <2>4, <2>5 DEF StreamOK
<1>15. PubOK(p)'
  <2>1. PubOK(p) BY DEF Inv
  <2>2. Foreign(p)
    BY <1>0, <1>2, <2>1, Constants DEF PubOK, HasRoom
  <2>3. UNCHANGED history /\ Ids' = Ids BY DEF bufferVars, Ids
  <2>4. Foreign(p)' BY <1>0, <1>3, <1>13, <2>2, <2>3 DEF Foreign
  <2>5. QED BY <1>0, <1>3, <1>4, <1>10, <2>1, <2>3, <2>4 DEF PubOK
<1>16. QED
  <2>1. /\ \A x \in Publishers \ {p} : pub'[x] = pub[x]
        /\ \A t \in Streams \ {s} : stream'[t] = stream[t] /\ Carried(t)' = Carried(t)
    BY <1>3, <1>7, <1>11
  <2>2. /\ \A i \in Got(s)' : i \in Got(s)
        /\ \A i \in stream'[s].lost : i \in stream[s].lost \/ history[i].by = p
        /\ Len(stream'[s].queue) <= Len(stream[s].queue)
    BY <1>1, <1>2, <1>8, <1>10 DEF l
  <2>3. QED BY <1>9, <1>10, <1>13, <1>14, <1>15, <2>1, <2>2, OthersStay

LEMMA PutKeeps ==
  ASSUME Inv, NEW p \in Publishers, Put(p) \/ PutAgain(p)
  PROVE  Inv'
<1>1. CASE Put(p)
  <2>1. CASE HasRoom(p) /\ Enqueue(p) /\ pub' = [pub EXCEPT ![p] = Idle]
    BY <1>1, <2>1, EnqueueKeeps DEF Put
  <2>2. CASE ~HasRoom(p) /\ pub' = [pub EXCEPT ![p].at = "full"] /\ UNCHANGED stream
    BY <1>1, <2>2, FullKeeps DEF Put
  <2>3. QED BY <1>1, <2>1, <2>2 DEF Put
<1>2. CASE PutAgain(p)
  <2>1. CASE HasRoom(p) /\ Enqueue(p) /\ pub' = [pub EXCEPT ![p] = Idle]
    BY <1>2, <2>1, EnqueueKeeps DEF PutAgain
  <2>2. CASE /\ ~HasRoom(p)
             /\ pub' = [pub EXCEPT ![p].at = "raised"]
             /\ stream' = [stream EXCEPT ![pub[p].to].lost = @ \cup {pub[p].id}]
    BY <1>2, <2>2, RaiseKeeps DEF PutAgain
  <2>3. QED BY <1>2, <2>1, <2>2 DEF PutAgain
<1>3. QED BY <1>1, <1>2

-----------------------------------------------------------------------------
(* The steps of the broker: publish, open_stream and reset under the lock *)

\* The publishers wait, at most new streams change but in what makes them served.
LEMMA QuietKeeps ==
  ASSUME Inv, Types', Extends, pub' = pub, NEW X \in SUBSET Streams,
         \A t \in X : StreamOK(t)' /\ ~Opened(t),
         \A t \in Streams \ X : stream'[t] = stream[t],
         \A t \in Streams \ X : subscriber' = t =>
           subscriber = t /\ Len(history') = Len(history)
  PROVE  Inv'
<1>1. \A t \in Streams : Carried(t)' = Carried(t) BY DEF Carried
<1>2. ASSUME NEW t \in Streams \ X
      PROVE  /\ Received(t)' = Received(t) /\ Got(t)' = Got(t) /\ Opened(t)' = Opened(t)
             /\ Accounted(t)' = Accounted(t) /\ Len(stream[t].queue) \in Nat
  BY <1>1, Parts DEF Inv, Received, Got, Opened, Accounted
<1>3. ASSUME NEW t \in Streams \ X PROVE StreamOK(t)'
  <2>1. StreamOK(t) /\ Types /\ stream[t].skipped \subseteq Ids BY DEF Inv, StreamOK
  <2>2. QED BY <1>1, <1>2, <2>1, StreamStays
<1>4. ASSUME NEW p \in Publishers PROVE PubOK(p)'
  <2>1. PubOK(p) /\ Types /\ \A t \in Streams : StreamOK(t) BY DEF Inv
  <2>2. ASSUME NEW t \in Streams, Opened(t) PROVE t \in Streams \ X
    BY <2>2
  <2>3. QED BY <1>2, <2>1, <2>2, PubStays
<1>5. QED BY <1>3, <1>4 DEF Inv

LEMMA ResetKeeps ==
  ASSUME Inv, Reset
  PROVE  Inv'
<1>1. Len(history) \in Nat BY LenProperties DEF Inv, Types
<1>2. Types'
  <2>1. /\ first' = Len(history) + 1 /\ truncated' = FALSE /\ subscriber' = NoStream
        /\ resets' = resets + 1 /\ resets < MaxResets /\ resets \in 0 .. MaxResets
        /\ UNCHANGED <<history, pub, stream>>
    BY DEF Inv, Types, Reset
  <2>2. /\ first' \in Pos /\ first' <= Len(history') + 1
        /\ Len(history') + 1 - first' <= BufferSize /\ resets' \in 0 .. MaxResets
    BY <1>1, <2>1, Constants DEF Pos
  <2>3. QED BY <2>1, <2>2 DEF Inv, Types
<1>3. Extends BY <1>1 DEF Extends, Reset
<1>4. pub' = pub /\ stream' = stream /\ \A t \in Streams : subscriber' # t
  BY NoValues DEF Reset
<1>5. QED BY <1>2, <1>3, <1>4, QuietKeeps

LEMMA RefuseKeeps ==
  ASSUME Inv, NEW s \in Streams, stream[s].at = "new",
         stream' = [stream EXCEPT ![s].at = "refused"],
         UNCHANGED <<bufferVars, subscriber, resets, pub>>
  PROVE  Inv'
<1>1. /\ stream \in [Streams -> StreamRec] /\ stream[s] \in StreamRec /\ Types
      /\ Len(stream[s].queue) \in Nat /\ StreamOK(s) /\ stream[s].skipped \subseteq Ids
  BY Parts DEF Inv, Types, StreamOK
<1>2. [stream[s] EXCEPT !.at = "refused"] \in StreamRec BY <1>1, NewAt
<1>3. stream' \in [Streams -> StreamRec] BY <1>1, <1>2
<1>4. Types' BY <1>3 DEF Inv, Types, bufferVars
<1>5. /\ \A t \in Streams \ {s} : stream'[t] = stream[t]
      /\ stream'[s].at = "refused" /\ stream'[s].taken = stream[s].taken
      /\ stream'[s].snapshot = stream[s].snapshot /\ stream'[s].queue = stream[s].queue
      /\ stream'[s].lost = stream[s].lost /\ stream'[s].start = stream[s].start
      /\ stream'[s].skipped = stream[s].skipped
  BY <1>1 DEF StreamRec
<1>6. /\ Received(s)' = Received(s) /\ ~Opened(s) /\ ~Opened(s)' /\ Carried(s)' = Carried(s)
  BY <1>5 DEF Received, Opened, Carried
<1>7. Extends /\ Len(history') = Len(history)
  BY LenProperties DEF Inv, Types, bufferVars, Extends
<1>8. StreamOK(s)'
  <2>1. /\ stream'[s].lost = stream[s].lost /\ stream'[s].skipped \subseteq Ids
        /\ Len(stream'[s].queue) <= Len(stream[s].queue)
        /\ stream'[s].start = stream[s].start /\ Opened(s)' = Opened(s)
    BY <1>1, <1>5, <1>6 DEF Opened
  <2>2. subscriber' = s => subscriber = s OBVIOUS
  <2>3. QED BY <1>1, <1>4, <1>6, <1>7, <2>1, <2>2, StreamStays
<1>9. QED
  <2> DEFINE X == {s}
  <2>1. X \in SUBSET Streams /\ \A t \in X : StreamOK(t)' /\ ~Opened(t) BY <1>6, <1>8
  <2>2. \A t \in Streams \ X : stream'[t] = stream[t] BY <1>5
  <2>3. \A t \in Streams \ X : subscriber' = t => subscriber = t OBVIOUS
  <2> HIDE DEF X
  <2>4. QED BY <1>4, <1>7, <2>1, <2>2, <2>3, QuietKeeps

\* The copy of the buffer is in order and complete, and the stream is registered.
LEMMA RegisterKeeps ==
  ASSUME Inv, NEW s \in Streams, NEW f \in Elapsed \cup {FromStart},
         stream[s].at = "new", subscriber = NoStream, subscriber' = s,
         stream' = [stream EXCEPT ![s] =
           [NewStream EXCEPT !.at = "opened", !.from = f, !.truncated = truncated,
                             !.start = first, !.snapshot = IdsFrom(first)]],
         UNCHANGED <<bufferVars, resets, pub>>
  PROVE  Inv'
<1>1. /\ stream \in [Streams -> StreamRec] /\ Types /\ first \in Pos /\ truncated \in BOOLEAN
      /\ Len(history) \in Nat /\ first <= Len(history) + 1
  BY LenProperties DEF Inv, Types
<1> DEFINE c == IdsFrom(first)
           r2 == stream'[s]
<1>2. /\ c \in Seq(Pos) /\ Len(c) = Len(history) + 1 - first
      /\ \A i \in 1 .. Len(history) + 1 - first : c[i] = first + i - 1
  BY <1>1, CopyCounts
<1> HIDE DEF c
<1>3. /\ r2.at = "opened" /\ r2.from = f /\ r2.truncated = truncated /\ r2.start = first
      /\ r2.snapshot = c /\ r2.queue = << >> /\ r2.taken = << >> /\ r2.skipped = {}
      /\ r2.lost = {} /\ r2.closing = FALSE /\ r2.gap = FALSE
      /\ r2 = [at |-> "opened", from |-> f, truncated |-> truncated, start |-> first,
               snapshot |-> c, queue |-> << >>, taken |-> << >>, skipped |-> {}, lost |-> {},
               closing |-> FALSE, gap |-> FALSE]
      /\ \A t \in Streams \ {s} : stream'[t] = stream[t]
  BY <1>1 DEF NewStream, c
<1>4. r2 \in StreamRec
  <2> HIDE DEF r2
  <2>1. << >> \in Seq(Pos) OBVIOUS
  <2>2. QED BY <1>1, <1>2, <1>3, <2>1 DEF StreamRec
<1>5. Types'
  <2>1. stream' \in [Streams -> StreamRec] BY <1>1, <1>3, <1>4
  <2>2. QED BY <2>1 DEF Inv, Types, bufferVars
<1>6. ~Opened(s) /\ Opened(s)' BY <1>3 DEF Opened
<1>7. Carried(s)' = {}
  <2>1. ASSUME NEW p \in Publishers PROVE ~(pub[p].to = s /\ Busy(p))
    BY <1>6, BusyFacts
  <2>2. pub' = pub OBVIOUS
  <2>3. \A i : i \notin Carried(s)'
    BY <2>1, <2>2, OnTheirWay DEF Busy
  <2>4. QED BY <2>3
<1>8. Received(s)' = c
  <2>1. << >> \in Seq(Pos) OBVIOUS
  <2>2. << >> \o c = c /\ c \o << >> = c BY <1>2, ConcatEmptySeq
  <2>3. QED BY <1>3, <2>2 DEF Received
<1>9. Got(s)' = first .. Len(history)
  <2>1. Got(s)' = {c[i] : i \in 1 .. Len(c)} BY <1>2, <1>8, Elements DEF Got
  <2>2. ASSUME NEW x \in first .. Len(history) PROVE x \in Got(s)'
    <3>1. x - first + 1 \in 1 .. Len(c) /\ c[x - first + 1] = x
      BY <1>1, <1>2 DEF Pos
    <3>2. QED BY <2>1, <3>1
  <2>3. \A i \in 1 .. Len(c) : c[i] \in first .. Len(history)
    BY <1>1, <1>2 DEF Pos
  <2>4. QED BY <2>1, <2>2, <2>3
<1>10. StreamOK(s)'
  <2>1. Ids' = 1 .. Len(history) /\ history' = history BY DEF Ids, bufferVars
  <2>2. Got(s)' \subseteq Ids' BY <1>1, <1>9, <2>1 DEF Pos
  <2>3. OrderedFor(s)' BY <1>1, <1>2, <1>8 DEF OrderedFor, Pos
  <2>4. CompleteFor(s)'
    <3>1. Accounted(s)' = first .. Len(history)
      BY <1>3, <1>7, <1>9 DEF Accounted, Got
    <3>2. Len(history) \in 0 .. Len(history') BY <1>1, <2>1
    <3>3. QED BY <1>1, <1>3, <2>1, <3>1, <3>2 DEF CompleteFor
  <2>5. Len(r2.queue) <= QueueSize BY <1>3, Constants
  <2>6. QED BY <1>3, <1>6, <2>2, <2>3, <2>4, <2>5 DEF StreamOK
<1>11. Extends /\ Len(history') = Len(history) BY <1>1 DEF bufferVars, Extends
<1>12. QED
  <2> DEFINE X == {s}
  <2>1. X \in SUBSET Streams /\ \A t \in X : StreamOK(t)' /\ ~Opened(t) BY <1>6, <1>10
  <2>2. \A t \in Streams \ X : stream'[t] = stream[t] /\ subscriber' # t BY <1>3
  <2>3. pub' = pub OBVIOUS
  <2> HIDE DEF X
  <2>4. QED BY <1>5, <1>11, <2>1, <2>2, <2>3, QuietKeeps

LEMMA OpenKeeps ==
  ASSUME Inv, NEW s \in Streams, Open(s)
  PROVE  Inv'
BY RefuseKeeps, RegisterKeeps DEF Open

\* The buffer and its bound.
LEMMA PublishTypes ==
  ASSUME Inv, NEW p \in Publishers, Publish(p)
  PROVE  /\ Types' /\ Extends /\ Len(history') = Len(history) + 1 /\ Len(history) \in Nat
         /\ history'[Len(history) + 1].by = p
<1> DEFINE L == Len(history)
<1>1. /\ history \in Seq(Event) /\ first \in Pos /\ first <= L + 1 /\ L + 1 - first <= BufferSize
      /\ truncated \in BOOLEAN /\ pub \in [Publishers -> PubRec]
      /\ subscriber \in Streams \cup {NoStream}
  BY DEF Inv, Types
<1>2. L \in Nat /\ first \in Nat BY <1>1, LenProperties DEF Pos
<1>3. PICK e \in EventsOf(p) : history' = Append(history, e) BY DEF Publish
<1>4. e \in Event /\ e.by = p BY DEF EventsOf
<1>5. /\ history' \in Seq(Event) /\ Len(history') = L + 1
      /\ \A i \in 1 .. L : history'[i] = history[i]
      /\ history'[L + 1] = e
  BY <1>1, <1>3, <1>4, AppendProperties
<1>6. Cardinality(Buffered) = L + 1 - first
  BY <1>1, <1>2, FS_Interval DEF Buffered
<1>7. first' = IF L + 1 - first = BufferSize THEN first + 1 ELSE first
  BY <1>6 DEF Publish
<1>8. truncated' \in BOOLEAN
  BY <1>1 DEF Publish
<1> HIDE DEF L
<1>9. first' \in Pos /\ first' <= L + 2 /\ L + 2 - first' <= BufferSize
  BY <1>1, <1>2, <1>7, Constants DEF Pos
<1>10. pub' \in [Publishers -> PubRec]
  <2>1. L + 1 \in Nat BY <1>2
  <2>2. CASE subscriber = NoStream BY <1>1, <2>2 DEF Publish
  <2>3. CASE subscriber # NoStream
    <3> DEFINE new == [at |-> "put", id |-> L + 1, to |-> subscriber]
    <3>1. new \in PubRec BY <1>1, <2>1 DEF PubRec
    <3>2. pub' = [pub EXCEPT ![p] = new] BY <2>3 DEF Publish, L
    <3> HIDE DEF new
    <3>3. QED BY <1>1, <3>1, <3>2
  <2>4. QED BY <2>2, <2>3
<1>11. Types'
  <2>1. UNCHANGED <<subscriber, resets, stream>> BY DEF Publish
  <2>2. first' <= Len(history') + 1 /\ Len(history') + 1 - first' <= BufferSize
    BY <1>2, <1>5, <1>9, Constants DEF Pos
  <2>3. QED BY <1>5, <1>8, <1>9, <1>10, <2>1, <2>2 DEF Inv, Types
<1>12. QED BY <1>2, <1>4, <1>5, <1>11 DEF L, Extends, Ids

\* The event is on its way to the registered stream, newer than all that stream has.
LEMMA PublishKeeps ==
  ASSUME Inv, NEW p \in Publishers, Publish(p)
  PROVE  Inv'
<1>1. /\ Types' /\ Extends /\ Len(history') = Len(history) + 1 /\ Len(history) \in Nat
      /\ history'[Len(history) + 1].by = p
  BY PublishTypes
<1>2. UNCHANGED <<subscriber, resets, stream>> /\ pub[p].at = "idle" /\ Types
  BY DEF Publish, Inv
<1>3. CASE subscriber = NoStream
  <2>1. pub' = pub BY <1>3 DEF Publish
  <2>2. \A t \in Streams : subscriber' # t BY <1>2, <1>3, NoValues
  <2> DEFINE X == {}
  <2>3. X \in SUBSET Streams /\ \A t \in X : StreamOK(t)' /\ ~Opened(t) OBVIOUS
  <2>4. \A t \in Streams \ X : stream'[t] = stream[t] /\ subscriber' # t BY <1>2, <2>2
  <2> HIDE DEF X
  <2>5. QED BY <1>1, <2>1, <2>3, <2>4, QuietKeeps
<1>4. CASE subscriber # NoStream
  <2>0. PICK s \in Streams, id \in Nat : s = subscriber /\ id = Len(history) + 1
    BY <1>1, <1>2, <1>4 DEF Types
  <2>1. /\ pub'[p].at = "put" /\ pub'[p].id = id /\ pub'[p].to = s
        /\ \A x \in Publishers \ {p} : pub'[x] = pub[x]
    BY <1>2, <1>4, <2>0 DEF Publish, Types
  <2>2. /\ Busy(p)' /\ ~Busy(p) /\ \A x \in Publishers \ {p} : Busy(x)' <=> Busy(x)
    BY <1>2, <2>1 DEF Busy
  <2>3. \A t \in Streams \ {s} : Carried(t)' = Carried(t)
    <3>1. ASSUME NEW t \in Streams \ {s}, NEW i PROVE i \in Carried(t)' <=> i \in Carried(t)
      BY <2>1, <2>2, OnTheirWay
    <3>2. QED BY <3>1
  <2>4. Carried(s)' = Carried(s) \cup {id}
    <3>1. ASSUME NEW i PROVE i \in Carried(s)' <=> i \in Carried(s) \/ i = id
      <4>1. i \in Carried(s) => i \in Carried(s)' BY <2>1, <2>2, OnTheirWay
      <4>2. i \in Carried(s)' => i \in Carried(s) \/ i = id BY <2>1, <2>2, OnTheirWay
      <4>3. id \in Carried(s)' BY <2>1, <2>2, OnTheirWay
      <4>4. QED BY <4>1, <4>2, <4>3
    <3>2. QED BY <3>1
  <2>5. ASSUME NEW t \in Streams
        PROVE  /\ Received(t)' = Received(t) /\ Got(t)' = Got(t) /\ Opened(t)' = Opened(t)
               /\ StreamOK(t) /\ Len(stream[t].queue) \in Nat
               /\ Received(t) \in Seq(Pos)
    BY <1>2, Parts DEF Inv, Received, Got, Opened
  <2>6. Ids' = Ids \cup {id} /\ id \in Ids' /\ \A i \in Ids : i < id
    BY <1>1, <2>0 DEF Ids
  <2>7. ASSUME NEW t \in Streams \ {s} PROVE StreamOK(t)'
    <3>1. stream[t].skipped \subseteq Ids BY <2>5 DEF StreamOK
    <3>2. subscriber' # t BY <1>2, <2>0
    <3>3. /\ stream'[t].lost = stream[t].lost /\ stream'[t].skipped \subseteq Ids
          /\ Len(stream'[t].queue) <= Len(stream[t].queue)
          /\ stream'[t].start = stream[t].start
      BY <1>2, <2>5, <3>1
    <3>4. QED BY <1>1, <1>2, <2>3, <2>5, <3>2, <3>3, StreamStays
  <2>8. Opened(s) /\ CompleteFor(s) /\ OrderedFor(s) BY <2>0, <2>5 DEF StreamOK
  <2>9. Accounted(s)' = Accounted(s) \cup {id}
    BY <1>2, <2>4, <2>5 DEF Accounted, Got
  <2>10. CompleteFor(s)'
    <3>1. /\ Accounted(s) = stream[s].start .. Len(history)
          /\ stream[s].start <= Len(history) + 1
      BY <2>0, <2>8 DEF CompleteFor
    <3>2. stream[s].start \in Nat
      <4>1. stream[s] \in StreamRec BY <1>2 DEF Types
      <4>2. QED BY <4>1 DEF StreamRec, Pos
    <3>3. Accounted(s)' = stream'[s].start .. Len(history')
      BY <1>1, <1>2, <2>0, <2>9, <3>1, <3>2
    <3>4. stream'[s].start <= Len(history') + 1 BY <1>1, <1>2, <3>1, <3>2
    <3>5. QED BY <1>1, <3>3, <3>4 DEF CompleteFor
  <2>11. OrderedFor(s)'
    <3>1. ASSUME NEW i \in 1 .. Len(Received(s)) PROVE Received(s)[i] \in Ids
      <4>1. Received(s)[i] \in Got(s) BY <2>5, Elements DEF Got
      <4>2. QED BY <2>5, <4>1 DEF StreamOK
    <3>2. ASSUME NEW i \in 1 .. Len(Received(s))
          PROVE  history'[Received(s)[i]] = history[Received(s)[i]]
      BY <1>1, <3>1 DEF Extends
    <3>3. QED BY <2>5, <2>8, <3>2 DEF OrderedFor
  <2>12. StreamOK(s)'
    BY <1>2, <2>5, <2>6, <2>10, <2>11 DEF StreamOK
  <2>13. PubOK(p)'
    <3>1. /\ Got(s) \subseteq Ids /\ id \notin stream[s].lost
          /\ \A i \in Got(s)' : i < id
      BY <2>5, <2>6 DEF StreamOK
    <3>2. QED BY <1>1, <1>2, <2>0, <2>1, <2>2, <2>5, <2>6, <2>8, <3>1 DEF PubOK
  <2>14. ASSUME NEW q \in Publishers \ {p} PROVE PubOK(q)'
    <3>1. PubOK(q) /\ \A t \in Streams : StreamOK(t) BY DEF Inv
    <3>2. ASSUME NEW t \in Streams, Opened(t)
          PROVE  /\ Opened(t)' /\ Accounted(t) \subseteq Accounted(t)'
                 /\ Got(t)' = Got(t) /\ stream'[t].lost = stream[t].lost
                 /\ Len(stream'[t].queue) <= Len(stream[t].queue)
      BY <1>2, <2>3, <2>5, <2>9, <3>2 DEF Accounted, Got
    <3>3. QED BY <1>1, <1>2, <2>1, <3>1, <3>2, PubStays
  <2>15. QED BY <1>1, <2>7, <2>12, <2>13, <2>14 DEF Inv
<1>5. QED BY <1>3, <1>4

-----------------------------------------------------------------------------
(* The theorems *)

LEMMA Initially == Init => Inv
<1> SUFFICES ASSUME Init PROVE Inv
  OBVIOUS
<1>1. /\ history = << >> /\ first = 1 /\ truncated = FALSE /\ subscriber = NoStream
      /\ resets = 0 /\ pub = [p \in Publishers |-> Idle]
      /\ stream = [s \in Streams |-> NewStream]
  BY DEF Init
<1>2. << >> \in Seq(Pos) /\ << >> \in Seq(Event) /\ Len(history) = 0 BY <1>1
<1>3. Types
  <2>1. NewStream \in StreamRec BY <1>2 DEF NewStream, StreamRec, Pos
  <2>2. Idle \in PubRec BY DEF Idle, PubRec
  <2>3. /\ first \in Pos /\ first <= Len(history) + 1 /\ resets \in 0 .. MaxResets
        /\ Len(history) + 1 - first <= BufferSize
    BY <1>1, <1>2, Constants DEF Pos
  <2>4. QED BY <1>1, <1>2, <2>1, <2>2, <2>3 DEF Types
<1>4. ASSUME NEW s \in Streams PROVE StreamOK(s)
  <2>1. /\ stream[s].queue = << >> /\ stream[s].taken = << >> /\ stream[s].snapshot = << >>
        /\ stream[s].lost = {} /\ stream[s].skipped = {} /\ stream[s].at = "new"
    BY <1>1 DEF NewStream
  <2>2. Received(s) = << >> BY <1>2, <2>1, ConcatEmptySeq DEF Received
  <2>3. Got(s) = {} /\ OrderedFor(s)
    <3>1. Len(Received(s)) = 0 /\ Received(s) \in Seq(Pos) /\ 1 .. 0 = {} BY <1>2, <2>2
    <3> DEFINE w == Received(s)
    <3>2. ToSet(w) = {w[i] : i \in 1 .. Len(w)}
      <4>1. w \in Seq(Pos) BY <3>1
      <4> HIDE DEF w
      <4>2. QED BY <4>1, Elements
    <3>3. QED BY <3>1, <3>2 DEF OrderedFor, Got
  <2>4. subscriber # s BY <1>1, NoValues
  <2>5. QED BY <2>1, <2>3, <2>4, Constants DEF StreamOK, Opened
<1>5. \A p \in Publishers : PubOK(p) BY <1>1 DEF PubOK, Busy, Idle
<1>6. QED BY <1>3, <1>4, <1>5 DEF Inv

LEMMA Stutters ==
  ASSUME Inv, UNCHANGED vars
  PROVE  Inv'
<1>1. Types' /\ Extends /\ Len(history') = Len(history)
  BY LenProperties DEF Inv, Types, vars, bufferVars, Extends
<1> DEFINE X == {}
<1>2. X \in SUBSET Streams /\ \A t \in X : StreamOK(t)' /\ ~Opened(t) OBVIOUS
<1>3. /\ \A t \in Streams \ X : stream'[t] = stream[t]
      /\ \A t \in Streams \ X : subscriber' = t => subscriber = t
      /\ pub' = pub
  BY DEF vars
<1> HIDE DEF X
<1>4. QED BY <1>1, <1>2, <1>3, QuietKeeps

LEMMA Steps ==
  ASSUME Inv, [Next]_vars
  PROVE  Inv'
<1>1. ASSUME NEW p \in Publishers, PublisherStep(p) PROVE Inv'
  BY <1>1, PublishKeeps, PutKeeps, DropOldestKeeps DEF PublisherStep
<1>2. ASSUME NEW s \in Streams, GeneratorStep(s) PROVE Inv'
  <2>1. Moves(s) BY <1>2, BeginMoves, ReplayMoves, ServeMoves DEF GeneratorStep
  <2>2. QED BY <2>1, MovesKeep
<1>3. ASSUME NEW s \in Streams, Expire(s) \/ Disconnect(s) \/ Abandon(s) PROVE Inv'
  <2>1. Moves(s) BY <1>3, LeaveMoves
  <2>2. QED BY <2>1, MovesKeep
<1>4. ASSUME NEW s \in Streams, Open(s) PROVE Inv' BY <1>4, OpenKeeps
<1>5. CASE Reset BY <1>5, ResetKeeps
<1>6. CASE UNCHANGED vars BY <1>6, Stutters
<1>7. QED BY <1>1, <1>2, <1>3, <1>4, <1>5, <1>6 DEF Next

\* The invariant the others follow from: per stream, what it got is in order, nothing
\* it got is lost and nothing between is missing; per publisher, the event on its way
\* is newer than all of its events the stream got.
THEOREM Invariance == Spec => []Inv
BY Initially, Steps, PTL DEF Spec

\* The parts of a sequence have the elements the whole has.
LEMMA PartsOf ==
  ASSUME NEW S, NEW T, NEW a \in Seq(S), NEW b \in Seq(S), ToSet(a \o b) \subseteq T
  PROVE  a \in Seq(T) /\ b \in Seq(T)
<1>1. /\ a \o b \in Seq(S) /\ Len(a \o b) = Len(a) + Len(b) /\ Len(a) \in Nat /\ Len(b) \in Nat
      /\ \A i \in 1 .. Len(a) + Len(b) : (a \o b)[i] =
           IF i <= Len(a) THEN a[i] ELSE b[i - Len(a)]
  BY ConcatProperties, LenProperties
<1> DEFINE w == a \o b
<1>2. \A i \in 1 .. Len(a) + Len(b) : w[i] \in T
  <2>1. w \in Seq(S) /\ Len(w) = Len(a) + Len(b) BY <1>1
  <2> HIDE DEF w
  <2>2. ToSet(w) = {w[i] : i \in 1 .. Len(w)} BY <2>1, Elements
  <2>3. QED BY <2>1, <2>2 DEF w
<1>3. \A i \in 1 .. Len(a) : a[i] \in T BY <1>1, <1>2
<1>4. ASSUME NEW i \in 1 .. Len(b) PROVE b[i] \in T
  <2>1. i + Len(a) \in 1 .. Len(a) + Len(b) /\ (i + Len(a)) - Len(a) = i /\ i + Len(a) > Len(a)
    BY <1>1
  <2>2. w[i + Len(a)] = b[i] BY <1>1, <2>1
  <2>3. QED BY <1>2, <2>1, <2>2
<1>5. DOMAIN a = 1 .. Len(a) /\ DOMAIN b = 1 .. Len(b) BY LenProperties
<1>6. a \in [1 .. Len(a) -> T] /\ b \in [1 .. Len(b) -> T]
  <2>1. a \in [1 .. Len(a) -> S] /\ b \in [1 .. Len(b) -> S] BY LenProperties
  <2>2. QED BY <1>3, <1>4, <2>1
<1>7. ASSUME NEW n \in Nat, NEW f \in [1 .. n -> T] PROVE f \in Seq(T)
  BY SeqDef
<1>8. QED BY <1>1, <1>6, <1>7

LEMMA InvTypeOK == Inv => TypeOK
<1> SUFFICES ASSUME Inv PROVE TypeOK
  OBVIOUS
<1>1. /\ history \in Seq(Event) /\ first \in Pos /\ truncated \in BOOLEAN
      /\ first <= Len(history) + 1 /\ Len(history) + 1 - first <= BufferSize
      /\ subscriber \in Streams \cup {NoStream} /\ resets \in 0 .. MaxResets
      /\ pub \in [Publishers -> PubRec] /\ stream \in [Streams -> StreamRec]
      /\ Len(history) \in Nat
  BY LenProperties DEF Inv, Types
<1>2. Cardinality(Buffered) <= BufferSize
  <2>1. Cardinality(first .. Len(history)) =
          IF first > Len(history) THEN 0 ELSE Len(history) - first + 1
    <3>1. first \in Int /\ Len(history) \in Int BY <1>1 DEF Pos
    <3>2. QED BY <3>1, FS_Interval
  <2>2. QED BY <1>1, <2>1, Constants DEF Buffered, Pos
<1>3. pub \in [Publishers -> PubType]
  <2>1. ASSUME NEW p \in Publishers PROVE pub[p] \in PubType
    <3>1. pub[p] \in PubRec /\ pub[p].id \in Ids \cup {0} BY <1>1 DEF Inv, PubOK
    <3>2. QED BY <3>1 DEF PubRec, PubType
  <2>2. QED BY <1>1, <2>1
<1>4. ASSUME NEW s \in Streams PROVE stream[s] \in StreamType /\ Len(stream[s].queue) <= QueueSize
  <2> DEFINE r == stream[s]
             a == stream[s].taken \o stream[s].snapshot
  <2>1. /\ r.taken \in Seq(Pos) /\ r.snapshot \in Seq(Pos) /\ r.queue \in Seq(Pos)
        /\ a \in Seq(Pos) /\ Received(s) = a \o r.queue
    BY Parts DEF Inv
  <2>2. /\ StreamOK(s) /\ ToSet(Received(s)) \subseteq Ids /\ r.lost \subseteq Ids
        /\ r.skipped \subseteq Ids
    BY DEF Inv, StreamOK, Got
  <2>3. a \in Seq(Ids) /\ r.queue \in Seq(Ids)
    <3> HIDE DEF a, r
    <3>1. ToSet(a \o r.queue) \subseteq Ids BY <2>1, <2>2
    <3>2. QED BY <2>1, <3>1, PartsOf
  <2>4. r.taken \in Seq(Ids) /\ r.snapshot \in Seq(Ids)
    <3> DEFINE b == r.taken
               c == r.snapshot
    <3>1. b \in Seq(Pos) /\ c \in Seq(Pos) /\ a = b \o c BY <2>1
    <3> HIDE DEF a, b, c
    <3>2. ToSet(a) \subseteq Ids BY <2>3, Elements
    <3>3. b \in Seq(Ids) /\ c \in Seq(Ids) BY <3>1, <3>2, PartsOf
    <3>4. QED BY <3>3 DEF b, c
  <2>5. stream[s] \in StreamRec BY <1>1
  <2> HIDE DEF a
  <2>6. r \in StreamType BY <2>2, <2>3, <2>4, <2>5 DEF StreamRec, StreamType, Pos
  <2>7. QED BY <2>2, <2>6 DEF StreamOK
<1>5. stream \in [Streams -> StreamType] BY <1>1, <1>4
<1>6. QED BY <1>1, <1>2, <1>3, <1>4, <1>5 DEF TypeOK, Pos

\* TypeOK: the buffer and every live queue keep to their sizes, however the critical
\* sections of the publishers and the generators interleave.
THEOREM TypeCorrect == Spec => []TypeOK
BY Invariance, InvTypeOK, PTL

LEMMA InvHandedOver == Inv => HandedOverOnce
<1> SUFFICES ASSUME Inv, NEW s \in Streams, Opened(s)
             PROVE  /\ IsInjective(Received(s))
                    /\ ToSet(Received(s)) \cap Carried(s) = {}
                    /\ stream[s].lost \cap (ToSet(Received(s)) \cup Carried(s)) = {}
                    /\ \E last \in 0 .. Len(history) :
                         /\ Accounted(s) = stream[s].start .. last
                         /\ subscriber = s => last = Len(history)
  BY DEF HandedOverOnce
<1>1. Received(s) \in Seq(Pos) /\ OrderedFor(s) /\ CompleteFor(s) /\ StreamOK(s)
  BY Parts DEF Inv, StreamOK
<1>2. IsInjective(Received(s))
  <2>1. /\ Len(Received(s)) \in Nat /\ DOMAIN Received(s) = 1 .. Len(Received(s))
        /\ \A i \in 1 .. Len(Received(s)) : Received(s)[i] \in Nat
    BY <1>1, LenProperties, ElementOfSeq DEF Pos
  <2>2. SUFFICES ASSUME NEW i \in 1 .. Len(Received(s)), NEW j \in 1 .. Len(Received(s)),
                        Received(s)[i] = Received(s)[j], i < j
                 PROVE  FALSE
    BY <2>1 DEF IsInjective
  <2>3. Received(s)[i] < Received(s)[j] BY <1>1, <2>2 DEF OrderedFor
  <2>4. QED BY <2>1, <2>2, <2>3
<1>3. ASSUME NEW i \in Carried(s) PROVE i \notin Got(s) /\ i \notin stream[s].lost
  <2>1. PICK q \in Publishers : pub[q].to = s /\ Busy(q) /\ pub[q].id = i
    BY <1>3, OnTheirWay
  <2>2. QED BY <2>1, BusyFacts
<1>4. QED BY <1>1, <1>2, <1>3 DEF CompleteFor, StreamOK, Got

\* HandedOverOnce: a stream has, has lost or is about to get every event from the oldest
\* of the buffer when it registered to the newest, each of them once.
THEOREM HandoverIsExact == Spec => []HandedOverOnce
BY Invariance, InvHandedOver, PTL

LEMMA InvInOrder == Inv => InOrder
BY DEF Inv, StreamOK, OrderedFor, InOrder

\* InOrder: the events of one publisher reach a client in the order of their publication.
THEOREM OrderIsKept == Spec => []InOrder
BY Invariance, InvInOrder, PTL

LEMMA InvNeverRaises == Inv => NeverRaises
BY DEF Inv, PubOK, Foreign, NeverRaises

\* NeverRaises: a lone publisher never meets a full queue twice.
THEOREM ObservingIsHarmless == Spec => []NeverRaises
BY Invariance, InvNeverRaises, PTL

\* DetachesOnlyItself: a registration goes with its own stream, or with a reset.
LEMMA StepDetaches ==
  ASSUME Inv, [Next]_vars, NEW s \in Streams, subscriber = s, subscriber' # s
  PROVE  stream'[s].at # stream[s].at \/ resets' # resets
<1>1. stream \in [Streams -> StreamRec] /\ resets \in Nat BY Constants DEF Inv, Types
<1>2. ASSUME NEW t \in Streams, Expire(t) \/ Disconnect(t)
      PROVE  stream'[s].at # stream[s].at
  <2>1. t = s BY <1>2 DEF Expire, Disconnect, Detach
  <2>2. QED BY <1>1, <1>2, <2>1 DEF Expire, Disconnect, Detach, StreamRec
<1>3. CASE Reset BY <1>1, <1>3 DEF Reset
<1>4. ASSUME NEW p \in Publishers, PublisherStep(p) PROVE FALSE
  BY <1>4 DEF PublisherStep, Publish, Put, DropOldest, PutAgain
<1>5. ASSUME NEW t \in Streams, Open(t) \/ GeneratorStep(t) \/ Abandon(t) PROVE FALSE
  BY <1>5, NoValues DEF Open, GeneratorStep, Begin, Replay, Serve, Abandon
<1>6. CASE UNCHANGED vars BY <1>6 DEF vars
<1>7. QED BY <1>2, <1>3, <1>4, <1>5, <1>6 DEF Next

THEOREM DetachesItself == Spec => DetachesOnlyItself
<1>1. Inv /\ [Next]_vars =>
        [\A s \in Streams : subscriber = s /\ subscriber' # s =>
           stream'[s].at # stream[s].at \/ resets' # resets]_vars
  BY StepDetaches
<1>2. QED BY <1>1, Invariance, PTL DEF Spec, DetachesOnlyItself

\* Without clients that leave before their generator begins, the registered stream is
\* one that is served: every other way out goes through its finally clause.
LiveInv == \A s \in Streams : subscriber = s => stream[s].at \in {"opened", "serving"}

\* What is sent to the client of s, and what is left of its copy, stay as they are.
SentTheSame(s) ==
  /\ stream'[s].taken = stream[s].taken /\ stream'[s].skipped = stream[s].skipped
  /\ stream'[s].closing = stream[s].closing /\ stream'[s].snapshot = stream[s].snapshot

LEMMA PublishersLeaveAt ==
  ASSUME Inv, NEW p \in Publishers, PublisherStep(p), NEW s \in Streams
  PROVE  stream'[s].at = stream[s].at /\ SentTheSame(s)
<1> USE DEF SentTheSame
<1>1. stream \in [Streams -> StreamRec] BY DEF Inv, Types
<1>2. CASE Publish(p) BY <1>2 DEF Publish
<1>3. CASE Put(p) \/ PutAgain(p)
  <2>1. PICK t \in Streams, id \in Pos : t = pub[p].to /\ id = pub[p].id
    BY <1>3, BusyFacts DEF Busy, Put, PutAgain
  <2> DEFINE q == Append(stream[t].queue, id)
             l == stream[t].lost \cup {id}
  <2>2. \/ stream' = stream
        \/ stream' = [stream EXCEPT ![t].queue = q]
        \/ stream' = [stream EXCEPT ![t].lost = l]
    BY <1>3, <2>1 DEF Put, PutAgain, Enqueue
  <2> HIDE DEF q, l
  <2>3. CASE stream' = [stream EXCEPT ![t].queue = q] BY <1>1, <2>3 DEF StreamRec
  <2>4. CASE stream' = [stream EXCEPT ![t].lost = l] BY <1>1, <2>4 DEF StreamRec
  <2>5. QED BY <2>2, <2>3, <2>4
<1>4. CASE DropOldest(p)
  <2>1. pub[p].to \in Streams BY <1>4, BusyFacts DEF Busy, DropOldest
  <2>2. QED BY <1>1, <1>4, <2>1 DEF DropOldest, StreamRec
<1>5. QED BY <1>2, <1>3, <1>4 DEF PublisherStep

LEMMA LiveSteps ==
  ASSUME Inv, LiveInv, ~MayAbandon, [Next]_vars
  PROVE  LiveInv'
<1>1. stream \in [Streams -> StreamRec] /\ pub \in [Publishers -> PubRec] BY DEF Inv, Types
<1> SUFFICES ASSUME NEW s \in Streams, subscriber' = s
             PROVE  stream'[s].at \in {"opened", "serving"}
  BY DEF LiveInv
<1>2. ASSUME NEW t \in Streams, Open(t) PROVE stream'[s].at \in {"opened", "serving"}
  <2>1. CASE subscriber # NoStream
    <3>1. subscriber = s /\ stream[t].at = "new" /\ \A u \in Streams \ {t} : stream'[u] = stream[u]
      BY <1>1, <1>2, <2>1 DEF Open
    <3>2. QED BY <3>1 DEF LiveInv
  <2>2. CASE subscriber = NoStream
    <3>1. t = s /\ stream'[s].at = "opened" BY <1>1, <1>2, <2>2 DEF Open, NewStream
    <3>2. QED BY <3>1
  <2>3. QED BY <2>1, <2>2
<1>3. ASSUME NEW t \in Streams, Begin(t) PROVE stream'[s].at \in {"opened", "serving"}
  BY <1>1, <1>3 DEF Begin, LiveInv, StreamRec
<1>4. ASSUME NEW t \in Streams, Replay(t) \/ Serve(t)
      PROVE  stream'[s].at \in {"opened", "serving"}
  <2>1. subscriber = s BY <1>4 DEF Replay, Serve
  <2>2. CASE Replay(t)
    <3>1. stream'[s].at = stream[s].at BY <1>1, <2>2 DEF Replay, StreamRec
    <3>2. QED BY <2>1, <3>1 DEF LiveInv
  <2>3. CASE Serve(t)
    <3>1. stream'[s].at = stream[s].at BY <1>1, <2>3 DEF Serve, StreamRec
    <3>2. QED BY <2>1, <3>1 DEF LiveInv
  <2>4. QED BY <1>4, <2>2, <2>3
<1>5. ASSUME NEW t \in Streams, Expire(t) \/ Disconnect(t)
      PROVE  stream'[s].at \in {"opened", "serving"}
  BY <1>1, <1>5, NoValues DEF Expire, Disconnect, Detach, LiveInv, StreamRec
<1>6. ASSUME NEW t \in Streams, Abandon(t) PROVE FALSE BY <1>6 DEF Abandon
<1>7. ASSUME NEW p \in Publishers, PublisherStep(p)
      PROVE  stream'[s].at \in {"opened", "serving"}
  <2>1. subscriber = s BY <1>7 DEF PublisherStep, Publish, Put, DropOldest, PutAgain
  <2>2. stream'[s].at = stream[s].at BY <1>7, PublishersLeaveAt
  <2>3. QED BY <2>1, <2>2 DEF LiveInv
<1>8. CASE Reset BY <1>8, NoValues DEF Reset
<1>9. CASE UNCHANGED vars BY <1>9 DEF vars, LiveInv
<1>10. QED
  BY <1>2, <1>3, <1>4, <1>5, <1>6, <1>7, <1>8, <1>9 DEF Next, GeneratorStep

LEMMA StepRefuses ==
  ASSUME Inv, LiveInv, [Next]_vars, NEW s \in Streams,
         stream[s].at = "new", stream'[s].at = "refused"
  PROVE  \E t \in Streams : stream[t].at \in {"opened", "serving"}
<1>1. stream \in [Streams -> StreamRec] /\ subscriber \in Streams \cup {NoStream}
  BY DEF Inv, Types
<1>2. ASSUME subscriber = NoStream PROVE FALSE
  <2>1. ASSUME NEW t \in Streams, Open(t) PROVE FALSE
    <3>1. stream'[t].at = "opened" /\ \A u \in Streams \ {t} : stream'[u] = stream[u]
      BY <1>1, <1>2, <2>1 DEF Open, NewStream
    <3>2. QED BY <3>1
  <2>2. ASSUME NEW t \in Streams, GeneratorStep(t) PROVE FALSE
    BY <1>1, <2>2 DEF GeneratorStep, Begin, Replay, Serve, StreamRec
  <2>3. ASSUME NEW t \in Streams, Expire(t) \/ Disconnect(t) \/ Abandon(t) PROVE FALSE
    BY <1>1, <2>3 DEF Expire, Disconnect, Abandon, Detach, StreamRec
  <2>4. ASSUME NEW p \in Publishers, PublisherStep(p) PROVE FALSE
    <3>1. stream'[s].at = stream[s].at BY <2>4, PublishersLeaveAt
    <3>2. QED BY <3>1
  <2>5. CASE Reset \/ UNCHANGED vars BY <2>5 DEF Reset, vars
  <2>6. QED BY <2>1, <2>2, <2>3, <2>4, <2>5 DEF Next
<1>3. QED BY <1>1, <1>2 DEF LiveInv

\* RefusedOnlyWhileLive: where no client leaves before its generator begins, a client
\* is refused only while another is served.
THEOREM RefusesOnlyWhileLive ==
  ASSUME ~MayAbandon
  PROVE  Spec => RefusedOnlyWhileLive
<1>1. Init => LiveInv BY NoValues DEF Init, LiveInv
<1>2. Inv /\ LiveInv /\ [Next]_vars => LiveInv' BY LiveSteps
<1>3. Inv /\ LiveInv /\ [Next]_vars =>
        [\A s \in Streams : stream[s].at = "new" /\ stream'[s].at = "refused" =>
           \E t \in Streams : stream[t].at \in {"opened", "serving"}]_vars
  BY StepRefuses
<1>4. QED BY <1>1, <1>2, <1>3, Invariance, PTL DEF Spec, RefusedOnlyWhileLive

-----------------------------------------------------------------------------
(* What TerminalEnds rests on, besides fairness *)

\* A terminal status that was sent to a client has begun the grace period of its stream.
Closes(s) ==
  \A i \in ToSet(stream[s].taken) \ stream[s].skipped :
    history[i].terminal => stream[s].closing
ClosesInv == \A s \in Streams : Closes(s)

\* One event is taken: sent, or kept back by the filter.
TakesOne(s) ==
  \E i \in Ids :
    /\ stream'[s].taken = Append(stream[s].taken, i)
    /\ stream[s].skipped \subseteq stream'[s].skipped
    /\ stream[s].closing => stream'[s].closing
    /\ history[i].terminal /\ i \notin stream'[s].skipped => stream'[s].closing
    /\ Len(stream'[s].snapshot) <= Len(stream[s].snapshot)
Begins(s) == stream[s].at = "new" /\ stream'[s].taken = << >>

LEMMA ReplaySends ==
  ASSUME Inv, NEW s \in Streams, Replay(s)
  PROVE  TakesOne(s) /\ \A t \in Streams \ {s} : stream'[t] = stream[t]
<1>1. stream \in [Streams -> StreamRec] /\ stream[s].snapshot \in Seq(Pos)
  BY Parts DEF Inv, Types
<1>2. PICK i : i = Head(stream[s].snapshot) OBVIOUS
<1> DEFINE skip == Filtered(s, i)
           k == IF skip THEN stream[s].skipped \cup {i} ELSE stream[s].skipped
           cl == stream[s].closing \/ (~skip /\ history[i].terminal)
           q == Tail(stream[s].snapshot)
           w == Append(stream[s].taken, i)
<1>3. stream' = [stream EXCEPT ![s].snapshot = q, ![s].taken = w,
                               ![s].skipped = k, ![s].closing = cl]
  BY <1>2 DEF Replay
<1>4. /\ stream[s].skipped \subseteq k
      /\ stream[s].closing => cl
      /\ history[i].terminal /\ i \notin k => cl
  OBVIOUS
<1>5. Len(q) <= Len(stream[s].snapshot)
  BY <1>1, HeadTailProperties, EmptySeq, LenProperties DEF Replay
<1> HIDE DEF skip, k, cl, q
<1>6. /\ stream'[s].taken = w /\ stream'[s].skipped = k /\ stream'[s].closing = cl
      /\ stream'[s].snapshot = q /\ \A t \in Streams \ {s} : stream'[t] = stream[t]
  BY <1>1, <1>3 DEF StreamRec
<1>7. i \in Ids
  <2>1. stream[s].taken \in Seq(Pos) /\ stream[s].queue \in Seq(Pos) BY Parts DEF Inv
  <2>2. Head(stream[s].snapshot)
          \in ToSet(stream[s].taken \o stream[s].snapshot \o stream[s].queue)
    BY <1>1, <2>1, HeadOfMiddle DEF Replay
  <2>3. QED BY <1>2, <2>2 DEF Inv, StreamOK, Got, Received
<1>8. QED BY <1>4, <1>5, <1>6, <1>7 DEF TakesOne

LEMMA ServeSends ==
  ASSUME Inv, NEW s \in Streams, Serve(s)
  PROVE  TakesOne(s) /\ \A t \in Streams \ {s} : stream'[t] = stream[t]
<1>1. /\ stream \in [Streams -> StreamRec] /\ stream[s].queue \in Seq(Pos)
      /\ stream[s].taken \in Seq(Pos) /\ Len(stream[s].snapshot) \in Nat
  BY Parts, LenProperties DEF Inv, Types
<1>2. PICK i : i = Head(stream[s].queue) OBVIOUS
<1> DEFINE cl == stream[s].closing \/ history[i].terminal
           q == Tail(stream[s].queue)
           w == Append(stream[s].taken, i)
<1>3. stream' = [stream EXCEPT ![s].queue = q, ![s].taken = w, ![s].closing = cl]
  BY <1>2 DEF Serve
<1>4. (stream[s].closing => cl) /\ (history[i].terminal => cl) OBVIOUS
<1> HIDE DEF cl, q
<1>5. /\ stream'[s].taken = w /\ stream'[s].skipped = stream[s].skipped
      /\ stream'[s].closing = cl /\ stream'[s].snapshot = stream[s].snapshot
      /\ \A t \in Streams \ {s} : stream'[t] = stream[t]
  BY <1>1, <1>3 DEF StreamRec
<1>6. i \in Ids
  <2>1. stream[s].snapshot = << >> /\ stream[s].queue # << >> BY DEF Serve
  <2>2. Received(s) = stream[s].taken \o stream[s].queue /\ Len(stream[s].queue) > 0
    BY <1>1, <2>1, ConcatEmptySeq, EmptySeq, LenProperties DEF Received
  <2>3. i \in ToSet(stream[s].taken \o stream[s].queue)
    <3> DEFINE a == stream[s].taken
               b == stream[s].queue
    <3>1. a \in Seq(Pos) /\ b \in Seq(Pos) /\ Len(b) > 0 /\ i = Head(b) BY <1>1, <1>2, <2>2
    <3> HIDE DEF a, b
    <3>2. /\ a \o b \in Seq(Pos) /\ Len(a \o b) = Len(a) + Len(b)
          /\ Len(a) \in Nat /\ Len(b) \in Nat
          /\ \A j \in 1 .. Len(a) + Len(b) : (a \o b)[j] =
               IF j <= Len(a) THEN a[j] ELSE b[j - Len(a)]
      BY <3>1, ConcatProperties, LenProperties
    <3>3. /\ Len(a) + 1 \in 1 .. Len(a) + Len(b) /\ ~(Len(a) + 1 <= Len(a))
          /\ (Len(a) + 1) - Len(a) = 1
      BY <3>1, <3>2
    <3>4. i = (a \o b)[Len(a) + 1]
      <4>1. (a \o b)[Len(a) + 1] = b[1] BY <3>2, <3>3
      <4>2. QED BY <3>1, <4>1
    <3>5. ToSet(a \o b) = {(a \o b)[j] : j \in 1 .. Len(a \o b)} BY <3>2, Elements
    <3>6. QED BY <3>2, <3>3, <3>4, <3>5 DEF a, b
  <2>4. i \in Got(s) BY <2>2, <2>3 DEF Got
  <2>5. QED BY <2>4 DEF Inv, StreamOK
<1>7. QED BY <1>1, <1>4, <1>5, <1>6 DEF TakesOne

\* In every step each stream takes one event, begins, or has been sent the same.
LEMMA StepSends ==
  ASSUME Inv, [Next]_vars, NEW s \in Streams
  PROVE  /\ SentTheSame(s) \/ TakesOne(s) \/ Begins(s)
         /\ Extends /\ Ids \subseteq Ids'
<1>1. stream \in [Streams -> StreamRec] /\ Len(history) \in Nat
  BY Parts DEF Inv, Types
<1>2. Extends /\ Ids \subseteq Ids'
  <2>1. CASE history' = history BY <1>1, <2>1 DEF Extends, Ids
  <2>2. ASSUME NEW e, e \in Event, history' = Append(history, e)
        PROVE  Extends /\ Ids \subseteq Ids'
    <3>1. /\ history \in Seq(Event) BY DEF Inv, Types
    <3>2. Len(history') = Len(history) + 1 /\ \A i \in 1 .. Len(history) : history'[i] = history[i]
      BY <2>2, <3>1, AppendProperties
    <3>3. QED BY <1>1, <3>2 DEF Extends, Ids
  <2>3. ASSUME NEW p \in Publishers, Publish(p)
        PROVE  \E e \in Event : history' = Append(history, e)
    BY <2>3 DEF Publish, EventsOf
  <2>4. history' = history \/ \E p \in Publishers : Publish(p)
    BY DEF Next, PublisherStep, Put, DropOldest, PutAgain, Open, GeneratorStep, Begin, Replay,
           Serve, Expire, Disconnect, Abandon, Detach, Reset, vars, bufferVars
  <2>5. QED BY <2>1, <2>2, <2>3, <2>4
<1>3. ASSUME NEW p \in Publishers, PublisherStep(p) PROVE SentTheSame(s)
  BY <1>3, PublishersLeaveAt
<1>4. ASSUME NEW t \in Streams, Replay(t) \/ Serve(t)
      PROVE  SentTheSame(s) \/ TakesOne(s)
  BY <1>4, ReplaySends, ServeSends DEF SentTheSame
<1>5. ASSUME NEW t \in Streams, Begin(t) \/ Expire(t) \/ Disconnect(t) \/ Abandon(t)
      PROVE  SentTheSame(s)
  <2>1. CASE Begin(t)
    <3> DEFINE g == /\ stream[t].from # FromStart /\ stream[t].truncated
                    /\ stream[t].snapshot # << >>
                    /\ stream[t].from < history[Head(stream[t].snapshot)].elapsed
    <3>1. stream' = [stream EXCEPT ![t].at = "serving", ![t].gap = g] BY <2>1 DEF Begin
    <3> HIDE DEF g
    <3>2. QED BY <1>1, <3>1 DEF SentTheSame, StreamRec
  <2>2. CASE Expire(t) \/ Disconnect(t) \/ Abandon(t)
    <3>1. PICK a : stream' = [stream EXCEPT ![t].at = a]
      BY <2>2 DEF Expire, Disconnect, Abandon, Detach
    <3>2. QED BY <1>1, <3>1 DEF SentTheSame, StreamRec
  <2>3. QED BY <1>5, <2>1, <2>2
<1>6. ASSUME NEW t \in Streams, Open(t) PROVE SentTheSame(s) \/ Begins(s)
  <2>1. CASE subscriber # NoStream
    <3>1. stream' = [stream EXCEPT ![t].at = "refused"] BY <1>6, <2>1 DEF Open
    <3>2. QED BY <1>1, <3>1 DEF SentTheSame, StreamRec
  <2>2. CASE subscriber = NoStream
    <3>1. stream[t].at = "new" /\ \A u \in Streams \ {t} : stream'[u] = stream[u]
      BY <1>1, <1>6, <2>2 DEF Open
    <3>2. stream'[t].taken = << >> BY <1>1, <1>6, <2>2 DEF Open, NewStream
    <3>3. QED BY <3>1, <3>2 DEF SentTheSame, Begins
  <2>3. QED BY <2>1, <2>2
<1>7. ASSUME Reset \/ UNCHANGED vars PROVE SentTheSame(s)
  <2>1. stream' = stream BY <1>7 DEF Reset, vars
  <2>2. QED BY <2>1 DEF SentTheSame
<1>8. QED BY <1>2, <1>3, <1>4, <1>5, <1>6, <1>7 DEF Next, GeneratorStep

LEMMA ClosesSteps ==
  ASSUME Inv, ClosesInv, [Next]_vars
  PROVE  ClosesInv'
<1> SUFFICES ASSUME NEW s \in Streams, NEW i, i \in ToSet(stream'[s].taken),
                    i \notin stream'[s].skipped, history'[i].terminal
             PROVE  stream'[s].closing
  BY DEF ClosesInv, Closes
<1>1. /\ SentTheSame(s) \/ TakesOne(s) \/ Begins(s)
      /\ \A j \in Ids : history'[j] = history[j]
  BY StepSends DEF Extends
<1>2. ToSet(stream[s].taken) \subseteq Ids
  <2>1. /\ stream[s].taken \in Seq(Pos) /\ stream[s].snapshot \in Seq(Pos)
        /\ stream[s].queue \in Seq(Pos) /\ stream[s].taken \o stream[s].snapshot \in Seq(Pos)
        /\ Received(s) = (stream[s].taken \o stream[s].snapshot) \o stream[s].queue
    BY Parts DEF Inv
  <2>2. ToSet((stream[s].taken \o stream[s].snapshot) \o stream[s].queue) \subseteq Ids
    BY <2>1 DEF Inv, StreamOK, Got
  <2>3. stream[s].taken \o stream[s].snapshot \in Seq(Ids)
    <3>1. PICK u \in Seq(Pos), v \in Seq(Pos) :
            u = stream[s].taken \o stream[s].snapshot /\ v = stream[s].queue
      BY <2>1
    <3>2. ToSet(u \o v) \subseteq Ids BY <2>2, <3>1
    <3>3. u \in Seq(Ids) BY <3>2, PartsOf, Zenon
    <3>4. QED BY <3>1, <3>3
  <2>4. ToSet(stream[s].taken \o stream[s].snapshot) \subseteq Ids
    BY <2>3, Elements, LenProperties
  <2>5. stream[s].taken \in Seq(Ids) BY <2>1, <2>4, PartsOf
  <2>6. QED BY <2>5, Elements, LenProperties
<1>3. i \in ToSet(stream[s].taken) /\ i \notin stream[s].skipped => stream[s].closing
  <2>1. i \in ToSet(stream[s].taken) => history[i].terminal BY <1>1, <1>2
  <2>2. QED BY <2>1 DEF ClosesInv, Closes
<1>4. CASE SentTheSame(s) BY <1>3, <1>4 DEF SentTheSame
<1>5. CASE Begins(s)
  <2>1. ToSet(<< >>) = {} BY DEF ToSet
  <2>2. QED BY <1>5, <2>1 DEF Begins
<1>6. CASE TakesOne(s)
  <2>1. PICK j \in Ids :
          /\ stream'[s].taken = Append(stream[s].taken, j)
          /\ stream[s].skipped \subseteq stream'[s].skipped
          /\ stream[s].closing => stream'[s].closing
          /\ history[j].terminal /\ j \notin stream'[s].skipped => stream'[s].closing
    BY <1>6 DEF TakesOne
  <2>2. stream[s].taken \in Seq(Pos) BY Parts DEF Inv
  <2>3. i = j \/ i \in ToSet(stream[s].taken)
    <3> DEFINE a == stream[s].taken
    <3>0. j \in Pos
      <4>1. Len(history) \in Nat BY Parts DEF Inv
      <4>2. QED BY <4>1 DEF Ids, Pos
    <3>1. a \in Seq(Pos) /\ j \in Pos /\ i \in ToSet(Append(a, j)) BY <2>1, <2>2, <3>0
    <3> HIDE DEF a
    <3>2. /\ Append(a, j) \in Seq(Pos) /\ Len(Append(a, j)) = Len(a) + 1 /\ Len(a) \in Nat
          /\ \A k \in 1 .. Len(a) : Append(a, j)[k] = a[k]
          /\ Append(a, j)[Len(a) + 1] = j
      BY <3>1, AppendProperties, LenProperties
    <3>3. PICK k \in 1 .. Len(a) + 1 : i = Append(a, j)[k]
      <4>1. PICK w \in Seq(Pos) : w = Append(a, j) BY <3>2
      <4>2. i \in ToSet(w) BY <3>1, <4>1, Zenon
      <4>3. i \in {w[k] : k \in 1 .. Len(w)} BY <4>2, Elements
      <4>4. QED BY <3>2, <4>1, <4>3
    <3>4. CASE k = Len(a) + 1 BY <3>2, <3>3, <3>4
    <3>5. CASE k # Len(a) + 1
      <4>1. k \in 1 .. Len(a) BY <3>2, <3>5
      <4>2. QED BY <3>1, <3>2, <3>3, <4>1, Elements DEF a
    <3>6. QED BY <3>4, <3>5
  <2>4. CASE i = j BY <1>1, <2>1, <2>4
  <2>5. CASE i \in ToSet(stream[s].taken) BY <1>3, <2>1, <2>5
  <2>6. QED BY <2>3, <2>4, <2>5
<1>7. QED BY <1>1, <1>4, <1>5, <1>6

\* A terminal status that a stream has to send and has not lost or kept back is still
\* ahead of its generator (in the copy, in the queue or carried by a publisher), or the
\* grace period of the stream has begun: it cannot have been passed over.
StatusIsAhead ==
  \A s \in Streams : \A i \in Accounted(s) :
    history[i].terminal /\ i \notin stream[s].lost \cup stream[s].skipped
      => \/ stream[s].closing
         \/ i \in Carried(s) \cup ToSet(stream[s].snapshot) \cup ToSet(stream[s].queue)

LEMMA InvAhead == Inv /\ ClosesInv => StatusIsAhead
<1> SUFFICES ASSUME Inv, ClosesInv, NEW s \in Streams, NEW i \in Accounted(s),
                    history[i].terminal, i \notin stream[s].lost, i \notin stream[s].skipped,
                    i \notin Carried(s)
             PROVE  \/ stream[s].closing
                    \/ i \in ToSet(stream[s].snapshot) \cup ToSet(stream[s].queue)
  BY DEF StatusIsAhead
<1>1. i \in ToSet(Received(s)) BY DEF Accounted
<1> DEFINE a == stream[s].taken
           b == stream[s].snapshot
           c == stream[s].queue
<1>2. /\ a \in Seq(Pos) /\ b \in Seq(Pos) /\ c \in Seq(Pos) /\ a \o b \in Seq(Pos)
      /\ Received(s) = (a \o b) \o c
  BY Parts DEF Inv
<1>3. i \in ToSet(a) => stream[s].closing BY DEF ClosesInv, Closes
<1> HIDE DEF a, b, c
<1>4. ASSUME NEW u \in Seq(Pos), NEW v \in Seq(Pos), i \in ToSet(u \o v)
      PROVE  i \in ToSet(u) \cup ToSet(v)
  <2>1. /\ u \o v \in Seq(Pos) /\ Len(u \o v) = Len(u) + Len(v)
        /\ Len(u) \in Nat /\ Len(v) \in Nat
        /\ \A k \in 1 .. Len(u) + Len(v) : (u \o v)[k] =
             IF k <= Len(u) THEN u[k] ELSE v[k - Len(u)]
    BY ConcatProperties, LenProperties
  <2>2. PICK k \in 1 .. Len(u) + Len(v) : i = (u \o v)[k]
    <3>1. PICK w \in Seq(Pos) : w = u \o v BY <2>1
    <3>2. i \in ToSet(w) BY <1>4, <3>1, Zenon
    <3>3. i \in {w[k] : k \in 1 .. Len(w)} BY <3>2, Elements
    <3>4. QED BY <2>1, <3>1, <3>3
  <2>3. CASE k <= Len(u)
    <3>1. k \in 1 .. Len(u) /\ i = u[k] BY <2>1, <2>2, <2>3
    <3>2. QED BY <3>1, Elements
  <2>4. CASE k > Len(u)
    <3>1. k - Len(u) \in 1 .. Len(v) /\ i = v[k - Len(u)] BY <2>1, <2>2, <2>4
    <3>2. QED BY <3>1, Elements
  <2>5. QED BY <2>1, <2>3, <2>4
<1>5. i \in ToSet(a \o b) \cup ToSet(c) BY <1>1, <1>2, <1>4
<1>6. i \in ToSet(a) \cup ToSet(b) \cup ToSet(c) BY <1>2, <1>4, <1>5
<1>7. QED BY <1>3, <1>6 DEF b, c

\* StatusIsAhead: no generator passes over a terminal status, whatever order publishers,
\* clients and resets come in.  With fairness this is why TerminalEnds holds.
THEOREM StatusIsNotPassedOver == Spec => []StatusIsAhead
<1>1. Init => ClosesInv
  <2>1. ToSet(<< >>) = {} BY DEF ToSet
  <2>2. QED BY <2>1 DEF Init, NewStream, ClosesInv, Closes
<1>2. Inv /\ ClosesInv /\ [Next]_vars => ClosesInv' BY ClosesSteps
<1>3. QED BY <1>1, <1>2, InvAhead, Invariance, PTL DEF Spec

\* While a stream is served, what it was sent is not taken back, its copy only gets
\* shorter, and its grace period is not called off.
ServingGoesOn ==
  [][\A s \in Streams : stream[s].at = "serving" =>
       /\ stream[s].closing => stream'[s].closing
       /\ Len(stream'[s].snapshot) <= Len(stream[s].snapshot)
       /\ Len(stream'[s].taken) >= Len(stream[s].taken)
       /\ \A i \in 1 .. Len(stream[s].taken) : stream'[s].taken[i] = stream[s].taken[i]]_vars

\* ServingGoesOn: a stream that is served makes its way through its copy to its queue,
\* and to its end once a terminal status was sent.
THEOREM StreamsGoOn == Spec => ServingGoesOn
<1> DEFINE A == \A s \in Streams : stream[s].at = "serving" =>
             /\ stream[s].closing => stream'[s].closing
             /\ Len(stream'[s].snapshot) <= Len(stream[s].snapshot)
             /\ Len(stream'[s].taken) >= Len(stream[s].taken)
             /\ \A i \in 1 .. Len(stream[s].taken) : stream'[s].taken[i] = stream[s].taken[i]
<1>1. ASSUME Inv, [Next]_vars PROVE A
  <2> SUFFICES ASSUME NEW s \in Streams, stream[s].at = "serving"
      PROVE  /\ stream[s].closing => stream'[s].closing
             /\ Len(stream'[s].snapshot) <= Len(stream[s].snapshot)
             /\ Len(stream'[s].taken) >= Len(stream[s].taken)
             /\ \A i \in 1 .. Len(stream[s].taken) : stream'[s].taken[i] = stream[s].taken[i]
    OBVIOUS
  <2>1. SentTheSame(s) \/ TakesOne(s) BY <1>1, StepSends DEF Begins
  <2>2. /\ stream[s].taken \in Seq(Pos) /\ Len(stream[s].taken) \in Nat
        /\ Len(stream[s].snapshot) \in Nat
    BY <1>1, Parts, LenProperties DEF Inv
  <2>3. CASE SentTheSame(s) BY <2>2, <2>3 DEF SentTheSame
  <2>4. CASE TakesOne(s)
    <3>1. PICK j \in Ids :
            /\ stream'[s].taken = Append(stream[s].taken, j)
            /\ stream[s].closing => stream'[s].closing
            /\ Len(stream'[s].snapshot) <= Len(stream[s].snapshot)
      BY <2>4 DEF TakesOne
    <3>2. QED
      <4> DEFINE a == stream[s].taken
      <4>0. j \in Pos
        <5>1. Len(history) \in Nat BY <1>1, Parts DEF Inv
        <5>2. QED BY <5>1 DEF Ids, Pos
      <4>1. a \in Seq(Pos) /\ Len(a) \in Nat /\ j \in Pos BY <2>2, <4>0
      <4> HIDE DEF a
      <4>2. Len(Append(a, j)) = Len(a) + 1 /\ \A i \in 1 .. Len(a) : Append(a, j)[i] = a[i]
        BY <4>1, AppendProperties
      <4>3. Len(Append(a, j)) >= Len(a) BY <4>1, <4>2
      <4>4. QED BY <3>1, <4>2, <4>3 DEF a
  <2>5. QED BY <2>1, <2>3, <2>4
<1>2. Inv /\ [Next]_vars => [A]_vars BY <1>1
<1>3. QED BY <1>2, Invariance, PTL DEF Spec, ServingGoesOn
================================================================================
