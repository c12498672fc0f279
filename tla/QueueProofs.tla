---------------------------- MODULE QueueProofs ----------------------------
(***************************************************************************)
(* Proofs about Queue for any number of entries, tracks and configurations. *)
(***************************************************************************)
EXTENDS Queue, SequenceTheorems, FiniteSetTheorems, TLAPS

-----------------------------------------------------------------------------
(* The list of entries.                                                    *)

Once(ch) == \A i, j \in 1..Len(ch) : ch[i] = ch[j] => i = j

\* A sequence, another one put behind it.
LEMMA Joined ==
  ASSUME NEW S, NEW a \in Seq(S), NEW b \in Seq(S)
  PROVE  /\ a \o b \in Seq(S) /\ Len(a \o b) = Len(a) + Len(b)
         /\ \A i \in 1..Len(a) : (a \o b)[i] = a[i]
         /\ \A i \in (Len(a) + 1)..(Len(a) + Len(b)) : (a \o b)[i] = b[i - Len(a)]
<1>1. /\ a \o b \in Seq(S) /\ Len(a \o b) = Len(a) + Len(b)
      /\ \A i \in 1..(Len(a) + Len(b)) :
           (a \o b)[i] = IF i <= Len(a) THEN a[i] ELSE b[i - Len(a)]
  BY ConcatProperties
<1>2. Len(a) \in Nat /\ Len(b) \in Nat
  OBVIOUS
<1>3. ASSUME NEW i \in 1..Len(a)
      PROVE  (a \o b)[i] = a[i]
  BY <1>1, <1>2
<1>4. ASSUME NEW i \in (Len(a) + 1)..(Len(a) + Len(b))
      PROVE  (a \o b)[i] = b[i - Len(a)]
  BY <1>1, <1>2
<1> QED BY <1>1, <1>3, <1>4

\* q_insert: the entries keep their order around the new one.
LEMMA InsertElements ==
  ASSUME NEW S, NEW ch \in Seq(S), NEW k \in 1..(Len(ch) + 1), NEW e \in S
  PROVE  /\ InsertAt(ch, k, e) \in Seq(S)
         /\ Len(InsertAt(ch, k, e)) = Len(ch) + 1
         /\ \A i \in 1..(k - 1) : InsertAt(ch, k, e)[i] = ch[i]
         /\ InsertAt(ch, k, e)[k] = e
         /\ \A i \in (k + 1)..(Len(ch) + 1) : InsertAt(ch, k, e)[i] = ch[i - 1]
<1> DEFINE pos == k - 1
           a == SubSeq(ch, 1, pos)
           b == SubSeq(ch, k, Len(ch))
           c == a \o <<e>>
<1>0. Len(ch) \in Nat /\ pos \in Nat /\ pos <= Len(ch) /\ k = pos + 1
  OBVIOUS
<1> HIDE DEF pos
<1>1. a \in Seq(S) /\ Len(a) = pos /\ \A i \in 1..pos : a[i] = ch[i]
  BY <1>0
<1>2. /\ b \in Seq(S) /\ Len(b) = Len(ch) - pos
      /\ \A i \in 1..(Len(ch) - pos) : b[i] = ch[pos + i]
  BY <1>0
<1>3. InsertAt(ch, k, e) = c \o b
  BY DEF InsertAt, pos
<1> HIDE DEF a, b
<1>4. <<e>> \in Seq(S) /\ Len(<<e>>) = 1 /\ <<e>>[1] = e
  OBVIOUS
<1>5. /\ c \in Seq(S) /\ Len(c) = pos + 1 /\ c[pos + 1] = e
      /\ \A i \in 1..pos : c[i] = ch[i]
  <2>1. /\ c \in Seq(S) /\ Len(c) = pos + 1
        /\ \A i \in 1..pos : c[i] = a[i]
        /\ \A i \in (pos + 1)..(pos + 1) : c[i] = <<e>>[i - pos]
    BY <1>1, <1>4, Joined
  <2>2. c[pos + 1] = <<e>>[1]
    BY <1>0, <2>1
  <2> QED BY <1>1, <1>4, <2>1, <2>2
<1> HIDE DEF c
<1>6. /\ c \o b \in Seq(S) /\ Len(c \o b) = Len(ch) + 1
      /\ \A i \in 1..(pos + 1) : (c \o b)[i] = c[i]
      /\ \A i \in (pos + 2)..(Len(ch) + 1) : (c \o b)[i] = b[i - (pos + 1)]
  <2>1. /\ c \o b \in Seq(S) /\ Len(c \o b) = Len(c) + Len(b)
        /\ \A i \in 1..Len(c) : (c \o b)[i] = c[i]
        /\ \A i \in (Len(c) + 1)..(Len(c) + Len(b)) : (c \o b)[i] = b[i - Len(c)]
    BY <1>2, <1>5, Joined
  <2>2. Len(c) + Len(b) = Len(ch) + 1 /\ Len(c) + 1 = pos + 2
    BY <1>0, <1>2, <1>5
  <2> QED BY <1>5, <2>1, <2>2
<1>7. ASSUME NEW i \in (pos + 2)..(Len(ch) + 1)
      PROVE  (c \o b)[i] = ch[i - 1]
  <2>1. i - (pos + 1) \in 1..(Len(ch) - pos) /\ pos + (i - (pos + 1)) = i - 1
    BY <1>0
  <2> QED BY <1>2, <1>6, <2>1
<1>8. ASSUME NEW i \in 1..pos
      PROVE  (c \o b)[i] = ch[i]
  BY <1>0, <1>5, <1>6
<1>9. (c \o b)[pos + 1] = e
  BY <1>0, <1>5, <1>6
<1> QED BY <1>0, <1>3, <1>6, <1>7, <1>8, <1>9 DEF pos

\* ... and nothing else gets into the list.
LEMMA InsertListed ==
  ASSUME NEW S, NEW ch \in Seq(S), NEW k \in 1..(Len(ch) + 1), NEW e \in S,
         Once(ch), ~Contains(ch, e)
  PROVE  /\ InsertAt(ch, k, e) \in Seq(S) /\ Once(InsertAt(ch, k, e))
         /\ \A x : Contains(InsertAt(ch, k, e), x) <=> Contains(ch, x) \/ x = e
<1> DEFINE pos == k - 1
           d == InsertAt(ch, k, e)
<1>0. Len(ch) \in Nat /\ pos \in Nat /\ pos <= Len(ch) /\ k = pos + 1
  OBVIOUS
<1>a. /\ d \in Seq(S) /\ Len(d) = Len(ch) + 1
      /\ \A i \in 1..(k - 1) : d[i] = ch[i]
      /\ d[k] = e
      /\ \A i \in (k + 1)..(Len(ch) + 1) : d[i] = ch[i - 1]
  <2>1. d \in Seq(S)
    BY InsertElements
  <2>2. Len(d) = Len(ch) + 1
    BY InsertElements
  <2>3. \A i \in 1..(k - 1) : d[i] = ch[i]
    BY InsertElements
  <2>4. d[k] = e
    BY InsertElements
  <2>5. \A i \in (k + 1)..(Len(ch) + 1) : d[i] = ch[i - 1]
    BY InsertElements
  <2> QED BY <2>1, <2>2, <2>3, <2>4, <2>5
<1> HIDE DEF d, pos
<1>1. /\ d \in Seq(S) /\ Len(d) = Len(ch) + 1
      /\ \A i \in 1..pos : d[i] = ch[i]
      /\ d[pos + 1] = e
      /\ \A i \in (pos + 2)..(Len(ch) + 1) : d[i] = ch[i - 1]
  BY <1>0, <1>a DEF pos
<1>2. \A i \in 1..Len(ch) : ch[i] # e
  BY DEF Contains
<1>3. ASSUME NEW i \in 1..(Len(ch) + 1)
      PROVE  \/ i = pos + 1 /\ d[i] = e
             \/ i <= pos /\ i \in 1..Len(ch) /\ d[i] = ch[i] /\ d[i] # e
             \/ i > pos + 1 /\ i - 1 \in 1..Len(ch) /\ d[i] = ch[i - 1] /\ d[i] # e
  <2>1. CASE i <= pos
    <3>1. i \in 1..pos /\ i \in 1..Len(ch)
      BY <1>0, <2>1
    <3> QED BY <1>1, <1>2, <2>1, <3>1
  <2>2. CASE i > pos + 1
    <3>1. i \in (pos + 2)..(Len(ch) + 1) /\ i - 1 \in 1..Len(ch)
      BY <1>0, <2>2
    <3> QED BY <1>1, <1>2, <2>2, <3>1
  <2>3. CASE i = pos + 1
    BY <1>1, <2>3
  <2> QED BY <1>0, <2>1, <2>2, <2>3
<1>4. Once(d)
  <2> SUFFICES ASSUME NEW i \in 1..(Len(ch) + 1), NEW j \in 1..(Len(ch) + 1), d[i] = d[j]
               PROVE  i = j
    BY <1>1 DEF Once
  <2>1. CASE d[i] = e
    BY <1>3, <2>1
  <2>2. CASE d[i] # e
    <3>1. PICK h \in {i, i - 1} : /\ h \in 1..Len(ch) /\ d[i] = ch[h]
                                  /\ h = i <=> i <= pos
                                  /\ h = i - 1 <=> i > pos + 1
      BY <1>0, <1>3, <2>2
    <3>2. PICK l \in {j, j - 1} : /\ l \in 1..Len(ch) /\ d[j] = ch[l]
                                  /\ l = j <=> j <= pos
                                  /\ l = j - 1 <=> j > pos + 1
      BY <1>0, <1>3, <2>2
    <3>3. h = l
      BY <3>1, <3>2 DEF Once
    <3> QED BY <1>0, <3>1, <3>2, <3>3
  <2> QED BY <2>1, <2>2
<1>5. ASSUME NEW x, Contains(d, x)
      PROVE  Contains(ch, x) \/ x = e
  <2>1. PICK i \in 1..(Len(ch) + 1) : d[i] = x
    BY <1>1, <1>5 DEF Contains
  <2> QED BY <1>3, <2>1 DEF Contains
<1>6. ASSUME NEW x, Contains(ch, x)
      PROVE  Contains(d, x)
  <2>1. PICK i \in 1..Len(ch) : ch[i] = x
    BY <1>6 DEF Contains
  <2>2. CASE i <= pos
    <3>1. i \in 1..pos /\ i \in 1..(Len(ch) + 1)
      BY <1>0, <2>2
    <3> QED BY <1>1, <2>1, <3>1 DEF Contains
  <2>3. CASE i > pos
    <3>1. i + 1 \in (pos + 2)..(Len(ch) + 1) /\ (i + 1) - 1 = i /\ i + 1 \in 1..(Len(ch) + 1)
      BY <1>0, <2>3
    <3>2. d[i + 1] = x
      BY <1>1, <2>1, <3>1
    <3> QED BY <1>1, <3>1, <3>2 DEF Contains
  <2> QED BY <1>0, <2>2, <2>3
<1>7. Contains(d, e)
  <2>1. pos + 1 \in 1..(Len(ch) + 1)
    BY <1>0
  <2> QED BY <1>1, <2>1 DEF Contains
<1> QED BY <1>1, <1>4, <1>5, <1>6, <1>7 DEF d

\* q_remove_at: the entries keep their order.
LEMMA RemoveElements ==
  ASSUME NEW S, NEW ch \in Seq(S), NEW pos \in 1..Len(ch)
  PROVE  /\ RemoveAt(ch, pos) \in Seq(S) /\ Len(RemoveAt(ch, pos)) = Len(ch) - 1
         /\ \A i \in 1..(pos - 1) : RemoveAt(ch, pos)[i] = ch[i]
         /\ \A i \in pos..(Len(ch) - 1) : RemoveAt(ch, pos)[i] = ch[i + 1]
<1> DEFINE a == SubSeq(ch, 1, pos - 1)
           b == SubSeq(ch, pos + 1, Len(ch))
<1>0. Len(ch) \in Nat /\ pos \in Nat /\ pos <= Len(ch) /\ pos >= 1
  OBVIOUS
<1>1. a \in Seq(S) /\ Len(a) = pos - 1 /\ \A i \in 1..(pos - 1) : a[i] = ch[i]
  BY <1>0
<1>2. /\ b \in Seq(S) /\ Len(b) = Len(ch) - pos
      /\ \A i \in 1..(Len(ch) - pos) : b[i] = ch[pos + i]
  BY <1>0
<1>3. RemoveAt(ch, pos) = a \o b
  BY DEF RemoveAt
<1> HIDE DEF a, b
<1>4. /\ a \o b \in Seq(S) /\ Len(a \o b) = Len(ch) - 1
      /\ \A i \in 1..(pos - 1) : (a \o b)[i] = a[i]
      /\ \A i \in pos..(Len(ch) - 1) : (a \o b)[i] = b[i - (pos - 1)]
  <2>1. /\ a \o b \in Seq(S) /\ Len(a \o b) = Len(a) + Len(b)
        /\ \A i \in 1..Len(a) : (a \o b)[i] = a[i]
        /\ \A i \in (Len(a) + 1)..(Len(a) + Len(b)) : (a \o b)[i] = b[i - Len(a)]
    BY <1>1, <1>2, Joined
  <2>2. Len(a) + Len(b) = Len(ch) - 1 /\ Len(a) + 1 = pos
    BY <1>0, <1>1, <1>2
  <2> QED BY <1>1, <2>1, <2>2
<1>5. ASSUME NEW i \in pos..(Len(ch) - 1)
      PROVE  (a \o b)[i] = ch[i + 1]
  <2>1. i - (pos - 1) \in 1..(Len(ch) - pos) /\ pos + (i - (pos - 1)) = i + 1
    BY <1>0
  <2> QED BY <1>2, <1>4, <2>1
<1>6. ASSUME NEW i \in 1..(pos - 1)
      PROVE  (a \o b)[i] = ch[i]
  BY <1>1, <1>4
<1> QED BY <1>3, <1>4, <1>5, <1>6

\* ... and only one of them leaves the list.
LEMMA RemoveListed ==
  ASSUME NEW S, NEW ch \in Seq(S), NEW pos \in 1..Len(ch), Once(ch)
  PROVE  /\ RemoveAt(ch, pos) \in Seq(S) /\ Once(RemoveAt(ch, pos))
         /\ \A x : Contains(RemoveAt(ch, pos), x) <=> Contains(ch, x) /\ x # ch[pos]
<1> DEFINE d == RemoveAt(ch, pos)
<1>0. Len(ch) \in Nat /\ pos \in Nat /\ pos <= Len(ch) /\ pos >= 1
  OBVIOUS
<1>1. /\ d \in Seq(S) /\ Len(d) = Len(ch) - 1
      /\ \A i \in 1..(pos - 1) : d[i] = ch[i]
      /\ \A i \in pos..(Len(ch) - 1) : d[i] = ch[i + 1]
  BY RemoveElements
<1> HIDE DEF d
<1>2. ASSUME NEW i \in 1..(Len(ch) - 1)
      PROVE  \/ i < pos /\ i \in 1..Len(ch) /\ d[i] = ch[i]
             \/ i >= pos /\ i + 1 \in 1..Len(ch) /\ d[i] = ch[i + 1]
  <2>1. CASE i < pos
    <3>1. i \in 1..(pos - 1) /\ i \in 1..Len(ch)
      BY <1>0, <2>1
    <3> QED BY <1>1, <2>1, <3>1
  <2>2. CASE i >= pos
    <3>1. i \in pos..(Len(ch) - 1) /\ i + 1 \in 1..Len(ch)
      BY <1>0, <2>2
    <3> QED BY <1>1, <2>2, <3>1
  <2> QED BY <1>0, <2>1, <2>2
<1>3. Once(d)
  <2> SUFFICES ASSUME NEW i \in 1..(Len(ch) - 1), NEW j \in 1..(Len(ch) - 1), d[i] = d[j]
               PROVE  i = j
    BY <1>1 DEF Once
  <2>1. PICK k \in {i, i + 1} : k \in 1..Len(ch) /\ d[i] = ch[k] /\ (k = i <=> i < pos)
    BY <1>0, <1>2
  <2>2. PICK l \in {j, j + 1} : l \in 1..Len(ch) /\ d[j] = ch[l] /\ (l = j <=> j < pos)
    BY <1>0, <1>2
  <2>3. k = l
    BY <2>1, <2>2 DEF Once
  <2> QED BY <1>0, <2>1, <2>2, <2>3
<1>4. ASSUME NEW x, Contains(d, x)
      PROVE  Contains(ch, x) /\ x # ch[pos]
  <2>1. PICK i \in 1..(Len(ch) - 1) : d[i] = x
    BY <1>1, <1>4 DEF Contains
  <2>2. PICK k \in {i, i + 1} : k \in 1..Len(ch) /\ d[i] = ch[k] /\ k # pos
    BY <1>0, <1>2
  <2> QED BY <2>1, <2>2 DEF Contains, Once
<1>5. ASSUME NEW x, Contains(ch, x), x # ch[pos]
      PROVE  Contains(d, x)
  <2>1. PICK i \in 1..Len(ch) : ch[i] = x
    BY <1>5 DEF Contains
  <2>2. CASE i < pos
    <3>1. i \in 1..(pos - 1) /\ i \in 1..(Len(ch) - 1)
      BY <1>0, <2>2
    <3> QED BY <1>1, <2>1, <3>1 DEF Contains
  <2>3. CASE i > pos
    <3>1. i - 1 \in pos..(Len(ch) - 1) /\ (i - 1) + 1 = i /\ i - 1 \in 1..(Len(ch) - 1)
      BY <1>0, <2>3
    <3>2. d[i - 1] = x
      BY <1>1, <2>1, <3>1
    <3> QED BY <1>1, <3>1, <3>2 DEF Contains
  <2> QED BY <1>0, <1>5, <2>1, <2>2, <2>3
<1> QED BY <1>1, <1>3, <1>4, <1>5 DEF d
-----------------------------------------------------------------------------
(* What holds of a queue between two steps of the code.                     *)

QueueType ==
  [index : Seq(Entries), cursor : Entries \union {None}, cidx : Int, active : Int,
   split : BOOLEAN, ent : [Entries -> EntryType], track : [Tracks -> TrackType]]

TracksWith(s, e) == {t \in Tracks : s.track[t].e = e}
Busy(s) == {t \in Tracks : s.track[t].e # None}

\* A track that plays an entry and that nobody has told to stop.
Plays(s, t) == /\ s.track[t].e # None /\ ~s.track[t].stop
               /\ ~s.ent[s.track[t].e].expand

\* Who holds entry e when the user holds those in R, and the function that is
\* running holds x.
Holders(s, R, x, e) ==
  Count(Contains(s.index, e)) + Count(e \in R) + Count(e = x) + Cardinality(TracksWith(s, e))

Counted(s, R, x) ==
  \A e \in Entries : /\ s.ent[e].used = Holders(s, R, x, e)
                     /\ Live(s, e) <=> s.ent[e].used > 0

CursorPoints(s) == s.cursor # None => Live(s, s.cursor)

BackPointers(s) ==
  \A e \in Entries : Live(s, e) /\ s.ent[e].trk # None => s.track[s.ent[e].trk].e = e

FlagsExact(s) ==
  \A e \in Entries : Live(s, e) => (s.ent[e].idx = -1 <=> ~Contains(s.index, e))

\* A track that plays is the one of the entry under the cursor.
CursorPlays(s) ==
  \A t \in Tracks : Plays(s, t) => /\ s.cursor = s.track[t].e
                                   /\ s.ent[s.track[t].e].trk = t

Good(s, R, x) ==
  /\ s \in QueueType /\ Once(s.index) /\ Counted(s, R, x)
  /\ CursorPoints(s) /\ BackPointers(s) /\ FlagsExact(s) /\ CursorPlays(s)
  /\ s.active = Cardinality(Busy(s))

\* A track that expands an entry inserts behind that entry: so it is until a
\* playlist has been read in part.
Own(s) == \A t \in Busy(s) : s.track[t].after = s.track[t].e

AfterOwn == ~conf.lists => Own(q)

\* The inductive invariant of the play queue.
QueueInv ==
  /\ Good(q, refs, None) /\ AfterOwn
  /\ conf \in Confs /\ refs \in SUBSET Entries /\ crash \in BOOLEAN

\* The fields of an entry and of a track.
LEMMA FieldTypes ==
  ASSUME NEW s, s \in QueueType
  PROVE  /\ \A e \in Entries : s.ent[e] \in EntryType
         /\ \A t \in Tracks : s.track[t] \in TrackType
BY DEF QueueType

\* A freed entry.
LEMMA FreedFields ==
  /\ Freed \in EntryType /\ NewEntry \in EntryType
  /\ Freed.life = "freed" /\ Freed.used = 0
<1>1. NewEntry \in EntryType
  BY DEF NewEntry, EntryType
<1>2. Freed \in EntryType
  BY <1>1 DEF Freed, EntryType
<1>3. Freed.life = "freed" /\ Freed.used = 0
  BY DEF Freed, NewEntry
<1> QED BY <1>1, <1>2, <1>3

\* The tracks of an entry can be counted.
LEMMA TracksCounted ==
  ASSUME NEW s, NEW e
  PROVE  /\ IsFiniteSet(TracksWith(s, e)) /\ IsFiniteSet(Busy(s))
         /\ Cardinality(TracksWith(s, e)) \in Nat /\ Cardinality(Busy(s)) \in Nat
         /\ Cardinality(TracksWith(s, e)) = 0 <=> \A t \in Tracks : s.track[t].e # e
<1>1. TracksWith(s, e) \in SUBSET Tracks /\ Busy(s) \in SUBSET Tracks
  BY DEF TracksWith, Busy
<1>2. IsFiniteSet(TracksWith(s, e)) /\ IsFiniteSet(Busy(s))
  BY <1>1, FS_Subset, TracksAssumption
<1>3. Cardinality(TracksWith(s, e)) \in Nat /\ Cardinality(Busy(s)) \in Nat
  BY <1>2, FS_CardinalityType
<1>4. Cardinality(TracksWith(s, e)) = 0 <=> TracksWith(s, e) = {}
  BY <1>2, FS_EmptySet
<1>5. TracksWith(s, e) = {} <=> \A t \in Tracks : s.track[t].e # e
  BY DEF TracksWith
<1> QED BY <1>2, <1>3, <1>4, <1>5

\* An entry that somebody holds is there.
LEMMA HeldIsLive ==
  ASSUME NEW s, NEW R, NEW x, Good(s, R, x), NEW e \in Entries,
         Contains(s.index, e) \/ e \in R \/ e = x \/ \E t \in Tracks : s.track[t].e = e
  PROVE  Live(s, e) /\ s.ent[e].life = "live"
<1>1. s.ent[e].used = Holders(s, R, x, e) /\ (Live(s, e) <=> s.ent[e].used > 0)
  BY DEF Good, Counted
<1>2. /\ Cardinality(TracksWith(s, e)) \in Nat
      /\ Cardinality(TracksWith(s, e)) = 0 <=> \A t \in Tracks : s.track[t].e # e
  BY TracksCounted
<1>3. Holders(s, R, x, e) > 0
  BY <1>2 DEF Holders, Count
<1>4. Live(s, e)
  BY <1>1, <1>3
<1> QED BY <1>4 DEF Live

\* An entry that is not there is held by nobody.
LEMMA UnusedIsFree ==
  ASSUME NEW s, NEW R, NEW x, Good(s, R, x), NEW e \in Entries, ~Live(s, e)
  PROVE  /\ ~Contains(s.index, e) /\ e \notin R /\ e # x
         /\ \A t \in Tracks : s.track[t].e # e
         /\ s.cursor # e
<1>1. s.cursor # e
  BY NoneAssumption DEF Good, CursorPoints
<1> QED BY <1>1, HeldIsLive

\* qe_index finds the entry, which is in the list once.
LEMMA IndexIsRight ==
  ASSUME NEW s, s \in QueueType, Once(s.index), NEW e \in Entries
  PROVE  /\ Contains(s.index, e) => /\ Index(s, e) \in 0..(Len(s.index) - 1)
                                    /\ s.index[Index(s, e) + 1] = e
                                    /\ Index(s, e) = Find(s, e)
         /\ ~Contains(s.index, e) => Index(s, e) = -1
<1>0. s.index \in Seq(Entries) /\ Len(s.index) \in Nat /\ s.ent[e].idx \in Int
  BY DEF QueueType, EntryType
<1>1. ASSUME Contains(s.index, e)
      PROVE  /\ Find(s, e) \in 0..(Len(s.index) - 1) /\ s.index[Find(s, e) + 1] = e
  <2> DEFINE i == CHOOSE i \in 1..Len(s.index) : s.index[i] = e
  <2>1. i \in 1..Len(s.index) /\ s.index[i] = e
    BY <1>1, Zenon DEF Contains
  <2>2. Find(s, e) = i - 1
    BY <1>1 DEF Find
  <2> HIDE DEF i
  <2> QED BY <1>0, <2>1, <2>2
<1>2. e # None
  BY NoneAssumption
<1>3. ASSUME Get(s, s.ent[e].idx) = e
      PROVE  /\ s.ent[e].idx \in 0..(Len(s.index) - 1) /\ s.index[s.ent[e].idx + 1] = e
             /\ Contains(s.index, e)
  <2>1. /\ s.ent[e].idx \in 0..(Len(s.index) - 1) /\ s.index[s.ent[e].idx + 1] = e
    BY <1>0, <1>2, <1>3 DEF Get
  <2>2. s.ent[e].idx + 1 \in 1..Len(s.index)
    BY <1>0, <2>1
  <2> QED BY <2>1, <2>2 DEF Contains
<1>4. CASE Get(s, s.ent[e].idx) = e
  <2>1. Index(s, e) = s.ent[e].idx
    BY <1>4 DEF Index
  <2>2. Find(s, e) = s.ent[e].idx
    <3>1. Find(s, e) + 1 \in 1..Len(s.index) /\ s.ent[e].idx + 1 \in 1..Len(s.index)
      BY <1>0, <1>1, <1>3, <1>4
    <3>2. Find(s, e) + 1 = s.ent[e].idx + 1
      BY <1>1, <1>3, <1>4, <3>1 DEF Once
    <3>3. Find(s, e) \in Int
      BY <1>1, <1>3, <1>4
    <3> QED BY <1>0, <3>2, <3>3
  <2> QED BY <1>3, <1>4, <2>1, <2>2
<1>5. CASE Get(s, s.ent[e].idx) # e
  <2>1. Index(s, e) = Find(s, e)
    BY <1>5 DEF Index
  <2>2. ~Contains(s.index, e) => Find(s, e) = -1
    BY DEF Find
  <2> QED BY <1>1, <2>1, <2>2
<1> QED BY <1>4, <1>5

\* qe_index changes the cached index and nothing else.
LEMMA RefreshKeeps ==
  ASSUME NEW s, s \in QueueType, Once(s.index), NEW e \in Entries
  PROVE  /\ Refresh(s, e) \in QueueType
         /\ Refresh(s, e).index = s.index /\ Refresh(s, e).cursor = s.cursor
         /\ Refresh(s, e).track = s.track /\ Refresh(s, e).active = s.active
         /\ \A i \in Entries : i # e => Refresh(s, e).ent[i] = s.ent[i]
         /\ Refresh(s, e).ent[e] = [s.ent[e] EXCEPT !.idx = Index(s, e)]
<1>1. Index(s, e) \in Int
  <2>1. Len(s.index) \in Nat
    BY DEF QueueType
  <2> QED BY <2>1, IndexIsRight
<1> QED BY <1>1 DEF Refresh, QueueType, EntryType

\* qe_index leaves everything that holds.
LEMMA RefreshGood ==
  ASSUME NEW s, NEW R, NEW x, Good(s, R, x), NEW e \in Entries
  PROVE  Good(Refresh(s, e), R, x)
<1> DEFINE r == Refresh(s, e)
<1>1. s \in QueueType /\ Once(s.index)
  BY DEF Good
<1>2. /\ r \in QueueType
      /\ r.index = s.index /\ r.cursor = s.cursor
      /\ r.track = s.track /\ r.active = s.active
      /\ \A i \in Entries : i # e => r.ent[i] = s.ent[i]
      /\ r.ent[e] = [s.ent[e] EXCEPT !.idx = Index(s, e)]
  BY <1>1, RefreshKeeps
<1> HIDE DEF r
<1>3. \A i \in Entries :
        /\ r.ent[i].used = s.ent[i].used /\ r.ent[i].life = s.ent[i].life
        /\ r.ent[i].trk = s.ent[i].trk /\ r.ent[i].expand = s.ent[i].expand
        /\ r.ent[i].idx = IF i = e THEN Index(s, e) ELSE s.ent[i].idx
  <2>1. \A i \in Entries : s.ent[i] \in EntryType
    BY <1>1, FieldTypes
  <2> QED BY <1>2, <2>1 DEF EntryType
<1>4. \A i \in Entries : Live(r, i) <=> Live(s, i)
  BY <1>3 DEF Live
<1>5. Counted(r, R, x)
  <2>1. \A i \in Entries : Holders(r, R, x, i) = Holders(s, R, x, i)
    BY <1>2 DEF Holders, TracksWith
  <2> QED BY <1>3, <1>4, <2>1 DEF Good, Counted
<1>6. CursorPoints(r)
  <2>1. s.cursor # None => s.cursor \in Entries
    BY <1>1 DEF QueueType
  <2> QED BY <1>2, <1>4, <2>1 DEF Good, CursorPoints
<1>7. BackPointers(r)
  BY <1>2, <1>3, <1>4 DEF Good, BackPointers
<1>8. FlagsExact(r)
  <2> SUFFICES ASSUME NEW i \in Entries, Live(r, i)
               PROVE  r.ent[i].idx = -1 <=> ~Contains(r.index, i)
    BY DEF FlagsExact
  <2>1. CASE i # e
    BY <1>2, <1>3, <1>4, <2>1 DEF Good, FlagsExact
  <2>2. CASE i = e
    <3>1. r.ent[e].idx = Index(s, e)
      BY <1>3
    <3>2. Len(s.index) \in Nat
      BY <1>1 DEF QueueType
    <3>3. Index(s, e) = -1 <=> ~Contains(s.index, e)
      BY <1>1, <3>2, IndexIsRight
    <3> QED BY <1>2, <2>2, <3>1, <3>3
  <2> QED BY <2>1, <2>2
<1>9. CursorPlays(r)
  <2>1. \A t \in Tracks : s.track[t].e # None => s.track[t].e \in Entries
    BY <1>1 DEF QueueType, TrackType
  <2> QED BY <1>2, <1>3, <2>1 DEF Good, CursorPlays, Plays
<1>10. r.active = Cardinality(Busy(r))
  BY <1>2 DEF Good, Busy
<1> QED BY <1>1, <1>2, <1>5, <1>6, <1>7, <1>8, <1>9, <1>10 DEF Good, r

\* r is s with one reference to e less.
ReleasedIn(s, e, r) ==
  /\ r \in QueueType
  /\ r.index = s.index /\ r.track = s.track /\ r.active = s.active
  /\ \A i \in Entries : i # e => r.ent[i] = s.ent[i]
  /\ s.ent[e].used = 1 => /\ r.ent[e] = Freed
                          /\ r.cursor = IF s.cursor = e THEN None ELSE s.cursor
  /\ s.ent[e].used # 1 => /\ r.ent[e] = [s.ent[e] EXCEPT !.used = @ - 1]
                          /\ r.cursor = s.cursor

\* qe_unref changes the entry and, if it was the last reference, the cursor.
LEMMA UnrefKeeps ==
  ASSUME NEW s, s \in QueueType, NEW e \in Entries, s.ent[e].used > 0
  PROVE  ReleasedIn(s, e, Unref(s, e))
<1>1. Freed \in EntryType /\ s.ent[e] \in EntryType
  BY FreedFields, FieldTypes
<1>2. CASE s.ent[e].used = 1
  BY <1>1, <1>2 DEF Unref, QueueType, ReleasedIn
<1>3. CASE s.ent[e].used # 1
  <2>1. s.ent[e].used - 1 \in Nat
    BY <1>1 DEF EntryType
  <2>2. [s.ent[e] EXCEPT !.used = @ - 1] \in EntryType
    BY <1>1, <2>1 DEF EntryType
  <2>3. Unref(s, e) = [s EXCEPT !.ent[e] = [s.ent[e] EXCEPT !.used = @ - 1]]
    BY <1>3 DEF Unref
  <2> QED BY <1>3, <2>2, <2>3 DEF QueueType, ReleasedIn
<1> QED BY <1>2, <1>3

\* qe_unref gives up the reference that the running function holds.
LEMMA UnrefGood ==
  ASSUME NEW s, NEW R, NEW e \in Entries, Good(s, R, e)
  PROVE  Good(Unref(s, e), R, None) /\ Unref(s, e).track = s.track
<1> DEFINE r == Unref(s, e)
           n == Cardinality(TracksWith(s, e))
<1>1. s \in QueueType /\ Once(s.index) /\ e # None
  BY NoneAssumption DEF Good
<1>2. /\ n \in Nat /\ (n = 0 <=> \A t \in Tracks : s.track[t].e # e)
  BY TracksCounted
<1>3. s.ent[e].used = Count(Contains(s.index, e)) + Count(e \in R) + 1 + n
  BY DEF Good, Counted, Holders, Count
<1> HIDE DEF n
<1>4. s.ent[e].used > 0 /\ Live(s, e)
  <2>1. s.ent[e].used > 0
    BY <1>2, <1>3 DEF Count
  <2> QED BY <2>1 DEF Good, Counted
<1>5. /\ r \in QueueType
      /\ r.index = s.index /\ r.track = s.track /\ r.active = s.active
      /\ \A i \in Entries : i # e => r.ent[i] = s.ent[i]
      /\ s.ent[e].used = 1 => /\ r.ent[e] = Freed
                              /\ r.cursor = IF s.cursor = e THEN None ELSE s.cursor
      /\ s.ent[e].used # 1 => /\ r.ent[e] = [s.ent[e] EXCEPT !.used = @ - 1]
                              /\ r.cursor = s.cursor
  <2>1. ReleasedIn(s, e, r)
    BY <1>1, <1>4, UnrefKeeps
  <2> QED BY <2>1 DEF ReleasedIn
<1> HIDE DEF r
<1>6. Busy(r) = Busy(s) /\ \A i : TracksWith(r, i) = TracksWith(s, i)
  BY <1>5 DEF Busy, TracksWith
<1>7. \A i \in Entries : i # e => Holders(r, R, None, i) = Holders(s, R, e, i)
  BY <1>5, <1>6, NoneAssumption DEF Holders
<1>8. Holders(r, R, None, e) = Count(Contains(s.index, e)) + Count(e \in R) + n
  BY <1>1, <1>2, <1>5, <1>6 DEF Holders, Count, n
<1>9. \A i \in Entries : i # e => (Live(r, i) <=> Live(s, i))
  BY <1>5 DEF Live
<1>10. s.ent[e].used = 1 =>
         /\ ~Contains(s.index, e) /\ n = 0 /\ ~Live(r, e) /\ r.ent[e].used = 0
         /\ Holders(r, R, None, e) = 0
  <2> SUFFICES ASSUME s.ent[e].used = 1
               PROVE  /\ ~Contains(s.index, e) /\ n = 0 /\ ~Live(r, e)
                      /\ r.ent[e].used = 0 /\ Holders(r, R, None, e) = 0
    OBVIOUS
  <2>1. ~Contains(s.index, e) /\ n = 0 /\ e \notin R
    BY <1>2, <1>3 DEF Count
  <2>2. ~Live(r, e) /\ r.ent[e].used = 0
    BY <1>5, FreedFields DEF Live
  <2> QED BY <1>8, <2>1, <2>2 DEF Count
<1>11. s.ent[e].used # 1 =>
         /\ Live(r, e) /\ r.ent[e].used = s.ent[e].used - 1
         /\ r.ent[e].used > 0
         /\ r.ent[e].idx = s.ent[e].idx /\ r.ent[e].trk = s.ent[e].trk
         /\ r.ent[e].expand = s.ent[e].expand
  <2>1. s.ent[e] \in EntryType
    BY <1>1, FieldTypes
  <2> QED BY <1>4, <1>5, <2>1 DEF Live, EntryType
<1>12. Counted(r, R, None)
  <2>1. \A i \in Entries : i # e => /\ r.ent[i].used = Holders(r, R, None, i)
                                    /\ Live(r, i) <=> r.ent[i].used > 0
    BY <1>5, <1>7, <1>9 DEF Good, Counted
  <2>2. /\ r.ent[e].used = Holders(r, R, None, e)
        /\ Live(r, e) <=> r.ent[e].used > 0
    <3>1. CASE s.ent[e].used = 1
      BY <1>10, <3>1
    <3>2. CASE s.ent[e].used # 1
      BY <1>2, <1>3, <1>8, <1>11, <3>2 DEF Count
    <3> QED BY <3>1, <3>2
  <2>3. \A i \in Entries : i = e \/ i # e
    OBVIOUS
  <2> QED BY <2>1, <2>2, <2>3, Zenon DEF Counted
<1>13. CursorPoints(r)
  <2>1. s.cursor # None => s.cursor \in Entries /\ Live(s, s.cursor)
    BY <1>1 DEF Good, CursorPoints, QueueType
  <2>2. CASE s.ent[e].used = 1
    BY <1>5, <1>9, <2>1, <2>2 DEF CursorPoints
  <2>3. CASE s.ent[e].used # 1
    BY <1>5, <1>9, <1>11, <2>1, <2>3 DEF CursorPoints
  <2> QED BY <2>2, <2>3
<1>14. BackPointers(r)
  BY <1>4, <1>5, <1>9, <1>10, <1>11 DEF Good, BackPointers
<1>15. FlagsExact(r)
  BY <1>4, <1>5, <1>9, <1>10, <1>11 DEF Good, FlagsExact
<1>16. CursorPlays(r)
  <2> SUFFICES ASSUME NEW t \in Tracks, Plays(r, t)
               PROVE  r.cursor = r.track[t].e /\ r.ent[r.track[t].e].trk = t
    BY DEF CursorPlays
  <2>1. r.track[t] = s.track[t] /\ s.track[t].e # None /\ s.track[t].e \in Entries
    BY <1>1, <1>5 DEF Plays, QueueType, TrackType
  <2>2. CASE s.track[t].e = e /\ s.ent[e].used = 1
    BY <1>2, <1>10, <2>2
  <2>3. CASE s.track[t].e = e /\ s.ent[e].used # 1
    <3>1. Plays(s, t)
      BY <1>11, <2>1, <2>3 DEF Plays
    <3> QED BY <1>5, <1>11, <2>1, <2>3, <3>1 DEF Good, CursorPlays
  <2>4. CASE s.track[t].e # e
    <3>1. r.ent[s.track[t].e] = s.ent[s.track[t].e]
      BY <1>5, <2>1, <2>4
    <3>2. Plays(s, t)
      BY <2>1, <3>1 DEF Plays
    <3>3. s.cursor = s.track[t].e /\ s.ent[s.track[t].e].trk = t
      BY <3>2 DEF Good, CursorPlays
    <3>4. r.cursor = s.cursor
      BY <1>5, <2>4, <3>3
    <3> QED BY <2>1, <3>1, <3>3, <3>4
  <2> QED BY <2>2, <2>3, <2>4
<1>17. r.active = Cardinality(Busy(r))
  BY <1>5, <1>6 DEF Good
<1>18. Good(r, R, None)
  BY <1>1, <1>5, <1>12, <1>13, <1>14, <1>15, <1>16, <1>17 DEF Good
<1> QED BY <1>5, <1>18 DEF r

\* r is s with entry e put into the list at position pos.
InsertedIn(s, pos, e, r) ==
  /\ r \in QueueType /\ Once(r.index)
  /\ \A i : Contains(r.index, i) <=> Contains(s.index, i) \/ i = e
  /\ r.cursor = s.cursor /\ r.track = s.track /\ r.active = s.active
  /\ \A i \in Entries : i # e => r.ent[i] = s.ent[i]
  /\ r.ent[e] = [NewEntry EXCEPT !.life = "live", !.used = 1, !.idx = pos]

\* q_insert changes the list and the new entry.
LEMMA InsertKeeps ==
  ASSUME NEW s, s \in QueueType, Once(s.index), NEW e \in Entries, ~Contains(s.index, e),
         NEW pos \in 0..Len(s.index)
  PROVE  InsertedIn(s, pos, e, Insert(s, pos, e))
<1> DEFINE r == Insert(s, pos, e)
<1> DEFINE ch == InsertAt(s.index, pos + 1, e)
           new == [NewEntry EXCEPT !.life = "live", !.used = 1, !.idx = pos]
<1>1. s.index \in Seq(Entries) /\ Len(s.index) \in Nat /\ pos + 1 \in 1..(Len(s.index) + 1)
  <2>1. s.index \in Seq(Entries)
    BY DEF QueueType
  <2> QED BY <2>1
<1>2. /\ ch \in Seq(Entries) /\ Once(ch)
      /\ \A i : Contains(ch, i) <=> Contains(s.index, i) \/ i = e
  <2> DEFINE k == pos + 1
  <2>1. k \in 1..(Len(s.index) + 1)
    BY <1>1
  <2> HIDE DEF k
  <2>2. /\ InsertAt(s.index, k, e) \in Seq(Entries) /\ Once(InsertAt(s.index, k, e))
        /\ \A i : Contains(InsertAt(s.index, k, e), i) <=> Contains(s.index, i) \/ i = e
    BY <1>1, <2>1, InsertListed
  <2> QED BY <2>2 DEF k
<1>3. new \in EntryType
  <2>1. pos \in Int /\ NewEntry \in EntryType
    BY <1>1, FreedFields
  <2> QED BY <2>1 DEF EntryType
<1>4. r = [[s EXCEPT !.ent[e] = new] EXCEPT !.index = ch]
  BY DEF Insert
<1> HIDE DEF ch, new, r
<1>5. [[s EXCEPT !.ent[e] = new] EXCEPT !.index = ch] \in QueueType
  BY <1>2, <1>3 DEF QueueType
<1>6. /\ r.index = ch
      /\ r.cursor = s.cursor /\ r.track = s.track
      /\ r.active = s.active
      /\ r.ent = [s.ent EXCEPT ![e] = new]
  BY <1>4 DEF QueueType
<1>7. /\ \A i \in Entries : i # e => r.ent[i] = s.ent[i]
      /\ r.ent[e] = new
  BY <1>6 DEF QueueType
<1>8. InsertedIn(s, pos, e, r)
  BY <1>2, <1>4, <1>5, <1>6, <1>7 DEF new, InsertedIn
<1> QED BY <1>8 DEF r

\* An entry that was created.
LEMMA CreatedFields ==
  ASSUME NEW i \in Int
  PROVE  LET n == [NewEntry EXCEPT !.life = "live", !.used = 1, !.idx = i]
         IN  /\ n.life = "live" /\ n.used = 1 /\ n.idx = i /\ n.trk = None
             /\ n.expand = FALSE
BY DEF NewEntry

\* q_insert of an entry that was not there.
LEMMA InsertGood ==
  ASSUME NEW s, NEW R, NEW x, Good(s, R, x), NEW e \in Entries, ~Live(s, e),
         NEW pos \in 0..Len(s.index)
  PROVE  Good(Insert(s, pos, e), R, x) /\ InsertedIn(s, pos, e, Insert(s, pos, e))
<1> DEFINE r == Insert(s, pos, e)
<1>1. s \in QueueType /\ Once(s.index)
  BY DEF Good
<1>2. /\ ~Contains(s.index, e) /\ e \notin R /\ e # x
      /\ \A t \in Tracks : s.track[t].e # e
      /\ s.cursor # e /\ e # None
  BY UnusedIsFree, NoneAssumption
<1>a. InsertedIn(s, pos, e, r)
  BY <1>1, <1>2, InsertKeeps
<1> HIDE DEF r
<1>3. /\ r \in QueueType /\ Once(r.index)
      /\ \A i : Contains(r.index, i) <=> Contains(s.index, i) \/ i = e
      /\ r.cursor = s.cursor /\ r.track = s.track /\ r.active = s.active
      /\ \A i \in Entries : i # e => r.ent[i] = s.ent[i]
      /\ r.ent[e] = [NewEntry EXCEPT !.life = "live", !.used = 1, !.idx = pos]
  BY <1>a DEF InsertedIn
<1>4. /\ r.ent[e].life = "live" /\ r.ent[e].used = 1 /\ r.ent[e].idx = pos
      /\ r.ent[e].trk = None /\ r.ent[e].expand = FALSE
  <2>1. pos \in Int
    BY <1>1 DEF QueueType
  <2> QED BY <1>3, <2>1, CreatedFields
<1>5. Busy(r) = Busy(s) /\ \A i : TracksWith(r, i) = TracksWith(s, i)
  BY <1>3 DEF Busy, TracksWith
<1>6. \A i \in Entries : i # e => (Live(r, i) <=> Live(s, i))
  BY <1>3 DEF Live
<1>7. Live(r, e)
  BY <1>2, <1>4 DEF Live
<1>8. Counted(r, R, x)
  <2>1. \A i \in Entries : i # e => Holders(r, R, x, i) = Holders(s, R, x, i)
    BY <1>3, <1>5 DEF Holders, Count
  <2>2. Cardinality(TracksWith(s, e)) = 0
    BY <1>2, TracksCounted
  <2>3. Contains(r.index, e)
    BY <1>3
  <2>4. Holders(r, R, x, e) = 1
    BY <1>2, <1>5, <2>2, <2>3 DEF Holders, Count
  <2>5. \A i \in Entries : i # e => /\ r.ent[i].used = Holders(r, R, x, i)
                                    /\ Live(r, i) <=> r.ent[i].used > 0
    BY <1>3, <1>6, <2>1 DEF Good, Counted
  <2>6. /\ r.ent[e].used = Holders(r, R, x, e)
        /\ Live(r, e) <=> r.ent[e].used > 0
    BY <1>4, <1>7, <2>4
  <2>7. \A i \in Entries : i = e \/ i # e
    OBVIOUS
  <2> QED BY <2>5, <2>6, <2>7, Zenon DEF Counted
<1>9. CursorPoints(r)
  <2>1. s.cursor # None => s.cursor \in Entries
    BY <1>1 DEF QueueType
  <2> QED BY <1>2, <1>3, <1>6, <2>1 DEF Good, CursorPoints
<1>10. BackPointers(r)
  BY <1>3, <1>4, <1>6 DEF Good, BackPointers
<1>11. FlagsExact(r)
  <2> SUFFICES ASSUME NEW i \in Entries, Live(r, i)
               PROVE  r.ent[i].idx = -1 <=> ~Contains(r.index, i)
    BY DEF FlagsExact
  <2>1. CASE i = e
    <3>1. pos # -1
      BY <1>1 DEF QueueType
    <3> QED BY <1>3, <1>4, <2>1, <3>1
  <2>2. CASE i # e
    BY <1>3, <1>6, <2>2 DEF Good, FlagsExact
  <2> QED BY <2>1, <2>2
<1>12. CursorPlays(r)
  <2> SUFFICES ASSUME NEW t \in Tracks, Plays(r, t)
               PROVE  r.cursor = r.track[t].e /\ r.ent[r.track[t].e].trk = t
    BY DEF CursorPlays
  <2>1. r.track[t] = s.track[t] /\ s.track[t].e \in Entries /\ s.track[t].e # e
    BY <1>1, <1>2, <1>3 DEF Plays, QueueType, TrackType
  <2>2. Plays(s, t)
    BY <1>3, <2>1 DEF Plays
  <2> QED BY <1>3, <2>1, <2>2 DEF Good, CursorPlays
<1>13. r.active = Cardinality(Busy(r))
  BY <1>3, <1>5 DEF Good
<1>14. Good(r, R, x)
  BY <1>3, <1>8, <1>9, <1>10, <1>11, <1>12, <1>13 DEF Good
<1> QED BY <1>a, <1>14 DEF r

\* q_remove_at before it releases the entry: what it releases is still held.
Unlisted(s, pos, i) ==
  [s EXCEPT !.ent[s.index[pos + 1]].idx = -1, !.cidx = i, !.index = RemoveAt(@, pos + 1)]

\* r is s without entry e in the list.
UnlistedIn(s, e, r) ==
  /\ e \in Entries /\ Contains(s.index, e)
  /\ r \in QueueType /\ Once(r.index)
  /\ \A i : Contains(r.index, i) <=> Contains(s.index, i) /\ i # e
  /\ r.cursor = s.cursor /\ r.track = s.track /\ r.active = s.active
  /\ \A i \in Entries : i # e => r.ent[i] = s.ent[i]
  /\ r.ent[e] = [s.ent[e] EXCEPT !.idx = -1]

\* It takes one entry out of the list, whatever it does to cursor_index.
LEMMA UnlistKeeps ==
  ASSUME NEW s, s \in QueueType, Once(s.index), NEW pos \in 0..(Len(s.index) - 1),
         NEW c \in Int
  PROVE  UnlistedIn(s, s.index[pos + 1], Unlisted(s, pos, c))
<1> DEFINE e == s.index[pos + 1]
           r == Unlisted(s, pos, c)
<1> DEFINE k == pos + 1
           ch == RemoveAt(s.index, k)
           ent == [s.ent[e] EXCEPT !.idx = -1]
<1>1. s.index \in Seq(Entries) /\ Len(s.index) \in Nat
  BY DEF QueueType
<1>2. k \in 1..Len(s.index)
  BY <1>1
<1>3. r = [[[s EXCEPT !.ent[e] = ent] EXCEPT !.cidx = c] EXCEPT !.index = ch]
  BY DEF Unlisted
<1>a. e = s.index[k]
  BY DEF k
<1> HIDE DEF k, e, r
<1>4. e \in Entries /\ Contains(s.index, e)
  BY <1>1, <1>2, <1>a DEF Contains
<1>5. /\ ch \in Seq(Entries) /\ Once(ch)
      /\ \A i : Contains(ch, i) <=> Contains(s.index, i) /\ i # e
  BY <1>1, <1>2, <1>a, RemoveListed
<1>6. ent \in EntryType
  <2>1. s.ent[e] \in EntryType
    BY <1>4, FieldTypes
  <2> QED BY <2>1 DEF EntryType
<1> HIDE DEF ch, ent
<1>7. r \in QueueType
  <2>1. [s EXCEPT !.ent[e] = ent] \in QueueType
    BY <1>4, <1>6 DEF QueueType
  <2>2. [[s EXCEPT !.ent[e] = ent] EXCEPT !.cidx = c] \in QueueType
    BY <2>1 DEF QueueType
  <2> QED BY <1>3, <1>5, <2>2 DEF QueueType
<1>8. /\ r.index = ch /\ r.cursor = s.cursor /\ r.track = s.track /\ r.active = s.active
      /\ r.ent = [s.ent EXCEPT ![e] = ent]
  BY <1>3 DEF QueueType
<1>9. /\ \A i \in Entries : i # e => r.ent[i] = s.ent[i]
      /\ r.ent[e] = ent
  BY <1>4, <1>8 DEF QueueType
<1>10. UnlistedIn(s, e, r)
  BY <1>4, <1>5, <1>7, <1>8, <1>9 DEF ent, UnlistedIn
<1> QED BY <1>10 DEF e, r

\* q_remove_at
LEMMA RemoveGood ==
  ASSUME NEW s, NEW R, Good(s, R, None), NEW pos \in Int
  PROVE  Good(RemoveEntry(s, pos), R, None)
<1>1. s \in QueueType /\ Once(s.index) /\ Len(s.index) \in Nat /\ s.cidx \in Int
  BY DEF Good, QueueType
<1>2. CASE Get(s, pos) = None
  BY <1>2 DEF RemoveEntry
<1>3. CASE Get(s, pos) # None
  <2> DEFINE e == Get(s, pos)
             back == s.cidx > 0 /\ (pos < s.cidx \/ (pos = s.cidx /\ pos = Len(s.index) - 1))
             c == IF back THEN s.cidx - 1 ELSE s.cidx
             r == Unlisted(s, pos, c)
  <2>1. pos \in 0..(Len(s.index) - 1) /\ e = s.index[pos + 1] /\ c \in Int
    BY <1>1, <1>3 DEF Get
  <2>2. RemoveEntry(s, pos) = Unref(r, e)
    BY <1>3, <2>1 DEF RemoveEntry, Unlisted
  <2> HIDE DEF c
  <2>3. /\ e \in Entries /\ Contains(s.index, e)
        /\ r \in QueueType /\ Once(r.index)
        /\ \A i : Contains(r.index, i) <=> Contains(s.index, i) /\ i # e
        /\ r.cursor = s.cursor /\ r.track = s.track /\ r.active = s.active
        /\ \A i \in Entries : i # e => r.ent[i] = s.ent[i]
        /\ r.ent[e] = [s.ent[e] EXCEPT !.idx = -1]
    <3>1. UnlistedIn(s, s.index[pos + 1], r)
      BY <1>1, <2>1, UnlistKeeps
    <3> HIDE DEF r, e
    <3>2. UnlistedIn(s, e, r)
      BY <2>1, <3>1
    <3> QED BY <3>2 DEF UnlistedIn
  <2> HIDE DEF e, r
  <2>4. e # None
    BY <2>3, NoneAssumption
  <2>5. \A i \in Entries :
          /\ r.ent[i].used = s.ent[i].used /\ r.ent[i].life = s.ent[i].life
          /\ r.ent[i].trk = s.ent[i].trk /\ r.ent[i].expand = s.ent[i].expand
          /\ r.ent[i].idx = IF i = e THEN -1 ELSE s.ent[i].idx
    <3>1. \A i \in Entries : s.ent[i] \in EntryType
      BY <1>1, FieldTypes
    <3> QED BY <2>3, <3>1 DEF EntryType
  <2>6. \A i \in Entries : Live(r, i) <=> Live(s, i)
    BY <2>5 DEF Live
  <2>7. Counted(r, R, e)
    <3>1. \A i : TracksWith(r, i) = TracksWith(s, i)
      BY <2>3 DEF TracksWith
    <3>2. \A i \in Entries : Holders(r, R, e, i) = Holders(s, R, None, i)
      <4> SUFFICES ASSUME NEW i \in Entries
                   PROVE  Holders(r, R, e, i) = Holders(s, R, None, i)
        OBVIOUS
      <4>1. i # None /\ ~Contains(r.index, e) /\ Contains(s.index, e)
        BY <2>3, NoneAssumption
      <4>2. Cardinality(TracksWith(s, i)) \in Nat
        BY TracksCounted
      <4>3. CASE i = e
        BY <3>1, <4>1, <4>2, <4>3 DEF Holders, Count
      <4>4. CASE i # e
        <5>1. Contains(r.index, i) <=> Contains(s.index, i)
          BY <2>3, <4>4
        <5> QED BY <3>1, <4>1, <4>4, <5>1 DEF Holders, Count
      <4> QED BY <4>3, <4>4
    <3> QED BY <2>5, <2>6, <3>2 DEF Good, Counted
  <2>8. CursorPoints(r)
    <3>1. s.cursor # None => s.cursor \in Entries
      BY <1>1 DEF QueueType
    <3> QED BY <2>3, <2>6, <3>1 DEF Good, CursorPoints
  <2>9. BackPointers(r)
    BY <2>3, <2>5, <2>6 DEF Good, BackPointers
  <2>10. FlagsExact(r)
    BY <2>3, <2>5, <2>6 DEF Good, FlagsExact
  <2>11. CursorPlays(r)
    <3>1. \A t \in Tracks : s.track[t].e # None => s.track[t].e \in Entries
      BY <1>1 DEF QueueType, TrackType
    <3> QED BY <2>3, <2>5, <3>1 DEF Good, CursorPlays, Plays
  <2>12. r.active = Cardinality(Busy(r))
    BY <2>3 DEF Good, Busy
  <2>13. Good(r, R, e)
    BY <2>3, <2>7, <2>8, <2>9, <2>10, <2>11, <2>12 DEF Good
  <2> QED BY <2>2, <2>3, <2>13, UnrefGood
<1> QED BY <1>2, <1>3

\* r is s after an entry may have been released: e is no longer listed.
RemovedIn(s, e, r) ==
  /\ r.track = s.track
  /\ \A i \in Entries : i # e => r.ent[i] = s.ent[i]
  /\ \A i \in Entries : Live(r, i) => Live(s, i)

\* q_remove_at changes no other entry and no track.
LEMMA RemoveKeeps ==
  ASSUME NEW s, NEW R, Good(s, R, None), NEW pos \in Int
  PROVE  RemovedIn(s, Get(s, pos), RemoveEntry(s, pos))
<1>1. s \in QueueType /\ Once(s.index) /\ Len(s.index) \in Nat /\ s.cidx \in Int
  BY DEF Good, QueueType
<1>2. CASE Get(s, pos) = None
  BY <1>2 DEF RemoveEntry, RemovedIn
<1>3. CASE Get(s, pos) # None
  <2> DEFINE e == Get(s, pos)
             back == s.cidx > 0 /\ (pos < s.cidx \/ (pos = s.cidx /\ pos = Len(s.index) - 1))
             c == IF back THEN s.cidx - 1 ELSE s.cidx
             m == Unlisted(s, pos, c)
             r == RemoveEntry(s, pos)
  <2>1. pos \in 0..(Len(s.index) - 1) /\ e = s.index[pos + 1] /\ c \in Int
    BY <1>1, <1>3 DEF Get
  <2>2. r = Unref(m, e)
    BY <1>3, <2>1 DEF RemoveEntry, Unlisted
  <2> HIDE DEF c, r
  <2>3. UnlistedIn(s, e, m)
    <3>1. UnlistedIn(s, s.index[pos + 1], m)
      BY <1>1, <2>1, UnlistKeeps
    <3> HIDE DEF m, e
    <3> QED BY <2>1, <3>1
  <2> HIDE DEF e, m
  <2>4. /\ e \in Entries /\ m \in QueueType /\ m.track = s.track
        /\ \A i \in Entries : i # e => m.ent[i] = s.ent[i]
        /\ m.ent[e] = [s.ent[e] EXCEPT !.idx = -1]
    BY <2>3 DEF UnlistedIn
  <2>5. Live(s, e) /\ s.ent[e].used > 0
    <3>1. Contains(s.index, e)
      BY <2>3 DEF UnlistedIn
    <3>2. Live(s, e)
      BY <2>4, <3>1, HeldIsLive
    <3> QED BY <2>4, <3>2 DEF Good, Counted
  <2>6. m.ent[e].used > 0
    <3>1. s.ent[e] \in EntryType
      BY <1>1, <2>4, FieldTypes
    <3> QED BY <2>4, <2>5, <3>1 DEF EntryType
  <2>7. /\ r.track = m.track
        /\ \A i \in Entries : i # e => r.ent[i] = m.ent[i]
    <3>1. ReleasedIn(m, e, r)
      BY <2>2, <2>4, <2>6, UnrefKeeps
    <3> QED BY <3>1 DEF ReleasedIn
  <2>8. \A i \in Entries : i # e => (Live(r, i) <=> Live(s, i))
    BY <2>4, <2>7 DEF Live
  <2> QED BY <2>4, <2>5, <2>7, <2>8 DEF RemovedIn, e, r
<1> QED BY <1>2, <1>3

\* r differs from s in the fields of the queue and its entries that say which
\* entry comes next, or by a stop.
MarkedIn(s, r) ==
  /\ r \in QueueType /\ r.index = s.index /\ r.cursor = s.cursor /\ r.active = s.active
  /\ \A i \in Entries :
       /\ r.ent[i].used = s.ent[i].used /\ r.ent[i].life = s.ent[i].life
       /\ r.ent[i].idx = s.ent[i].idx /\ r.ent[i].trk = s.ent[i].trk
       /\ s.ent[i].expand => r.ent[i].expand
  /\ \A t \in Tracks : r.track[t].e = s.track[t].e /\ (s.track[t].stop => r.track[t].stop)

\* Such a step leaves everything that holds.
LEMMA MarkGood ==
  ASSUME NEW s, NEW R, NEW x, Good(s, R, x), NEW r, MarkedIn(s, r)
  PROVE  Good(r, R, x)
<1>1. s \in QueueType
  BY DEF Good
<1>2. \A i \in Entries : Live(r, i) <=> Live(s, i)
  BY DEF MarkedIn, Live
<1>3. Busy(r) = Busy(s) /\ \A i : TracksWith(r, i) = TracksWith(s, i)
  BY DEF Busy, TracksWith, MarkedIn
<1>4. Counted(r, R, x)
  <2>1. \A i \in Entries : Holders(r, R, x, i) = Holders(s, R, x, i)
    BY <1>3 DEF Holders, MarkedIn
  <2> QED BY <1>2, <2>1 DEF Good, Counted, MarkedIn
<1>5. CursorPoints(r)
  <2>1. s.cursor # None => s.cursor \in Entries
    BY <1>1 DEF QueueType
  <2> QED BY <1>2, <2>1 DEF Good, CursorPoints, MarkedIn
<1>6. BackPointers(r)
  <2> SUFFICES ASSUME NEW i \in Entries, Live(r, i), r.ent[i].trk # None
               PROVE  r.track[r.ent[i].trk].e = i
    BY DEF BackPointers
  <2>1. Live(s, i) /\ s.ent[i].trk # None /\ r.ent[i].trk = s.ent[i].trk
    BY <1>2 DEF MarkedIn
  <2>2. s.ent[i].trk \in Tracks
    BY <1>1, <2>1, FieldTypes DEF EntryType
  <2> QED BY <2>1, <2>2 DEF Good, BackPointers, MarkedIn
<1>7. FlagsExact(r)
  BY <1>2 DEF Good, FlagsExact, MarkedIn
<1>8. CursorPlays(r)
  <2> SUFFICES ASSUME NEW t \in Tracks, Plays(r, t)
               PROVE  r.cursor = r.track[t].e /\ r.ent[r.track[t].e].trk = t
    BY DEF CursorPlays
  <2>1. r.track[t].e = s.track[t].e /\ s.track[t].e \in Entries
    BY <1>1, FieldTypes DEF Plays, TrackType, MarkedIn
  <2>2. Plays(s, t)
    BY <2>1 DEF Plays, MarkedIn
  <2> QED BY <2>1, <2>2 DEF Good, CursorPlays, MarkedIn
<1> QED BY <1>3, <1>4, <1>5, <1>6, <1>7, <1>8 DEF Good, MarkedIn

\* Nobody plays.
Quiet(s) == \A t \in Tracks : ~Plays(s, t)

\* q_play stops the track of the entry under the cursor: then nobody plays.
LEMMA StopGood ==
  ASSUME NEW s, NEW R, NEW x, Good(s, R, x)
  PROVE  /\ MarkedIn(s, StopEntry(s, s.cursor)) /\ Quiet(StopEntry(s, s.cursor))
         /\ Own(s) => Own(StopEntry(s, s.cursor))
<1> DEFINE r == StopEntry(s, s.cursor)
           u == s.ent[s.cursor].trk
<1>1. s \in QueueType /\ CursorPlays(s)
  BY DEF Good
<1>2. CASE ~(s.cursor # None /\ u # None)
  <2>1. r = s
    BY <1>2 DEF StopEntry
  <2>2. MarkedIn(s, s)
    BY <1>1 DEF MarkedIn
  <2>3. ASSUME NEW t \in Tracks, Plays(s, t)
        PROVE  FALSE
    <3>1. s.cursor = s.track[t].e /\ s.ent[s.track[t].e].trk = t /\ s.track[t].e # None
      BY <1>1, <2>3 DEF CursorPlays, Plays
    <3> QED BY <1>2, <3>1, NoneAssumption
  <2> QED BY <2>1, <2>2, <2>3 DEF Quiet
<1>3. CASE s.cursor # None /\ u # None
  <2>1. s.cursor \in Entries /\ u \in Tracks
    BY <1>1, <1>3, FieldTypes DEF QueueType, EntryType
  <2>2. r = [s EXCEPT !.track[u].stop = TRUE]
    BY <1>3 DEF StopEntry
  <2> HIDE DEF u, r
  <2>3. s.track[u] \in TrackType
    BY <1>1, <2>1, FieldTypes
  <2>4. /\ r \in QueueType /\ r.index = s.index /\ r.cursor = s.cursor
        /\ r.active = s.active /\ r.ent = s.ent
        /\ r.track = [s.track EXCEPT ![u] = [s.track[u] EXCEPT !.stop = TRUE]]
    <3>1. [s.track[u] EXCEPT !.stop = TRUE] \in TrackType
      BY <2>3 DEF TrackType
    <3> QED BY <1>1, <2>1, <2>2, <3>1 DEF QueueType
  <2>5. /\ \A t \in Tracks : t # u => r.track[t] = s.track[t]
        /\ r.track[u].e = s.track[u].e /\ r.track[u].stop = TRUE
        /\ r.track[u].after = s.track[u].after
    BY <1>1, <2>1, <2>3, <2>4 DEF QueueType, TrackType
  <2>6. MarkedIn(s, r)
    BY <2>4, <2>5 DEF MarkedIn
  <2>7. ASSUME NEW t \in Tracks, Plays(r, t)
        PROVE  FALSE
    <3>1. t # u
      BY <2>5, <2>7 DEF Plays
    <3>2. Plays(s, t)
      BY <2>4, <2>5, <2>7, <3>1 DEF Plays
    <3>3. s.ent[s.cursor].trk = t
      BY <1>1, <3>2 DEF CursorPlays
    <3> QED BY <3>1, <3>3 DEF u
  <2>8. Own(s) => Own(r)
    BY <2>5 DEF Own, Busy
  <2> QED BY <2>6, <2>7, <2>8 DEF Quiet, r
<1> QED BY <1>2, <1>3

\* r is s with track t started for entry e.
StartedIn(s, e, t, r) ==
  /\ r \in QueueType /\ r.index = s.index /\ r.cursor = s.cursor
  /\ r.active = s.active + 1
  /\ \A i \in Entries : i # e => r.ent[i] = s.ent[i]
  /\ r.ent[e] = [s.ent[e] EXCEPT !.trk = t, !.used = @ + 1]
  /\ \A u \in Tracks : u # t => r.track[u] = s.track[u]
  /\ r.track[t] = [e |-> e, stop |-> FALSE, after |-> e]

\* qe_play and qe_expand start a track that is free.
LEMMA StartKeeps ==
  ASSUME NEW s, s \in QueueType, NEW e \in Entries, FreeTracks(s) # {}
  PROVE  \E t \in FreeTracks(s) : StartedIn(s, e, t, StartTrack(s, e))
<1> DEFINE t == CHOOSE x \in FreeTracks(s) : TRUE
           ent == [s.ent[e] EXCEPT !.trk = t, !.used = @ + 1]
           trk == [e |-> e, stop |-> FALSE, after |-> e]
           r == StartTrack(s, e)
<1>1. t \in FreeTracks(s) /\ t \in Tracks
  BY DEF FreeTracks
<1> HIDE DEF t
<1>2. ent \in EntryType /\ trk \in TrackType
  <2>1. s.ent[e] \in EntryType
    BY FieldTypes
  <2>2. s.ent[e].used + 1 \in Nat
    BY <2>1 DEF EntryType
  <2>3. ent \in EntryType
    BY <1>1, <2>1, <2>2 DEF EntryType
  <2> QED BY <2>3 DEF TrackType
<1>3. r = [[[s EXCEPT !.track[t] = trk] EXCEPT !.ent[e] = ent] EXCEPT !.active = s.active + 1]
  BY DEF StartTrack, t, QueueType
<1> HIDE DEF ent, trk, r
<1>4. r \in QueueType
  <2>1. [s EXCEPT !.track[t] = trk] \in QueueType
    BY <1>1, <1>2 DEF QueueType
  <2>2. [[s EXCEPT !.track[t] = trk] EXCEPT !.ent[e] = ent] \in QueueType
    BY <1>2, <2>1 DEF QueueType
  <2>3. s.active + 1 \in Int
    BY DEF QueueType
  <2> QED BY <1>3, <2>2, <2>3 DEF QueueType
<1>5. /\ r.index = s.index /\ r.cursor = s.cursor /\ r.active = s.active + 1
      /\ r.ent = [s.ent EXCEPT ![e] = ent] /\ r.track = [s.track EXCEPT ![t] = trk]
  BY <1>3 DEF QueueType
<1>6. /\ \A i \in Entries : i # e => r.ent[i] = s.ent[i]
      /\ r.ent[e] = ent
      /\ \A u \in Tracks : u # t => r.track[u] = s.track[u]
      /\ r.track[t] = trk
  BY <1>1, <1>5 DEF QueueType
<1>7. StartedIn(s, e, t, r)
  BY <1>4, <1>5, <1>6 DEF StartedIn, ent, trk
<1> QED BY <1>1, <1>7 DEF r

\* A track is started for the entry under the cursor when nobody plays, or for
\* an entry that is to be expanded.
LEMMA StartGood ==
  ASSUME NEW s, NEW R, NEW x, Good(s, R, x), NEW e \in Entries, Live(s, e),
         FreeTracks(s) # {}, s.ent[e].expand \/ (Quiet(s) /\ s.cursor = e)
  PROVE  Good(StartTrack(s, e), R, x) /\ (Own(s) => Own(StartTrack(s, e)))
<1> DEFINE r == StartTrack(s, e)
<1>1. s \in QueueType /\ e # None
  BY NoneAssumption DEF Good
<1>2. PICK t \in FreeTracks(s) : StartedIn(s, e, t, r)
  BY <1>1, StartKeeps
<1> HIDE DEF r
<1>3. t \in Tracks /\ s.track[t].e = None /\ t # None
  BY NoneAssumption DEF FreeTracks
<1>4. /\ r \in QueueType /\ r.index = s.index /\ r.cursor = s.cursor
      /\ r.active = s.active + 1
      /\ \A i \in Entries : i # e => r.ent[i] = s.ent[i]
      /\ \A u \in Tracks : u # t => r.track[u] = s.track[u]
      /\ r.track[t].e = e /\ r.track[t].stop = FALSE
  BY <1>2 DEF StartedIn
<1>5. /\ r.ent[e].used = s.ent[e].used + 1 /\ r.ent[e].life = s.ent[e].life
      /\ r.ent[e].trk = t /\ r.ent[e].expand = s.ent[e].expand
      /\ r.ent[e].idx = s.ent[e].idx
  <2>1. s.ent[e] \in EntryType
    BY <1>1, FieldTypes
  <2>2. r.ent[e] = [s.ent[e] EXCEPT !.trk = t, !.used = @ + 1]
    BY <1>2 DEF StartedIn
  <2> QED BY <2>1, <2>2 DEF EntryType
<1>6. \A i \in Entries : Live(r, i) <=> Live(s, i)
  BY <1>4, <1>5 DEF Live
<1>7. /\ TracksWith(r, e) = TracksWith(s, e) \union {t} /\ t \notin TracksWith(s, e)
      /\ Busy(r) = Busy(s) \union {t} /\ t \notin Busy(s)
  BY <1>1, <1>3, <1>4 DEF TracksWith, Busy
<1>8. \A i \in Entries : i # e => TracksWith(r, i) = TracksWith(s, i)
  <2> SUFFICES ASSUME NEW i \in Entries, i # e
               PROVE  TracksWith(r, i) = TracksWith(s, i)
    OBVIOUS
  <2>1. i # None
    BY NoneAssumption
  <2> QED BY <1>3, <1>4, <2>1 DEF TracksWith
<1>9. /\ Cardinality(TracksWith(r, e)) = Cardinality(TracksWith(s, e)) + 1
      /\ Cardinality(Busy(r)) = Cardinality(Busy(s)) + 1
      /\ Cardinality(TracksWith(s, e)) \in Nat
  <2>1. /\ IsFiniteSet(TracksWith(s, e)) /\ IsFiniteSet(Busy(s))
        /\ Cardinality(TracksWith(s, e)) \in Nat
    BY TracksCounted
  <2> QED BY <1>7, <2>1, FS_AddElement
<1>10. Counted(r, R, x)
  <2>1. \A i \in Entries : i # e => Holders(r, R, x, i) = Holders(s, R, x, i)
    BY <1>4, <1>8 DEF Holders
  <2>2. Holders(r, R, x, e) = Holders(s, R, x, e) + 1
    BY <1>4, <1>9 DEF Holders, Count
  <2>3. \A i \in Entries : i # e => /\ r.ent[i].used = Holders(r, R, x, i)
                                    /\ Live(r, i) <=> r.ent[i].used > 0
    BY <1>4, <1>6, <2>1 DEF Good, Counted
  <2>4. /\ r.ent[e].used = Holders(r, R, x, e)
        /\ Live(r, e) <=> r.ent[e].used > 0
    <3>1. s.ent[e].used = Holders(s, R, x, e) /\ s.ent[e].used \in Nat
      BY <1>1, FieldTypes DEF Good, Counted, EntryType
    <3> QED BY <1>5, <1>6, <2>2, <3>1
  <2>5. \A i \in Entries : i = e \/ i # e
    OBVIOUS
  <2> QED BY <2>3, <2>4, <2>5, Zenon DEF Counted
<1>11. CursorPoints(r)
  <2>1. s.cursor # None => s.cursor \in Entries
    BY <1>1 DEF QueueType
  <2> QED BY <1>4, <1>6, <2>1 DEF Good, CursorPoints
<1>12. BackPointers(r)
  <2> SUFFICES ASSUME NEW i \in Entries, Live(r, i), r.ent[i].trk # None
               PROVE  r.track[r.ent[i].trk].e = i
    BY DEF BackPointers
  <2>1. CASE i = e
    BY <1>4, <1>5, <2>1
  <2>2. CASE i # e
    <3>1. Live(s, i) /\ s.ent[i].trk # None /\ r.ent[i].trk = s.ent[i].trk
      BY <1>4, <1>6, <2>2
    <3>2. s.track[s.ent[i].trk].e = i /\ s.ent[i].trk \in Tracks
      BY <1>1, <3>1, FieldTypes DEF Good, BackPointers, EntryType
    <3>3. s.ent[i].trk # t
      BY <1>3, <3>2, NoneAssumption
    <3> QED BY <1>4, <3>1, <3>2, <3>3
  <2> QED BY <2>1, <2>2
<1>13. FlagsExact(r)
  BY <1>4, <1>5, <1>6 DEF Good, FlagsExact
<1>14. CursorPlays(r)
  <2> SUFFICES ASSUME NEW u \in Tracks, Plays(r, u)
               PROVE  r.cursor = r.track[u].e /\ r.ent[r.track[u].e].trk = u
    BY DEF CursorPlays
  <2>1. CASE s.ent[e].expand
    <3>1. u # t
      BY <1>4, <1>5, <2>1 DEF Plays
    <3>2. r.track[u] = s.track[u] /\ s.track[u].e \in Entries /\ s.track[u].e # e
      BY <1>1, <1>4, <1>5, <2>1, <3>1, FieldTypes DEF Plays, TrackType
    <3>3. Plays(s, u)
      BY <1>4, <3>2 DEF Plays
    <3> QED BY <1>4, <3>2, <3>3 DEF Good, CursorPlays
  <2>2. CASE ~s.ent[e].expand
    <3>1. Quiet(s) /\ s.cursor = e
      BY <2>2
    <3>2. CASE u = t
      BY <1>4, <1>5, <3>1, <3>2
    <3>3. CASE u # t
      <4>1. r.track[u] = s.track[u] /\ s.track[u].e \in Entries
        BY <1>1, <1>4, <3>3, FieldTypes DEF Plays, TrackType
      <4>2. r.ent[s.track[u].e].expand = s.ent[s.track[u].e].expand
        BY <1>4, <1>5, <4>1
      <4>3. Plays(s, u)
        BY <4>1, <4>2 DEF Plays
      <4> QED BY <3>1, <4>3 DEF Quiet
    <3> QED BY <3>2, <3>3
  <2> QED BY <2>1, <2>2
<1>15. r.active = Cardinality(Busy(r))
  BY <1>4, <1>9 DEF Good
<1>16. Own(s) => Own(r)
  <2>1. r.track[t].after = e
    BY <1>2 DEF StartedIn
  <2> QED BY <1>4, <2>1 DEF Own, Busy
<1>17. Good(r, R, x)
  BY <1>4, <1>10, <1>11, <1>12, <1>13, <1>14, <1>15 DEF Good
<1> QED BY <1>16, <1>17 DEF r

\* q_play of an entry of the list.
LEMMA PlayGood ==
  ASSUME NEW s, NEW R, NEW x, Good(s, R, x), NEW e \in Entries, Contains(s.index, e),
         FreeTracks(s) # {}, NEW ok
  PROVE  Good(Play(s, e, ok), R, x) /\ (Own(s) => Own(Play(s, e, ok)))
<1> DEFINE s1 == StopEntry(s, s.cursor)
           s2 == [s1 EXCEPT !.cursor = e]
           s3 == Refresh(s2, e)
           s4 == [s3 EXCEPT !.cidx = s3.ent[e].idx]
<1>1. MarkedIn(s, s1) /\ Quiet(s1) /\ (Own(s) => Own(s1))
  BY StopGood
<1>2. Good(s1, R, x) /\ s1.index = s.index
  BY <1>1, MarkGood DEF MarkedIn
<1>3. s1 \in QueueType /\ Contains(s1.index, e)
  BY <1>2 DEF Good
<1>4. FreeTracks(s1) = FreeTracks(s)
  BY <1>1 DEF FreeTracks, MarkedIn
<1>5. Live(s1, e)
  BY <1>2, <1>3, HeldIsLive
<1> HIDE DEF s1
<1>6. /\ s2 \in QueueType /\ s2.index = s1.index /\ s2.cursor = e /\ s2.ent = s1.ent
      /\ s2.track = s1.track /\ s2.active = s1.active
  BY <1>3 DEF QueueType
<1> HIDE DEF s2
<1>7. Quiet(s2) /\ Live(s2, e) /\ FreeTracks(s2) = FreeTracks(s1)
  BY <1>1, <1>5, <1>6 DEF Quiet, Plays, Live, FreeTracks
<1>8. Good(s2, R, x)
  <2>1. \A i \in Entries : Live(s2, i) <=> Live(s1, i)
    BY <1>6 DEF Live
  <2>2. Busy(s2) = Busy(s1) /\ \A i : TracksWith(s2, i) = TracksWith(s1, i)
    BY <1>6 DEF Busy, TracksWith
  <2>3. Counted(s2, R, x)
    <3>1. \A i \in Entries : Holders(s2, R, x, i) = Holders(s1, R, x, i)
      BY <1>6, <2>2 DEF Holders
    <3> QED BY <1>2, <1>6, <2>1, <3>1 DEF Good, Counted
  <2>4. CursorPoints(s2)
    BY <1>6, <1>7 DEF CursorPoints
  <2>5. BackPointers(s2) /\ FlagsExact(s2)
    BY <1>2, <1>6, <2>1 DEF Good, BackPointers, FlagsExact
  <2>6. CursorPlays(s2)
    BY <1>7 DEF Quiet, CursorPlays
  <2> QED BY <1>2, <1>6, <2>2, <2>3, <2>4, <2>5, <2>6 DEF Good
<1>9. Good(s3, R, x) /\ s3 \in QueueType
  <2>1. Good(s3, R, x)
    BY <1>8, RefreshGood
  <2> QED BY <2>1 DEF Good
<1>10. /\ s3.cursor = e /\ s3.track = s2.track /\ s3.index = s2.index
       /\ \A i \in Entries : s3.ent[i].life = s2.ent[i].life
                             /\ s3.ent[i].expand = s2.ent[i].expand
  <2>1. s2 \in QueueType /\ Once(s2.index)
    BY <1>8 DEF Good
  <2>2. /\ s3.cursor = s2.cursor /\ s3.track = s2.track /\ s3.index = s2.index
        /\ \A i \in Entries : i # e => s3.ent[i] = s2.ent[i]
        /\ s3.ent[e] = [s2.ent[e] EXCEPT !.idx = Index(s2, e)]
    BY <2>1, RefreshKeeps
  <2>3. s2.ent[e] \in EntryType
    BY <2>1, FieldTypes
  <2> QED BY <1>6, <2>2, <2>3 DEF EntryType
<1> HIDE DEF s3
<1>11. /\ MarkedIn(s3, s4) /\ s4 \in QueueType /\ s4.cursor = s3.cursor
       /\ s4.ent = s3.ent /\ s4.track = s3.track
  <2>1. s3.ent[e].idx \in Int
    BY <1>9, FieldTypes DEF EntryType
  <2>2. s4 \in QueueType
    BY <1>9, <2>1 DEF QueueType
  <2>3. /\ s4.index = s3.index /\ s4.cursor = s3.cursor /\ s4.active = s3.active
        /\ s4.ent = s3.ent /\ s4.track = s3.track
    BY <1>9 DEF QueueType
  <2> QED BY <2>2, <2>3 DEF MarkedIn
<1> HIDE DEF s4
<1>12. /\ Good(s4, R, x) /\ Live(s4, e) /\ Quiet(s4) /\ s4.cursor = e
       /\ FreeTracks(s4) # {}
  <2>1. \A t \in Tracks : s2.track[t].e # None => s2.track[t].e \in Entries
    BY <1>6, FieldTypes DEF TrackType
  <2>2. Quiet(s4)
    BY <1>7, <1>10, <1>11, <2>1 DEF Quiet, Plays
  <2>3. Live(s4, e)
    BY <1>7, <1>10, <1>11 DEF Live
  <2>4. FreeTracks(s4) # {}
    BY <1>4, <1>7, <1>10, <1>11 DEF FreeTracks
  <2> QED BY <1>9, <1>10, <1>11, <2>2, <2>3, <2>4, MarkGood
<1>a. Own(s) => Own(s4)
  <2>1. s4.track = s1.track
    BY <1>6, <1>10, <1>11
  <2> QED BY <1>1, <2>1 DEF Own, Busy
<1>13. Play(s, e, ok) = PlayEntry(s4, e, ok)
  BY DEF Play, s1, s2, s3, s4
<1>14. CASE s4.ent[e].expand
  <2> DEFINE s5 == [s4 EXCEPT !.ent[e].next = TRUE]
  <2>1. PlayEntry(s4, e, ok) = s5
    BY <1>14 DEF PlayEntry
  <2>2. s4.ent[e] \in EntryType
    BY <1>11, FieldTypes
  <2>3. [s4.ent[e] EXCEPT !.next = TRUE] \in EntryType
    BY <2>2 DEF EntryType
  <2>4. /\ s5 \in QueueType /\ s5.index = s4.index /\ s5.cursor = s4.cursor
        /\ s5.active = s4.active /\ s5.track = s4.track
        /\ s5.ent = [s4.ent EXCEPT ![e] = [s4.ent[e] EXCEPT !.next = TRUE]]
    BY <1>11, <2>3 DEF QueueType
  <2> HIDE DEF s5
  <2>5. \A i \in Entries : s5.ent[i] = IF i = e THEN [s4.ent[e] EXCEPT !.next = TRUE]
                                                ELSE s4.ent[i]
    BY <1>11, <2>4 DEF QueueType
  <2>6. MarkedIn(s4, s5)
    BY <2>2, <2>4, <2>5 DEF MarkedIn, EntryType
  <2>7. Own(s4) => Own(s5)
    BY <2>4 DEF Own, Busy
  <2> QED BY <1>a, <1>12, <1>13, <2>1, <2>6, <2>7, MarkGood
<1>15. CASE ~s4.ent[e].expand /\ ok
  BY <1>a, <1>12, <1>13, <1>15, StartGood DEF PlayEntry
<1>16. CASE ~s4.ent[e].expand /\ ~ok
  BY <1>a, <1>12, <1>13, <1>16 DEF PlayEntry
<1> QED BY <1>14, <1>15, <1>16

\* q_play_next, q_play_prev and the default of q_play play an entry of the
\* list, or nothing.
LEMMA PlayAtGood ==
  ASSUME NEW s, NEW R, NEW x, Good(s, R, x), FreeTracks(s) # {}, NEW i \in Int, NEW ok
  PROVE  /\ Good(PlayAt(Turned(s), i, ok), R, x)
         /\ Own(s) => Own(PlayAt(Turned(s), i, ok))
<1> DEFINE r == Turned(s)
<1>1. Good(r, R, x) /\ FreeTracks(r) # {} /\ (Own(s) => Own(r))
  <2>1. s \in QueueType
    BY DEF Good
  <2>2. /\ r \in QueueType /\ r.index = s.index /\ r.cursor = s.cursor
        /\ r.active = s.active /\ r.ent = s.ent /\ r.track = s.track
    BY <2>1 DEF QueueType, Turned
  <2> HIDE DEF r
  <2>3. MarkedIn(s, r)
    BY <2>2 DEF MarkedIn
  <2> QED BY <2>2, <2>3, MarkGood DEF FreeTracks, Own, Busy
<1> HIDE DEF r
<1>2. CASE Get(r, i) = None
  BY <1>1, <1>2 DEF PlayAt, r
<1>3. CASE Get(r, i) # None
  <2>1. r.index \in Seq(Entries)
    BY <1>1 DEF Good, QueueType
  <2>2. i + 1 \in 1..Len(r.index) /\ Get(r, i) = r.index[i + 1]
    BY <1>3, <2>1 DEF Get
  <2>3. Get(r, i) \in Entries /\ Contains(r.index, Get(r, i))
    BY <2>1, <2>2 DEF Contains
  <2>4. /\ Good(Play(r, Get(r, i), ok), R, x)
        /\ Own(r) => Own(Play(r, Get(r, i), ok))
    BY <1>1, <2>3, PlayGood
  <2> QED BY <1>1, <1>3, <2>4 DEF PlayAt, r
<1> QED BY <1>2, <1>3

\* The positions that are asked for.
LEMMA PositionsAreInt ==
  ASSUME NEW s, s \in QueueType, Once(s.index)
  PROVE  /\ NextPos(s) \in Int /\ PrevPos(s) \in Int /\ s.cidx \in Int
         /\ \A i \in Int : \A j \in Positions(s, i) : j \in Int
<1>1. s.cidx \in Int /\ Len(s.index) \in Nat /\ s.cursor \in Entries \union {None}
  BY DEF QueueType
<1>2. s.cursor # None => s.ent[s.cursor].idx \in Int /\ Index(s, s.cursor) \in Int
  <2> SUFFICES ASSUME s.cursor # None
               PROVE  s.ent[s.cursor].idx \in Int /\ Index(s, s.cursor) \in Int
    OBVIOUS
  <2>1. s.cursor \in Entries
    BY <1>1
  <2>2. Index(s, s.cursor) \in Int
    BY <1>1, <2>1, IndexIsRight
  <2> QED BY <2>1, <2>2, FieldTypes DEF EntryType
<1>3. NextPos(s) \in Int /\ PrevPos(s) \in Int
  BY <1>1, <1>2 DEF NextPos, PrevPos
<1>4. ASSUME NEW i \in Int, NEW j \in Positions(s, i)
      PROVE  j \in Int
  <2>1. CASE conf.random
    <3>1. j \in 0..(Len(s.index) - 1)
      BY <1>4, <2>1, Zenon DEF Positions, RandomIndices
    <3> QED BY <1>1, <3>1
  <2>2. CASE ~conf.random
    BY <1>4, <2>2 DEF Positions
  <2> QED BY <2>1, <2>2
<1> QED BY <1>1, <1>3, <1>4

\* q_play_next makes sure of the index of the entry under the cursor.
LEMMA NextBaseGood ==
  ASSUME NEW s, NEW R, NEW x, Good(s, R, x)
  PROVE  /\ Good(NextBase(s), R, x) /\ FreeTracks(NextBase(s)) = FreeTracks(s)
         /\ NextBase(s) \in QueueType /\ (Own(s) => Own(NextBase(s)))
<1>1. s \in QueueType /\ Once(s.index) /\ (s.cursor # None => s.cursor \in Entries)
  BY DEF Good, QueueType
<1>2. CASE s.cursor # None /\ s.ent[s.cursor].idx # -1
  <2>1. s.cursor \in Entries /\ NextBase(s) = Refresh(s, s.cursor)
    BY <1>1, <1>2 DEF NextBase
  <2>2. Good(Refresh(s, s.cursor), R, x)
    BY <2>1, RefreshGood
  <2>3. Refresh(s, s.cursor).track = s.track
    BY <1>1, <2>1, RefreshKeeps
  <2> QED BY <2>1, <2>2, <2>3 DEF FreeTracks, Own, Busy, Good
<1>3. CASE ~(s.cursor # None /\ s.ent[s.cursor].idx # -1)
  BY <1>1, <1>3 DEF NextBase
<1> QED BY <1>2, <1>3

\* qe_close: the track is gone, its reference to the entry is still held.
EndedIn(s, t, e, r) ==
  /\ r \in QueueType /\ r.index = s.index /\ r.cursor = s.cursor
  /\ r.active = s.active - 1
  /\ \A i \in Entries : i # e => r.ent[i] = s.ent[i]
  /\ r.ent[e] = [s.ent[e] EXCEPT !.trk = IF @ = t THEN None ELSE @]
  /\ \A u \in Tracks : u # t => r.track[u] = s.track[u]
  /\ r.track[t] = NoTrack

\* A track that closes gives up its entry, and nothing else changes (qe_close).
LEMMA EndKeeps ==
  ASSUME NEW s, s \in QueueType, NEW t \in Tracks, s.track[t].e # None
  PROVE  /\ s.track[t].e \in Entries
         /\ EndedIn(s, t, s.track[t].e, DropTrack(CloseEntry(s, t), t))
<1> DEFINE e == s.track[t].e
           ent == [s.ent[e] EXCEPT !.trk = IF @ = t THEN None ELSE @]
           r == DropTrack(CloseEntry(s, t), t)
<1>1. e \in Entries
  BY FieldTypes DEF TrackType
<1>2. ent \in EntryType /\ NoTrack \in TrackType
  <2>1. s.ent[e] \in EntryType
    BY <1>1, FieldTypes
  <2>2. ent \in EntryType
    BY <2>1 DEF EntryType
  <2> QED BY <2>2 DEF NoTrack, TrackType
<1>3. r = [[[s EXCEPT !.ent[e] = ent] EXCEPT !.active = s.active - 1] EXCEPT !.track[t] = NoTrack]
  BY DEF DropTrack, CloseEntry, QueueType
<1> HIDE DEF e, ent, r
<1>4. r \in QueueType
  <2>1. [s EXCEPT !.ent[e] = ent] \in QueueType
    BY <1>1, <1>2 DEF QueueType
  <2>2. s.active - 1 \in Int
    BY DEF QueueType
  <2>3. [[s EXCEPT !.ent[e] = ent] EXCEPT !.active = s.active - 1] \in QueueType
    BY <2>1, <2>2 DEF QueueType
  <2> QED BY <1>2, <1>3, <2>3 DEF QueueType
<1>5. /\ r.index = s.index /\ r.cursor = s.cursor /\ r.active = s.active - 1
      /\ r.ent = [s.ent EXCEPT ![e] = ent] /\ r.track = [s.track EXCEPT ![t] = NoTrack]
  BY <1>3 DEF QueueType
<1>6. /\ \A i \in Entries : i # e => r.ent[i] = s.ent[i]
      /\ r.ent[e] = ent
      /\ \A u \in Tracks : u # t => r.track[u] = s.track[u]
      /\ r.track[t] = NoTrack
  BY <1>1, <1>5 DEF QueueType
<1>7. EndedIn(s, t, e, r)
  BY <1>4, <1>5, <1>6 DEF EndedIn, ent
<1> QED BY <1>1, <1>7 DEF e, r

\* The reference of the track becomes that of the running function.
LEMMA EndGood ==
  ASSUME NEW s, NEW R, Good(s, R, None), NEW t \in Tracks, s.track[t].e # None
  PROVE  /\ s.track[t].e \in Entries
         /\ Good(DropTrack(CloseEntry(s, t), t), R, s.track[t].e)
         /\ FreeTracks(DropTrack(CloseEntry(s, t), t)) # {}
<1> DEFINE e == s.track[t].e
           r == DropTrack(CloseEntry(s, t), t)
<1>1. s \in QueueType
  BY DEF Good
<1>2. e \in Entries /\ EndedIn(s, t, e, r) /\ e # None
  BY <1>1, EndKeeps, NoneAssumption
<1>3. s.track[t].e = e
  OBVIOUS
<1> HIDE DEF e, r
<1>4. /\ r \in QueueType /\ r.index = s.index /\ r.cursor = s.cursor
      /\ r.active = s.active - 1
      /\ \A i \in Entries : i # e => r.ent[i] = s.ent[i]
      /\ \A u \in Tracks : u # t => r.track[u] = s.track[u]
      /\ r.track[t].e = None
  BY <1>2 DEF EndedIn, NoTrack
<1>5. /\ r.ent[e].used = s.ent[e].used /\ r.ent[e].life = s.ent[e].life
      /\ r.ent[e].expand = s.ent[e].expand /\ r.ent[e].idx = s.ent[e].idx
      /\ r.ent[e].trk = IF s.ent[e].trk = t THEN None ELSE s.ent[e].trk
  <2>1. s.ent[e] \in EntryType
    BY <1>1, <1>2, FieldTypes
  <2>2. r.ent[e] = [s.ent[e] EXCEPT !.trk = IF @ = t THEN None ELSE @]
    BY <1>2 DEF EndedIn
  <2> QED BY <2>1, <2>2 DEF EntryType
<1>6. \A i \in Entries : /\ Live(r, i) <=> Live(s, i)
                         /\ r.ent[i].used = s.ent[i].used
                         /\ r.ent[i].idx = s.ent[i].idx
                         /\ r.ent[i].expand = s.ent[i].expand
  BY <1>4, <1>5 DEF Live
<1>7. /\ TracksWith(r, e) = TracksWith(s, e) \ {t} /\ t \in TracksWith(s, e)
      /\ Busy(r) = Busy(s) \ {t} /\ t \in Busy(s)
  BY <1>2, <1>3, <1>4 DEF TracksWith, Busy
<1>8. \A i \in Entries : i # e => TracksWith(r, i) = TracksWith(s, i)
  <2> SUFFICES ASSUME NEW i \in Entries, i # e
               PROVE  TracksWith(r, i) = TracksWith(s, i)
    OBVIOUS
  <2>1. i # None
    BY NoneAssumption
  <2> QED BY <1>3, <1>4, <2>1 DEF TracksWith
<1>9. /\ Cardinality(TracksWith(r, e)) = Cardinality(TracksWith(s, e)) - 1
      /\ Cardinality(Busy(r)) = Cardinality(Busy(s)) - 1
      /\ Cardinality(TracksWith(s, e)) \in Nat
  <2>1. /\ IsFiniteSet(TracksWith(s, e)) /\ IsFiniteSet(Busy(s))
        /\ Cardinality(TracksWith(s, e)) \in Nat
    BY TracksCounted
  <2> QED BY <1>7, <2>1, FS_RemoveElement
<1>10. Counted(r, R, e)
  <2>1. \A i \in Entries : i # e /\ i # None => Holders(r, R, e, i) = Holders(s, R, None, i)
    BY <1>4, <1>8 DEF Holders, Count
  <2>2. Holders(r, R, e, e) = Holders(s, R, None, e)
    BY <1>2, <1>4, <1>9 DEF Holders, Count
  <2>3. \A i \in Entries : Holders(r, R, e, i) = Holders(s, R, None, i)
    BY <2>1, <2>2, NoneAssumption
  <2> QED BY <1>6, <2>3 DEF Good, Counted
<1>11. CursorPoints(r)
  <2>1. s.cursor # None => s.cursor \in Entries
    BY <1>1 DEF QueueType
  <2> QED BY <1>4, <1>6, <2>1 DEF Good, CursorPoints
<1>12. BackPointers(r)
  <2> SUFFICES ASSUME NEW i \in Entries, Live(r, i), r.ent[i].trk # None
               PROVE  r.track[r.ent[i].trk].e = i
    BY DEF BackPointers
  <2>1. Live(s, i) /\ r.ent[i].trk = s.ent[i].trk
    BY <1>4, <1>5, <1>6
  <2>2. s.track[s.ent[i].trk].e = i /\ s.ent[i].trk \in Tracks
    BY <1>1, <2>1, FieldTypes DEF Good, BackPointers, EntryType
  <2>3. s.ent[i].trk # t
    BY <1>3, <1>5, <2>1, <2>2
  <2> QED BY <1>4, <2>1, <2>2, <2>3
<1>13. FlagsExact(r)
  BY <1>4, <1>6 DEF Good, FlagsExact
<1>14. CursorPlays(r)
  <2> SUFFICES ASSUME NEW u \in Tracks, Plays(r, u)
               PROVE  r.cursor = r.track[u].e /\ r.ent[r.track[u].e].trk = u
    BY DEF CursorPlays
  <2>1. u # t
    BY <1>4 DEF Plays
  <2>2. r.track[u] = s.track[u] /\ s.track[u].e \in Entries
    BY <1>1, <1>4, <2>1, FieldTypes DEF Plays, TrackType
  <2>3. Plays(s, u)
    BY <1>6, <2>2 DEF Plays
  <2>4. s.cursor = s.track[u].e /\ s.ent[s.track[u].e].trk = u
    BY <2>3 DEF Good, CursorPlays
  <2> QED BY <1>4, <1>5, <2>1, <2>2, <2>4
<1>15. r.active = Cardinality(Busy(r))
  BY <1>4, <1>9 DEF Good
<1>16. FreeTracks(r) # {}
  BY <1>4 DEF FreeTracks
<1>17. Good(r, R, e)
  BY <1>4, <1>10, <1>11, <1>12, <1>13, <1>14, <1>15 DEF Good
<1> QED BY <1>2, <1>16, <1>17 DEF e, r

\* q_ref gives the user a reference to an entry of the list.
LEMMA RefGood ==
  ASSUME NEW s, NEW R, Good(s, R, None), NEW e \in Entries, Contains(s.index, e), e \notin R
  PROVE  Good(Ref(s, e), R \union {e}, None)
<1> DEFINE r == Ref(s, e)
           ent == [s.ent[e] EXCEPT !.used = @ + 1]
<1>1. s \in QueueType /\ s.ent[e] \in EntryType /\ e # None
  BY FieldTypes, NoneAssumption DEF Good
<1>2. Live(s, e) /\ s.ent[e].used > 0
  <2>1. Live(s, e)
    BY HeldIsLive
  <2> QED BY <2>1 DEF Good, Counted
<1>3. ent \in EntryType
  <2>1. s.ent[e].used + 1 \in Nat
    BY <1>1 DEF EntryType
  <2> QED BY <1>1, <2>1 DEF EntryType
<1>4. r = [s EXCEPT !.ent[e] = ent]
  BY DEF Ref
<1>5. /\ ent.used = s.ent[e].used + 1 /\ ent.life = s.ent[e].life
      /\ ent.idx = s.ent[e].idx /\ ent.trk = s.ent[e].trk /\ ent.expand = s.ent[e].expand
  BY <1>1 DEF EntryType
<1> HIDE DEF ent, r
<1>6. /\ r \in QueueType /\ r.index = s.index /\ r.cursor = s.cursor /\ r.track = s.track
      /\ r.active = s.active /\ r.ent = [s.ent EXCEPT ![e] = ent]
  BY <1>1, <1>3, <1>4 DEF QueueType
<1>7. \A i \in Entries :
        /\ r.ent[i].used = IF i = e THEN s.ent[e].used + 1 ELSE s.ent[i].used
        /\ r.ent[i].life = s.ent[i].life /\ r.ent[i].idx = s.ent[i].idx
        /\ r.ent[i].trk = s.ent[i].trk /\ r.ent[i].expand = s.ent[i].expand
  BY <1>1, <1>5, <1>6 DEF QueueType
<1>8. \A i \in Entries : Live(r, i) <=> Live(s, i)
  BY <1>7 DEF Live
<1>9. Counted(r, R \union {e}, None)
  <2>1. \A i : TracksWith(r, i) = TracksWith(s, i)
    BY <1>6 DEF TracksWith
  <2>2. \A i \in Entries : i # e => Holders(r, R \union {e}, None, i) = Holders(s, R, None, i)
    BY <1>6, <2>1 DEF Holders
  <2>3. Holders(r, R \union {e}, None, e) = Holders(s, R, None, e) + 1
    <3>1. Cardinality(TracksWith(s, e)) \in Nat
      BY TracksCounted
    <3> QED BY <1>1, <1>6, <2>1, <3>1 DEF Holders, Count
  <2>4. \A i \in Entries : i # e => /\ r.ent[i].used = Holders(r, R \union {e}, None, i)
                                    /\ Live(r, i) <=> r.ent[i].used > 0
    BY <1>7, <1>8, <2>2 DEF Good, Counted
  <2>5. /\ r.ent[e].used = Holders(r, R \union {e}, None, e)
        /\ Live(r, e) <=> r.ent[e].used > 0
    <3>1. s.ent[e].used = Holders(s, R, None, e) /\ s.ent[e].used \in Nat
      BY <1>1 DEF Good, Counted, EntryType
    <3> QED BY <1>2, <1>7, <1>8, <2>3, <3>1
  <2>6. \A i \in Entries : i = e \/ i # e
    OBVIOUS
  <2> QED BY <2>4, <2>5, <2>6, Zenon DEF Counted
<1>10. CursorPoints(r)
  <2>1. s.cursor # None => s.cursor \in Entries
    BY <1>1 DEF QueueType
  <2> QED BY <1>6, <1>8, <2>1 DEF Good, CursorPoints
<1>11. BackPointers(r) /\ FlagsExact(r)
  BY <1>6, <1>7, <1>8 DEF Good, BackPointers, FlagsExact
<1>12. CursorPlays(r)
  <2>1. \A t \in Tracks : s.track[t].e # None => s.track[t].e \in Entries
    BY <1>1 DEF QueueType, TrackType
  <2> QED BY <1>6, <1>7, <2>1 DEF Good, CursorPlays, Plays
<1>13. r.active = Cardinality(Busy(r))
  BY <1>6 DEF Good, Busy
<1>14. Good(r, R \union {e}, None)
  BY <1>6, <1>9, <1>10, <1>11, <1>12, <1>13 DEF Good
<1> QED BY <1>14 DEF r

\* q_clear: every entry of the list is released once, and the playing ones go
\* on playing.
LEMMA ClearGood ==
  ASSUME NEW s, NEW R, Good(s, R, None)
  PROVE  Good(Clear(s), R, None) /\ Clear(s).track = s.track
<1> DEFINE listed == {e \in Entries : Contains(s.index, e)}
           gone == {e \in listed : s.ent[e].used = 1}
           rel(e) == [[s.ent[e] EXCEPT !.used = @ - 1] EXCEPT !.idx = -1]
           ent == [e \in Entries |-> IF e \in gone THEN Freed
                                     ELSE IF e \in listed THEN rel(e) ELSE s.ent[e]]
           r == Clear(s)
<1>1. s \in QueueType /\ \A e \in Entries : s.ent[e] \in EntryType /\ e # None
  BY FieldTypes, NoneAssumption DEF Good
<1>2. \A e \in listed : Live(s, e) /\ s.ent[e].used > 0
  <2> SUFFICES ASSUME NEW e \in listed
               PROVE  Live(s, e) /\ s.ent[e].used > 0
    OBVIOUS
  <2>1. Live(s, e)
    BY HeldIsLive
  <2> QED BY <2>1 DEF Good, Counted
<1>3. \A e \in listed :
        /\ rel(e) \in EntryType /\ rel(e).used = s.ent[e].used - 1 /\ rel(e).idx = -1
        /\ rel(e).life = s.ent[e].life /\ rel(e).trk = s.ent[e].trk
        /\ rel(e).expand = s.ent[e].expand
  <2> SUFFICES ASSUME NEW e \in listed
               PROVE  /\ rel(e) \in EntryType /\ rel(e).used = s.ent[e].used - 1
                      /\ rel(e).idx = -1
                      /\ rel(e).life = s.ent[e].life /\ rel(e).trk = s.ent[e].trk
                      /\ rel(e).expand = s.ent[e].expand
    OBVIOUS
  <2>1. s.ent[e] \in EntryType /\ s.ent[e].used > 0
    BY <1>1, <1>2
  <2>2. s.ent[e].used - 1 \in Nat
    BY <2>1 DEF EntryType
  <2> DEFINE m == [s.ent[e] EXCEPT !.used = @ - 1]
  <2>3. /\ m \in EntryType /\ m.used = s.ent[e].used - 1 /\ m.life = s.ent[e].life
        /\ m.trk = s.ent[e].trk /\ m.expand = s.ent[e].expand
    BY <2>1, <2>2 DEF EntryType
  <2>4. rel(e) = [m EXCEPT !.idx = -1]
    OBVIOUS
  <2> HIDE DEF m, rel
  <2> QED BY <2>3, <2>4 DEF EntryType
<1>4. ent \in [Entries -> EntryType]
  <2>1. Freed \in EntryType
    BY FreedFields
  <2> QED BY <1>1, <1>3, <2>1
<1>5. /\ r.index = <<>> /\ r.track = s.track /\ r.active = s.active
      /\ r.cursor = IF s.cursor \in gone THEN None ELSE s.cursor
      /\ r.ent = ent /\ r.cidx = s.cidx /\ r.split = s.split
      /\ r = [[[s EXCEPT !.index = <<>>] EXCEPT !.ent = ent] EXCEPT !.cursor = r.cursor]
  <2>1. r = [[[s EXCEPT !.index = <<>>]
                 EXCEPT !.ent = ent]
                 EXCEPT !.cursor = IF s.cursor \in gone THEN None ELSE s.cursor]
    BY <1>1 DEF Clear, QueueType
  <2> HIDE DEF ent, gone, r
  <2> QED BY <1>1, <2>1 DEF QueueType
<1> HIDE DEF r
<1>6. r \in QueueType
  <2> HIDE DEF ent
  <2>1. <<>> \in Seq(Entries) /\ r.cursor \in Entries \union {None}
    BY <1>1, <1>5 DEF QueueType
  <2>2. [s EXCEPT !.index = <<>>] \in QueueType
    BY <1>1, <2>1 DEF QueueType
  <2>3. [[s EXCEPT !.index = <<>>] EXCEPT !.ent = ent] \in QueueType
    BY <1>4, <2>2 DEF QueueType
  <2> QED BY <1>5, <2>1, <2>3 DEF QueueType
<1>7. Once(r.index) /\ \A e : ~Contains(r.index, e)
  <2>1. r.index = <<>> /\ Len(r.index) = 0
    BY <1>5
  <2>2. 1..Len(r.index) = {}
    BY <2>1
  <2> QED BY <2>2 DEF Once, Contains
<1>8. ASSUME NEW e \in Entries
      PROVE  /\ e \in gone => /\ ~Live(r, e) /\ r.ent[e].used = 0
                              /\ e \notin R /\ \A t \in Tracks : s.track[t].e # e
             /\ e \notin gone =>
                  /\ Live(r, e) <=> Live(s, e)
                  /\ r.ent[e].trk = s.ent[e].trk /\ r.ent[e].expand = s.ent[e].expand
                  /\ e \in listed => r.ent[e].idx = -1
                  /\ e \notin listed => r.ent[e] = s.ent[e]
                  /\ r.ent[e].used = s.ent[e].used - Count(Contains(s.index, e))
  <2>1. CASE e \in gone
    <3>1. r.ent[e] = Freed
      BY <1>5, <2>1
    <3>2. ~Live(r, e) /\ r.ent[e].used = 0
      BY <3>1, FreedFields DEF Live
    <3>3. Holders(s, R, None, e) = 1 /\ Contains(s.index, e) /\ e # None
      BY <1>1, <2>1 DEF Good, Counted
    <3>4. /\ Cardinality(TracksWith(s, e)) \in Nat
          /\ Cardinality(TracksWith(s, e)) = 0 <=> \A t \in Tracks : s.track[t].e # e
      BY TracksCounted
    <3>5. e \notin R /\ Cardinality(TracksWith(s, e)) = 0
      BY <3>3, <3>4 DEF Holders, Count
    <3> QED BY <2>1, <3>2, <3>4, <3>5
  <2>2. CASE e \in listed \ gone
    <3>1. r.ent[e] = rel(e) /\ Contains(s.index, e)
      BY <1>5, <2>2
    <3> HIDE DEF gone, listed, rel
    <3>2. Count(Contains(s.index, e)) = 1
      BY <3>1 DEF Count
    <3> QED BY <1>3, <2>2, <3>1, <3>2 DEF Live
  <2>3. CASE e \notin listed
    <3>1. r.ent[e] = s.ent[e] /\ ~Contains(s.index, e) /\ e \notin gone
      BY <1>5, <2>3
    <3>2. Count(Contains(s.index, e)) = 0 /\ s.ent[e].used \in Nat
      BY <1>1, <3>1 DEF Count, EntryType
    <3> HIDE DEF gone, listed
    <3> QED BY <2>3, <3>1, <3>2 DEF Live
  <2> QED BY <2>1, <2>2, <2>3
<1>9. Counted(r, R, None)
  <2> SUFFICES ASSUME NEW e \in Entries
               PROVE  /\ r.ent[e].used = Holders(r, R, None, e)
                      /\ Live(r, e) <=> r.ent[e].used > 0
    BY DEF Counted
  <2>1. /\ TracksWith(r, e) = TracksWith(s, e) /\ e # None /\ ~Contains(r.index, e)
        /\ Cardinality(TracksWith(s, e)) \in Nat
        /\ Cardinality(TracksWith(s, e)) = 0 <=> \A t \in Tracks : s.track[t].e # e
    <3>1. /\ Cardinality(TracksWith(s, e)) \in Nat
          /\ Cardinality(TracksWith(s, e)) = 0 <=> \A t \in Tracks : s.track[t].e # e
      BY TracksCounted
    <3>2. TracksWith(r, e) = TracksWith(s, e)
      BY <1>5 DEF TracksWith
    <3> QED BY <1>1, <1>7, <3>1, <3>2
  <2>2. Holders(r, R, None, e) = Count(e \in R) + Cardinality(TracksWith(s, e))
    BY <2>1 DEF Holders, Count
  <2>3. CASE e \in gone
    BY <1>8, <2>1, <2>2, <2>3 DEF Count
  <2>4. CASE e \notin gone
    <3>1. r.ent[e].used = Holders(r, R, None, e)
      <4>1. r.ent[e].used = s.ent[e].used - Count(Contains(s.index, e))
        BY <1>8, <2>4
      <4>2. s.ent[e].used = Holders(s, R, None, e)
        BY DEF Good, Counted
      <4> QED BY <2>1, <2>2, <4>1, <4>2 DEF Holders, Count
    <3>2. Live(r, e) <=> Live(s, e)
      BY <1>8, <2>4
    <3>3. Live(s, e) <=> s.ent[e].used > 0
      BY DEF Good, Counted
    <3>4. s.ent[e].used > 0 <=> r.ent[e].used > 0
      <4>1. CASE e \in listed
        <5>1. s.ent[e].used \in Nat /\ s.ent[e].used > 0 /\ s.ent[e].used # 1
          BY <1>1, <1>2, <2>4, <4>1 DEF EntryType
        <5>2. r.ent[e].used = s.ent[e].used - 1
          BY <1>8, <2>4, <4>1 DEF Count
        <5> QED BY <5>1, <5>2
      <4>2. CASE e \notin listed
        BY <1>8, <2>4, <4>2
      <4> QED BY <4>1, <4>2
    <3> QED BY <3>1, <3>2, <3>3, <3>4
  <2> QED BY <2>3, <2>4
<1> HIDE DEF gone, ent
<1>10. CursorPoints(r)
  <2>1. s.cursor # None => s.cursor \in Entries
    BY <1>1 DEF QueueType
  <2> QED BY <1>5, <1>8, <2>1 DEF Good, CursorPoints
<1>11. BackPointers(r)
  BY <1>5, <1>8 DEF Good, BackPointers
<1>12. FlagsExact(r)
  <2> SUFFICES ASSUME NEW e \in Entries, Live(r, e)
               PROVE  r.ent[e].idx = -1
    BY <1>7 DEF FlagsExact
  <2>1. e \notin gone /\ Live(s, e)
    BY <1>8
  <2> QED BY <1>8, <2>1 DEF Good, FlagsExact
<1>13. CursorPlays(r)
  <2> SUFFICES ASSUME NEW t \in Tracks, Plays(r, t)
               PROVE  r.cursor = r.track[t].e /\ r.ent[r.track[t].e].trk = t
    BY DEF CursorPlays
  <2>1. r.track[t] = s.track[t] /\ s.track[t].e \in Entries
    BY <1>1, <1>5, FieldTypes DEF Plays, TrackType
  <2>2. s.track[t].e \notin gone
    BY <1>8, <2>1
  <2>3. Plays(s, t)
    BY <1>8, <2>1, <2>2 DEF Plays
  <2>4. s.cursor = s.track[t].e /\ s.ent[s.track[t].e].trk = t
    BY <2>3 DEF Good, CursorPlays
  <2> QED BY <1>5, <1>8, <2>1, <2>2, <2>4
<1>14. r.active = Cardinality(Busy(r))
  BY <1>5 DEF Good, Busy
<1>15. Good(r, R, None)
  BY <1>6, <1>7, <1>9, <1>10, <1>11, <1>12, <1>13, <1>14 DEF Good
<1> QED BY <1>5, <1>15 DEF r

\* The entries of the list change places.
LEMMA Sorted ==
  ASSUME NEW S, NEW ch \in Seq(S), Once(ch), NEW p \in Bijection(1..Len(ch), 1..Len(ch)),
         NEW d, d = [i \in 1..Len(ch) |-> ch[p[i]]]
  PROVE  /\ d \in Seq(S) /\ Once(d)
         /\ \A x : Contains(d, x) <=> Contains(ch, x)
<1> DEFINE D == 1..Len(ch)
<1>0. /\ Len(ch) \in Nat /\ p \in [D -> D] /\ \A j \in D : \E i \in D : p[i] = j
      /\ \A i, j \in D : p[i] = p[j] => i = j
  BY DEF Bijection, Injection, Surjection, IsInjective
<1>1. d \in Seq(S) /\ Len(d) = Len(ch)
  <2>1. \A i \in D : ch[p[i]] \in S
    BY <1>0
  <2> QED BY <1>0, <2>1
<1>3. \A i \in D : d[i] = ch[p[i]]
  OBVIOUS
<1> HIDE DEF D
<1>4. D = 1..Len(ch)
  BY DEF D
<1>5. Once(d)
  <2> SUFFICES ASSUME NEW i \in D, NEW j \in D, d[i] = d[j]
               PROVE  i = j
    BY <1>1, <1>4 DEF Once
  <2>1. p[i] \in D /\ p[j] \in D /\ ch[p[i]] = ch[p[j]]
    BY <1>0, <1>3
  <2>2. p[i] = p[j]
    BY <1>4, <2>1 DEF Once
  <2> QED BY <1>0, <2>2
<1>6. ASSUME NEW x
      PROVE  Contains(d, x) <=> Contains(ch, x)
  <2>1. ASSUME Contains(d, x)
        PROVE  Contains(ch, x)
    <3>1. PICK i \in D : d[i] = x
      BY <1>1, <1>4, <2>1 DEF Contains
    <3>2. p[i] \in 1..Len(ch) /\ ch[p[i]] = x
      BY <1>0, <1>3, <1>4, <3>1
    <3> QED BY <3>2, Zenon DEF Contains
  <2>2. ASSUME Contains(ch, x)
        PROVE  Contains(d, x)
    <3>1. PICK j \in D : ch[j] = x
      BY <1>4, <2>2 DEF Contains
    <3>2. PICK i \in D : p[i] = j
      BY <1>0
    <3>3. d[i] = x /\ i \in 1..Len(d)
      BY <1>1, <1>3, <1>4, <3>1, <3>2
    <3> QED BY <3>3, Zenon DEF Contains
  <2> QED BY <2>1, <2>2
<1> QED BY <1>1, <1>5, <1>6

\* q_sort
LEMMA SortGood ==
  ASSUME NEW s, NEW R, Good(s, R, None), 
         NEW p \in Bijection(1..Len(s.index), 1..Len(s.index)),
         NEW r, r = [s EXCEPT !.index = [i \in 1..Len(@) |-> @[p[i]]]]
  PROVE  Good(r, R, None) /\ r.track = s.track
<1> DEFINE d == [i \in 1..Len(s.index) |-> s.index[p[i]]]
<1>1. s \in QueueType /\ s.index \in Seq(Entries) /\ Once(s.index)
  BY DEF Good, QueueType
<1>2. d \in Seq(Entries) /\ Once(d) /\ \A x : Contains(d, x) <=> Contains(s.index, x)
  BY <1>1, Sorted
<1>3. r = [s EXCEPT !.index = d]
  OBVIOUS
<1> HIDE DEF d
<1>4. /\ r \in QueueType /\ r.index = d /\ r.cursor = s.cursor /\ r.ent = s.ent
      /\ r.track = s.track /\ r.active = s.active
  BY <1>1, <1>2, <1>3 DEF QueueType
<1>5. \A i \in Entries : Live(r, i) <=> Live(s, i)
  BY <1>4 DEF Live
<1>6. Counted(r, R, None)
  <2>1. \A i : TracksWith(r, i) = TracksWith(s, i)
    BY <1>4 DEF TracksWith
  <2>2. \A i : Count(Contains(r.index, i)) = Count(Contains(s.index, i))
    BY <1>2, <1>4 DEF Count
  <2>3. \A i \in Entries : Holders(r, R, None, i) = Holders(s, R, None, i)
    BY <2>1, <2>2 DEF Holders
  <2> QED BY <1>4, <1>5, <2>3 DEF Good, Counted
<1>7. CursorPoints(r)
  <2>1. s.cursor # None => s.cursor \in Entries
    BY <1>1 DEF QueueType
  <2> QED BY <1>4, <1>5, <2>1 DEF Good, CursorPoints
<1>8. BackPointers(r) /\ FlagsExact(r)
  BY <1>2, <1>4, <1>5 DEF Good, BackPointers, FlagsExact
<1>9. CursorPlays(r)
  BY <1>4 DEF Good, CursorPlays, Plays
<1>10. r.active = Cardinality(Busy(r))
  BY <1>4 DEF Good, Busy
<1> QED BY <1>2, <1>4, <1>6, <1>7, <1>8, <1>9, <1>10 DEF Good

\* r is s with entry n put behind the one that track t inserted last.
ExpandedIn(s, t, n, r) ==
  /\ r.track[t].e = s.track[t].e /\ r.track[t].after = n
  /\ \A u \in Tracks : u # t => r.track[u] = s.track[u]
  /\ Live(r, n)
  /\ \A i \in Entries : Live(r, i) => i = n \/ Live(s, i)

\* qu_add_dir_r and m3u_add insert an entry; the first time the expanded one
\* leaves the list.
LEMMA ExpandedGood ==
  ASSUME NEW s, NEW R, Good(s, R, None), NEW t \in Tracks, s.track[t].e # None,
         Live(s, s.track[t].after), NEW n \in Entries, ~Live(s, n)
  PROVE  Good(Expanded(s, t, n), R, None) /\ ExpandedIn(s, t, n, Expanded(s, t, n))
<1> DEFINE e == s.track[t].e
           a == s.track[t].after
           s1 == Refresh(s, a)
           pos == s1.ent[a].idx + 1
           si == Insert(s1, pos, n)
           s2 == [si EXCEPT !.track[t].after = n]
           s3 == Refresh(s2, e)
           r == Expanded(s, t, n)
<1>1. s \in QueueType /\ e \in Entries /\ a \in Entries /\ Once(s.index)
  BY FieldTypes DEF TrackType, Live, Good
<1>2. e # n
  <2>1. Live(s, e)
    BY <1>1, HeldIsLive
  <2> QED BY <2>1
<1>3. Live(s, a) /\ s.track[t].e = e /\ s.track[t].after = a
  OBVIOUS
<1>4. r = IF a = e THEN RemoveEntry(s3, s3.ent[e].idx) ELSE s2
  <2>1. s1.track = s.track
    BY <1>1, RefreshKeeps
  <2> QED BY <2>1 DEF Expanded
<1> HIDE DEF e, a, r
<1>5. /\ Good(s1, R, None) /\ s1 \in QueueType /\ Once(s1.index)
      /\ s1.track = s.track /\ s1.index = s.index
      /\ \A i \in Entries : Live(s1, i) <=> Live(s, i)
      /\ pos \in 0..Len(s1.index)
  <2>1. Good(s1, R, None)
    BY <1>1, RefreshGood
  <2>2. /\ s1.track = s.track /\ s1.index = s.index
        /\ \A i \in Entries : i # a => s1.ent[i] = s.ent[i]
        /\ s1.ent[a] = [s.ent[a] EXCEPT !.idx = Index(s, a)]
    BY <1>1, RefreshKeeps
  <2>3. s.ent[a] \in EntryType
    BY <1>1, FieldTypes
  <2>4. s1.ent[a].life = s.ent[a].life /\ s1.ent[a].idx = Index(s, a)
    BY <2>2, <2>3 DEF EntryType
  <2>5. \A i \in Entries : Live(s1, i) <=> Live(s, i)
    BY <2>2, <2>4 DEF Live
  <2>6. Index(s, a) + 1 \in 0..Len(s.index)
    <3>1. Len(s.index) \in Nat
      BY <1>1 DEF QueueType
    <3> QED BY <1>1, <3>1, IndexIsRight
  <2> QED BY <2>1, <2>2, <2>4, <2>5, <2>6 DEF Good
<1> HIDE DEF s1, pos
<1>6. ~Live(s1, n) /\ n # None
  BY <1>5, NoneAssumption
<1>7. Good(si, R, None)
  BY <1>5, <1>6, InsertGood
<1>8. /\ si \in QueueType /\ si.track = s.track /\ Live(si, n)
      /\ \A i \in Entries : i # n => (Live(si, i) <=> Live(s, i))
  <2>1. ~Contains(s1.index, n)
    BY <1>5, <1>6, UnusedIsFree
  <2>2. InsertedIn(s1, pos, n, si)
    BY <1>5, <2>1, InsertKeeps
  <2> HIDE DEF si
  <2>3. Contains(si.index, n)
    BY <2>2 DEF InsertedIn
  <2>4. Live(si, n)
    BY <1>7, <2>3, HeldIsLive
  <2>5. /\ si \in QueueType /\ si.track = s1.track
        /\ \A i \in Entries : i # n => si.ent[i] = s1.ent[i]
    BY <2>2 DEF InsertedIn
  <2> QED BY <1>5, <2>4, <2>5 DEF Live
<1> HIDE DEF si
<1>9. /\ s2 \in QueueType /\ s2.index = si.index /\ s2.cursor = si.cursor
      /\ s2.active = si.active /\ s2.ent = si.ent
      /\ s2.track[t].e = e /\ s2.track[t].after = n /\ s2.track[t].stop = s.track[t].stop
      /\ \A u \in Tracks : u # t => s2.track[u] = s.track[u]
  <2> DEFINE trk == [s.track[t] EXCEPT !.after = n]
  <2>1. s.track[t] \in TrackType
    BY <1>1, FieldTypes
  <2>2. trk \in TrackType /\ trk.e = e /\ trk.after = n /\ trk.stop = s.track[t].stop
    BY <1>3, <2>1 DEF TrackType
  <2>3. s2 = [si EXCEPT !.track[t] = trk]
    BY <1>8
  <2> HIDE DEF trk, s2
  <2> QED BY <1>8, <2>2, <2>3 DEF QueueType
<1> HIDE DEF s2
<1>10. Good(s2, R, None)
  <2>1. MarkedIn(si, s2)
    BY <1>3, <1>8, <1>9 DEF MarkedIn
  <2> QED BY <1>7, <2>1, MarkGood
<1>11. \A i \in Entries : Live(s2, i) <=> Live(si, i)
  BY <1>9 DEF Live
<1>12. CASE a # e
  <2>1. ExpandedIn(s, t, n, s2)
    BY <1>3, <1>8, <1>9, <1>11 DEF ExpandedIn
  <2> QED BY <1>4, <1>10, <1>12, <2>1 DEF r
<1>13. CASE a = e
  <2> DEFINE i == s3.ent[e].idx
             r3 == RemoveEntry(s3, i)
  <2>1. Good(s3, R, None)
    BY <1>1, <1>10, RefreshGood
  <2>2. /\ s3.track = s2.track /\ s3.index = s2.index /\ i \in Int
        /\ \A j \in Entries : Live(s3, j) <=> Live(s2, j)
        /\ Get(s3, i) = e \/ Get(s3, i) = None
    <3>1. s2 \in QueueType /\ Once(s2.index) /\ s2.ent[e] \in EntryType
      BY <1>1, <1>10, FieldTypes DEF Good
    <3>2. /\ s3.track = s2.track /\ s3.index = s2.index
          /\ \A j \in Entries : j # e => s3.ent[j] = s2.ent[j]
          /\ s3.ent[e] = [s2.ent[e] EXCEPT !.idx = Index(s2, e)]
      BY <1>1, <3>1, RefreshKeeps
    <3>3. s3.ent[e].life = s2.ent[e].life /\ i = Index(s2, e)
      BY <3>1, <3>2 DEF EntryType
    <3> HIDE DEF i
    <3>4. \A j \in Entries : Live(s3, j) <=> Live(s2, j)
      BY <3>2, <3>3 DEF Live
    <3>5. Len(s2.index) \in Nat
      BY <3>1 DEF QueueType
    <3>6. CASE Contains(s2.index, e)
      <4>1. i \in 0..(Len(s2.index) - 1) /\ s2.index[i + 1] = e
        BY <1>1, <3>1, <3>3, <3>6, IndexIsRight
      <4>2. i \in Int /\ Get(s3, i) = e
        BY <3>2, <3>5, <4>1 DEF Get
      <4> QED BY <3>2, <3>4, <4>2
    <3>7. CASE ~Contains(s2.index, e)
      <4>1. i = -1
        BY <1>1, <3>1, <3>3, <3>7, IndexIsRight
      <4>2. i \in Int /\ Get(s3, i) = None
        BY <4>1 DEF Get
      <4> QED BY <3>2, <3>4, <4>2
    <3> QED BY <3>6, <3>7
  <2> HIDE DEF s3, i
  <2>3. Good(r3, R, None) /\ RemovedIn(s3, Get(s3, i), r3)
    BY <2>1, <2>2, RemoveGood, RemoveKeeps
  <2> HIDE DEF r3
  <2>4. /\ r3.track = s2.track
        /\ \A j \in Entries : Live(r3, j) => Live(s3, j)
        /\ r3.ent[n] = s3.ent[n]
    <3>1. Get(s3, i) # n
      BY <1>2, <1>6, <2>2
    <3> QED BY <2>2, <2>3, <3>1 DEF RemovedIn
  <2>5. Live(r3, n)
    BY <1>6, <1>8, <1>11, <2>2, <2>4 DEF Live
  <2>6. ExpandedIn(s, t, n, r3)
    BY <1>3, <1>8, <1>9, <1>11, <2>2, <2>4, <2>5 DEF ExpandedIn
  <2>7. r = r3
    BY <1>4, <1>13 DEF r3, i
  <2> QED BY <2>3, <2>6, <2>7 DEF r
<1> QED BY <1>12, <1>13

\* r is s after the filters of track t have ended.
BeforeIn(s, t, r) ==
  /\ r.track[t].e = s.track[t].e
  /\ \A u \in Tracks : u # t => r.track[u] = s.track[u]

\* The end of an expansion: the files of a directory are inserted one after
\* the other, or an empty playlist leaves the list.
LEMMA BeforeGuardGood ==
  ASSUME NEW s, NEW R, Good(s, R, None), NEW t \in Tracks, s.track[t].e # None,
         NEW ns \in Files(s), ns # <<>> => ~conf.lists, ~conf.lists => Own(s)
  PROVE  Good(BeforeGuard(s, t, ns), R, None) /\ BeforeIn(s, t, BeforeGuard(s, t, ns))
<1> DEFINE e == s.track[t].e
           r == BeforeGuard(s, t, ns)
<1>1. s \in QueueType /\ Once(s.index) /\ e \in Entries
  BY FieldTypes DEF Good, TrackType
<1>2. CASE s.ent[e].expand /\ conf.lists /\ s.track[t].after = e
  <2> DEFINE s1 == Refresh(s, e)
             i == s1.ent[e].idx
  <2>1. r = RemoveEntry(s1, i)
    BY <1>2 DEF BeforeGuard
  <2> HIDE DEF r, e
  <2>2. Good(s1, R, None) /\ s1.track = s.track
    BY <1>1, RefreshGood, RefreshKeeps
  <2>3. i \in Int
    <3>1. s1 \in QueueType
      BY <2>2 DEF Good
    <3> HIDE DEF s1
    <3> QED BY <1>1, <3>1, FieldTypes DEF EntryType
  <2> HIDE DEF s1, i
  <2>4. Good(r, R, None) /\ RemovedIn(s1, Get(s1, i), r)
    BY <2>1, <2>2, <2>3, RemoveGood, RemoveKeeps
  <2> QED BY <2>2, <2>4 DEF RemovedIn, BeforeIn, r
<1>3. CASE ~(s.ent[e].expand /\ conf.lists /\ s.track[t].after = e)
  <2>1. r = ListFiles(s, t, ns)
    BY <1>3 DEF BeforeGuard
  <2> HIDE DEF r, e
  <2>2. /\ Len(ns) \in 0..2 /\ (Len(ns) = 0 => ns = <<>>)
        /\ \A i \in 1..Len(ns) : ns[i] \in Entries /\ ~Live(s, ns[i])
        /\ Len(ns) = 2 => ns[1] # ns[2]
    <3>1. PICK m \in 0..2 : ns \in [1..m -> Unused(s)]
      BY DEF Files, SeqOf
    <3>2. ns \in Seq(Unused(s)) /\ Len(ns) = m
      BY <3>1
    <3>3. Len(ns) = 0 => ns = <<>>
      BY <3>2
    <3> QED BY <3>1, <3>2, <3>3 DEF Files, Unused, Live
  <2>3. CASE Len(ns) = 0
    <3>1. r = s
      BY <2>1, <2>3 DEF ListFiles
    <3> QED BY <3>1 DEF BeforeIn, r
  <2>4. CASE Len(ns) # 0
    <3>1. ns # <<>> /\ 1 \in 1..Len(ns)
      BY <2>2, <2>4
    <3>2. Own(s)
      BY <3>1
    <3>3. s.track[t].after = e /\ Live(s, s.track[t].after)
      <4>1. t \in Busy(s)
        BY DEF Busy
      <4>2. s.track[t].after = e
        BY <3>2, <4>1 DEF Own, e
      <4>3. Live(s, e)
        BY <1>1, HeldIsLive DEF e
      <4> QED BY <4>2, <4>3
    <3> DEFINE n == ns[1]
               r1 == Expanded(s, t, n)
    <3>4. n \in Entries /\ ~Live(s, n)
      BY <2>2, <3>1
    <3> HIDE DEF n
    <3>5. Good(r1, R, None) /\ ExpandedIn(s, t, n, r1)
      BY <3>3, <3>4, ExpandedGood
    <3> HIDE DEF r1
    <3>6. CASE Len(ns) = 1
      <4>1. r = r1
        BY <2>1, <3>6 DEF ListFiles, r1, n
      <4> QED BY <3>5, <4>1 DEF ExpandedIn, BeforeIn, r
    <3>7. CASE Len(ns) = 2
      <4> DEFINE m == ns[2]
                 r2 == Expanded(r1, t, m)
      <4>1. m \in Entries /\ ~Live(s, m) /\ m # n
        <5>1. 2 \in 1..Len(ns)
          BY <3>7
        <5> QED BY <2>2, <3>7, <5>1 DEF n
      <4> HIDE DEF m
      <4>2. r1.track[t].e # None /\ Live(r1, r1.track[t].after) /\ ~Live(r1, m)
        BY <3>5, <4>1 DEF ExpandedIn
      <4>3. Good(r2, R, None) /\ ExpandedIn(r1, t, m, r2)
        BY <3>5, <4>1, <4>2, ExpandedGood
      <4>4. r = r2
        BY <2>1, <3>7 DEF ListFiles, r1, n, m
      <4> HIDE DEF r2
      <4> QED BY <3>5, <4>3, <4>4 DEF ExpandedIn, BeforeIn, r
    <3> QED BY <2>2, <2>4, <3>6, <3>7
  <2> QED BY <2>3, <2>4
<1> QED BY <1>2, <1>3

\* q_play_next and its like, and then qe_unref of the entry whose track ended.
LEMMA GoOnGood ==
  ASSUME NEW s, NEW R, NEW e \in Entries \union {None}, Good(s, R, e),
         FreeTracks(s) # {}, NEW i \in Int, NEW ok, GoOn(s, i, ok, e), crash \in BOOLEAN
  PROVE  /\ q' = q \/ (Good(q', R, None) /\ (Own(s) => Own(q')))
         /\ crash' \in BOOLEAN
<1>1. CASE crash' = TRUE /\ UNCHANGED q
  BY <1>1
<1>2. ASSUME NEW j \in Positions(s, i), UNCHANGED crash,
             q' = IF e = None THEN PlayAt(Turned(s), j, ok)
                  ELSE Unref(PlayAt(Turned(s), j, ok), e)
      PROVE  Good(q', R, None) /\ (Own(s) => Own(q'))
  <2> DEFINE r == PlayAt(Turned(s), j, ok)
  <2>1. j \in Int
    BY PositionsAreInt DEF Good
  <2>2. Good(r, R, e) /\ (Own(s) => Own(r))
    BY <2>1, PlayAtGood
  <2>3. q' = IF e = None THEN r ELSE Unref(r, e)
    BY <1>2
  <2> HIDE DEF r
  <2>4. CASE e = None
    BY <2>2, <2>3, <2>4
  <2>5. CASE e # None
    <3>1. Good(Unref(r, e), R, None) /\ Unref(r, e).track = r.track
      BY <2>2, <2>5, UnrefGood
    <3> QED BY <2>2, <2>3, <2>5, <3>1 DEF Own, Busy
  <2> QED BY <2>4, <2>5
<1>3. CASE \E j \in Positions(s, i) :
             /\ q' = IF e = None THEN PlayAt(Turned(s), j, ok)
                     ELSE Unref(PlayAt(Turned(s), j, ok), e)
             /\ UNCHANGED crash
  BY <1>2, <1>3
<1> QED BY <1>1, <1>3 DEF GoOn

-----------------------------------------------------------------------------
(* Every call keeps the invariant.                                         *)

\* What the steps have in common.
LEMMA QueueFacts ==
  ASSUME QueueInv
  PROVE  /\ q \in QueueType /\ Once(q.index) /\ Len(q.index) \in Nat
         /\ Good(q, refs, None) /\ AfterOwn
         /\ conf \in Confs /\ refs \in SUBSET Entries /\ crash \in BOOLEAN
BY DEF QueueInv, Good, QueueType

\* A call that leaves the tracks' places in the list alone.
LEMMA SameAfter ==
  ASSUME QueueInv, UNCHANGED conf, Own(q) => Own(q'),
         Good(q', refs', None), refs' \in SUBSET Entries, crash' \in BOOLEAN
  PROVE  QueueInv'
BY DEF QueueInv, AfterOwn

\* q_add of a file.
LEMMA AddStep ==
  ASSUME QueueInv, NEW e \in Entries, Add(e)
  PROVE  QueueInv'
<1>1. q' = Insert(q, Len(q.index), e) /\ UNCHANGED <<conf, refs, crash>> /\ ~Live(q, e)
  BY DEF Add, Unused, Live
<1>2. Len(q.index) \in 0..Len(q.index)
  BY QueueFacts
<1>3. Good(q', refs, None) /\ InsertedIn(q, Len(q.index), e, q')
  BY <1>1, <1>2, QueueFacts, InsertGood
<1>4. Own(q) => Own(q')
  BY <1>3 DEF InsertedIn, Own, Busy
<1> QED BY <1>1, <1>3, <1>4, QueueFacts, SameAfter

\* q_add of a directory or a playlist.
LEMMA AddListStep ==
  ASSUME QueueInv, NEW e \in Entries, AddList(e)
  PROVE  QueueInv'
<1> DEFINE s == Insert(q, Len(q.index), e)
           r == [s EXCEPT !.ent[e].expand = TRUE]
<1>1. /\ q' = StartTrack(r, e) /\ UNCHANGED <<conf, refs, crash>> /\ ~Live(q, e)
      /\ FreeTracks(q) # {}
  BY DEF AddList, Unused, Live, MayStart
<1>2. Len(q.index) \in 0..Len(q.index)
  BY QueueFacts
<1>3. Good(s, refs, None) /\ InsertedIn(q, Len(q.index), e, s)
  BY <1>1, <1>2, QueueFacts, InsertGood
<1> HIDE DEF s
<1>4. s \in QueueType /\ s.ent[e] \in EntryType /\ s.track = q.track /\ Contains(s.index, e)
  BY <1>3, FieldTypes DEF InsertedIn
<1>5. Live(s, e) /\ s.ent[e].life = "live"
  BY <1>3, <1>4, HeldIsLive
<1> DEFINE ent == [s.ent[e] EXCEPT !.expand = TRUE]
<1>6. /\ ent \in EntryType /\ ent.used = s.ent[e].used /\ ent.life = s.ent[e].life
      /\ ent.idx = s.ent[e].idx /\ ent.trk = s.ent[e].trk /\ ent.expand = TRUE
  BY <1>4 DEF EntryType
<1>7. r = [s EXCEPT !.ent[e] = ent]
  OBVIOUS
<1> HIDE DEF ent, r
<1>8. /\ r \in QueueType /\ r.index = s.index /\ r.cursor = s.cursor
      /\ r.active = s.active /\ r.track = s.track /\ r.ent = [s.ent EXCEPT ![e] = ent]
  BY <1>4, <1>6, <1>7 DEF QueueType
<1>9. \A i \in Entries : r.ent[i] = IF i = e THEN ent ELSE s.ent[i]
  BY <1>4, <1>8 DEF QueueType
<1>10. MarkedIn(s, r)
  BY <1>6, <1>8, <1>9 DEF MarkedIn
<1>11. Good(r, refs, None)
  BY <1>3, <1>10, MarkGood
<1>12. Live(r, e) /\ r.ent[e].expand
  BY <1>5, <1>6, <1>9 DEF Live
<1>13. FreeTracks(r) # {}
  BY <1>1, <1>4, <1>8 DEF FreeTracks
<1>14. Good(q', refs, None) /\ (Own(r) => Own(q'))
  BY <1>1, <1>11, <1>12, <1>13, StartGood
<1>15. Own(q) => Own(q')
  BY <1>4, <1>8, <1>14 DEF Own, Busy
<1> QED BY <1>1, <1>14, <1>15, QueueFacts, SameAfter

\* q_remove_at
LEMMA RemoveStep ==
  ASSUME QueueInv, NEW pos \in 0..(Len(q.index) - 1), RemoveAtPos(pos)
  PROVE  QueueInv'
<1>1. q' = RemoveEntry(q, pos) /\ UNCHANGED <<conf, refs, crash>>
  BY DEF RemoveAtPos
<1>2. pos \in Int
  BY QueueFacts
<1>3. Good(q', refs, None) /\ RemovedIn(q, Get(q, pos), q')
  BY <1>1, <1>2, QueueFacts, RemoveGood, RemoveKeeps
<1>4. Own(q) => Own(q')
  BY <1>3 DEF RemovedIn, Own, Busy
<1> QED BY <1>1, <1>3, <1>4, QueueFacts, SameAfter

\* q_clear and q_sort
LEMMA ListStep ==
  ASSUME QueueInv, ClearAll \/ Sort
  PROVE  QueueInv'
<1>1. Good(q', refs, None) /\ q'.track = q.track /\ UNCHANGED <<conf, refs, crash>>
  <2>1. CASE ClearAll
    BY <2>1, QueueFacts, ClearGood DEF ClearAll
  <2>2. CASE Sort
    <3>1. UNCHANGED <<conf, refs, crash>>
      BY <2>2 DEF Sort
    <3>2. PICK p \in Bijection(1..Len(q.index), 1..Len(q.index)) :
            q' = [q EXCEPT !.index = [i \in 1..Len(@) |-> @[p[i]]]]
      BY <2>2 DEF Sort
    <3>3. Good(q', refs, None) /\ q'.track = q.track
      BY <3>2, QueueFacts, SortGood
    <3> QED BY <3>1, <3>3
  <2> QED BY <2>1, <2>2
<1>2. Own(q) => Own(q')
  BY <1>1 DEF Own, Busy
<1> QED BY <1>1, <1>2, QueueFacts, SameAfter

\* PHI_TRACK_STOP_ALL
LEMMA StopAllStep ==
  ASSUME QueueInv, StopAll
  PROVE  QueueInv'
<1> DEFINE trk == [t \in Tracks |-> IF q.track[t].e = None THEN q.track[t]
                                    ELSE [q.track[t] EXCEPT !.stop = TRUE]]
<1>1. q' = [q EXCEPT !.track = trk] /\ UNCHANGED <<conf, refs, crash>>
  BY QueueFacts DEF StopAll, QueueType
<1>2. ASSUME NEW t \in Tracks
      PROVE  /\ trk[t] \in TrackType /\ trk[t].e = q.track[t].e
             /\ trk[t].after = q.track[t].after /\ (q.track[t].stop => trk[t].stop)
  <2>1. q.track[t] \in TrackType
    BY QueueFacts, FieldTypes
  <2> QED BY <2>1 DEF TrackType
<1>3. trk \in [Tracks -> TrackType]
  BY <1>2
<1> HIDE DEF trk
<1>4. /\ q' \in QueueType /\ q'.index = q.index /\ q'.cursor = q.cursor
      /\ q'.active = q.active /\ q'.ent = q.ent /\ q'.track = trk
  BY <1>1, <1>3, QueueFacts DEF QueueType
<1>5. MarkedIn(q, q')
  BY <1>2, <1>4 DEF MarkedIn
<1>6. Good(q', refs, None)
  BY <1>5, QueueFacts, MarkGood
<1>7. Own(q) => Own(q')
  BY <1>2, <1>4 DEF Own, Busy
<1> QED BY <1>1, <1>6, <1>7, QueueFacts, SameAfter

\* q_ref and qe_unref of the user interface
LEMMA UserRefStep ==
  ASSUME QueueInv, NEW e \in Entries, RefEntry(e) \/ UnrefEntry(e)
  PROVE  QueueInv'
<1>1. CASE RefEntry(e)
  <2>1. /\ q' = Ref(q, e) /\ refs' = refs \union {e} /\ UNCHANGED <<conf, crash>>
        /\ Contains(q.index, e) /\ e \notin refs
    BY <1>1 DEF RefEntry
  <2>2. Good(q', refs', None)
    BY <2>1, QueueFacts, RefGood
  <2>3. Own(q) => Own(q')
    <3>1. q'.track = q.track
      BY <2>1, QueueFacts DEF Ref, QueueType
    <3> QED BY <3>1 DEF Own, Busy
  <2> QED BY <2>1, <2>2, <2>3, QueueFacts, SameAfter
<1>2. CASE UnrefEntry(e)
  <2>1. /\ q' = Unref(q, e) /\ refs' = refs \ {e} /\ UNCHANGED <<conf, crash>> /\ e \in refs
    BY <1>2 DEF UnrefEntry
  <2>2. Good(q, refs \ {e}, e)
    <3>1. ASSUME NEW i \in Entries
          PROVE  Holders(q, refs \ {e}, e, i) = Holders(q, refs, None, i)
      <4>1. i # None
        BY NoneAssumption
      <4>2. Cardinality(TracksWith(q, i)) \in Nat
        BY TracksCounted
      <4>3. CASE i = e
        BY <2>1, <4>1, <4>2, <4>3 DEF Holders, Count
      <4>4. CASE i # e
        BY <2>1, <4>1, <4>2, <4>4 DEF Holders, Count
      <4> QED BY <4>3, <4>4
    <3>2. Counted(q, refs \ {e}, e)
      BY <3>1, QueueFacts DEF Good, Counted
    <3> QED BY <3>2, QueueFacts DEF Good
  <2>3. Good(q', refs', None) /\ q'.track = q.track
    BY <2>1, <2>2, UnrefGood
  <2>4. Own(q) => Own(q')
    BY <2>3 DEF Own, Busy
  <2> QED BY <2>1, <2>3, <2>4, QueueFacts, SameAfter
<1> QED BY <1>1, <1>2

\* q_play, q_play_next and q_play_prev
LEMMA PlayStep ==
  ASSUME QueueInv, NEW ok \in BOOLEAN,
         \/ \E e \in Entries : PlayThis(e, ok)
         \/ PlayDefault(ok) \/ PlayNext(ok) \/ PlayPrev(ok)
  PROVE  QueueInv'
<1>1. ASSUME NEW e \in Entries, PlayThis(e, ok)
      PROVE  QueueInv'
  <2>1. /\ q' = Play(q, e, ok) /\ UNCHANGED <<conf, refs, crash>>
        /\ Contains(q.index, e) /\ FreeTracks(q) # {}
    BY <1>1 DEF PlayThis, MayStart
  <2>2. Good(q', refs, None) /\ (Own(q) => Own(q'))
    BY <2>1, QueueFacts, PlayGood
  <2> QED BY <2>1, <2>2, QueueFacts, SameAfter
<1>2. CASE PlayDefault(ok) \/ PlayNext(ok) \/ PlayPrev(ok)
  <2>1. FreeTracks(q) # {} /\ UNCHANGED <<conf, refs>>
    BY <1>2 DEF PlayDefault, PlayNext, PlayPrev, MayStart
  <2>2. NextPos(q) \in Int /\ PrevPos(q) \in Int /\ q.cidx \in Int
    BY QueueFacts, PositionsAreInt
  <2>3. PICK s \in {q, NextBase(q)}, i \in Int : GoOn(s, i, ok, None)
    BY <1>2, <2>2 DEF PlayDefault, PlayNext, PlayPrev
  <2>4. Good(s, refs, None) /\ FreeTracks(s) # {} /\ (Own(q) => Own(s))
    BY <2>1, <2>3, QueueFacts, NextBaseGood
  <2>5. /\ q' = q \/ (Good(q', refs, None) /\ (Own(s) => Own(q')))
        /\ crash' \in BOOLEAN
    BY <2>3, <2>4, QueueFacts, GoOnGood
  <2> QED BY <2>1, <2>4, <2>5, QueueFacts, SameAfter
<1> QED BY <1>1, <1>2

\* m3u_process
LEMMA ListEntryStep ==
  ASSUME QueueInv, NEW t \in Tracks, NEW n \in Entries, ListEntry(t, n)
  PROVE  QueueInv'
<1>1. /\ q' = Expanded(q, t, n) /\ UNCHANGED <<conf, refs, crash>> /\ conf.lists
      /\ q.track[t].e # None /\ Live(q, q.track[t].after) /\ ~Live(q, n)
  BY DEF ListEntry, Expands, Unused, Live
<1>2. Good(q', refs, None)
  BY <1>1, QueueFacts, ExpandedGood
<1> QED BY <1>1, <1>2, QueueFacts DEF QueueInv, AfterOwn

\* The end of a track.
LEMMA TrackEndsStep ==
  ASSUME QueueInv, NEW t \in Tracks, NEW ns \in Files(q), NEW ok \in BOOLEAN,
         TrackEnds(t, ns, ok)
  PROVE  QueueInv'
<1> DEFINE e == q.track[t].e
           b == BeforeGuard(q, t, ns)
           r == DropTrack(CloseEntry(b, t), t)
<1>1. e # None /\ (ns # <<>> => ~conf.lists) /\ UNCHANGED <<conf, refs>>
  BY DEF TrackEnds
<1>2. Good(b, refs, None) /\ BeforeIn(q, t, b)
  <2>1. ~conf.lists => Own(q)
    BY QueueFacts DEF AfterOwn
  <2> QED BY <1>1, <2>1, QueueFacts, BeforeGuardGood
<1>3. \/ GoOn(NextBase(r), NextPos(r), ok, e)
      \/ q' = Unref(r, e) /\ UNCHANGED crash
  BY DEF TrackEnds
<1> HIDE DEF b
<1>4. b.track[t].e = e /\ \A u \in Tracks : u # t => b.track[u] = q.track[u]
  BY <1>2 DEF BeforeIn
<1>5. e \in Entries /\ Good(r, refs, e) /\ FreeTracks(r) # {} /\ EndedIn(b, t, e, r)
  <2>1. b \in QueueType
    BY <1>2 DEF Good
  <2>2. b.track[t].e # None
    BY <1>1, <1>4
  <2> HIDE DEF e, r
  <2>3. /\ b.track[t].e \in Entries
        /\ Good(DropTrack(CloseEntry(b, t), t), refs, b.track[t].e)
        /\ FreeTracks(DropTrack(CloseEntry(b, t), t)) # {}
        /\ EndedIn(b, t, b.track[t].e, DropTrack(CloseEntry(b, t), t))
    BY <1>2, <2>1, <2>2, EndGood, EndKeeps
  <2> QED BY <1>4, <2>3 DEF r
<1> HIDE DEF r, e
<1>6. r \in QueueType /\ Once(r.index) /\ (Own(q) => Own(r))
  <2>1. r.track[t].e = None
    BY <1>5 DEF EndedIn, NoTrack
  <2>2. \A u \in Tracks : u # t => r.track[u] = q.track[u]
    BY <1>4, <1>5 DEF EndedIn
  <2> QED BY <1>5, <2>1, <2>2 DEF Good, Own, Busy
<1>7. CASE GoOn(NextBase(r), NextPos(r), ok, e)
  <2>1. NextPos(r) \in Int
    BY <1>6, PositionsAreInt
  <2>2. /\ Good(NextBase(r), refs, e) /\ FreeTracks(NextBase(r)) # {}
        /\ Own(r) => Own(NextBase(r))
    BY <1>5, NextBaseGood
  <2>3. /\ q' = q \/ (Good(q', refs, None) /\ (Own(NextBase(r)) => Own(q')))
        /\ crash' \in BOOLEAN
    BY <1>5, <1>7, <2>1, <2>2, QueueFacts, GoOnGood
  <2> QED BY <1>1, <1>6, <2>2, <2>3, QueueFacts, SameAfter
<1>8. CASE q' = Unref(r, e) /\ UNCHANGED crash
  <2>1. Good(q', refs, None) /\ q'.track = r.track
    BY <1>5, <1>8, UnrefGood
  <2>2. Own(q) => Own(q')
    BY <1>6, <2>1 DEF Own, Busy
  <2> QED BY <1>1, <1>8, <2>1, <2>2, QueueFacts, SameAfter
<1> QED BY <1>3, <1>7, <1>8

\* A step of the specification keeps the invariant.
LEMMA QueueStep ==
  ASSUME QueueInv, [Next]_vars
  PROVE  QueueInv'
<1>1. ASSUME NEW e \in Entries, Add(e) \/ AddList(e) \/ RefEntry(e) \/ UnrefEntry(e)
      PROVE  QueueInv'
  BY <1>1, AddStep, AddListStep, UserRefStep
<1>2. ASSUME NEW e \in Entries, NEW ok \in BOOLEAN, PlayThis(e, ok)
      PROVE  QueueInv'
  BY <1>2, PlayStep
<1>3. ASSUME NEW pos \in 0..(Len(q.index) - 1), RemoveAtPos(pos)
      PROVE  QueueInv'
  BY <1>3, RemoveStep
<1>4. CASE ClearAll \/ Sort \/ StopAll
  BY <1>4, ListStep, StopAllStep
<1>5. ASSUME NEW ok \in BOOLEAN, PlayDefault(ok) \/ PlayNext(ok) \/ PlayPrev(ok)
      PROVE  QueueInv'
  BY <1>5, PlayStep
<1>6. ASSUME NEW t \in Tracks, NEW n \in Entries, ListEntry(t, n)
      PROVE  QueueInv'
  BY <1>6, ListEntryStep
<1>7. ASSUME NEW t \in Tracks, NEW ns \in Files(q), NEW ok \in BOOLEAN, TrackEnds(t, ns, ok)
      PROVE  QueueInv'
  BY <1>7, TrackEndsStep
<1>8. CASE UNCHANGED vars
  BY <1>8 DEF QueueInv, AfterOwn, vars
<1> QED BY <1>1, <1>2, <1>3, <1>4, <1>5, <1>6, <1>7, <1>8 DEF Next, Finished

\* An empty queue: nothing is held.
LEMMA QueueStart ==
  ASSUME Init
  PROVE  QueueInv
<1>1. /\ q.index = <<>> /\ q.cursor = None /\ q.cidx = 0 /\ q.active = 0
      /\ q.split = FALSE /\ q.ent = [e \in Entries |-> NewEntry]
      /\ q.track = [t \in Tracks |-> NoTrack]
      /\ q = [index |-> <<>>, cursor |-> None, cidx |-> 0, active |-> 0, split |-> FALSE,
              ent |-> [e \in Entries |-> NewEntry], track |-> [t \in Tracks |-> NoTrack]]
      /\ conf \in Confs /\ refs = {} /\ crash = FALSE
  BY DEF Init
<1>2. \A t \in Tracks : q.track[t].e = None /\ q.track[t] \in TrackType
  BY <1>1 DEF NoTrack, TrackType
<1>3. \A e \in Entries : /\ q.ent[e].life = "none" /\ q.ent[e].used = 0
                         /\ q.ent[e] \in EntryType /\ e # None
  BY <1>1, FreedFields, NoneAssumption DEF NewEntry
<1>4. q \in QueueType
  <2>1. q.track \in [Tracks -> TrackType] /\ q.ent \in [Entries -> EntryType]
    BY <1>1, <1>2, <1>3
  <2>2. <<>> \in Seq(Entries)
    OBVIOUS
  <2> HIDE DEF Init
  <2> QED BY <1>1, <2>1, <2>2 DEF QueueType
<1>5. Once(q.index) /\ \A e : ~Contains(q.index, e)
  <2>1. 1..Len(q.index) = {}
    BY <1>1
  <2> QED BY <2>1 DEF Once, Contains
<1>6. \A e \in Entries : ~Live(q, e)
  BY <1>3 DEF Live
<1>7. Counted(q, refs, None)
  <2> SUFFICES ASSUME NEW e \in Entries
               PROVE  q.ent[e].used = Holders(q, refs, None, e)
    BY <1>3, <1>6 DEF Counted
  <2>1. Cardinality(TracksWith(q, e)) = 0
    BY <1>2, <1>3, TracksCounted
  <2> QED BY <1>1, <1>3, <1>5, <2>1 DEF Holders, Count
<1>8. q.active = Cardinality(Busy(q))
  <2>1. Busy(q) = {}
    BY <1>2 DEF Busy
  <2> QED BY <1>1, <2>1, FS_EmptySet
<1>9. CursorPoints(q) /\ BackPointers(q) /\ FlagsExact(q)
  BY <1>1, <1>6 DEF CursorPoints, BackPointers, FlagsExact
<1>10. CursorPlays(q) /\ AfterOwn
  BY <1>2 DEF CursorPlays, Plays, AfterOwn, Own, Busy
<1> QED BY <1>1, <1>4, <1>5, <1>7, <1>8, <1>9, <1>10 DEF QueueInv, Good

\* The queue's invariant holds for any number of entries and tracks: the
\* reference counters of qe_ref and qe_unref, the cursor, the back pointers
\* and the cached indices stay exact through every call.
THEOREM QueueInvariant == Spec => []QueueInv
<1>1. Init => QueueInv
  BY QueueStart
<1>2. QueueInv /\ [Next]_vars => QueueInv'
  BY QueueStep
<1> QED BY <1>1, <1>2, PTL DEF Spec

\* No pointer of the queue is to a freed entry and none is leaked: the
\* counters of qe_ref and qe_unref are exact, the cursor and the tracks'
\* pointers are to live entries, and ~0 marks the entries out of the list.
THEOREM EntriesStayLive == Spec => []EntriesLive
<1>1. QueueInv => EntriesLive
  <2> SUFFICES ASSUME QueueInv
               PROVE  EntriesLive
    OBVIOUS
  <2>1. RefsExact
    <3> SUFFICES ASSUME NEW e \in Entries
                 PROVE  /\ q.ent[e].used = Count(Contains(q.index, e)) + Count(e \in refs)
                                           + Cardinality(TracksOf(e))
                        /\ Live(q, e) <=> q.ent[e].used > 0
      BY DEF RefsExact
    <3>1. TracksOf(e) = TracksWith(q, e) /\ e # None
      BY NoneAssumption DEF TracksOf, TracksWith
    <3>2. Cardinality(TracksWith(q, e)) \in Nat
      BY TracksCounted
    <3>3. q.ent[e].used = Holders(q, refs, None, e) /\ (Live(q, e) <=> q.ent[e].used > 0)
      BY QueueFacts DEF Good, Counted
    <3> QED BY <3>1, <3>2, <3>3 DEF Holders, Count
  <2>2. TrackOfEntry
    <3> SUFFICES ASSUME NEW e \in Entries, Live(q, e), q.ent[e].trk # None
                 PROVE  q.ent[e].trk \in TracksOf(e)
      BY DEF TrackOfEntry
    <3>1. q.ent[e].trk \in Tracks
      BY QueueFacts, FieldTypes DEF EntryType
    <3> QED BY <3>1, QueueFacts DEF Good, BackPointers, TracksOf
  <2>3. CursorLive /\ IndexFlagExact
    BY QueueFacts DEF Good, CursorPoints, FlagsExact, CursorLive, IndexFlagExact
  <2> QED BY <2>1, <2>2, <2>3 DEF EntriesLive
<1> QED BY <1>1, QueueInvariant, PTL

\* At most one track plays that nobody has told to stop: q_play stops the one
\* under the cursor, and no other is left.
THEOREM OnePlaysAtMost == Spec => []AtMostOnePlaying
<1>1. QueueInv => AtMostOnePlaying
  <2> SUFFICES ASSUME QueueInv, NEW t \in Tracks, NEW u \in Tracks,
                      \A x \in {t, u} : /\ q.track[x].e # None /\ ~q.track[x].stop
                                        /\ ~q.ent[q.track[x].e].expand
               PROVE  t = u
    BY DEF AtMostOnePlaying
  <2>1. Plays(q, t) /\ Plays(q, u)
    BY DEF Plays
  <2> QED BY <2>1, QueueFacts DEF Good, CursorPlays
<1> QED BY <1>1, QueueInvariant, PTL

\* q_status() says that the queue plays exactly while it has a track.
THEOREM ActiveIsExact == Spec => []ActiveExact
<1>1. QueueInv => ActiveExact
  BY DEF QueueInv, Good, Busy, ActiveExact
<1> QED BY <1>1, QueueInvariant, PTL

\* q_play leaves the cursor at the entry it was given.
LEMMA PlayCursor ==
  ASSUME NEW s, NEW R, NEW x, Good(s, R, x), NEW e \in Entries
  PROVE  Play(s, e, FALSE).cursor = e
<1> DEFINE s1 == StopEntry(s, s.cursor)
           s2 == [s1 EXCEPT !.cursor = e]
           s3 == Refresh(s2, e)
           s4 == [s3 EXCEPT !.cidx = s3.ent[e].idx]
<1>1. Play(s, e, FALSE) = PlayEntry(s4, e, FALSE)
  BY DEF Play
<1>2. s1 \in QueueType /\ Once(s1.index)
  BY StopGood, MarkGood DEF Good
<1> HIDE DEF s1
<1>3. s2 \in QueueType /\ Once(s2.index) /\ s2.cursor = e
  BY <1>2 DEF QueueType
<1> HIDE DEF s2
<1>4. s3 \in QueueType /\ s3.cursor = e
  BY <1>3, RefreshKeeps
<1> HIDE DEF s3
<1>5. s4.cursor = e /\ [s4 EXCEPT !.ent[e].next = TRUE].cursor = e
  BY <1>4 DEF QueueType
<1> HIDE DEF s4
<1> QED BY <1>1, <1>5 DEF PlayEntry

\* q_play_next moves the cursor to the entry that follows the current one in
\* the list as it is now, whatever was added, removed or sorted meanwhile.
THEOREM NextFollowsCurrent == Spec => []NextIsSuccessor
<1>1. QueueInv => NextIsSuccessor
  <2> DEFINE e == q.cursor
             b == NextBase(q)
             i == NextPos(q)
             n == Len(q.index)
             At(j) == PlayAt(b, j, FALSE).cursor
  <2> SUFFICES ASSUME QueueInv, InList, ~conf.random
               PROVE  NextCursors = {IF CursorPos + 1 < n THEN Get(q, CursorPos + 1)
                                     ELSE IF conf.repeat THEN Get(q, 0) ELSE e}
    BY DEF NextIsSuccessor
  <2>1. /\ q \in QueueType /\ Once(q.index) /\ n \in Nat /\ q.index \in Seq(Entries)
        /\ e \in Entries /\ Contains(q.index, e)
    BY QueueFacts DEF InList, QueueType
  <2>2. q.ent[e].idx # -1
    <3>1. Live(q, e)
      BY <2>1, QueueFacts, HeldIsLive
    <3> QED BY <2>1, <3>1, QueueFacts DEF Good, FlagsExact
  <2>3. i = CursorPos + 1 /\ CursorPos \in 0..(n - 1)
    <3>1. Index(q, e) = Find(q, e) /\ Index(q, e) \in 0..(n - 1)
      BY <2>1, IndexIsRight
    <3> QED BY <2>2, <3>1 DEF NextPos, CursorPos, InList
  <2>4. b.index = q.index /\ b.cursor = e /\ Good(b, refs, None)
    <3>1. b = Refresh(q, e)
      BY <2>2 DEF NextBase, InList
    <3>2. Good(b, refs, None)
      BY QueueFacts, NextBaseGood
    <3>3. q.cursor = e
      OBVIOUS
    <3> HIDE DEF b, e
    <3>4. Refresh(q, e).index = q.index /\ Refresh(q, e).cursor = q.cursor
      BY <2>1, RefreshKeeps
    <3> QED BY <3>1, <3>2, <3>3, <3>4
  <2> HIDE DEF b, i, e, n
  <2>5. ASSUME NEW j \in Int
        PROVE  At(j) = IF j \in 0..(n - 1) THEN Get(q, j) ELSE e
    <3>1. Get(b, j) = Get(q, j)
      BY <2>4 DEF Get
    <3>2. CASE j \in 0..(n - 1)
      <4>1. j + 1 \in 1..n /\ Get(q, j) = q.index[j + 1]
        BY <2>1, <3>2 DEF Get, n
      <4>2. Get(q, j) \in Entries /\ Get(q, j) # None
        BY <2>1, <4>1, NoneAssumption DEF n
      <4>3. Play(b, Get(q, j), FALSE).cursor = Get(q, j)
        BY <2>4, <4>2, PlayCursor
      <4> QED BY <3>1, <3>2, <4>2, <4>3 DEF PlayAt
    <3>3. CASE j \notin 0..(n - 1)
      <4>1. Get(q, j) = None
        BY <2>1, <3>3 DEF Get, n
      <4> QED BY <2>4, <3>1, <3>3, <4>1 DEF PlayAt
    <3> QED BY <3>2, <3>3
  <2>6. NextCursors = {At(j) : j \in Positions(b, i)}
    BY DEF NextCursors, b, i
  <2> HIDE DEF At
  <2>7. i < n => Positions(b, i) = {i}
    BY <2>1, <2>3, <2>4 DEF Positions, n
  <2>8. i >= n => Positions(b, i) = IF conf.repeat THEN {0} ELSE {i}
    BY <2>1, <2>3, <2>4 DEF Positions, n
  <2>9. CASE i < n
    <3>1. NextCursors = {At(i)} /\ At(i) = Get(q, i)
      BY <2>1, <2>3, <2>5, <2>6, <2>7, <2>9
    <3> QED BY <2>3, <2>9, <3>1
  <2>10. CASE i >= n /\ conf.repeat
    <3>1. NextCursors = {At(0)} /\ 0 \in 0..(n - 1) /\ ~(i < n)
      BY <2>1, <2>3, <2>6, <2>8, <2>10
    <3>2. At(0) = Get(q, 0)
      BY <2>5, <3>1
    <3> QED BY <2>3, <2>10, <3>1, <3>2
  <2>11. CASE i >= n /\ ~conf.repeat
    <3>1. NextCursors = {At(i)} /\ i \in Int /\ i \notin 0..(n - 1) /\ ~(i < n)
      BY <2>1, <2>3, <2>6, <2>8, <2>11
    <3>2. At(i) = e
      BY <2>5, <3>1
    <3> QED BY <2>3, <2>11, <3>1, <3>2
  <2> QED BY <2>1, <2>3, <2>9, <2>10, <2>11
<1> QED BY <1>1, QueueInvariant, PTL

=============================================================================
