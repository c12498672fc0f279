--------------------------- MODULE FilesProofs ------------------------------
(***************************************************************************)
(* Proofs about FileRead for files and buffers of any length and any       *)
(* alignment, the buffers being at least one aligned block long, and about *)
(* FileWrite for buffers, inputs and files of any size.                    *)
(***************************************************************************)
EXTENDS FileRead, FileWrite, SequenceTheorems, TLAPS

-----------------------------------------------------------------------------
(* file-read                                                               *)

\* A buffer that is not empty holds bytes of the file.
InFile(b) == b.len > 0 => b.off \in Nat /\ b.off + b.len <= Size

\* The inductive invariant of the filter and its cache.
ReadInv == TypeOK /\ (\A i \in 0..1 : InFile(bufs[i])) /\ ReadsRight

\* ffint_align_floor2: less than one block is read again.
LEMMA AlignFloorBounds ==
  ASSUME NEW o \in Nat
  PROVE  AlignFloor(o) \in Nat /\ AlignFloor(o) <= o /\ o < AlignFloor(o) + Align
<1>1. Align \in Nat /\ Align > 0
  BY SizesAssumption
<1>2. o \div Align \in Nat
  BY <1>1
<1>3. (o \div Align) * Align <= o /\ o < (o \div Align) * Align + Align
  BY <1>1, <1>2
<1>4. (o \div Align) * Align \in Nat
  BY <1>1, <1>2
<1> QED BY <1>3, <1>4 DEF AlignFloor

\* fffile_readat reads bytes of the file only, and never more than fit.
LEMMA ReadAtInFile ==
  ASSUME NEW o \in Nat
  PROVE  /\ ReadAt(o) \in [off : Nat, len : 0..Cap] /\ InFile(ReadAt(o))
         /\ ReadAt(o).off = o
  BY SizesAssumption DEF ReadAt, InFile, Less

\* With buffers of a block or more, a read from the aligned offset reaches the
\* byte that was asked for.
LEMMA ReadAtReaches ==
  ASSUME Align <= Cap, NEW o \in Nat, o < Size
  PROVE  Holds(ReadAt(AlignFloor(o)), o)
<1>1. AlignFloor(o) \in Nat /\ AlignFloor(o) <= o /\ o < AlignFloor(o) + Align
  BY AlignFloorBounds
<1> QED BY <1>1, SizesAssumption DEF Holds, ReadAt, Less

\* fr_process, label done, with a buffer that holds the offset, or at an offset
\* behind the end of the file.
LEMMA DoneRight ==
  ASSUME NEW o \in Nat, NEW b \in [off : Nat, len : 0..Cap], InFile(b),
         o < Size => Holds(b, o), b.off <= o,
         TypeOK, asked' = o, Done(o, b)
  PROVE  /\ cur' \in Nat /\ out' \in [off : Nat, len : 0..Cap] /\ eof' \in BOOLEAN
         /\ res' \in {"DATA", "DONE"} /\ ReadsRight'
<1> DEFINE skip == Less(b.len, o - b.off)
<1>1. b.off \in Nat /\ b.len \in 0..Cap /\ Cap \in Nat /\ Size \in Nat
  BY SizesAssumption
<1>2. skip \in 0..b.len /\ (Holds(b, o) => skip = o - b.off /\ skip < b.len)
  BY <1>1 DEF Less, Holds
<1> HIDE DEF skip
<1>3. /\ cur' = b.off + b.len /\ out' = [off |-> b.off + skip, len |-> b.len - skip]
      /\ res' = IF eof /\ b.len - skip = 0 THEN "DONE" ELSE "DATA"
      /\ eof' = (b.len - skip = 0)
  BY DEF Done, skip
<1>4. out'.off = b.off + skip /\ out'.len = b.len - skip
  BY <1>3
<1>5. cur' \in Nat /\ out' \in [off : Nat, len : 0..Cap]
  BY <1>1, <1>2, <1>3
<1>6. ReadsFromAsked'
  BY <1>1, <1>2, <1>3, <1>4 DEF ReadsFromAsked, InFile
<1>7. DoneAtEnd'
  BY <1>1, <1>2, <1>3 DEF DoneAtEnd
<1> QED BY <1>3, <1>5, <1>6, <1>7 DEF ReadsRight

-----------------------------------------------------------------------------

\* The inductive invariant of fr_process and fcache holds.
THEOREM ReadInvariant ==
  ASSUME Align <= Cap
  PROVE  Spec => []ReadInv
<1>1. Init => ReadInv
  <2> SUFFICES ASSUME Init PROVE ReadInv
    OBVIOUS
  <2>1. TypeOK
    <3>1. 0 \in 0..Cap /\ 0 \in 0..MaxSeeks /\ -1 \in {-1} \union Nat
      BY SizesAssumption, SeeksAssumption
    <3>2. bufs \in [0..1 -> [off : {-1} \union Nat, len : 0..Cap]]
      BY <3>1 DEF Init
    <3>3. out \in [off : Nat, len : 0..Cap]
      BY <3>1 DEF Init
    <3>4. cur \in Nat /\ asked \in Nat /\ seeks \in 0..MaxSeeks /\ idx \in 0..1
      BY <3>1 DEF Init
    <3> QED BY <3>2, <3>3, <3>4 DEF Init, TypeOK
  <2> QED BY <2>1 DEF Init, ReadInv, InFile, ReadsRight, ReadsFromAsked, DoneAtEnd
<1>2. ReadInv /\ [Next]_vars => ReadInv'
  <2> SUFFICES ASSUME ReadInv, [Next]_vars
               PROVE  ReadInv'
    OBVIOUS
  <2>1. ASSUME NEW seek \in -1..(Size + 2)
        PROVE  Asked(seek) \in Nat
    BY SizesAssumption DEF ReadInv, TypeOK, Asked
  <2>2. ASSUME NEW seek \in -1..(Size + 2), Seeks(seek)
        PROVE  seeks' \in 0..MaxSeeks
    BY <2>2, SeeksAssumption DEF ReadInv, TypeOK, Seeks
  <2>3. ASSUME NEW seek \in -1..(Size + 2), CacheHit(seek)
        PROVE  ReadInv'
    <3> DEFINE o == Asked(seek)
               i == FirstHit(o)
    <3>1. o \in Nat /\ seeks' \in 0..MaxSeeks
      BY <2>1, <2>2, <2>3 DEF CacheHit
    <3>2. i \in 0..1 /\ Holds(bufs[i], o)
      <4>1. \E x \in Hits(o) : \A j \in Hits(o) : x <= j
        <5>1. Hits(o) # {} /\ Hits(o) \in SUBSET {0, 1}
          BY <2>3 DEF CacheHit, Hits
        <5>2. CASE 0 \in Hits(o)
          BY <5>1, <5>2
        <5>3. CASE 0 \notin Hits(o)
          BY <5>1, <5>3
        <5> QED BY <5>2, <5>3
      <4>2. i \in Hits(o)
        BY <4>1 DEF FirstHit
      <4> QED BY <4>2 DEF Hits
    <3>3. bufs[i] \in [off : {-1} \union Nat, len : 0..Cap] /\ InFile(bufs[i])
      BY <3>2 DEF ReadInv, TypeOK
    <3>4. bufs[i].len > 0 /\ bufs[i].off <= o
      BY <3>1, <3>2, <3>3, SizesAssumption DEF Holds
    <3>5. bufs[i] \in [off : Nat, len : 0..Cap]
      BY <3>3, <3>4 DEF InFile
    <3>6. asked' = o /\ Done(o, bufs[i]) /\ UNCHANGED <<bufs, idx>>
      BY <2>3 DEF CacheHit
    <3> HIDE DEF o, i
    <3>7. /\ cur' \in Nat /\ out' \in [off : Nat, len : 0..Cap] /\ eof' \in BOOLEAN
          /\ res' \in {"DATA", "DONE"} /\ ReadsRight'
      BY <3>1, <3>2, <3>3, <3>4, <3>5, <3>6, DoneRight DEF ReadInv
    <3> QED BY <3>1, <3>6, <3>7 DEF ReadInv, TypeOK
  <2>4. ASSUME NEW seek \in -1..(Size + 2), CacheMiss(seek)
        PROVE  ReadInv'
    <3> DEFINE o == Asked(seek)
               b == ReadAt(AlignFloor(o))
    <3>1. o \in Nat /\ seeks' \in 0..MaxSeeks
      BY <2>1, <2>2, <2>4 DEF CacheMiss
    <3>2. AlignFloor(o) \in Nat /\ AlignFloor(o) <= o
      BY <3>1, AlignFloorBounds
    <3>3. b \in [off : Nat, len : 0..Cap] /\ InFile(b) /\ b.off <= o
      BY <3>2, ReadAtInFile
    <3>4. o < Size => Holds(b, o)
      BY <3>1, ReadAtReaches
    <3>5. /\ asked' = o /\ Done(o, b)
          /\ bufs' = [bufs EXCEPT ![idx] = b] /\ idx' = (idx + 1) % 2
      BY <2>4 DEF CacheMiss
    <3> HIDE DEF o, b
    <3>6. /\ cur' \in Nat /\ out' \in [off : Nat, len : 0..Cap] /\ eof' \in BOOLEAN
          /\ res' \in {"DATA", "DONE"} /\ ReadsRight'
      BY <3>1, <3>3, <3>4, <3>5, DoneRight DEF ReadInv
    <3>7. /\ bufs' \in [0..1 -> [off : {-1} \union Nat, len : 0..Cap]]
          /\ idx' \in 0..1
      BY <3>3, <3>5 DEF ReadInv, TypeOK
    <3>8. \A i \in 0..1 : InFile(bufs'[i])
      BY <3>3, <3>5 DEF ReadInv, TypeOK
    <3>9. \A i \in 0..1 : InFile(bufs[i])'
      BY <3>8 DEF InFile
    <3> QED BY <3>1, <3>5, <3>6, <3>7, <3>9 DEF ReadInv, TypeOK
  <2>5. ASSUME NEW seek \in -1..(Size + 2), ReadFails(seek)
        PROVE  ReadInv'
    <3>1. Asked(seek) \in Nat /\ seeks' \in 0..MaxSeeks
      BY <2>1, <2>2, <2>5 DEF ReadFails
    <3> QED
      BY <2>5, <3>1 DEF ReadFails, ReadInv, TypeOK, InFile, ReadsRight,
                        ReadsFromAsked, DoneAtEnd
  <2>6. CASE UNCHANGED vars \/ Finished
    BY <2>6 DEF Finished, vars, ReadInv, TypeOK, InFile, ReadsRight,
                ReadsFromAsked, DoneAtEnd
  <2> QED BY <2>3, <2>4, <2>5, <2>6 DEF Next, Process
<1> QED BY <1>1, <1>2, PTL DEF Spec

\* Whatever is in the cache and wherever the formats seek, fr_process hands on
\* the bytes from the offset it was asked for, and ends only at the end of the
\* file.
THEOREM ReadsAreRight ==
  ASSUME Align <= Cap
  PROVE  Spec => []ReadsRight
<1>1. ReadInv => ReadsRight
  BY DEF ReadInv
<1> QED BY <1>1, ReadInvariant, PTL

-----------------------------------------------------------------------------
(* file-write                                                              *)

\* The end of what bytes at o reach, if there are any.
End(o, bytes) == IF bytes = <<>> THEN 0 ELSE o + Len(bytes)

\* Byte i of what bytes at o leave of byte x.
Over(o, bytes, i, x) == IF i > o /\ i <= o + Len(bytes) THEN bytes[i - o] ELSE x

\* The file as it will be with buffer b: its length and its byte i.
Reach(b) == Larger(size, End(b.off, b.data))
Seen(b, i) == Over(b.off, b.data, i, disk[Target][i])

Buffers == [off : Nat, data : Seq(Int)]

WriteTypes ==
  /\ conf \in [tmp : BOOLEAN, over : BOOLEAN]
  /\ disk \in [Names -> Seq(Int)] /\ buf \in Buffers
  /\ pc \in {"closed", "open", "loop", "failed"}
  /\ off \in Nat /\ wcur \in Nat /\ size \in Nat /\ calls \in Nat
  /\ inp \in Seq(Int) /\ want \in Seq(Int)
  /\ first \in BOOLEAN /\ fin \in BOOLEAN

\* The buffer fits, leaves no hole behind the written part, and the written
\* part is in the file.
BufferFitsFile ==
  pc \in {"open", "loop"} /\ ~fin =>
    /\ Len(buf.data) <= WCap /\ buf.off <= size /\ size <= Len(disk[Target])

\* Between two calls: file and buffer together are what was asked for.
OpenAgrees ==
  pc = "open" /\ ~fin =>
    /\ wcur <= Len(want) /\ Len(want) = Reach(buf)
    /\ \A i \in 1..Len(want) : want[i] = Seen(buf, i)

\* In fw_process: file and buffer together, with the rest of data_in over them.
LoopAgrees ==
  pc = "loop" =>
    /\ off <= Reach(buf) /\ Len(want) = Larger(Reach(buf), End(off, inp))
    /\ \A i \in 1..Len(want) : want[i] = Over(off, inp, i, Seen(buf, i))

\* After PHI_FFIRST: the file alone.
FinAgrees ==
  pc = "open" /\ fin =>
    /\ Len(want) = size /\ size <= Len(disk[Target])
    /\ \A i \in 1..size : want[i] = disk[Target][i]

\* The inductive invariant of the writer.
WriteInv ==
  /\ WriteTypes /\ BufferFitsFile /\ OpenAgrees /\ LoopAgrees /\ FinAgrees
  /\ pc \in {"loop", "failed"} => ~fin
  /\ FinishedIsComplete

\* The larger and the smaller of two numbers.
LEMMA LargerOf ==
  ASSUME NEW a \in Int, NEW b \in Int
  PROVE  /\ Larger(a, b) \in Int /\ Larger(a, b) \in {a, b}
         /\ Larger(a, b) >= a /\ Larger(a, b) >= b
BY DEF Larger

\* The smaller of two numbers is one of them.
LEMMA SmallerOf ==
  ASSUME NEW a \in Int, NEW b \in Int
  PROVE  /\ Smaller(a, b) \in Int /\ Smaller(a, b) \in {a, b}
         /\ Smaller(a, b) <= a /\ Smaller(a, b) <= b
BY DEF Smaller

\* pwrite: the length of the file and each of its bytes.
LEMMA PutBytes ==
  ASSUME NEW f \in Seq(Int), NEW o \in Nat, NEW bytes \in Seq(Int)
  PROVE  /\ Put(f, o, bytes) \in Seq(Int)
         /\ Len(Put(f, o, bytes)) = Larger(Len(f), End(o, bytes))
         /\ \A i \in 1..Len(Put(f, o, bytes)) :
              Put(f, o, bytes)[i] = IF i > o /\ i <= o + Len(bytes) THEN bytes[i - o]
                                    ELSE IF i <= Len(f) THEN f[i] ELSE 0
<1> DEFINE k == IF bytes = <<>> THEN Len(f) ELSE Larger(Len(f), o + Len(bytes))
           b(i) == IF i > o /\ i <= o + Len(bytes) THEN bytes[i - o]
                   ELSE IF i <= Len(f) THEN f[i] ELSE 0
<1>1. k \in Nat /\ k = Larger(Len(f), End(o, bytes))
  BY DEF Larger, End
<1>2. ASSUME NEW i \in 1..k
      PROVE  b(i) \in Int
  <2>1. CASE i > o /\ i <= o + Len(bytes)
    <3>1. i - o \in 1..Len(bytes)
      BY <1>1, <2>1
    <3> QED BY <2>1, <3>1, ElementOfSeq
  <2>2. CASE ~(i > o /\ i <= o + Len(bytes)) /\ i <= Len(f)
    <3>1. i \in 1..Len(f)
      BY <1>1, <2>2
    <3> QED BY <2>2, <3>1, ElementOfSeq
  <2> QED BY <2>1, <2>2
<1>3. Put(f, o, bytes) = [i \in 1..k |-> b(i)]
  BY DEF Put
<1> HIDE DEF k, b
<1> DEFINE g == [i \in 1..k |-> b(i)]
<1>4. g \in [1..k -> Int] /\ \A i \in 1..k : g[i] = b(i)
  BY <1>2
<1>5. Put(f, o, bytes) = g
  BY <1>3
<1> HIDE DEF g
<1>6. g \in Seq(Int) /\ Len(g) = k
  BY <1>1, <1>4, SeqDef, LenProperties
<1> QED BY <1>1, <1>4, <1>5, <1>6 DEF b

\* ftruncate.
LEMMA TruncBytes ==
  ASSUME NEW f \in Seq(Int), NEW k \in Nat
  PROVE  /\ Trunc(f, k) \in Seq(Int) /\ Len(Trunc(f, k)) = k
         /\ \A i \in 1..k : Trunc(f, k)[i] = IF i <= Len(f) THEN f[i] ELSE 0
<1>1. ASSUME NEW i \in 1..k
      PROVE  (IF i <= Len(f) THEN f[i] ELSE 0) \in Int
  <2>1. CASE i <= Len(f)
    <3>1. i \in 1..Len(f)
      BY <2>1
    <3> QED BY <2>1, <3>1, ElementOfSeq
  <2> QED BY <2>1
<1>2. Trunc(f, k) \in [1..k -> Int]
  BY <1>1 DEF Trunc
<1>3. Trunc(f, k) \in Seq(Int) /\ Len(Trunc(f, k)) = k
  BY <1>2, SeqDef, LenProperties
<1> QED BY <1>3 DEF Trunc

-----------------------------------------------------------------------------
(* Bytes laid over bytes.                                                   *)

\* n bytes at lo and k bytes at at, which begin among them or right after them;
\* together they are m.
Touch(lo, n0, at, k, m) ==
  /\ lo \in Nat /\ n0 \in Nat /\ at \in Nat /\ k \in Nat
  /\ k > 0 /\ at >= lo /\ at <= lo + n0
  /\ m = Larger(n0, (at - lo) + k)

\* Where the bytes of a buffer that was added to come from.
LEMMA TouchEnds ==
  ASSUME NEW lo, NEW n0, NEW at, NEW k, NEW m, Touch(lo, n0, at, k, m)
  PROVE  m \in Nat /\ m > 0 /\ lo + m = Larger(lo + n0, at + k)
BY DEF Touch, Larger

\* A place that is written lies inside the region that is left.
LEMMA TouchNew ==
  ASSUME NEW lo, NEW n0, NEW at, NEW k, NEW m, Touch(lo, n0, at, k, m),
         NEW i \in Nat, i > at, i <= at + k
  PROVE  /\ i > lo /\ i <= lo + m /\ i - lo \in 1..m /\ i - at \in 1..k
         /\ i - lo > at - lo /\ i - lo <= (at - lo) + k /\ (i - lo) - (at - lo) = i - at
BY DEF Touch, Larger

\* A place that was there and is not written stays inside the region.
LEMMA TouchOld ==
  ASSUME NEW lo, NEW n0, NEW at, NEW k, NEW m, Touch(lo, n0, at, k, m),
         NEW i \in Nat, ~(i > at /\ i <= at + k), i > lo, i <= lo + n0
  PROVE  /\ i <= lo + m /\ i - lo \in 1..m /\ i - lo <= n0
         /\ ~(i - lo > at - lo /\ i - lo <= (at - lo) + k)
BY DEF Touch, Larger

\* No other place lies inside the region that is left.
LEMMA TouchNone ==
  ASSUME NEW lo, NEW n0, NEW at, NEW k, NEW m, Touch(lo, n0, at, k, m),
         NEW i \in Nat, ~(i > at /\ i <= at + k), ~(i > lo /\ i <= lo + n0)
  PROVE  ~(i > lo /\ i <= lo + m)
BY DEF Touch, Larger

\* fbuf_write's memcpy: bytes x at at, put into a buffer d at lo that they touch,
\* give a buffer that shows x over d.
LEMMA PutOver ==
  ASSUME NEW lo \in Nat, NEW d \in Seq(Int), NEW at \in Nat, NEW x \in Seq(Int),
         Touch(lo, Len(d), at, Len(x), Larger(Len(d), (at - lo) + Len(x)))
  PROVE  /\ Put(d, at - lo, x) \in Seq(Int)
         /\ Len(Put(d, at - lo, x)) = Larger(Len(d), (at - lo) + Len(x))
         /\ \A i \in Nat : \A y :
              Over(lo, Put(d, at - lo, x), i, y) = Over(at, x, i, Over(lo, d, i, y))
<1> DEFINE e == Put(d, at - lo, x)
           m == Larger(Len(d), (at - lo) + Len(x))
           o == at - lo
<1>1. o \in Nat /\ Len(x) > 0
  BY DEF Touch
<1>2. x # <<>> /\ End(o, x) = o + Len(x)
  BY <1>1 DEF End
<1> HIDE DEF o
<1>3. /\ Put(d, o, x) \in Seq(Int) /\ Len(Put(d, o, x)) = Larger(Len(d), End(o, x))
      /\ \A i \in 1..Len(Put(d, o, x)) :
           Put(d, o, x)[i] = IF i > o /\ i <= o + Len(x) THEN x[i - o]
                             ELSE IF i <= Len(d) THEN d[i] ELSE 0
  BY <1>1, PutBytes
<1>4. /\ e \in Seq(Int) /\ Len(e) = m
      /\ \A i \in 1..m :
           e[i] = IF i > at - lo /\ i <= (at - lo) + Len(x) THEN x[i - (at - lo)]
                  ELSE IF i <= Len(d) THEN d[i] ELSE 0
  BY <1>2, <1>3 DEF o
<1> HIDE DEF e, m
<1>5. Touch(lo, Len(d), at, Len(x), m)
  BY DEF m
<1>6. ASSUME NEW i \in Nat, NEW y
      PROVE  Over(lo, e, i, y) = Over(at, x, i, Over(lo, d, i, y))
  <2>1. CASE i > at /\ i <= at + Len(x)
    <3>1. /\ i > lo /\ i <= lo + m /\ i - lo \in 1..m
          /\ i - lo > at - lo /\ i - lo <= (at - lo) + Len(x)
          /\ (i - lo) - (at - lo) = i - at
      BY <1>5, <2>1, TouchNew
    <3>2. e[i - lo] = x[i - at]
      BY <1>4, <3>1
    <3> QED BY <1>4, <2>1, <3>1, <3>2 DEF Over
  <2>2. CASE ~(i > at /\ i <= at + Len(x)) /\ i > lo /\ i <= lo + Len(d)
    <3>1. /\ i <= lo + m /\ i - lo \in 1..m /\ i - lo <= Len(d)
          /\ ~(i - lo > at - lo /\ i - lo <= (at - lo) + Len(x))
      BY <1>5, <2>2, TouchOld
    <3>2. e[i - lo] = d[i - lo]
      BY <1>4, <3>1
    <3> QED BY <1>4, <2>2, <3>1, <3>2 DEF Over
  <2>3. CASE ~(i > at /\ i <= at + Len(x)) /\ ~(i > lo /\ i <= lo + Len(d))
    <3>1. ~(i > lo /\ i <= lo + m)
      BY <1>5, <2>3, TouchNone
    <3> QED BY <1>4, <2>3, <3>1 DEF Over
  <2> QED BY <2>1, <2>2, <2>3
<1> QED BY <1>4, <1>6 DEF e, m

\* No bytes change nothing.
LEMMA OverNothing ==
  ASSUME NEW o \in Nat, NEW i \in Nat, NEW y
  PROVE  Over(o, <<>>, i, y) = y
<1>1. Len(<<>>) = 0
  OBVIOUS
<1>2. ~(i > o /\ i <= o + Len(<<>>))
  BY <1>1
<1> QED BY <1>2 DEF Over

\* The loop of fw_process: the first k bytes and then the rest are all of them.
LEMMA OverInParts ==
  ASSUME NEW o \in Nat, NEW x \in Seq(Int), NEW k \in 0..Len(x), NEW i \in Nat, NEW y
  PROVE  Over(o + k, SubSeq(x, k + 1, Len(x)), i, Over(o, SubSeq(x, 1, k), i, y))
           = Over(o, x, i, y)
<1> DEFINE p == SubSeq(x, 1, k)
           r == SubSeq(x, k + 1, Len(x))
           l == Len(x)
<1>1. p \in Seq(Int) /\ Len(p) = k /\ \A j \in 1..k : p[j] = x[j]
  OBVIOUS
<1>2. r \in Seq(Int) /\ Len(r) = l - k /\ \A j \in 1..(l - k) : r[j] = x[j + k]
  OBVIOUS
<1>3. l \in Nat /\ k \in Nat /\ k <= l /\ l = Len(x)
  OBVIOUS
<1> HIDE DEF p, r, l
<1>4. CASE i > o + k /\ i <= o + l
  <2>1. /\ i <= (o + k) + (l - k) /\ i - (o + k) \in 1..(l - k) /\ i > o
        /\ (i - (o + k)) + k = i - o
    BY <1>3, <1>4
  <2>2. r[i - (o + k)] = x[i - o]
    BY <1>2, <2>1
  <2> QED BY <1>2, <1>3, <1>4, <2>1, <2>2 DEF Over, p, r
<1>5. CASE i > o /\ i <= o + k
  <2>1. i - o \in 1..k /\ ~(i > o + k /\ i <= (o + k) + (l - k)) /\ i <= o + l
    BY <1>3, <1>5
  <2>2. p[i - o] = x[i - o]
    BY <1>1, <2>1
  <2> QED BY <1>1, <1>2, <1>3, <1>5, <2>1, <2>2 DEF Over, p, r
<1>6. CASE ~(i > o /\ i <= o + l)
  <2>1. ~(i > o + k /\ i <= (o + k) + (l - k)) /\ ~(i > o /\ i <= o + k)
    BY <1>3, <1>6
  <2> QED BY <1>1, <1>2, <1>3, <1>6, <2>1 DEF Over, p, r
<1>7. (i > o + k /\ i <= o + l) \/ (i > o /\ i <= o + k) \/ ~(i > o /\ i <= o + l)
  BY <1>3
<1> QED BY <1>4, <1>5, <1>6, <1>7

-----------------------------------------------------------------------------
(* The buffer.                                                              *)

\* What fbuf_write and fw_write find when there is data left.
Ready ==
  /\ WriteTypes /\ pc = "loop" /\ BufferFitsFile /\ ~fin /\ off <= Reach(buf)
  /\ WCap \in Nat \ {0}

\* What fw_process passes to the kernel, and how much of data_in is in it.
Passed == IF buf.data = <<>> THEN [off |-> off, data |-> inp] ELSE Filled(buf, off)
PassedLen == IF buf.data = <<>> THEN Len(inp) ELSE Taken(buf, off)

\* The end of the larger of two stretches.
LEMMA LargerOfThree ==
  ASSUME NEW a \in Int, NEW b \in Int, NEW c \in Int
  PROVE  Larger(a, Larger(b, c)) = Larger(Larger(a, b), c)
BY DEF Larger

\* File and buffer together reach at least as far as the file.
LEMMA ReachIsNat ==
  ASSUME size \in Nat, NEW b \in Buffers
  PROVE  End(b.off, b.data) \in Nat /\ Reach(b) \in Nat /\ Reach(b) >= size
<1>1. b.off \in Nat /\ b.data \in Seq(Int)
  BY DEF Buffers
<1>2. Len(b.data) \in Nat
  BY <1>1
<1>3. End(b.off, b.data) \in Nat
  BY <1>1, <1>2 DEF End
<1> HIDE DEF Buffers
<1> QED BY <1>3 DEF Reach, Larger

\* The overlap of fbuf_write.
LEMMA OverlapBytes ==
  ASSUME Ready, inp # <<>>, Overlaps(buf, off),
         NEW b, b = Filled(buf, off), NEW k, k = Taken(buf, off)
  PROVE  /\ b \in Buffers /\ k \in 1..Len(inp)
         /\ b.data # <<>> /\ b.off = buf.off /\ Len(b.data) <= WCap
         /\ Len(b.data) > Len(buf.data) /\ Len(b.data) # WCap => k = Len(inp)
         /\ Reach(b) = Larger(Reach(buf), off + k)
         /\ \A i \in Nat : Seen(b, i) = Over(off, SubSeq(inp, 1, k), i, Seen(buf, i))
<1> DEFINE lo == buf.off
           d == buf.data
           l == Len(inp)
           ld == Len(buf.data)
           x == SubSeq(inp, 1, k)
<1>1. /\ inp \in Seq(Int) /\ off \in Nat /\ size \in Nat /\ buf \in Buffers
      /\ lo \in Nat /\ d \in Seq(Int) /\ ld <= WCap /\ lo <= size /\ WCap \in Nat /\ WCap > 0
  BY DEF Ready, WriteTypes, BufferFitsFile, Buffers
<1>2. l \in Nat /\ l > 0 /\ ld \in Nat
  BY <1>1
<1>3. d # <<>> /\ off >= lo /\ off <= lo + ld /\ off < lo + WCap
  BY DEF Overlaps
<1>4. k = Smaller(l, WCap - (off - lo))
  BY DEF Taken
<1>5. b = [buf EXCEPT !.data = Put(d, off - lo, x)]
  BY DEF Filled
<1>6. b.off = lo /\ b.data = Put(d, off - lo, x)
  BY <1>1, <1>5 DEF Buffers
<1> HIDE DEF lo, d, l, ld, x
<1>7. /\ k \in Nat /\ k > 0 /\ k <= l /\ k <= WCap - (off - lo)
      /\ (k = l \/ k = WCap - (off - lo))
  BY <1>1, <1>2, <1>3, <1>4 DEF Smaller
<1>8. x \in Seq(Int) /\ Len(x) = k
  <2>1. k \in 0..Len(inp)
    BY <1>2, <1>7 DEF l
  <2> QED BY <1>1, <2>1 DEF x
<1> DEFINE m == Larger(ld, (off - lo) + k)
<1> HIDE DEF m
<1>9. Touch(lo, ld, off, k, m)
  BY <1>1, <1>2, <1>3, <1>7 DEF Touch, m
<1>10. Touch(lo, Len(d), off, Len(x), Larger(Len(d), (off - lo) + Len(x)))
  BY <1>8, <1>9 DEF m, d, ld
<1>11. /\ b.data \in Seq(Int) /\ Len(b.data) = Larger(Len(d), (off - lo) + Len(x))
       /\ \A i \in Nat : \A y :
            Over(lo, b.data, i, y) = Over(off, x, i, Over(lo, d, i, y))
  <2>1. lo \in Nat /\ d \in Seq(Int) /\ off \in Nat /\ x \in Seq(Int)
    BY <1>1, <1>8
  <2>2. /\ Put(d, off - lo, x) \in Seq(Int)
        /\ Len(Put(d, off - lo, x)) = Larger(Len(d), (off - lo) + Len(x))
        /\ \A i \in Nat : \A y :
             Over(lo, Put(d, off - lo, x), i, y) = Over(off, x, i, Over(lo, d, i, y))
    BY <1>10, <2>1, PutOver
  <2> QED BY <1>6, <2>2
<1>12. Len(b.data) = m
  BY <1>8, <1>11 DEF m, d, ld
<1>13. m \in Nat /\ m > 0 /\ lo + m = Larger(lo + ld, off + k)
  BY <1>9, TouchEnds
<1>14. m <= WCap /\ (m > ld /\ m # WCap => k = l)
  BY <1>1, <1>2, <1>3, <1>7 DEF m, Larger
<1>15. b.data # <<>>
  BY <1>12, <1>13
<1>16. b \in Buffers
  BY <1>1, <1>5, <1>6, <1>11 DEF Buffers
<1>17. Reach(b) = Larger(Reach(buf), off + k)
  <2>1. Reach(b) = Larger(size, lo + m)
    BY <1>6, <1>12, <1>15 DEF Reach, End
  <2>2. Reach(buf) = Larger(size, lo + ld)
    BY <1>3 DEF Reach, End, lo, ld, d
  <2>3. lo + ld \in Int /\ off + k \in Int /\ size \in Int
    BY <1>1, <1>2, <1>7
  <2> QED BY <1>13, <2>1, <2>2, <2>3, LargerOfThree
<1>18. ASSUME NEW i \in Nat
       PROVE  Seen(b, i) = Over(off, x, i, Seen(buf, i))
  <2>1. Seen(b, i) = Over(lo, b.data, i, disk[Target][i])
    BY <1>6 DEF Seen
  <2>2. Seen(buf, i) = Over(lo, d, i, disk[Target][i])
    BY DEF Seen, lo, d
  <2> QED BY <1>11, <2>1, <2>2
<1>19. k \in 1..Len(inp)
  BY <1>2, <1>7 DEF l
<1> QED BY <1>6, <1>12, <1>14, <1>15, <1>16, <1>17, <1>18, <1>19 DEF x, l, ld, lo

\* What is passed holds the first k bytes of data_in, 0 or more: file and buffer
\* together are then what they were, with these bytes over them.
LEMMA PassedBytes ==
  ASSUME Ready, inp # <<>>, NEW b, b = Passed, NEW k, k = PassedLen
  PROVE  /\ b \in Buffers /\ k \in 0..Len(inp) /\ b.data # <<>> /\ b.off <= size
         /\ Reach(b) = Larger(Reach(buf), End(off, SubSeq(inp, 1, k)))
         /\ \A i \in Nat : Seen(b, i) = Over(off, SubSeq(inp, 1, k), i, Seen(buf, i))
<1>1. /\ inp \in Seq(Int) /\ off \in Nat /\ size \in Nat /\ buf \in Buffers
      /\ buf.off \in Nat /\ buf.off <= size /\ off <= Reach(buf) /\ Len(inp) \in Nat
  BY DEF Ready, WriteTypes, BufferFitsFile, Buffers
<1>2. Reach(buf) \in Nat
  BY <1>1, ReachIsNat
<1>3. CASE buf.data = <<>>
  <2>1. b = [off |-> off, data |-> inp] /\ k = Len(inp)
    BY <1>3 DEF Passed, PassedLen
  <2>2. b.off = off /\ b.data = inp /\ b \in Buffers
    BY <1>1, <2>1 DEF Buffers
  <2>3. SubSeq(inp, 1, k) = inp
    BY <1>1, <2>1
  <2>4. Reach(buf) = size
    BY <1>1, <1>3 DEF Reach, End, Larger
  <2>5. Reach(b) = Larger(size, End(off, inp))
    BY <2>2 DEF Reach
  <2>6. ASSUME NEW i \in Nat
        PROVE  Seen(b, i) = Over(off, inp, i, Seen(buf, i))
    <3>1. Seen(buf, i) = disk[Target][i]
      BY <1>1, <1>3, OverNothing DEF Seen
    <3> QED BY <2>2, <3>1 DEF Seen
  <2>7. k \in 0..Len(inp) /\ off <= size
    BY <1>1, <2>1, <2>4
  <2> QED BY <2>2, <2>3, <2>4, <2>5, <2>6, <2>7
<1>4. CASE Overlaps(buf, off)
  <2>1. buf.data # <<>>
    BY <1>4 DEF Overlaps
  <2>2. b = Filled(buf, off) /\ k = Taken(buf, off)
    BY <2>1 DEF Passed, PassedLen
  <2>3. /\ b \in Buffers /\ k \in 1..Len(inp) /\ b.data # <<>> /\ b.off = buf.off
        /\ Reach(b) = Larger(Reach(buf), off + k)
        /\ \A i \in Nat : Seen(b, i) = Over(off, SubSeq(inp, 1, k), i, Seen(buf, i))
    BY <1>4, <2>2, OverlapBytes
  <2>4. Len(SubSeq(inp, 1, k)) = k /\ k > 0 /\ k \in 0..Len(inp)
    BY <1>1, <2>3
  <2>5. End(off, SubSeq(inp, 1, k)) = off + k
    BY <2>4 DEF End
  <2> QED BY <1>1, <2>3, <2>4, <2>5
<1>5. CASE buf.data # <<>> /\ ~Overlaps(buf, off)
  <2>1. b = buf /\ k = 0
    BY <1>5 DEF Passed, PassedLen, Filled, Taken
  <2>2. SubSeq(inp, 1, k) = <<>>
    BY <2>1, SubSeqEmpty
  <2>3. End(off, SubSeq(inp, 1, k)) = 0
    BY <2>2 DEF End
  <2>4. Reach(b) = Larger(Reach(buf), 0)
    BY <1>2, <2>1 DEF Larger
  <2>5. \A i \in Nat : Seen(b, i) = Over(off, SubSeq(inp, 1, k), i, Seen(buf, i))
    BY <1>1, <2>1, <2>2, OverNothing
  <2> QED BY <1>1, <1>5, <2>1, <2>3, <2>4, <2>5
<1> QED BY <1>3, <1>4, <1>5

-----------------------------------------------------------------------------
(* The steps.                                                               *)

\* The file that is written has one of the names, and its length is a number.
LEMMA TargetIsName ==
  ASSUME WriteTypes
  PROVE  Target \in Names /\ disk[Target] \in Seq(Int) /\ Len(disk[Target]) \in Nat
<1>1. Target \in Names
  BY DEF Target, Names
<1>2. disk \in [Names -> Seq(Int)]
  BY DEF WriteTypes
<1>3. disk[Target] \in Seq(Int)
  BY <1>1, <1>2
<1> QED BY <1>1, <1>3

\* fw_write of a buffer that leaves no hole: the file is what was seen before.
LEMMA WrittenBytes ==
  ASSUME WriteTypes, NEW b \in Buffers, b.data # <<>>, b.off <= size,
         size <= Len(disk[Target]), Written(b.data, b.off)
  PROVE  /\ disk' \in [Names -> Seq(Int)] /\ size' = Reach(b) /\ size' \in Nat
         /\ size' <= Len(disk'[Target])
         /\ \A i \in 1..size' : disk'[Target][i] = Seen(b, i)
<1> DEFINE f == disk[Target]
           o == b.off
           x == b.data
           g == Put(f, o, x)
<1>1. /\ Target \in Names /\ f \in Seq(Int) /\ Len(f) \in Nat /\ size \in Nat
      /\ disk \in [Names -> Seq(Int)]
  BY TargetIsName DEF WriteTypes
<1>2. o \in Nat /\ x \in Seq(Int)
  BY DEF Buffers
<1>3. disk' = [disk EXCEPT ![Target] = g] /\ size' = Larger(size, o + Len(x))
  BY DEF Written
<1>4. Len(x) \in Nat /\ x # <<>> /\ End(o, x) = o + Len(x)
  BY <1>2 DEF End
<1>5. size' = Reach(b)
  BY <1>3, <1>4 DEF Reach
<1> HIDE DEF f, o, x
<1>6. /\ g \in Seq(Int) /\ Len(g) = Larger(Len(f), End(o, x))
      /\ \A i \in 1..Len(g) :
           g[i] = IF i > o /\ i <= o + Len(x) THEN x[i - o]
                  ELSE IF i <= Len(f) THEN f[i] ELSE 0
  BY <1>1, <1>2, PutBytes
<1> HIDE DEF g
<1>7. disk' \in [Names -> Seq(Int)] /\ disk'[Target] = g
  BY <1>1, <1>3, <1>6
<1> DEFINE lf == Len(f)
           lx == Len(x)
           lg == Len(g)
<1>8. /\ lf \in Nat /\ lx \in Nat /\ lg = Larger(lf, o + lx) /\ size <= lf
      /\ o <= size /\ size' = Larger(size, o + lx) /\ o \in Nat /\ size \in Nat
  BY <1>1, <1>2, <1>3, <1>4, <1>6 DEF f, o
<1> HIDE DEF lf, lx, lg
<1>9. size' \in Nat /\ size' <= lg
  BY <1>8 DEF Larger
<1>10. ASSUME NEW i \in 1..size'
       PROVE  g[i] = Seen(b, i)
  <2>1. i \in 1..lg /\ (~(i > o /\ i <= o + lx) => i <= lf)
    BY <1>8, <1>9 DEF Larger
  <2>2. g[i] = IF i > o /\ i <= o + lx THEN x[i - o] ELSE f[i]
    BY <1>6, <2>1 DEF lg, lf, lx
  <2>3. Seen(b, i) = Over(o, x, i, f[i])
    BY DEF Seen, o, x, f
  <2> QED BY <2>2, <2>3 DEF Over, lx
<1> QED BY <1>5, <1>7, <1>9, <1>10 DEF lg

\* fw_process is called: what is asked for is the file and the buffer with
\* data_in over them.
LEMMA CallStep ==
  ASSUME WriteAssumptions, WriteInv,
         NEW seek \in -1..MaxSize, NEW len \in 0..MaxIn, NEW last \in BOOLEAN,
         Call(seek, len, last)
  PROVE  WriteInv'
<1> DEFINE o == IF seek >= 0 THEN seek ELSE wcur
           x == [i \in 1..len |-> Byte(calls + 1, i)]
<1>1. /\ pc = "open" /\ ~fin /\ seek <= Len(want) /\ calls' = calls + 1 /\ off' = o
      /\ inp' = x /\ first' = last /\ want' = Put(want, o, x) /\ pc' = "loop"
      /\ UNCHANGED <<conf, disk, wcur, buf, size, fin, n, old>>
  BY DEF Call
<1>2. WriteTypes /\ BufferFitsFile /\ OpenAgrees
  BY DEF WriteInv
<1>3. o \in Nat /\ o <= Len(want) /\ len \in Nat
  <2>1. wcur <= Len(want) /\ wcur \in Nat /\ MaxSize \in Nat /\ MaxIn \in Nat
    BY <1>1, <1>2 DEF OpenAgrees, WriteTypes, WriteAssumptions
  <2> QED BY <1>1, <2>1
<1>4. x \in Seq(Int) /\ Len(x) = len
  <2>1. \A i \in 1..len : Byte(calls + 1, i) \in Int
    <3>1. calls + 1 \in Int /\ MaxIn + 1 \in Int
      BY <1>2 DEF WriteTypes, WriteAssumptions
    <3>2. (calls + 1) * (MaxIn + 1) \in Int
      BY <3>1
    <3> QED BY <3>2 DEF Byte
  <2>2. x \in [1..len -> Int]
    BY <2>1
  <2> QED BY <1>3, <2>2, SeqDef, LenProperties
<1> HIDE DEF o, x
<1> DEFINE w == Put(want, o, x)
           lw == Len(want)
<1>5. want \in Seq(Int) /\ lw \in Nat /\ calls \in Nat
  BY <1>2 DEF WriteTypes
<1>6. /\ w \in Seq(Int) /\ Len(w) = Larger(lw, End(o, x))
      /\ \A i \in 1..Len(w) :
           w[i] = IF i > o /\ i <= o + Len(x) THEN x[i - o]
                  ELSE IF i <= lw THEN want[i] ELSE 0
  BY <1>3, <1>4, <1>5, PutBytes
<1>7. WriteTypes'
  <2>1. calls' \in Nat /\ off' \in Nat /\ inp' \in Seq(Int) /\ want' \in Seq(Int)
        /\ first' \in BOOLEAN /\ pc' = "loop"
    BY <1>1, <1>3, <1>4, <1>5, <1>6
  <2> QED BY <1>1, <1>2, <2>1 DEF WriteTypes
<1>8. /\ Target' = Target /\ Reach(buf)' = Reach(buf) /\ BufferFitsFile'
      /\ \A i \in Nat : Seen(buf, i)' = Seen(buf, i)
  BY <1>1, <1>2 DEF Target, Reach, Seen, BufferFitsFile
<1>9. Reach(buf) = lw /\ \A i \in 1..lw : want[i] = Seen(buf, i)
  BY <1>1, <1>2 DEF OpenAgrees
<1> HIDE DEF w
<1>10. ASSUME NEW i \in 1..Len(w)
       PROVE  w[i] = Over(o, x, i, Seen(buf, i))
  <2>1. i \in Nat /\ (~(i > o /\ i <= o + Len(x)) => i \in 1..lw)
    <3> DEFINE lx == Len(x)
               m == Len(w)
    <3>1. o <= lw /\ o \in Nat /\ lw \in Nat /\ lx \in Nat
      BY <1>3, <1>4, <1>5
    <3>2. m = Larger(lw, o + lx) \/ m = lw
      BY <1>3, <1>4, <1>5, <1>6 DEF End, Larger
    <3> HIDE DEF lx, m, lw
    <3>3. i \in 1..m
      BY DEF m
    <3>4. i \in Nat /\ (~(i > o /\ i <= o + lx) => i \in 1..lw)
      BY <3>1, <3>2, <3>3 DEF Larger
    <3> QED BY <3>4 DEF lx
  <2>2. w[i] = IF i > o /\ i <= o + Len(x) THEN x[i - o] ELSE want[i]
    BY <1>6, <2>1
  <2> QED BY <1>9, <2>1, <2>2 DEF Over
<1>11. LoopAgrees'
  <2>1. off' <= Reach(buf)' /\ Len(want') = Larger(Reach(buf)', End(off, inp)')
    BY <1>1, <1>3, <1>6, <1>8, <1>9 DEF End, w
  <2>2. \A i \in 1..Len(want') : want'[i] = Over(off', inp', i, Seen(buf, i)')
    <3>1. want' = w /\ off' = o /\ inp' = x
      BY <1>1 DEF w
    <3>2. \A i \in 1..Len(w) : i \in Nat
      BY <1>6
    <3> QED BY <1>8, <1>10, <3>1, <3>2
  <2> QED BY <2>1, <2>2 DEF LoopAgrees, Over, Seen
<1> QED BY <1>1, <1>7, <1>8, <1>11 DEF WriteInv, OpenAgrees, FinAgrees, FinishedIsComplete

\* fw_open: a new session starts with an empty buffer and nothing asked for.
LEMMA OpenStep ==
  ASSUME WriteAssumptions, WriteInv, NEW tmp \in BOOLEAN, NEW over \in BOOLEAN,
         Open(tmp, over)
  PROVE  WriteInv'
<1> DEFINE target == IF tmp THEN "tmp" ELSE "name"
<1>1. /\ pc = "closed" /\ conf' = [tmp |-> tmp, over |-> over]
      /\ UNCHANGED <<off, inp, first>> /\ fin' = FALSE
  BY DEF Open
<1>2. WriteTypes
  BY DEF WriteInv
<1>3. conf' \in [tmp : BOOLEAN, over : BOOLEAN]
  BY <1>1
<1>4. CASE UNCHANGED <<disk, pc, wcur, buf, size, calls, want>>
  <2>1. WriteTypes'
    BY <1>1, <1>2, <1>3, <1>4 DEF WriteTypes
  <2> QED BY <1>1, <1>4, <2>1 DEF WriteInv, BufferFitsFile, OpenAgrees, LoopAgrees,
                                  FinAgrees, FinishedIsComplete
<1>5. CASE /\ disk' = [disk EXCEPT ![target] = IF @ = Absent THEN <<>> ELSE @]
           /\ pc' = "open" /\ wcur' = 0 /\ buf' = NoBuf /\ size' = 0
           /\ calls' = 0 /\ want' = <<>>
  <2>1. disk' \in [Names -> Seq(Int)]
    <3>1. disk \in [Names -> Seq(Int)] /\ <<>> \in Seq(Int)
      BY <1>2, EmptySeq DEF WriteTypes
    <3> QED BY <1>5, <3>1 DEF Names
  <2>2. buf' \in Buffers /\ buf'.off = 0 /\ buf'.data = <<>>
    BY <1>5, EmptySeq DEF NoBuf, Buffers
  <2>3. WriteTypes'
    <3>1. /\ off' \in Nat /\ inp' \in Seq(Int) /\ first' \in BOOLEAN
          /\ wcur' \in Nat /\ size' \in Nat /\ calls' \in Nat
      BY <1>1, <1>2, <1>5 DEF WriteTypes
    <3>2. want' \in Seq(Int)
      BY <1>5, EmptySeq
    <3> QED BY <1>1, <1>3, <1>5, <2>1, <2>2, <3>1, <3>2 DEF WriteTypes
  <2>4. Len(disk'[Target']) \in Nat /\ Len(<<>>) = 0
    <3>1. Target' \in Names
      BY DEF Target, Names
    <3>2. disk'[Target'] \in Seq(Int)
      BY <2>1, <3>1
    <3> QED BY <3>2
  <2>5. BufferFitsFile'
    <3>1. WCap \in Nat
      BY DEF WriteAssumptions
    <3> QED BY <1>5, <2>2, <2>4, <3>1 DEF BufferFitsFile
  <2>6. OpenAgrees'
    <3>1. Reach(buf)' = 0
      BY <1>5, <2>2 DEF Reach, End, Larger
    <3> QED BY <1>5, <2>4, <3>1 DEF OpenAgrees
  <2> QED BY <1>1, <1>5, <2>3, <2>5, <2>6
          DEF WriteInv, LoopAgrees, FinAgrees, FinishedIsComplete
<1> QED BY <1>4, <1>5 DEF Open

\* fw_process keeps the data: then all of it is in the buffer.
LEMMA KeptIsAll ==
  ASSUME Ready, inp # <<>>, Keeps(buf, off)
  PROVE  /\ Passed = Filled(buf, off) /\ PassedLen = Len(inp)
         /\ Len(Filled(buf, off).data) <= WCap
<1>1. CASE Overlaps(buf, off)
  <2>1. buf.data # <<>>
    BY <1>1 DEF Overlaps
  <2>2. /\ Len(Filled(buf, off).data) > Len(buf.data)
        /\ Len(Filled(buf, off).data) # WCap
    BY <2>1 DEF Keeps
  <2>3. Taken(buf, off) = Len(inp) /\ Len(Filled(buf, off).data) <= WCap
    BY <1>1, <2>2, OverlapBytes
  <2> QED BY <2>1, <2>3 DEF Passed, PassedLen
<1>2. CASE ~Overlaps(buf, off)
  <2>1. buf.data = <<>> /\ WCap >= Len(inp)
    BY <1>2 DEF Keeps
  <2>2. Filled(buf, off) = [off |-> off, data |-> inp]
    BY <1>2, <2>1 DEF Filled
  <2>3. Len(Filled(buf, off).data) <= WCap
    <3>1. Len(inp) \in Nat /\ WCap \in Nat
      BY DEF Ready, WriteTypes
    <3> QED BY <2>1, <2>2, <3>1
  <2> QED BY <2>1, <2>2, <2>3 DEF Passed, PassedLen
<1> QED BY <1>1, <1>2

\* In fw_process, with all of data_in in buffer b, file and b are what was asked
\* for.
LEMMA KeptAgrees ==
  ASSUME WriteInv, Ready, Keeps(buf, off),
         NEW b, b = IF inp = <<>> THEN buf ELSE Filled(buf, off)
  PROVE  /\ b \in Buffers /\ b.off <= size /\ Len(b.data) <= WCap
         /\ Len(want) = Reach(b) /\ off + Len(inp) <= Len(want)
         /\ \A i \in 1..Len(want) : want[i] = Seen(b, i)
<1>1. /\ inp \in Seq(Int) /\ off \in Nat /\ size \in Nat /\ buf \in Buffers
      /\ buf.off <= size /\ Len(buf.data) <= WCap /\ off <= Reach(buf)
      /\ want \in Seq(Int) /\ Len(want) \in Nat /\ Len(inp) \in Nat
  BY DEF Ready, WriteTypes, BufferFitsFile
<1>2. /\ Len(want) = Larger(Reach(buf), End(off, inp))
      /\ \A i \in 1..Len(want) : want[i] = Over(off, inp, i, Seen(buf, i))
  BY DEF WriteInv, LoopAgrees, Ready
<1>3. Reach(buf) \in Nat
  BY <1>1, ReachIsNat
<1>4. CASE inp = <<>>
  <2>1. b = buf /\ End(off, inp) = 0 /\ Len(inp) = 0
    BY <1>4 DEF End
  <2>2. Len(want) = Reach(buf) /\ off + Len(inp) <= Reach(buf)
    BY <1>1, <1>2, <1>3, <2>1 DEF Larger
  <2>3. \A i \in 1..Len(want) : want[i] = Seen(b, i)
    <3>1. \A i \in 1..Len(want) : i \in Nat
      BY <1>1
    <3> QED BY <1>1, <1>2, <1>4, <2>1, <3>1, OverNothing
  <2> QED BY <1>1, <2>1, <2>2, <2>3
<1>5. CASE inp # <<>>
  <2>1. b = Passed /\ Len(inp) = PassedLen /\ Len(b.data) <= WCap
    BY <1>5, KeptIsAll
  <2>2. /\ b \in Buffers /\ b.off <= size
        /\ Reach(b) = Larger(Reach(buf), End(off, SubSeq(inp, 1, Len(inp))))
        /\ \A i \in Nat :
             Seen(b, i) = Over(off, SubSeq(inp, 1, Len(inp)), i, Seen(buf, i))
    BY <1>5, <2>1, PassedBytes
  <2>3. SubSeq(inp, 1, Len(inp)) = inp
    BY <1>1
  <2>4. End(off, inp) = off + Len(inp)
    BY <1>5 DEF End
  <2>5. off + Len(inp) <= Larger(Reach(buf), off + Len(inp))
    BY <1>1, <1>3 DEF Larger
  <2>6. \A i \in 1..Len(want) : i \in Nat
    BY <1>1
  <2> QED BY <1>2, <2>1, <2>2, <2>3, <2>4, <2>5, <2>6
<1> QED BY <1>4, <1>5

\* In the loop of fw_process the buffer is ready to be written to.
LEMMA ReadyInLoop ==
  ASSUME WriteAssumptions, WriteInv, pc = "loop"
  PROVE  Ready
BY DEF WriteInv, Ready, LoopAgrees, WriteAssumptions

\* fw_process asks for more, or writes what it has and finishes.
LEMMA BufferedStep ==
  ASSUME WriteAssumptions, WriteInv, Buffered
  PROVE  WriteInv'
<1> DEFINE b == IF inp = <<>> THEN buf ELSE Filled(buf, off)
<1>1. /\ pc = "loop" /\ Keeps(buf, off) /\ buf' = b /\ inp' = <<>>
      /\ off' = off + Len(inp) /\ pc' = "open"
      /\ UNCHANGED <<conf, first, calls, n, want, old>>
  BY DEF Buffered
<1>2. Ready /\ WriteTypes /\ BufferFitsFile
  BY <1>1, ReadyInLoop DEF WriteInv
<1>3. /\ b \in Buffers /\ b.off <= size /\ Len(b.data) <= WCap
      /\ Len(want) = Reach(b) /\ off + Len(inp) <= Len(want)
      /\ \A i \in 1..Len(want) : want[i] = Seen(b, i)
  BY <1>1, <1>2, KeptAgrees
<1>4. /\ \/ /\ first /\ b.data = <<>> /\ fin' = TRUE /\ UNCHANGED <<disk, size, wcur>>
         \/ /\ first /\ b.data # <<>> /\ Written(b.data, b.off) /\ fin' = TRUE
            /\ UNCHANGED wcur
         \/ /\ ~first /\ wcur' = off + Len(inp) /\ UNCHANGED <<disk, size, fin>>
  BY DEF Buffered
<1> HIDE DEF b
<1>5. /\ size <= Len(disk[Target]) /\ Target' = Target /\ ~fin /\ size \in Nat
      /\ off + Len(inp) \in Nat /\ <<>> \in Seq(Int) /\ Len(want) \in Nat
  <2>1. off \in Nat /\ Len(inp) \in Nat
    BY <1>2 DEF WriteTypes
  <2> QED BY <1>1, <1>2, <2>1, EmptySeq
          DEF Ready, BufferFitsFile, Target, WriteTypes
<1>6. ASSUME disk' \in [Names -> Seq(Int)], size' \in Nat, wcur' \in Nat, fin' \in BOOLEAN
      PROVE  WriteTypes'
  <2>1. conf' = conf /\ pc' = "open" /\ buf' \in Buffers /\ off' \in Nat
        /\ calls' = calls /\ inp' \in Seq(Int) /\ want' = want /\ first' = first
    BY <1>1, <1>3, <1>5
  <2> QED BY <1>2, <1>6, <2>1 DEF WriteTypes
<1>7. disk \in [Names -> Seq(Int)] /\ wcur \in Nat /\ fin \in BOOLEAN
  BY <1>2 DEF WriteTypes
<1>8. CASE first /\ b.data = <<>> /\ fin' = TRUE /\ UNCHANGED <<disk, size, wcur>>
  <2>1. WriteTypes'
    BY <1>5, <1>6, <1>7, <1>8
  <2>2. Len(want) = size
    BY <1>3, <1>5, <1>8 DEF Reach, End, Larger
  <2>3. \A i \in 1..size : want[i] = disk[Target][i]
    <3>1. \A i \in 1..size : i \in Nat
      BY <1>5
    <3>2. b.off \in Nat
      BY <1>3 DEF Buffers
    <3>3. \A i \in 1..size : Seen(b, i) = disk[Target][i]
      BY <1>8, <3>1, <3>2, OverNothing DEF Seen
    <3> QED BY <1>3, <2>2, <3>3
  <2>4. FinAgrees'
    BY <1>1, <1>5, <1>8, <2>2, <2>3 DEF FinAgrees
  <2> QED BY <1>1, <1>8, <2>1, <2>4 DEF WriteInv, BufferFitsFile, OpenAgrees,
                                        LoopAgrees, FinishedIsComplete
<1>9. CASE /\ first /\ b.data # <<>> /\ Written(b.data, b.off) /\ fin' = TRUE
           /\ UNCHANGED wcur
  <2>1. /\ disk' \in [Names -> Seq(Int)] /\ size' = Reach(b) /\ size' \in Nat
        /\ size' <= Len(disk'[Target])
        /\ \A i \in 1..size' : disk'[Target][i] = Seen(b, i)
    BY <1>2, <1>3, <1>5, <1>9, WrittenBytes
  <2>2. WriteTypes'
    BY <1>6, <1>7, <1>9, <2>1
  <2>3. FinAgrees'
    BY <1>1, <1>3, <1>5, <2>1 DEF FinAgrees
  <2> QED BY <1>1, <1>9, <2>2, <2>3 DEF WriteInv, BufferFitsFile, OpenAgrees,
                                        LoopAgrees, FinishedIsComplete
<1>10. CASE ~first /\ wcur' = off + Len(inp) /\ UNCHANGED <<disk, size, fin>>
  <2>1. WriteTypes'
    BY <1>5, <1>6, <1>7, <1>10
  <2>2. BufferFitsFile'
    BY <1>1, <1>3, <1>5, <1>10 DEF BufferFitsFile
  <2>3. Reach(buf)' = Reach(b) /\ \A i : Seen(buf, i)' = Seen(b, i)
    BY <1>1, <1>5, <1>10 DEF Reach, Seen
  <2>4. OpenAgrees'
    BY <1>1, <1>3, <1>10, <2>3 DEF OpenAgrees
  <2> QED BY <1>1, <1>5, <1>10, <2>1, <2>2, <2>4 DEF WriteInv, LoopAgrees, FinAgrees,
                                                     FinishedIsComplete
<1> QED BY <1>4, <1>8, <1>9, <1>10

\* fw_process passes on what the buffer, or data_in alone, holds: the loop goes
\* on with an empty buffer and the rest.
LEMMA FlushStep ==
  ASSUME WriteAssumptions, WriteInv, Flush
  PROVE  WriteInv'
<1> DEFINE b == Passed
           k == PassedLen
           x == SubSeq(inp, 1, k)
           r == SubSeq(inp, k + 1, Len(inp))
<1>1. /\ pc = "loop" /\ ~Keeps(buf, off) /\ buf' = NoBuf /\ inp' = r /\ off' = off + k
      /\ UNCHANGED <<conf, pc, wcur, first, fin, calls, n, want, old>>
  BY DEF Flush, PassedLen
<1>2. Written(b.data, b.off)
  <2>1. CASE buf.data = <<>>
    <3>1. b = [off |-> off, data |-> inp]
      BY <2>1 DEF Passed
    <3>2. b.data = inp /\ b.off = off
      BY <3>1
    <3> QED BY <2>1, <3>2 DEF Flush
  <2>2. CASE buf.data # <<>>
    BY <2>2 DEF Flush, Passed
  <2> QED BY <2>1, <2>2
<1>3. Ready /\ WriteTypes /\ BufferFitsFile /\ inp # <<>>
  BY <1>1, ReadyInLoop DEF WriteInv, Keeps
<1> HIDE DEF b, k
<1>4. /\ b \in Buffers /\ k \in 0..Len(inp) /\ b.data # <<>> /\ b.off <= size
      /\ Reach(b) = Larger(Reach(buf), End(off, x))
      /\ \A i \in Nat : Seen(b, i) = Over(off, x, i, Seen(buf, i))
  BY <1>3, PassedBytes DEF b, k
<1>5. size <= Len(disk[Target]) /\ Target' = Target /\ ~fin
  BY <1>1, <1>3 DEF Ready, BufferFitsFile, Target
<1>6. /\ disk' \in [Names -> Seq(Int)] /\ size' = Reach(b) /\ size' \in Nat
      /\ size' <= Len(disk'[Target])
      /\ \A i \in 1..size' : disk'[Target][i] = Seen(b, i)
  BY <1>2, <1>3, <1>4, <1>5, WrittenBytes
<1>7. /\ inp \in Seq(Int) /\ off \in Nat /\ buf \in Buffers /\ size \in Nat
      /\ off <= Reach(buf) /\ want \in Seq(Int)
  BY <1>3 DEF Ready, WriteTypes
<1>8. /\ x \in Seq(Int) /\ Len(x) = k /\ r \in Seq(Int) /\ Len(r) = Len(inp) - k
      /\ Len(inp) \in Nat /\ Len(want) \in Nat
  <2>1. k \in 0..Len(inp) /\ inp \in Seq(Int) /\ want \in Seq(Int)
    BY <1>4, <1>7
  <2>2. x \in Seq(Int) /\ Len(x) = k
    BY <2>1
  <2>3. r \in Seq(Int) /\ Len(r) = Len(inp) - k
    BY <2>1
  <2> QED BY <2>1, <2>2, <2>3
<1> HIDE DEF x, r
<1>9. WriteTypes'
  <2>1. buf' \in Buffers
    BY <1>1, EmptySeq DEF NoBuf, Buffers
  <2>2. off' \in Nat /\ inp' \in Seq(Int)
    BY <1>1, <1>4, <1>7, <1>8
  <2> QED BY <1>1, <1>3, <1>6, <2>1, <2>2 DEF WriteTypes
<1>10. buf'.off = 0 /\ buf'.data = <<>> /\ Len(buf'.data) = 0
  BY <1>1 DEF NoBuf
<1>11. BufferFitsFile'
  <2>1. WCap \in Nat
    BY DEF WriteAssumptions
  <2> QED BY <1>5, <1>6, <1>10, <2>1 DEF BufferFitsFile
<1> DEFINE l == Len(inp)
           re == Reach(buf)
<1>12. /\ l \in Nat /\ k \in Nat /\ k <= l /\ re \in Nat /\ off <= re /\ off \in Nat
  BY <1>4, <1>7, <1>8, ReachIsNat
<1>13. Len(want) = Larger(re, off + l)
  BY <1>1, <1>3 DEF WriteInv, LoopAgrees, End
<1>14. End(off, x) = IF k = 0 THEN 0 ELSE off + k
  BY <1>8 DEF End
<1>15. End(off', inp') = IF l = k THEN 0 ELSE (off + k) + (l - k)
  BY <1>1, <1>4, <1>8 DEF End
<1> DEFINE lw == Len(want)
           e == End(off', inp')
<1>16. size' = Larger(re, IF k = 0 THEN 0 ELSE off + k)
  BY <1>4, <1>6, <1>14
<1>17. lw = Larger(re, off + l) /\ e = IF l = k THEN 0 ELSE (off + k) + (l - k)
  BY <1>13, <1>15
<1> HIDE DEF l, re, lw, e
<1>18. off + k <= size' /\ lw = Larger(size', e)
  BY <1>12, <1>16, <1>17 DEF Larger
<1>19. ASSUME NEW i \in 1..lw
       PROVE  i \in Nat /\ (i \in 1..size' \/ (i > off + k /\ i <= (off + k) + (l - k)))
  BY <1>12, <1>16, <1>17 DEF Larger
<1>20. Reach(buf)' = size'
  BY <1>6, <1>10 DEF Reach, End, Larger
<1>21. ASSUME NEW i \in 1..lw
       PROVE  want[i] = Over(off', inp', i, disk'[Target][i])
  <2>1. want[i] = Over(off, inp, i, Seen(buf, i)) /\ i \in Nat
    BY <1>1, <1>3, <1>19 DEF WriteInv, LoopAgrees, lw
  <2>2. want[i] = Over(off + k, r, i, Seen(b, i))
    BY <1>4, <1>7, <2>1, OverInParts DEF x, r
  <2>3. CASE i \in 1..size'
    BY <1>1, <1>6, <2>2, <2>3
  <2>4. CASE i > off + k /\ i <= (off + k) + (l - k)
    <3>1. i > off + k /\ i <= (off + k) + Len(r)
      BY <1>8, <2>4 DEF l
    <3> QED BY <1>1, <2>2, <3>1 DEF Over
  <2> QED BY <1>19, <2>3, <2>4
<1>22. ASSUME NEW i \in Nat
       PROVE  Seen(buf, i)' = disk'[Target][i]
  <2>1. Seen(buf, i)' = Over(0, <<>>, i, disk'[Target][i])
    BY <1>5, <1>10 DEF Seen, Over
  <2> QED BY <2>1, OverNothing
<1>23. LoopAgrees'
  <2>1. /\ off' <= Reach(buf)' /\ Len(want') = Larger(Reach(buf)', End(off', inp'))
    BY <1>1, <1>18, <1>20 DEF lw, e
  <2>2. \A i \in 1..Len(want') : want'[i] = Over(off', inp', i, Seen(buf, i)')
    BY <1>1, <1>19, <1>21, <1>22 DEF lw
  <2> QED BY <2>1, <2>2 DEF LoopAgrees, End, Over, Seen
<1> QED BY <1>1, <1>5, <1>9, <1>11, <1>23
        DEF WriteInv, OpenAgrees, FinAgrees, FinishedIsComplete

\* fw_close: a finished file is cut to its size and gets its name.
LEMMA CloseStep ==
  ASSUME WriteInv, Close
  PROVE  WriteInv'
<1> DEFINE f == Trunc(disk[Target], size)
           d == [disk EXCEPT ![Target] = f]
<1>1. /\ pc \in {"open", "failed"} /\ pc' = "closed"
      /\ disk' = IF ~fin THEN [d EXCEPT !["name"] = Absent]
                 ELSE IF conf.tmp THEN [name |-> d["tmp"], tmp |-> Absent] ELSE d
      /\ UNCHANGED <<conf, off, wcur, inp, first, buf, size, fin, calls, n, want, old>>
  BY DEF Close, local
<1>2. WriteTypes
  BY DEF WriteInv
<1>3. /\ Target \in Names /\ disk[Target] \in Seq(Int) /\ size \in Nat
      /\ disk \in [Names -> Seq(Int)] /\ want \in Seq(Int) /\ Len(disk[Target]) \in Nat
  BY <1>2, TargetIsName DEF WriteTypes
<1>4. /\ f \in Seq(Int) /\ Len(f) = size
      /\ \A i \in 1..size : f[i] = IF i <= Len(disk[Target]) THEN disk[Target][i] ELSE 0
  BY <1>3, TruncBytes
<1> HIDE DEF f
<1>5. d \in [Names -> Seq(Int)] /\ d[Target] = f
  BY <1>3, <1>4
<1> HIDE DEF d
<1>6. Absent \in Seq(Int)
  BY DEF Absent
<1>7. disk' \in [Names -> Seq(Int)]
  <2>1. CASE ~fin
    BY <1>1, <1>5, <1>6, <2>1 DEF Names
  <2>2. CASE fin /\ conf.tmp
    <3>1. d["tmp"] \in Seq(Int) /\ disk' = [name |-> d["tmp"], tmp |-> Absent]
      BY <1>1, <1>5, <2>2 DEF Names
    <3> QED BY <1>6, <3>1 DEF Names
  <2>3. CASE fin /\ ~conf.tmp
    BY <1>1, <1>5, <2>3
  <2> QED BY <2>1, <2>2, <2>3
<1>8. WriteTypes'
  BY <1>1, <1>2, <1>7 DEF WriteTypes
<1>9. ASSUME fin
      PROVE  disk'["name"] = want /\ (conf.tmp => disk'["tmp"] = Absent)
  <2>1. /\ Len(want) = size /\ size <= Len(disk[Target])
        /\ \A i \in 1..size : want[i] = disk[Target][i]
    BY <1>1, <1>9 DEF WriteInv, FinAgrees
  <2>2. \A i \in 1..size : f[i] = want[i]
    <3>1. \A i \in 1..size : i <= Len(disk[Target])
      BY <1>3, <2>1
    <3> QED BY <1>4, <2>1, <3>1
  <2>3. f = want
    BY <1>3, <1>4, <2>1, <2>2, SeqEqual
  <2>4. CASE conf.tmp
    <3>1. disk' = [name |-> d["tmp"], tmp |-> Absent] /\ Target = "tmp"
      BY <1>1, <1>9, <2>4 DEF Target
    <3> QED BY <1>5, <2>3, <3>1
  <2>5. CASE ~conf.tmp
    <3>1. disk' = d /\ Target = "name"
      BY <1>1, <1>9, <2>5 DEF Target
    <3> QED BY <1>5, <2>3, <2>5, <3>1
  <2> QED BY <2>4, <2>5
<1>10. FinishedIsComplete'
  BY <1>1, <1>9 DEF FinishedIsComplete
<1> QED BY <1>1, <1>8, <1>10 DEF WriteInv, BufferFitsFile, OpenAgrees, LoopAgrees, FinAgrees

\* The invariant depends on all the variables but n and old.
LEMMA StutterStep ==
  ASSUME WriteInv,
         UNCHANGED <<conf, disk, pc, off, wcur, inp, first, buf, size, fin, calls, want>>
  PROVE  WriteInv'
BY DEF WriteInv, WriteTypes, BufferFitsFile, OpenAgrees, LoopAgrees, FinAgrees,
       FinishedIsComplete, Reach, Seen, Target, End, Over

\* A write fails: the file is closed as an aborted one.
LEMMA FailStep ==
  ASSUME WriteInv, WriteFails
  PROVE  WriteInv'
<1>1. /\ pc = "loop" /\ pc' = "failed"
      /\ UNCHANGED <<conf, disk, off, wcur, inp, first, buf, size, fin, calls, n, want, old>>
  BY DEF WriteFails, local
<1>2. WriteTypes /\ ~fin
  BY <1>1 DEF WriteInv
<1>3. WriteTypes'
  BY <1>1, <1>2 DEF WriteTypes
<1> QED BY <1>1, <1>2, <1>3 DEF WriteInv, BufferFitsFile, OpenAgrees, LoopAgrees,
                                FinAgrees, FinishedIsComplete

-----------------------------------------------------------------------------
(* The theorems.                                                            *)

\* The writer keeps the file, the buffer and the rest of data_in together equal
\* to what the track asked for (fw_open, fw_process, fbuf_write, fw_close).
THEOREM WriteInvariant ==
  ASSUME WriteAssumptions
  PROVE  WriteSpec => []WriteInv
<1>1. WriteInit => WriteInv
  <2> SUFFICES ASSUME WriteInit PROVE WriteInv
    OBVIOUS
  <2>1. /\ disk \in [Names -> {Absent, Old}] /\ conf = [tmp |-> FALSE, over |-> FALSE]
        /\ pc = "closed" /\ off = 0 /\ wcur = 0 /\ inp = <<>> /\ first = FALSE
        /\ buf = NoBuf /\ size = 0 /\ fin = FALSE /\ calls = 0 /\ want = <<>>
    BY DEF WriteInit
  <2>2. Absent \in Seq(Int) /\ Old \in Seq(Int) /\ <<>> \in Seq(Int)
    BY DEF Absent, Old
  <2>3. disk \in [Names -> Seq(Int)]
    BY <2>1, <2>2
  <2>4. buf \in Buffers
    BY <2>1, <2>2 DEF NoBuf, Buffers
  <2>5. WriteTypes
    BY <2>1, <2>2, <2>3, <2>4 DEF WriteTypes
  <2> QED BY <2>1, <2>5 DEF WriteInv, BufferFitsFile, OpenAgrees, LoopAgrees, FinAgrees,
                            FinishedIsComplete
<1>2. WriteInv /\ [WriteNext]_writeVars => WriteInv'
  <2> SUFFICES ASSUME WriteInv, [WriteNext]_writeVars PROVE WriteInv'
    OBVIOUS
  <2>1. ASSUME NEW tmp \in BOOLEAN, NEW over \in BOOLEAN, Open(tmp, over)
        PROVE  WriteInv'
    BY <2>1, OpenStep
  <2>2. ASSUME NEW seek \in -1..MaxSize, NEW len \in 0..MaxIn, NEW last \in BOOLEAN,
               Call(seek, len, last)
        PROVE  WriteInv'
    BY <2>2, CallStep
  <2>3. CASE Buffered
    BY <2>3, BufferedStep
  <2>4. CASE Flush
    BY <2>4, FlushStep
  <2>5. CASE WriteFails
    BY <2>5, FailStep
  <2>6. CASE Close
    BY <2>6, CloseStep
  <2>7. CASE WriteFinished \/ UNCHANGED writeVars
    <3>1. UNCHANGED <<conf, disk, pc, off, wcur, inp, first, buf, size, fin, calls, want>>
      BY <2>7 DEF WriteFinished, writeVars
    <3> QED BY <3>1, StutterStep
  <2> QED BY <2>1, <2>2, <2>3, <2>4, <2>5, <2>6, <2>7 DEF WriteNext
<1> QED BY <1>1, <1>2, PTL DEF WriteSpec

\* A file has what an unbuffered writer would have given it: between two calls
\* with the buffer laid over it, and when it is finished (fw_process, fw_close).
THEOREM FileIsAsAsked ==
  ASSUME WriteAssumptions
  PROVE  WriteSpec => []WrittenAsAsked
<1>1. WriteInv => WrittenAsAsked
  <2> SUFFICES ASSUME WriteInv, pc = "open", ~fin
               PROVE  BufferedEqualsDirect
    BY DEF WriteInv, WrittenAsAsked, BufferedEqualsDirect
  <2> DEFINE f == disk[Target]
             g == Put(f, buf.off, buf.data)
             lw == Len(want)
  <2>1. /\ WriteTypes /\ f \in Seq(Int) /\ Len(f) \in Nat /\ size \in Nat
        /\ want \in Seq(Int) /\ lw \in Nat /\ buf.off \in Nat /\ buf.data \in Seq(Int)
    BY TargetIsName DEF WriteInv, WriteTypes, Buffers
  <2>2. /\ lw = Reach(buf) /\ (\A i \in 1..lw : want[i] = Seen(buf, i))
        /\ buf.off <= size /\ size <= Len(f)
    BY DEF WriteInv, OpenAgrees, BufferFitsFile
  <2>3. Larger(size, IF buf.data = <<>> THEN 0 ELSE buf.off + Len(buf.data)) = lw
    BY <2>2 DEF Reach, End
  <2>4. /\ g \in Seq(Int) /\ Len(g) = Larger(Len(f), End(buf.off, buf.data))
        /\ \A i \in 1..Len(g) :
             g[i] = IF i > buf.off /\ i <= buf.off + Len(buf.data)
                    THEN buf.data[i - buf.off] ELSE IF i <= Len(f) THEN f[i] ELSE 0
    BY <2>1, PutBytes
  <2> HIDE DEF g
  <2> DEFINE t == Trunc(g, lw)
             lg == Len(g)
             lf == Len(f)
             lb == Len(buf.data)
             o == buf.off
             e == End(o, buf.data)
  <2>5. t \in Seq(Int) /\ Len(t) = lw
        /\ \A i \in 1..lw : t[i] = IF i <= lg THEN g[i] ELSE 0
    BY <2>1, <2>4, TruncBytes
  <2>6. /\ lf \in Nat /\ lb \in Nat /\ o \in Nat /\ size \in Nat /\ o <= size
        /\ size <= lf /\ lg = Larger(lf, e) /\ lw = Larger(size, e)
        /\ (e = 0 \/ e = o + lb)
    BY <2>1, <2>2, <2>4 DEF Reach, End
  <2> HIDE DEF t, lg, lf, lb, o, e, f, lw
  <2>7. ASSUME NEW i \in 1..lw
        PROVE  t[i] = want[i]
    <3>1. i \in 1..lg /\ i <= lg /\ (~(i > o /\ i <= o + lb) => i <= lf)
      BY <2>6 DEF Larger
    <3>2. t[i] = g[i]
      BY <2>5, <3>1
    <3>3. g[i] = IF i > o /\ i <= o + lb THEN buf.data[i - o] ELSE f[i]
      BY <2>4, <3>1 DEF lg, lf, lb, o
    <3>4. Seen(buf, i) = IF i > o /\ i <= o + lb THEN buf.data[i - o] ELSE f[i]
      BY DEF Seen, Over, o, lb, f
    <3> QED BY <2>2, <3>2, <3>3, <3>4
  <2>8. t = want
    BY <2>1, <2>5, <2>7, SeqEqual DEF lw
  <2> QED BY <2>3, <2>8 DEF BufferedEqualsDirect, t, g, f
<1> QED BY <1>1, WriteInvariant, PTL

=============================================================================
