------------------------------ MODULE FileRead ------------------------------
(***************************************************************************)
(* The file-read filter: core/file-read.h with the cache of two buffers of  *)
(* util/fcache.h.                                                           *)
(*                                                                          *)
(* A buffer is the interval of the file it holds.  Reads start at aligned   *)
(* offsets, so a call reads again what precedes the offset it was asked     *)
(* for, and drops it.  The formats seek whenever they like (input.seek).    *)
(***************************************************************************)
EXTENDS Integers, Sequences

CONSTANTS Size,      \* length of the file
          Cap,       \* buf_cap: length of a buffer
          Align,     \* ALIGN
          MaxSeeks   \* bound: seeks in a behaviour

ASSUME SizesAssumption == Size \in Nat /\ Cap \in Nat \ {0} /\ Align \in Nat \ {0}
ASSUME SeeksAssumption == MaxSeeks \in Nat

VARIABLES
  cur,     \* file_r.off_cur
  bufs,    \* fcache.bufs: [off, len] of each
  idx,     \* fcache.idx: the buffer that is replaced next
  eof,     \* file_r.eof
  res,     \* result of the last call: "none", "DATA", "DONE", "ERR"
  asked,   \* the offset the last call was for
  out,     \* data_out of the last call: [off, len]
  seeks    \* seeks so far

vars == <<cur, bufs, idx, eof, res, asked, out, seeks>>

\* A buffer that was never filled has the offset (uint64)-1.
Init ==
  /\ cur = 0 /\ bufs = [i \in 0..1 |-> [off |-> -1, len |-> 0]] /\ idx = 0
  /\ eof = FALSE /\ res = "none" /\ asked = 0 /\ out = [off |-> 0, len |-> 0]
  /\ seeks = 0

Less(a, b) == IF a < b THEN a ELSE b
AlignFloor(o) == (o \div Align) * Align

\* fcache_find
Holds(b, o) == o >= b.off /\ o < b.off + b.len
Hits(o) == {i \in 0..1 : Holds(bufs[i], o)}
FirstHit(o) == CHOOSE i \in Hits(o) : \A j \in Hits(o) : i <= j

\* fffile_readat of Cap bytes at o
ReadAt(o) == [off |-> o, len |-> IF o < Size THEN Less(Cap, Size - o) ELSE 0]

\* Mutant: what precedes the offset is handed on too.
DoneFromStart(o, b) ==
  LET skip == Less(b.len, o - b.off)
      left == b.len - skip
  IN /\ cur' = b.off + b.len
     /\ out' = [off |-> b.off, len |-> b.len]
     /\ res' = IF eof /\ left = 0 THEN "DONE" ELSE "DATA"
     /\ eof' = (left = 0)

\* fr_process, label done: buffer b is handed on from offset o; the second
\* empty result in a row is the end.
Done(o, b) ==
  LET skip == Less(b.len, o - b.off)
      left == b.len - skip
  IN /\ cur' = b.off + b.len
     /\ out' = [off |-> b.off + skip, len |-> left]
     /\ res' = IF eof /\ left = 0 THEN "DONE" ELSE "DATA"
     /\ eof' = (left = 0)

\* The offset of this call: a pending seek comes first.
Asked(seek) == IF seek >= 0 THEN seek ELSE cur

Seeks(seek) == /\ seek >= 0 => seeks < MaxSeeks
               /\ seeks' = IF seek >= 0 THEN seeks + 1 ELSE seeks

Runs == res \notin {"DONE", "ERR"}

\* fr_process from the cache ...
CacheHit(seek) ==
  LET o == Asked(seek)
  IN /\ Runs /\ Seeks(seek) /\ Hits(o) # {}
     /\ asked' = o /\ Done(o, bufs[FirstHit(o)])
     /\ UNCHANGED <<bufs, idx>>


\* ... or from the file.
CacheMiss(seek) ==
  LET o == Asked(seek)
      b == ReadAt(AlignFloor(o))
  IN /\ Runs /\ Seeks(seek) /\ Hits(o) = {}
     /\ bufs' = [bufs EXCEPT ![idx] = b] /\ idx' = (idx + 1) % 2
     /\ asked' = o /\ Done(o, b)

\* The read fails.
ReadFails(seek) ==
  /\ Runs /\ Seeks(seek) /\ Hits(Asked(seek)) = {}
  /\ asked' = Asked(seek) /\ cur' = Asked(seek)
  /\ idx' = (idx + 1) % 2 /\ res' = "ERR"
  /\ UNCHANGED <<bufs, eof, out>>

Finished == ~Runs /\ UNCHANGED vars

\* Bound: seeks go up to two bytes behind the end.
Process == \E seek \in -1..(Size + 2) : CacheHit(seek) \/ CacheMiss(seek)

Next == Process \/ (\E seek \in -1..(Size + 2) : ReadFails(seek)) \/ Finished

\* The track calls the filter until it is done.
Spec == Init /\ [][Next]_vars

-----------------------------------------------------------------------------
(* Properties.                                                             *)

TypeOK ==
  /\ cur \in Nat /\ asked \in Nat /\ seeks \in 0..MaxSeeks
  /\ bufs \in [0..1 -> [off : {-1} \union Nat, len : 0..Cap]]
  /\ idx \in 0..1 /\ eof \in BOOLEAN
  /\ res \in {"none", "DATA", "DONE", "ERR"}
  /\ out \in [off : Nat, len : 0..Cap]

\* Whatever is in the cache and wherever the last read began, a call hands on
\* the bytes from the offset it was asked for, all of them bytes of the file,
\* and at least one while there is one; the next call continues there.
ReadsFromAsked ==
  res = "DATA" /\ asked < Size =>
    out.off = asked /\ out.len > 0 /\ out.off + out.len <= Size
    /\ cur = out.off + out.len

\* The filter says that the file is over only at its end.
DoneAtEnd == res = "DONE" => asked >= Size

\* fr_process hands on what was asked for, and ends at the end of the file.
ReadsRight == ReadsFromAsked /\ DoneAtEnd

=============================================================================
