----------------------------- MODULE FileWrite -----------------------------
(***************************************************************************)
(* The file-write filter: core/file-write.h with the write buffer of        *)
(* util/fcache.h (fbuf_write).                                              *)
(*                                                                          *)
(* The filter gathers writes in one buffer; a seek, an overlap or a full    *)
(* buffer makes it pass the buffer to the kernel.  A file is a function     *)
(* from 0..n-1 to bytes; the bytes are told apart by when they were sent.   *)
(* Any write may fail, and the track may end at any moment without          *)
(* PHI_FFIRST, which aborts the file.                                       *)
(***************************************************************************)
EXTENDS Integers, Sequences

CONSTANTS WCap,       \* buf_cap
          MaxIn,      \* bound: bytes of one data_in
          MaxSize,    \* bound: size of a file
          MaxCalls,   \* bound: calls of fw_process in one session
          Sessions    \* bound: tracks that write the same file, one by one

WriteAssumptions ==
  /\ WCap \in Nat \ {0} /\ MaxIn \in Nat /\ MaxSize \in Nat
  /\ MaxCalls \in Nat /\ Sessions \in Nat

VARIABLES
  conf,    \* conf.ofile of the track: tmp is name_tmp, over is overwrite
  disk,    \* the directory: a file or Absent under each name
  pc,      \* "closed", "open": between calls, "loop": in fw_process,
           \* "failed": it returned PHI_ERR
  off,     \* fw_process: the file offset of what is left of data_in
  wcur,    \* file_w.off_cur
  inp,     \* fw_process: what is left of data_in
  first,   \* PHI_FFIRST
  buf,     \* file_w.wbuf: offset and bytes
  size,    \* file_w.size
  fin,     \* file_w.fin
  calls,   \* calls of fw_process in this session
  n,       \* sessions so far
  want,    \* history: the file the track asked for
  old      \* history: the file under the final name when the track started

local == <<off, wcur, inp, first>>
writeVars == <<conf, disk, pc, off, wcur, inp, first, buf, size, fin, calls, n, want, old>>

Absent == <<-1>>
Names == {"name", "tmp"}

\* A file that is there already; the one called "tmp" was left by a track
\* that was aborted.
Old == <<-2, -2>>

\* The name that is opened, and so the file fd refers to.
Target == IF conf.tmp THEN "tmp" ELSE "name"

\* Byte i of the data of call k; 0 is the byte of a hole.
Byte(k, i) == k * (MaxIn + 1) + i

\* Bytes written to file f at offset o (pwrite, and memcpy into the buffer).
Larger(a, b) == IF a > b THEN a ELSE b
Smaller(a, b) == IF a < b THEN a ELSE b
Put(f, o, bytes) ==
  [i \in 1..(IF bytes = <<>> THEN Len(f) ELSE Larger(Len(f), o + Len(bytes))) |->
     IF i > o /\ i <= o + Len(bytes) THEN bytes[i - o]
     ELSE IF i <= Len(f) THEN f[i] ELSE 0]

\* ftruncate
Trunc(f, len) == [i \in 1..len |-> IF i <= Len(f) THEN f[i] ELSE 0]

NoBuf == [off |-> 0, data |-> <<>>]

WriteInit ==
  /\ conf = [tmp |-> FALSE, over |-> FALSE]
  /\ disk \in [Names -> {Absent, Old}]
  /\ pc = "closed" /\ off = 0 /\ wcur = 0 /\ inp = <<>> /\ first = FALSE
  /\ buf = NoBuf /\ size = 0 /\ fin = FALSE /\ calls = 0 /\ n = 0
  /\ want = <<>> /\ old = disk["name"]

-----------------------------------------------------------------------------

\* fw_open.  With name_tmp the final name is looked at first; CREATENEW fails
\* for a file that exists; a file that is opened is not truncated.
Open(tmp, over) ==
  LET target == IF tmp THEN "tmp" ELSE "name"
  IN /\ pc = "closed" /\ n < Sessions
     /\ n' = n + 1
     /\ conf' = [tmp |-> tmp, over |-> over]
     /\ old' = disk["name"]
     /\ IF ~over /\ (disk["name"] # Absent \/ disk[target] # Absent)
        THEN /\ fin' = FALSE
             /\ UNCHANGED <<disk, pc, wcur, buf, size, calls, want>>
        ELSE /\ disk' = [disk EXCEPT ![target] = IF @ = Absent THEN <<>> ELSE @]
             /\ pc' = "open" /\ wcur' = 0 /\ buf' = NoBuf /\ size' = 0
             /\ fin' = FALSE /\ calls' = 0 /\ want' = <<>>
     /\ UNCHANGED <<off, inp, first>>

\* fw_process is called with len bytes, at an offset (output.seek) or where
\* the last call ended (seek = -1).  The formats seek back, to complete a
\* header, or to the end.
Call(seek, len, last) ==
  LET o == IF seek >= 0 THEN seek ELSE wcur
      bytes == [i \in 1..len |-> Byte(calls + 1, i)]
  IN /\ pc = "open" /\ calls < MaxCalls /\ ~fin
     /\ seek <= Len(want) /\ o + len <= MaxSize
     /\ calls' = calls + 1
     /\ off' = o /\ inp' = bytes /\ first' = last
     /\ want' = Put(want, o, bytes)
     /\ pc' = "loop"
     /\ UNCHANGED <<conf, disk, wcur, buf, size, fin, n, old>>

\* Mutant: data beyond the end of the buffer counts as overlapping.
OverlapsGap(b, o) ==
  /\ b.data # <<>>
  /\ o >= b.off /\ o < b.off + WCap

\* fbuf_write: the new data touches the buffered data.
Overlaps(b, o) ==
  /\ b.data # <<>>
  /\ o >= b.off /\ o <= b.off + Len(b.data) /\ o < b.off + WCap

\* How much of the input the buffer takes.
Taken(b, o) ==
  IF Overlaps(b, o) THEN Smaller(Len(inp), WCap - (o - b.off))
  ELSE IF b.data = <<>> /\ WCap >= Len(inp) THEN Len(inp)
  ELSE 0

\* The buffer after fbuf_write.
Filled(b, o) ==
  IF Overlaps(b, o)
  THEN [b EXCEPT !.data = Put(@, o - b.off, SubSeq(inp, 1, Taken(b, o)))]
  ELSE IF b.data = <<>> /\ WCap >= Len(inp) THEN [off |-> o, data |-> inp]
  ELSE b

\* fbuf_write returns -1: the data is in the buffer and stays there.  An
\* overlap that does not make the buffer longer is passed on at once.
Keeps(b, o) ==
  \/ inp = <<>>
  \/ /\ Overlaps(b, o) /\ Len(Filled(b, o).data) > Len(b.data)
     /\ Len(Filled(b, o).data) # WCap
  \/ b.data = <<>> /\ WCap >= Len(inp)

\* fw_write of bytes at o; the file grows, and size with it.
Written(bytes, o) ==
  /\ disk' = [disk EXCEPT ![Target] = Put(@, o, bytes)]
  /\ size' = Larger(size, o + Len(bytes))

\* fw_process, the data is kept: ask for more, or with PHI_FFIRST write what
\* the buffer holds and finish.
Buffered ==
  /\ pc = "loop" /\ Keeps(buf, off)
  /\ LET b == IF inp = <<>> THEN buf ELSE Filled(buf, off)
     IN /\ buf' = b
        /\ IF first
           THEN /\ IF b.data = <<>> THEN UNCHANGED <<disk, size>>
                                    ELSE Written(b.data, b.off)
                /\ fin' = TRUE /\ UNCHANGED wcur
           ELSE /\ wcur' = off + Len(inp)
                /\ UNCHANGED <<disk, size, fin>>
  /\ inp' = <<>> /\ off' = off + Len(inp)
  /\ pc' = "open"
  /\ UNCHANGED <<conf, first, calls, n, want, old>>

\* fw_process, the buffer, or an input larger than the buffer, is passed to
\* the kernel; the loop goes on with the rest.
Flush ==
  LET b == Filled(buf, off)
      direct == buf.data = <<>>
      k == IF direct THEN Len(inp) ELSE Taken(buf, off)
  IN /\ pc = "loop" /\ ~Keeps(buf, off)
     /\ IF direct THEN Written(inp, off) ELSE Written(b.data, b.off)
     /\ buf' = NoBuf
     /\ inp' = SubSeq(inp, k + 1, Len(inp)) /\ off' = off + k
     /\ UNCHANGED <<conf, pc, wcur, first, fin, calls, n, want, old>>

\* fw_close: the file gets its size; an aborted one is removed, by its final
\* name, and a finished one is renamed.
Close ==
  LET d == [disk EXCEPT ![Target] = Trunc(@, size)]
  IN /\ pc \in {"open", "failed"}
     /\ disk' = IF ~fin THEN [d EXCEPT !["name"] = Absent]
                ELSE IF conf.tmp THEN [name |-> d["tmp"], tmp |-> Absent]
                ELSE d
     /\ pc' = "closed"
     /\ UNCHANGED <<conf, local, buf, size, fin, calls, n, want, old>>

\* A write fails (PHI_ERR): the track closes the file.
WriteFails ==
  /\ pc = "loop"
  /\ ~Keeps(buf, off) \/ (first /\ Filled(buf, off).data # <<>>)
  /\ pc' = "failed"
  /\ UNCHANGED <<conf, disk, local, buf, size, fin, calls, n, want, old>>

WriteFinished == pc = "closed" /\ n = Sessions /\ UNCHANGED writeVars

WriteNext ==
  \/ \E tmp, over \in BOOLEAN : Open(tmp, over)
  \/ \E seek \in -1..MaxSize, len \in 0..MaxIn, last \in BOOLEAN : Call(seek, len, last)
  \/ Buffered \/ Flush \/ WriteFails \/ Close \/ WriteFinished

WriteSpec == WriteInit /\ [][WriteNext]_writeVars

-----------------------------------------------------------------------------
(* Properties.                                                             *)

Bytes == {-2, -1} \union 0..Byte(MaxCalls, MaxIn)

WriteTypeOK ==
  /\ conf \in [tmp : BOOLEAN, over : BOOLEAN]
  /\ DOMAIN disk = Names /\ \A f \in Names : disk[f] \in Seq(Bytes)
  /\ pc \in {"closed", "open", "loop", "failed"}
  /\ off \in 0..MaxSize /\ wcur \in 0..MaxSize /\ size \in 0..MaxSize
  /\ inp \in Seq(Bytes) /\ first \in BOOLEAN /\ fin \in BOOLEAN
  /\ buf.off \in 0..MaxSize /\ buf.data \in Seq(Bytes)
  /\ calls \in 0..MaxCalls /\ n \in 0..Sessions

\* The buffer never holds more than it was allocated for.
BufferFits == Len(buf.data) <= WCap

\* Between calls the file, with the buffer laid over it and cut to the size
\* it will have, is what an unbuffered writer would have produced.
BufferedEqualsDirect ==
  pc = "open" /\ ~fin =>
    Trunc(Put(disk[Target], buf.off, buf.data),
          Larger(size, IF buf.data = <<>> THEN 0 ELSE buf.off + Len(buf.data))) = want

\* A finished file has, under its final name, exactly what was written: no
\* byte lost in the buffer, none left of an older and longer file, and no
\* temporary file.
FinishedIsComplete ==
  pc = "closed" /\ fin =>
    disk["name"] = want /\ (conf.tmp => disk["tmp"] = Absent)

\* With name_tmp the file under the final name changes only on completion.
OldKeptUntilDone ==
  conf.tmp /\ ~fin => disk["name"] = old

\* fw_process, fw_close: a file has what an unbuffered writer would have given
\* it, after every call and when it is finished.
WrittenAsAsked == BufferedEqualsDirect /\ FinishedIsComplete

=============================================================================
