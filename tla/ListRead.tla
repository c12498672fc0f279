------------------------------ MODULE ListRead ------------------------------
(***************************************************************************)
(* Expanding an entry of the play queue into the entries it stands for:    *)
(* list/m3u-read.h, list/pls-read.c, list/cue-read.c, list/entry.h,        *)
(* core/dir-read.c with the cursor of util/fntree.h, and writing a list,   *)
(* list/m3u-write.h.                                                       *)
(*                                                                         *)
(* The parsers (avpack) are external: a file is the sequence of results    *)
(* they report.  It reaches the reader in pieces cut anywhere; a value     *)
(* points into the piece and is gone with it unless it is copied.          *)
(***************************************************************************)
EXTENDS Integers, Sequences, FiniteSets

LOCAL INSTANCE SequencesExt

CONSTANTS
  AbsoluteNames,  \* absolute names and URLs
  Cases,     \* what may be expanded: see ExpandInit
  MaxDepth   \* levels of directories the cursor's stack has room for

ListAssumptions == MaxDepth \in Nat

VARIABLES
  job,   \* the case, and the results the parser has not reported yet
  rd,    \* the reader: list, place in it, and the object of the filter
  cur,   \* dir-read: the cursor and the scanned directories
  pc     \* "read", "done", "stopped", "failed"

listVars == <<job, rd, cur, pc>>

Self == [name |-> <<"self">>, msec |-> 0, meta |-> <<>>, from |-> 0, to |-> 0]
Before == [Self EXCEPT !.name = <<"before">>]
After == [Self EXCEPT !.name = <<"after">>]
Garbage == "garbage"   \* bytes of a piece that is gone
NoIndex == -1

-----------------------------------------------------------------------------
(* The files.  A playlist is described by its entries, a cue sheet by its  *)
(* tracks; the parsers report them piecemeal.                              *)

\* m3uread_process: "#EXTINF:" gives duration, artist and title.
M3uResults(ents) ==
  FlattenSeq([i \in 1..Len(ents) |->
    LET e == ents[i]
    IN (IF e.sec = -2 THEN <<>> ELSE <<[t |-> "DURATION", v |-> e.sec]>>)
       \o (IF e.artist = "" THEN <<>> ELSE <<[t |-> "ARTIST", v |-> e.artist]>>)
       \o (IF e.title = "" THEN <<>> ELSE <<[t |-> "TITLE", v |-> e.title]>>)
       \o (IF e.bad THEN <<[t |-> "WARN", v |-> ""]>> ELSE <<>>)
       \o <<[t |-> "URL", v |-> e.url]>>])

\* plsread_process: the number of the entry comes with each line.
PlsResults(ents) ==
  FlattenSeq([i \in 1..Len(ents) |->
    LET e == ents[i]
        res == <<[t |-> "URL", i |-> i, v |-> e.url]>>
                 \o (IF e.title = "" THEN <<>> ELSE <<[t |-> "TITLE", i |-> i, v |-> e.title]>>)
                 \o (IF e.sec = -2 THEN <<>> ELSE <<[t |-> "DURATION", i |-> i, v |-> e.sec]>>)
    IN IF e.bad THEN <<[t |-> "WARN", i |-> i, v |-> ""]>> \o res ELSE res])

\* cueread_process
CueResults(sheet) ==
  <<[t |-> "PERFORMER", v |-> sheet.artist], [t |-> "REM_NAME", v |-> "genre"],
    [t |-> "REM_VAL", v |-> "g"], [t |-> "FILE", v |-> sheet.file]>>
  \o FlattenSeq([i \in 1..Len(sheet.tracks) |->
       LET k == sheet.tracks[i]
       IN <<[t |-> "TRK_NUM", v |-> i], [t |-> "TRK_TITLE", v |-> k.title]>>
          \o (IF k.artist = "" THEN <<>> ELSE <<[t |-> "TRK_PERFORMER", v |-> k.artist]>>)
          \o (IF k.i00 = NoIndex THEN <<>> ELSE <<[t |-> "INDEX00", v |-> k.i00]>>)
          \o [j \in 1..Len(k.idx) |-> [t |-> "INDEX", v |-> k.idx[j]]]])

\* plist_fullname: a relative name is taken from the list's directory.
PlistFullname(url) == IF url \in AbsoluteNames THEN <<url>> ELSE <<"dir", url>>

-----------------------------------------------------------------------------
(* The list: r.list, and r.at, the place of the entry qu_cur points to.    *)

PosOf(list, e) == CHOOSE i \in 1..Len(list) : list[i] = e

\* queue->insert behind qu_cur, and the first time queue->remove of the entry
\* that is expanded.
AddEntry(r, e) ==
  LET l == InsertAt(r.list, r.at + 1, e)
      s == PosOf(l, Self)
  IN IF r.removed THEN [r EXCEPT !.list = l, !.at = @ + 1]
     ELSE [r EXCEPT !.list = RemoveAt(l, s), !.at = @, !.removed = TRUE]

\* The fields of a pls_entry, ffvec: the value, whether it is on the heap,
\* and whether the vector's capacity says so.
Field0 == [v |-> "", heap |-> FALSE, cap |-> FALSE]
SetField(f, v) == [f EXCEPT !.v = v, !.heap = FALSE]
PlsEntry0 == [url |-> Field0, artist |-> Field0, title |-> Field0]

\* _ffvec_copyself
CopySelf(f) == IF ~f.cap /\ f.v # "" THEN [f EXCEPT !.heap = TRUE, !.cap = TRUE] ELSE f

\* The piece of the file goes, and with it what points into it.
Lost(f) == IF f.heap \/ f.v = "" THEN f ELSE [f EXCEPT !.v = Garbage]

\* pls_entry_free: what is freed must be on the heap.
PlsEntryFree(r) ==
  [r EXCEPT !.ub = @ \/ \E f \in {r.ent.url, r.ent.artist, r.ent.title} : f.cap /\ ~f.heap,
            !.ent = PlsEntry0, !.sec = -1]

Meta(name, f) == IF f.v = "" THEN <<>> ELSE <<<<name, f.v>>>>

\* m3u_add, pls_add: the user's meta data is not mixed with the file's.
PlsAdd(r) ==
  LET e == [name |-> PlistFullname(r.ent.url.v),
            msec |-> IF r.sec = -1 THEN 0 ELSE r.sec * 1000,
            meta |-> IF r.user # <<>> THEN r.user
                     ELSE Meta("artist", r.ent.artist) \o Meta("title", r.ent.title),
            from |-> 0, to |-> 0]
  IN PlsEntryFree(AddEntry(r, e))

\* m3u_process: one result.
M3uResult(r, res) ==
  CASE res.t = "ARTIST" -> [r EXCEPT !.ent.artist = SetField(@, res.v)]
    [] res.t = "TITLE" -> [r EXCEPT !.ent.title = SetField(@, res.v)]
    [] res.t = "DURATION" -> [r EXCEPT !.sec = res.v]
    [] res.t = "URL" -> PlsAdd([r EXCEPT !.ent.url = SetField(@, res.v)])
    [] res.t = "WARN" -> r

\* pls_process: one result.  An entry is added when the number changes; the
\* number is a local variable and is forgotten between calls.
PlsResult(r, res) ==
  LET known == r.idx # NoIndex
      commit == known /\ res.i # r.idx
      n == [r EXCEPT !.idx = res.i]
      a == IF commit /\ n.ent.url.v # "" THEN PlsAdd(n) ELSE n
  IN CASE res.t = "WARN" -> r
       [] res.t = "URL" -> [a EXCEPT !.ent.url = SetField(@, res.v)]
       [] res.t = "TITLE" -> [a EXCEPT !.ent.title = SetField(@, res.v)]
       [] res.t = "DURATION" -> [a EXCEPT !.sec = res.v]

-----------------------------------------------------------------------------
(* list/cue-read.c                                                         *)

\* Mutant: a pregap that is skipped is left to the previous track.
CueIndex00Kept(c, val) ==
  IF c.first THEN [c EXCEPT !.from = IF c.gap \in {"PREV1", "CURR"} THEN val ELSE @]
  ELSE IF c.gap = "CURR" THEN [c EXCEPT !.trk = [from |-> c.from, to |-> val], !.from = val]
  ELSE c

\* ffcue_index, CUEREAD_TRK_INDEX00
CueIndex00(c, val) ==
  IF c.first THEN [c EXCEPT !.from = IF c.gap \in {"PREV1", "CURR"} THEN val ELSE @]
  ELSE CASE c.gap = "SKIP" -> [c EXCEPT !.trk.to = val]
         [] c.gap = "CURR" -> [c EXCEPT !.trk = [from |-> c.from, to |-> val], !.from = val]
         [] OTHER -> c

\* ffcue_index, CUEREAD_TRK_INDEX: trk is complete now, or not yet.
CueIndex(c, val) ==
  IF c.first THEN [c EXCEPT !.first = FALSE, !.from = IF @ = NoIndex THEN val ELSE @]
  ELSE IF c.next THEN c
  ELSE LET f == IF c.trk.from = NoIndex
                THEN [c EXCEPT !.trk.from = c.from, !.from = val] ELSE c
       IN [f EXCEPT !.trk.to = IF @ = NoIndex THEN val ELSE @, !.next = TRUE, !.ready = TRUE]

\* ffcue_index
FfcueIndex(c, res) ==
  CASE res.t = "FILE" -> [c EXCEPT !.from = NoIndex, !.first = TRUE]
    [] res.t = "TRK_NUM" -> [c EXCEPT !.trk = [from |-> NoIndex, to |-> NoIndex], !.next = FALSE]
    [] res.t = "INDEX00" -> CueIndex00(c, res.v)
    [] res.t = "INDEX" -> CueIndex(c, res.v)
    [] res.t = "END" -> [c EXCEPT !.trk = [from |-> c.from, to |-> 0], !.ready = TRUE]
    [] OTHER -> c

\* cue_meta_find
CueMetaFind(metas, name) == \E i \in 1..Len(metas) : metas[i][1] = name

\* add: the sheet's meta data that the track does not set, then the track's.
CueAdd(r) ==
  LET trk == SubSeq(r.metas, 1, r.nmeta)
      glob == SelectSeq(r.gmetas, LAMBDA m : ~CueMetaFind(trk, m[1]))
      k == r.cu.trk
  IN AddEntry(r, [name |-> PlistFullname(r.file),
                  msec |-> IF k.to = 0 THEN 0 ELSE ((k.to - k.from) * 1000) \div 75,
                  meta |-> r.user \o glob \o trk, from |-> k.from, to |-> k.to])

\* cue_process from add: on: the track is counted, selected or not, checked
\* and added, and its meta data dropped.
CueTrack(r) ==
  LET n == [r EXCEPT !.curtrk = @ + 1, !.cu.ready = FALSE]
      chosen == r.tracks = {} \/ n.curtrk \in r.tracks
      last == r.tracks # {} /\ chosen /\ \A k \in r.tracks : k <= n.curtrk
      d == [n EXCEPT !.over = @ \/ last]
      k == r.cu.trk
      next == [(IF chosen THEN CueAdd(d) ELSE d)
                 EXCEPT !.metas = SubSeq(r.metas, r.nmeta + 1, Len(r.metas))]
  IN IF chosen /\ k.to # 0 /\ k.from >= k.to THEN d ELSE [next EXCEPT !.nmeta = Len(next.metas)]

\* The name under which a result is kept as meta data.
CueNames == [TITLE |-> "album", TRK_NUM |-> "tracknumber", TRK_TITLE |-> "title",
             TRK_PERFORMER |-> "artist", PERFORMER |-> "artist"]

\* cue_process: one result.  A name and a value of REM are two vectors; here
\* the value completes the pair.
CueResult(r, res) ==
  LET b == CASE res.t \in DOMAIN CueNames ->
                  [r EXCEPT !.nmeta = IF res.t = "TRK_NUM" THEN Len(r.metas) ELSE @,
                            !.metas = Append(@, <<CueNames[res.t], res.v>>)]
             [] res.t = "REM_NAME" -> [r EXCEPT !.rem = res.v]
             [] res.t = "REM_VAL" -> [r EXCEPT !.metas = Append(@, <<r.rem, res.v>>)]
             [] res.t = "FILE" ->
                  [r EXCEPT !.gmetas = IF r.havegmeta THEN @ ELSE r.metas,
                            !.metas = IF r.havegmeta THEN @ ELSE <<>>,
                            !.havegmeta = TRUE, !.file = res.v]
             [] res.t = "END" -> [r EXCEPT !.nmeta = Len(r.metas), !.over = TRUE]
             [] OTHER -> r
      i == [b EXCEPT !.cu = FfcueIndex(@, res)]
  IN IF r.over THEN r ELSE IF i.cu.ready THEN CueTrack(i) ELSE i

-----------------------------------------------------------------------------
(* The readers as filters: one call per piece.                             *)

\* The results of a piece in turn.
Results(r, kind, results) ==
  CASE kind = "m3u" -> FoldLeft(M3uResult, r, results)
    [] kind = "pls" -> FoldLeft(PlsResult, [r EXCEPT !.idx = NoIndex], results)
    [] kind = "cue" -> FoldLeft(CueResult, r, results)

\* M3UREAD_MORE, PLSREAD_MORE, CUEREAD_MORE with more to come: what the entry
\* needs of the piece is copied.
More(r, kind) ==
  LET keep == CASE kind = "m3u" -> {"artist", "title"}
                [] kind = "pls" -> {"url", "title"}
                [] kind = "cue" -> {}
  IN [r EXCEPT !.ent = [f \in DOMAIN @ |-> Lost(IF f \in keep THEN CopySelf(@[f]) ELSE @[f])]]

\* The end of the file: the last entry of pls and the last track of cue.
Finish(r, kind) ==
  CASE kind = "m3u" -> r
    [] kind = "pls" -> IF r.ent.url.v # "" THEN PlsAdd(r) ELSE r
    [] kind = "cue" -> CueResult(r, [t |-> "END", v |-> 0])

\* m3u_close, pls_close, cue_close
Close(r, kind) ==
  LET f == IF kind \in {"m3u", "pls"} THEN PlsEntryFree(r) ELSE r
  IN IF kind = "m3u" /\ ~r.removed
     THEN [f EXCEPT !.list = RemoveAt(@, PosOf(@, Self))] ELSE f

IsFile == job.kind \in {"m3u", "pls", "cue"}

\* m3u_process, pls_process, cue_process with n results in the piece.
Process(n, last) ==
  LET r == Results(rd, job.kind, SubSeq(job.rest, 1, n))
      over == last \/ r.over
      f == IF last THEN Finish(r, job.kind) ELSE r
  IN /\ pc = "read" /\ IsFile
     /\ n <= Len(job.rest) /\ (last => n = Len(job.rest)) /\ (~last => n > 0)
     /\ job' = [job EXCEPT !.rest = SubSeq(@, n + 1, Len(@)), !.calls = @ + 1]
     /\ rd' = IF over THEN Close(f, job.kind) ELSE More(r, job.kind)
     /\ pc' = IF over THEN "done" ELSE "read"
     /\ UNCHANGED cur

\* The track is stopped, or the file cannot be read on.
Abort ==
  /\ pc = "read" /\ IsFile
  /\ rd' = Close(rd, job.kind)
  /\ pc' = "stopped"
  /\ UNCHANGED <<job, cur>>

-----------------------------------------------------------------------------
(* core/dir-read.c.  A directory tree: t.kids[d] is what the scan of       *)
(* directory d finds, sorted; an entry with t.kids[e] = NoDir is a file.   *)
(* cur: block and place of the cursor (0: none), its stack, the            *)
(* directories whose content is attached, and whether the block is scanned *)
(* a second time.                                                          *)

NoDir == <<0>>
IsDir(t, e) == t.kids[e] # NoDir

\* file_matches
FileMatches(t, e) ==
  (IsDir(t, e) \/ t.include = {} \/ e \in t.include) /\ e \notin t.exclude

\* dir_open, fntree_from_dirscan of the root
DirOpens ==
  /\ pc = "read" /\ job.kind = "dir" /\ cur.blk = 0
  /\ IF 1 \in job.tree.unreadable
     THEN pc' = "failed" /\ UNCHANGED cur
     ELSE pc' = pc /\ cur' = [cur EXCEPT !.blk = 1]
  /\ UNCHANGED <<job, rd>>

Walking == pc = "read" /\ job.kind = "dir" /\ cur.blk # 0

\* fntree_cur_next
CurNext == IF cur.at < Len(job.tree.kids[cur.blk]) THEN cur.at + 1 ELSE 0
CurEntry == job.tree.kids[cur.blk][CurNext]

\* fntree_cur_next_r_ctx, step 1, and the rest of qu_add_dir_r's loop: the
\* next entry of this directory is a file to add or a directory to attach.
DirEntry ==
  LET t == job.tree
      e == CurEntry
      taken == e \notin t.unreadable /\ FileMatches(t, e)
  IN /\ Walking /\ ~cur.again /\ CurNext # 0
     /\ cur' = [cur EXCEPT !.at = CurNext,
                           !.attached = IF taken /\ IsDir(t, e) THEN @ \union {e} ELSE @]
     /\ rd' = IF taken /\ ~IsDir(t, e) THEN AddEntry(rd, [Self EXCEPT !.name = <<"f", e>>]) ELSE rd
     /\ UNCHANGED <<job, pc>>

\* Step 2: the directory is scanned again for subdirectories.
DirAgain ==
  /\ Walking /\ ~cur.again /\ CurNext = 0
  /\ cur' = [cur EXCEPT !.at = 0, !.again = TRUE]
  /\ UNCHANGED <<job, rd, pc>>

\* _fntr_cur_push
CurPush(e) ==
  [cur EXCEPT !.stk = Append(@, [blk |-> cur.blk, at |-> CurNext]),
              !.blk = e, !.at = 0, !.again = FALSE]

\* Step 3: into the subdirectory.  With a full stack _fntr_cur_push returns
\* NULL, which is used as a block.
DirDown ==
  /\ Walking /\ cur.again /\ CurNext # 0
  /\ IF CurEntry \notin cur.attached
     THEN cur' = [cur EXCEPT !.at = CurNext] /\ UNCHANGED rd
     ELSE IF Len(cur.stk) < MaxDepth
          THEN cur' = CurPush(CurEntry) /\ UNCHANGED rd
          ELSE rd' = [rd EXCEPT !.ub = TRUE] /\ UNCHANGED cur
  /\ pc' = IF rd'.ub THEN "failed" ELSE pc
  /\ UNCHANGED job

\* Step 4, _fntr_cur_pop: back to the directory above; step 5: the end.
DirUp ==
  /\ Walking /\ cur.again /\ CurNext = 0
  /\ IF cur.stk = <<>>
     THEN pc' = "done" /\ UNCHANGED cur
     ELSE /\ cur' = [cur EXCEPT !.blk = Last(cur.stk).blk, !.at = Last(cur.stk).at,
                                !.stk = Front(@)]
          /\ UNCHANGED pc
  /\ UNCHANGED <<job, rd>>

-----------------------------------------------------------------------------
(* Writing a list, list/m3u-write.h, and q_save.                           *)

\* m3uw_process: the entries of a list as the entries of a file; m3uwrite
\* writes them in the form m3uread reads.
M3uwProcess(list) ==
  LET val(e, n) == IF CueMetaFind(e.meta, n)
                   THEN (CHOOSE i \in 1..Len(e.meta) : e.meta[i][1] = n /\ \A j \in 1..(i - 1) :
                           e.meta[j][1] # n) ELSE 0
      str(e, n) == IF val(e, n) = 0 THEN "" ELSE e.meta[val(e, n)][2]
  IN [i \in 1..Len(list) |->
        LET e == list[i]
        IN [url |-> Last(e.name),
            sec |-> IF e.msec = 0 THEN -1 ELSE e.msec \div 1000,
            artist |-> str(e, "artist"), title |-> str(e, "title"), bad |-> FALSE]]

-----------------------------------------------------------------------------

\* A case: kind, the entries or the sheet or the tree, the user's meta data,
\* the gap mode and the chosen tracks.  A saved list is read as m3u.
ExpandInit ==
  /\ \E k \in Cases :
       /\ job = [kind |-> IF k.kind = "saved" THEN "m3u" ELSE k.kind,
                 what |-> IF k.kind = "saved" THEN M3uwProcess(k.what) ELSE k.what, calls |-> 0,
                 rest |-> CASE k.kind = "m3u" -> M3uResults(k.what)
                            [] k.kind = "saved" -> M3uResults(M3uwProcess(k.what))
                            [] k.kind = "pls" -> PlsResults(k.what)
                            [] k.kind = "cue" -> CueResults(k.what)
                            [] k.kind = "dir" -> <<>>,
                 tree |-> IF k.kind = "dir" THEN k.what ELSE <<>>]
       /\ rd = [list |-> <<Before, Self, After>>, at |-> 2, removed |-> FALSE, ub |-> FALSE,
                user |-> k.user, ent |-> PlsEntry0, sec |-> 0, idx |-> NoIndex,
                gmetas |-> <<>>, metas |-> <<>>, nmeta |-> 0, rem |-> "", havegmeta |-> FALSE,
                file |-> "", curtrk |-> 0, tracks |-> k.tracks, over |-> FALSE,
                cu |-> [gap |-> k.gap, from |-> 0, first |-> FALSE, next |-> FALSE,
                        ready |-> FALSE, trk |-> [from |-> 0, to |-> 0]]]
  /\ cur = [blk |-> 0, at |-> 0, stk |-> <<>>, attached |-> {}, again |-> FALSE]
  /\ pc = "read"

ExpandOver == pc # "read" /\ UNCHANGED listVars

ExpandNext ==
  \/ \E n \in 0..Len(job.rest), last \in BOOLEAN : Process(n, last)
  \/ Abort
  \/ DirOpens \/ DirEntry \/ DirAgain \/ DirDown \/ DirUp
  \/ ExpandOver

-----------------------------------------------------------------------------
(* Properties.                                                             *)

\* The entries of rd.list between Before and After.
Added == SelectSeq(SubSeq(rd.list, 2, Len(rd.list) - 1), LAMBDA e : e # Self)

\* What is added stands where the expanded entry stood; that entry is there
\* as long as nothing was added.
InPlace ==
  /\ rd.list[1] = Before /\ Last(rd.list) = After
  /\ (Added # <<>> => \A i \in 1..Len(rd.list) : rd.list[i] # Self)
  /\ (Added = <<>> /\ pc = "read" => rd.list[2] = Self)

\* The entry a description of a playlist's entry asks for.
Described(e) ==
  [name |-> PlistFullname(e.url),
   msec |-> IF e.sec < 0 THEN 0 ELSE e.sec * 1000,
   meta |-> IF rd.user # <<>> THEN rd.user
            ELSE (IF e.artist = "" \/ job.kind = "pls" THEN <<>> ELSE <<<<"artist", e.artist>>>>)
                 \o (IF e.title = "" THEN <<>> ELSE <<<<"title", e.title>>>>),
   from |-> 0, to |-> 0]

\* m3u_process, pls_process: whatever pieces an m3u file comes in, and
\* wherever the reading is broken off, the list has the file's first entries,
\* in order, in place of the playlist, each with its own name, length and
\* title and nothing of a piece that is gone; at the end it has all of them.
\* A pls file is read correctly if it comes in one piece.
PlaylistListed ==
  job.kind = "m3u" \/ (job.kind = "pls" /\ job.calls <= 1) =>
    LET want == [i \in 1..Len(job.what) |-> Described(job.what[i])]
    IN /\ ~rd.ub /\ InPlace
       /\ IsPrefix(Added, want)
       /\ pc = "done" => Added = want
       /\ pc # "read" /\ job.kind = "m3u" => \A i \in 1..Len(rd.list) : rd.list[i] # Self

\* Where track i of a sheet begins and ends in each mode (phiola.h).
CueFrom(k, i, gap) ==
  IF k[i].i00 # NoIndex /\ (gap = "CURR" \/ (gap = "PREV1" /\ i = 1))
  THEN k[i].i00 ELSE k[i].idx[1]
CueTo(k, i, gap) ==
  IF i = Len(k) THEN 0
  ELSE IF k[i + 1].i00 # NoIndex /\ gap \in {"CURR", "SKIP"} THEN k[i + 1].i00
  ELSE k[i + 1].idx[1]

\* ffcue_index, cue_process: each track of a cue sheet that was asked for is
\* added once, with the bounds its pregap mode gives it, its own meta data and
\* the sheet's where it has none, however the file is cut.
CueTracks ==
  job.kind = "cue" =>
    LET k == job.what.tracks
        sel == SelectSeq([i \in 1..Len(k) |-> i], LAMBDA i : rd.tracks = {} \/ i \in rd.tracks)
        want == [j \in 1..Len(sel) |->
                   LET i == sel[j]
                       f == CueFrom(k, i, rd.cu.gap)
                       t == CueTo(k, i, rd.cu.gap)
                       own == <<<<"tracknumber", i>>, <<"title", k[i].title>>>>
                   IN [name |-> PlistFullname(job.what.file),
                       msec |-> IF t = 0 THEN 0 ELSE ((t - f) * 1000) \div 75,
                       meta |-> rd.user
                         \o (IF k[i].artist = "" THEN <<<<"artist", job.what.artist>>>> ELSE <<>>)
                         \o <<<<"genre", "g">>>> \o own
                         \o (IF k[i].artist = "" THEN <<>> ELSE <<<<"artist", k[i].artist>>>>),
                       from |-> f, to |-> t]]
    IN /\ InPlace /\ IsPrefix(Added, want)
       /\ pc = "done" => Added = want

\* The files below directory d in the order the cursor's comment gives: those
\* of a directory before those of its subdirectories.
FilesBelow ==
  LET t == job.tree
      ok(e) == e \notin t.unreadable /\ e \notin t.exclude
      below[d \in DOMAIN t.kids] ==
        IF t.kids[d] = NoDir THEN <<>>
        ELSE SelectSeq(t.kids[d], LAMBDA e : ~IsDir(t, e) /\ ok(e)
                                             /\ (t.include = {} \/ e \in t.include))
             \o FlattenSeq([i \in 1..Len(t.kids[d]) |->
                  IF ok(t.kids[d][i]) THEN below[t.kids[d][i]] ELSE <<>>])
  IN below[1]

\* qu_add_dir_r, fntree_cur_next_r_ctx: every file of the tree that can be
\* read and is not filtered out is added once, in that order, up to the
\* deepest level the stack has room for; an excluded directory is left out
\* with all that it holds.
DirListed ==
  job.kind = "dir" =>
    LET want == [i \in 1..Len(FilesBelow) |-> [Self EXCEPT !.name = <<"f", FilesBelow[i]>>]]
    IN /\ ~rd.ub /\ InPlace
       /\ IF pc = "done" THEN Added = want
          ELSE pc # "failed" => IsPrefix(Added, want)

=============================================================================
