------------------------------- MODULE Queue -------------------------------
(***************************************************************************)
(* A playback queue and its entries: queue/qu.c and queue/ent.h with        *)
(* conf.conversion = 0.  Everything here runs on the main worker, one call  *)
(* at a time: calls of the user interface, and the ends of tracks, whose    *)
(* queue-guard filter calls qe_close().                                     *)
(*                                                                          *)
(* The C functions call each other (qe_close -> q_play_next -> q_play ->    *)
(* qe_play -> ...), so each of them is an operator from a queue state to    *)
(* the queue state it leaves; an action applies one of them.  Indices are   *)
(* 0-based; -1 stands for ~0U.                                              *)
(***************************************************************************)
EXTENDS Integers, Sequences, FiniteSets, SequencesExt, TLC

CONSTANTS Entries,     \* q_entry objects; bound: entries created in a behaviour
          Tracks,      \* track objects; bound: tracks that exist at one time
          None,        \* NULL
          Confs        \* the configurations: see ConfType

ASSUME NoneAssumption == None \notin Entries \union Tracks
ASSUME TracksAssumption == IsFiniteSet(Tracks)

\* random and repeat are conf.random and conf.repeat_all; with lists the lists
\* that are added are playlists, read piece by piece (m3u-read), without it
\* directories, read at once (dir-read).
ConfType == [random : BOOLEAN, repeat : BOOLEAN, lists : BOOLEAN]

ASSUME ConfAssumption == Confs \subseteq ConfType

VARIABLES
  q,      \* the queue, its entries and their tracks: see QueueType
  conf,   \* the configuration, which stays as it is
  refs,   \* entries the user interface holds with ref()
  crash   \* q_random divided by zero

vars == <<q, conf, refs, crash>>

\* ent[e]: used is the reference counter, idx the cached index, trk the
\* track that plays or expands the entry, next is play_next_on_close.
NewEntry == [life |-> "none", used |-> 0, idx |-> -1, trk |-> None,
             expand |-> FALSE, next |-> FALSE]

Freed == [NewEntry EXCEPT !.life = "freed"]

\* track[t]: e is the entry (qent), stop says that stop() was called, after
\* is where an expanding track inserts its next entry.
NoTrack == [e |-> None, stop |-> FALSE, after |-> None]

Init ==
  /\ q = [index |-> <<>>, cursor |-> None, cidx |-> 0, active |-> 0,
          split |-> FALSE,
          ent |-> [e \in Entries |-> NewEntry],
          track |-> [t \in Tracks |-> NoTrack]]
  /\ conf \in Confs
  /\ refs = {}
  /\ crash = FALSE

-----------------------------------------------------------------------------
(* Entries and their reference counters.                                   *)

Live(s, e) == e # None /\ s.ent[e].life = "live"
Unused(s) == {e \in Entries : s.ent[e].life = "none"}
FreeTracks(s) == {t \in Tracks : s.track[t].e = None}

\* q_get, q_find
Get(s, i) == IF i < 0 \/ i >= Len(s.index) THEN None ELSE s.index[i + 1]
Find(s, e) == IF Contains(s.index, e)
              THEN (CHOOSE i \in 1..Len(s.index) : s.index[i] = e) - 1 ELSE -1

\* qe_index: the cached index is used while the entry is really there; the
\* result is cached.
Index(s, e) == IF Get(s, s.ent[e].idx) = e THEN s.ent[e].idx ELSE Find(s, e)
Refresh(s, e) == [s EXCEPT !.ent[e].idx = Index(s, e)]

Ref(s, e) == [s EXCEPT !.ent[e].used = @ + 1]

\* qe_unref, qe_free
Unref(s, e) ==
  IF s.ent[e].used = 1
  THEN [s EXCEPT !.ent[e] = Freed,
                 !.cursor = IF @ = e THEN None ELSE @]
  ELSE [s EXCEPT !.ent[e].used = @ - 1]

\* q_insert of a new entry e at position pos
Insert(s, pos, e) ==
  [s EXCEPT !.ent[e] = [NewEntry EXCEPT !.life = "live", !.used = 1, !.idx = pos],
            !.index = InsertAt(@, pos + 1, e)]

\* q_remove_at
RemoveEntry(s, pos) ==
  LET e == Get(s, pos)
      back == s.cidx > 0 /\ (pos < s.cidx \/ (pos = s.cidx /\ pos = Len(s.index) - 1))
  IN IF e = None THEN s
     ELSE Unref([s EXCEPT !.ent[e].idx = -1,
                          !.cidx = IF back THEN @ - 1 ELSE @,
                          !.index = RemoveAt(@, pos + 1)], e)

\* q_clear: the index is emptied, then every entry, which is there once, is
\* marked and released.
Clear(s) ==
  LET listed == {e \in Entries : Contains(s.index, e)}
      Released(r) == IF r.used = 1 THEN Freed ELSE [r EXCEPT !.used = @ - 1, !.idx = -1]
  IN [s EXCEPT !.index = <<>>,
               !.ent = [e \in Entries |-> IF e \in listed THEN Released(@[e]) ELSE @[e]],
               !.cursor = IF @ \in listed /\ s.ent[@].used = 1 THEN None ELSE @]

-----------------------------------------------------------------------------
(* Playing.                                                                *)

\* qe_stop
StopEntry(s, e) ==
  IF e # None /\ s.ent[e].trk # None
  THEN [s EXCEPT !.track[s.ent[e].trk].stop = TRUE] ELSE s

\* Mutant: the track does not count as a user of the entry.
StartTrackNoRef(s, e) ==
  LET t == CHOOSE x \in FreeTracks(s) : TRUE
  IN [s EXCEPT !.track[t] = [e |-> e, stop |-> FALSE, after |-> e],
               !.ent[e].trk = t,
               !.active = @ + 1]

\* qe_play, qe_expand: a track is started for e and holds a reference to it.
StartTrack(s, e) ==
  LET t == CHOOSE x \in FreeTracks(s) : TRUE
  IN [s EXCEPT !.track[t] = [e |-> e, stop |-> FALSE, after |-> e],
               !.ent[e].trk = t, !.ent[e].used = @ + 1,
               !.active = @ + 1]

\* qe_play: an entry that is being expanded is not played; ok says whether
\* the filters could be added.
PlayEntry(s, e, ok) ==
  IF s.ent[e].expand THEN [s EXCEPT !.ent[e].next = TRUE]
  ELSE IF ok THEN StartTrack(s, e) ELSE s

\* Mutant: the current track is not stopped.
PlayNoStop(s, e, ok) ==
  LET s2 == Refresh([s EXCEPT !.cursor = e], e)
  IN PlayEntry([s2 EXCEPT !.cidx = s2.ent[e].idx], e, ok)

\* q_play of a given entry
Play(s, e, ok) ==
  LET s1 == StopEntry(s, s.cursor)
      s2 == Refresh([s1 EXCEPT !.cursor = e], e)
  IN PlayEntry([s2 EXCEPT !.cidx = s2.ent[e].idx], e, ok)

\* q_random: the halves of the list take turns.
RandomIndices(s) ==
  LET n == Len(s.index)
  IN {i \in 0..(n - 1) : n > 1 => (s.split <=> i >= n \div 2)}

\* q_get_index: the positions it may return
Positions(s, i) ==
  IF conf.random THEN RandomIndices(s)
  ELSE IF (i < 0 \/ i >= Len(s.index)) /\ conf.repeat THEN {0} ELSE {i}

\* ... and what it does to the queue.
Turned(s) == IF conf.random /\ Len(s.index) > 1 THEN [s EXCEPT !.split = ~@] ELSE s

\* q_play(q, e) with e the entry at position i, or nothing if there is none
PlayAt(s, i, ok) == IF Get(s, i) = None THEN s ELSE Play(s, Get(s, i), ok)

\* Mutant: the cached index is trusted.
NextPosCached(s) ==
  IF s.cursor = None THEN s.cidx
  ELSE IF s.ent[s.cursor].idx # -1 THEN s.ent[s.cursor].idx + 1 ELSE s.cidx

\* q_play_next: the position asked for.  The cached index is refreshed
\* unless the entry under the cursor has been removed.
NextPos(s) ==
  IF s.cursor = None THEN s.cidx
  ELSE IF s.ent[s.cursor].idx # -1 THEN Index(s, s.cursor) + 1 ELSE s.cidx
NextBase(s) ==
  IF s.cursor # None /\ s.ent[s.cursor].idx # -1 THEN Refresh(s, s.cursor) ELSE s

\* q_play_prev: the cached index is used as it is.
PrevPos(s) ==
  IF s.cursor = None THEN s.cidx
  ELSE IF s.ent[s.cursor].idx # -1 THEN s.ent[s.cursor].idx - 1 ELSE s.cidx

\* With conf.random q_random is called whatever the position.
Divides(s) == conf.random /\ s.index = <<>>

\* The first part of qe_close.
CloseEntry(s, t) ==
  LET e == s.track[t].e
  IN [s EXCEPT !.ent[e].trk = IF @ = t THEN None ELSE @, !.active = @ - 1]

\* The second: the next entry is played unless the track was stopped.
PlaysNext(s, t) ==
  LET e == s.track[t].e
  IN ~s.track[t].stop /\ (~s.ent[e].expand \/ s.ent[e].next)

\* The last: the track is gone; its reference to the entry is dropped when
\* the next one has been started.
DropTrack(s, t) == [s EXCEPT !.track[t] = NoTrack]

-----------------------------------------------------------------------------
(* Calls of the user interface.                                            *)

\* Bound: there is a track object left.
MayStart == FreeTracks(q) # {}

\* q_add: a file, ...
Add(e) ==
  /\ e \in Unused(q)
  /\ q' = Insert(q, Len(q.index), e)
  /\ UNCHANGED <<conf, refs, crash>>

\* ... or a directory or a playlist, for which a track is started at once
\* (qe_expand).
AddList(e) ==
  /\ e \in Unused(q) /\ MayStart
  /\ q' = StartTrack([Insert(q, Len(q.index), e) EXCEPT !.ent[e].expand = TRUE], e)
  /\ UNCHANGED <<conf, refs, crash>>

\* q_remove_at
RemoveAtPos(pos) ==
  /\ q' = RemoveEntry(q, pos)
  /\ UNCHANGED <<conf, refs, crash>>

\* q_clear
ClearAll ==
  /\ q.index # <<>>
  /\ q' = Clear(q)
  /\ UNCHANGED <<conf, refs, crash>>

\* q_sort, sort_random: some permutation; the cached indices are left alone.
Sort ==
  /\ \E p \in Bijection(1..Len(q.index), 1..Len(q.index)) :
       q' = [q EXCEPT !.index = [i \in 1..Len(@) |-> @[p[i]]]]
  /\ UNCHANGED <<conf, refs, crash>>

\* q_ref of the entry at a position, qe_unref.  Bound: one reference.
RefEntry(e) ==
  /\ Contains(q.index, e) /\ refs = {}
  /\ q' = Ref(q, e) /\ refs' = refs \union {e}
  /\ UNCHANGED <<conf, crash>>

UnrefEntry(e) ==
  /\ e \in refs
  /\ q' = Unref(q, e) /\ refs' = refs \ {e}
  /\ UNCHANGED <<conf, crash>>

\* q_play of an entry of the list
PlayThis(e, ok) ==
  /\ Contains(q.index, e) /\ MayStart
  /\ q' = Play(q, e, ok)
  /\ UNCHANGED <<conf, refs, crash>>

\* What q_play_next and its like do with the position they asked for, in
\* state s; then the reference of the track that has just ended, if this is
\* its end, to entry e is dropped.
GoOn(s, i, ok, e) ==
  \/ Divides(s) /\ crash' = TRUE /\ UNCHANGED q
  \/ /\ \E j \in Positions(s, i) :
          LET r == PlayAt(Turned(s), j, ok)
          IN q' = IF e = None THEN r ELSE Unref(r, e)
     /\ UNCHANGED crash

\* q_play(q, NULL)
PlayDefault(ok) ==
  /\ MayStart
  /\ GoOn(q, q.cidx, ok, None)
  /\ UNCHANGED <<conf, refs>>

\* q_play_next
PlayNext(ok) ==
  /\ MayStart
  /\ GoOn(NextBase(q), NextPos(q), ok, None)
  /\ UNCHANGED <<conf, refs>>

\* q_play_prev
PlayPrev(ok) ==
  /\ MayStart
  /\ GoOn(q, PrevPos(q), ok, None)
  /\ UNCHANGED <<conf, refs>>

\* PHI_TRACK_STOP_ALL: every track is told to stop.
StopAll ==
  /\ FreeTracks(q) # Tracks
  /\ q' = [q EXCEPT !.track = [t \in Tracks |->
             IF @[t].e = None THEN @[t] ELSE [@[t] EXCEPT !.stop = TRUE]]]
  /\ UNCHANGED <<conf, refs, crash>>

-----------------------------------------------------------------------------
(* Tracks.                                                                 *)

Expands(t) == q.track[t].e # None /\ q.ent[q.track[t].e].expand

\* qu_add_dir_r, m3u_add: entry n is inserted after the previous one; after
\* the first insertion the expanded entry leaves the list.
Expanded(s, t, n) ==
  LET e == s.track[t].e
      s1 == Refresh(s, s.track[t].after)
      s2 == [Insert(s1, s1.ent[s1.track[t].after].idx + 1, n)
               EXCEPT !.track[t].after = n]
      s3 == Refresh(s2, e)
  IN IF s.track[t].after = e THEN RemoveEntry(s3, s3.ent[e].idx) ELSE s2

\* m3u_process: one entry of a playlist.  The reader's pointer to the entry
\* it inserted last is not counted: with a freed one the outcome is undefined
\* (see ReaderPointerLive), and the model stops reading there.
ListEntry(t, n) ==
  /\ conf.lists /\ Expands(t)
  /\ n \in Unused(q)
  /\ Live(q, q.track[t].after)
  /\ q' = Expanded(q, t, n)
  /\ UNCHANGED <<conf, refs, crash>>

\* Bound: a directory has at most two files.
Files(s) == {ns \in SeqOf(Unused(s), 2) : Len(ns) = 2 => ns[1] # ns[2]}

\* qu_add_dir_r for the files of a directory, one after the other
ListFiles(s, t, ns) ==
  CASE Len(ns) = 0 -> s
    [] Len(ns) = 1 -> Expanded(s, t, ns[1])
    [] Len(ns) = 2 -> Expanded(Expanded(s, t, ns[1]), t, ns[2])

\* What the filters behind the queue guard do to the queue before the guard
\* is closed: a directory's entries ns are inserted in one call (dir_open), a
\* playlist without entries leaves the list (m3u_close).
BeforeGuard(s, t, ns) ==
  LET e == s.track[t].e
      s1 == Refresh(s, e)
  IN IF s.ent[e].expand /\ conf.lists /\ s.track[t].after = e
     THEN RemoveEntry(s1, s1.ent[e].idx)
     ELSE ListFiles(s, t, ns)

\* The end of a track: its filters, then the queue guard (qe_close).
TrackEnds(t, ns, ok) ==
  LET e == q.track[t].e
      s == CloseEntry(BeforeGuard(q, t, ns), t)
      r == DropTrack(s, t)
  IN /\ e # None
     /\ ns # <<>> => Expands(t) /\ ~conf.lists
     /\ \/ /\ PlaysNext(s, t)
           /\ GoOn(NextBase(r), NextPos(r), ok, e)
        \/ /\ ~PlaysNext(s, t)
           /\ q' = Unref(r, e) /\ UNCHANGED crash
     /\ UNCHANGED <<conf, refs>>

-----------------------------------------------------------------------------

\* The process has crashed, or there is nothing left to do: no entry can be
\* made, listed, played or released.
Finished ==
  /\ crash \/ (Unused(q) = {} /\ q.index = <<>> /\ refs = {}
               /\ FreeTracks(q) = Tracks)
  /\ UNCHANGED vars

Next ==
  \/ /\ ~crash
     /\ \/ \E e \in Entries : Add(e) \/ AddList(e) \/ RefEntry(e) \/ UnrefEntry(e)
        \/ \E e \in Entries, ok \in BOOLEAN : PlayThis(e, ok)
        \/ \E pos \in 0..(Len(q.index) - 1) : RemoveAtPos(pos)
        \/ ClearAll \/ Sort \/ StopAll
        \/ \E ok \in BOOLEAN : PlayDefault(ok) \/ PlayNext(ok) \/ PlayPrev(ok)
        \/ \E t \in Tracks, n \in Entries : ListEntry(t, n)
        \/ \E t \in Tracks, ns \in Files(q), ok \in BOOLEAN : TrackEnds(t, ns, ok)
  \/ Finished

Spec == Init /\ [][Next]_vars

-----------------------------------------------------------------------------
(* Properties.                                                             *)

EntryType == [life : {"none", "live", "freed"}, used : Nat, idx : Int,
              trk : Tracks \union {None}, expand : BOOLEAN, next : BOOLEAN]
TrackType == [e : Entries \union {None}, stop : BOOLEAN,
              after : Entries \union {None}]

TypeOK ==
  /\ q.index \in Seq(Entries) /\ q.cursor \in Entries \union {None}
  /\ q.cidx \in Int /\ q.active \in Nat /\ q.split \in BOOLEAN
  /\ q.ent \in [Entries -> EntryType] /\ q.track \in [Tracks -> TrackType]
  /\ conf \in Confs /\ refs \in SUBSET Entries /\ crash \in BOOLEAN

TracksOf(e) == {t \in Tracks : q.track[t].e = e}
Count(b) == IF b THEN 1 ELSE 0

\* The reference counter is exact: one for the list, one for each track that
\* plays or expands the entry, one for each ref() of the user; the entry is
\* freed exactly when nobody is left.
RefsExact ==
  \A e \in Entries :
    /\ q.ent[e].used = Count(Contains(q.index, e)) + Count(e \in refs)
                       + Cardinality(TracksOf(e))
    /\ Live(q, e) <=> q.ent[e].used > 0

\* The cursor never points to a freed entry, although it holds no reference.
CursorLive == q.cursor # None => Live(q, q.cursor)

\* An entry's back pointer is to a track of its own, so qe_stop() reaches
\* that entry's track and no other.
TrackOfEntry ==
  \A e \in Entries : Live(q, e) /\ q.ent[e].trk # None => q.ent[e].trk \in TracksOf(e)

\* active_n counts the tracks: q_status() says "playing" exactly then.
ActiveExact == q.active = Cardinality({t \in Tracks : q.track[t].e # None})

\* At most one track plays that nobody has told to stop, whatever was
\* removed, cleared, added or sorted since it was started.
AtMostOnePlaying ==
  \A t, u \in Tracks :
    (\A x \in {t, u} : q.track[x].e # None /\ ~q.track[x].stop
                       /\ ~q.ent[q.track[x].e].expand) => t = u

\* The index field of an entry is ~0 exactly while the entry is out of the
\* list, which is what q_play_next and q_play_prev go by.
IndexFlagExact ==
  \A e \in Entries : Live(q, e) => (q.ent[e].idx = -1 <=> ~Contains(q.index, e))

\* Where the entry under the cursor really is.
CursorPos == Find(q, q.cursor)
InList == q.cursor # None /\ Contains(q.index, q.cursor)

\* Where the cursor is after q_play_next and after q_play_prev.
NextCursors ==
  {PlayAt(NextBase(q), i, FALSE).cursor : i \in Positions(NextBase(q), NextPos(q))}
PrevCursors == {PlayAt(q, i, FALSE).cursor : i \in Positions(q, PrevPos(q))}

\* play_next moves the cursor to the entry that follows the current one in
\* the list as it is now, or wraps with repeat_all, or stays at the end.
NextIsSuccessor ==
  InList /\ ~conf.random =>
    NextCursors = {IF CursorPos + 1 < Len(q.index) THEN Get(q, CursorPos + 1)
                   ELSE IF conf.repeat THEN Get(q, 0) ELSE q.cursor}

\* "previous" moves the cursor to the entry that precedes the current one.
PrevIsPredecessor ==
  InList /\ ~conf.random /\ CursorPos > 0 => PrevCursors = {Get(q, CursorPos - 1)}

\* q_random yields an index: there is one whenever it is asked for one.
RandomHasChoice == ~crash

\* When the cursor comes to rest on an entry that is to be expanded first,
\* its expansion is running, so that its end will play the next entry.
WaitsForRunningExpand ==
  [][\A e \in Entries :
       q.cursor # e /\ q'.cursor = e /\ Live(q', e) /\ q'.ent[e].next =>
         \E t \in Tracks : q'.track[t].e = e]_vars

\* When the expansion of the entry under the cursor is finished, the entry
\* that took its place in the list is played.
ExpandedIsPlayed ==
  [][\A t \in Tracks, ns \in Files(q) :
       /\ ns # <<>> /\ ~conf.random /\ Expands(t) /\ InList
       /\ q.cursor = q.track[t].e /\ q.ent[q.cursor].next /\ ~q.track[t].stop
       /\ TrackEnds(t, ns, TRUE)
       => q'.cursor = ns[1]]_vars

\* The playlist reader's place in the list is an entry that exists.
ReaderPointerLive ==
  \A t \in Tracks : q.track[t].after # None => Live(q, q.track[t].after)

\* Nothing points to an entry that was freed, and none is left behind: the
\* reference counts are exact, and so are the cursor and the pointers between
\* an entry and its track, which hold no reference, and the mark of an entry
\* that has left the list.
EntriesLive == RefsExact /\ CursorLive /\ TrackOfEntry /\ IndexFlagExact

=============================================================================
