------------------------------ MODULE MCQueue ------------------------------
(***************************************************************************)
(* The play queue, with three entries, which are interchangeable, and up to *)
(* two tracks; and the readers that fill it from playlists, cue sheets and  *)
(* directories.  The readers see an entry before and one behind their own,  *)
(* and not the rest of the queue: part says which of the two a behaviour is *)
(* about, and the other rests.                                              *)
(***************************************************************************)
EXTENDS Queue

CONSTANTS e1, e2, e3, t1, t2, AbsoluteNames, Cases, MaxDepth

VARIABLES part, job, rd, cur, pc

readers == <<job, rd, cur, pc>>

List == INSTANCE ListRead

ASSUME List!ListAssumptions

MCEntries == {e1, e2, e3}
MCTracks == {t1, t2}
Symmetry == Permutations(MCEntries)

Conf(random, repeat, lists) == [random |-> random, repeat |-> repeat, lists |-> lists]

\* Directories in order, round and round; playlists at random.
AllConfs == {Conf(FALSE, TRUE, FALSE), Conf(TRUE, FALSE, TRUE)}

MCAbsolute == {"b", "p", "q"}

Ent(url, sec, artist, title) ==
  [url |-> url, sec |-> sec, artist |-> artist, title |-> title, bad |-> FALSE]

\* Entries with and without each part, a live stream, a line in error.
MCEnts == {
  <<Ent("a", 1, "x", "y"), Ent("b", -1, "", "z"), Ent("c", -2, "", "")>>,
  <<Ent("a", -2, "", ""), [Ent("b", 2, "x", "") EXCEPT !.bad = TRUE],
    Ent("c", 3, "", "t")>>,
  <<>>}

\* Entries of a list that is saved and loaded again.
MCSaved == <<
  [name |-> <<"p">>, msec |-> 2500, meta |-> <<<<"title", "t">>, <<"artist", "a">>>>, from |-> 0, to |-> 0],
  [name |-> <<"q">>, msec |-> 0, meta |-> <<>>, from |-> 0, to |-> 0]>>

\* ListRead's NoIndex and NoDir
Nowhere == -1
File == <<0>>

Trk(title, artist, i00, idx) == [title |-> title, artist |-> artist, i00 |-> i00, idx |-> idx]
MCSheet(tracks) == [artist |-> "band", file |-> "f", tracks |-> tracks]

\* With and without pregaps, with a second index.
MCSheets == {
  MCSheet(<<Trk("t1", "", 0, <<2>>), Trk("t2", "solo", 7, <<9, 10>>), Trk("t3", "", Nowhere, <<15>>)>>),
  MCSheet(<<Trk("t1", "solo", Nowhere, <<0>>), Trk("t2", "", 5, <<6>>), Trk("t3", "", 8, <<9, 11>>)>>)}

\* 1: root; directories 3 and 5 in it, 8 in 3; 10 is empty.
MCTree(include, exclude, unreadable) ==
  [kids |-> <<<<2, 3, 4, 5>>, File, <<6, 7, 8>>, File, <<9, 10, 11>>, File, File, <<12>>,
              File, <<>>, File, File>>,
   include |-> include, exclude |-> exclude, unreadable |-> unreadable]
MCTrees == { MCTree(i, e, u) : i \in {{}, {6, 9, 11, 12}}, e \in {{}, {3}, {8, 9}, {2, 10}},
                              u \in {{}, {1}, {5}, {7, 12}} }

Case(kind, what, user, gap, tracks) ==
  [kind |-> kind, what |-> what, user |-> user, gap |-> gap, tracks |-> tracks]
MCCases ==
  { Case(k, e, u, "PREV", {}) : k \in {"m3u", "pls"}, e \in MCEnts,
                                u \in {<<>>, <<<<"title", "mine">>>>} }
  \union { Case("saved", MCSaved, u, "PREV", {}) : u \in {<<>>, <<<<"title", "mine">>>>} }
  \union { Case("cue", s, <<>>, g, t) : s \in MCSheets, g \in {"PREV", "PREV1", "CURR", "SKIP"},
                                        t \in {{}, {2}, {1, 3}} }
  \union { Case("dir", t, <<>>, "PREV", {}) : t \in MCTrees }

-----------------------------------------------------------------------------

IdleReaders == job = 0 /\ rd = 0 /\ cur = 0 /\ pc = "rests"
IdleQueue ==
  /\ q = [index |-> <<>>, cursor |-> None, cidx |-> 0, active |-> 0, split |-> FALSE,
          ent |-> [e \in Entries |-> NewEntry], track |-> [t \in Tracks |-> NoTrack]]
  /\ conf = Conf(FALSE, TRUE, FALSE) /\ refs = {} /\ crash = FALSE

MCInit ==
  \/ part = "queue" /\ Init /\ IdleReaders
  \/ part = "lists" /\ List!ExpandInit /\ IdleQueue

MCNext ==
  \/ part = "queue" /\ Next /\ UNCHANGED <<part, readers>>
  \/ part = "lists" /\ List!ExpandNext /\ UNCHANGED <<part, vars>>

MCSpec == MCInit /\ [][MCNext]_<<part, vars, readers>>

-----------------------------------------------------------------------------
(* Properties of the readers, see ListRead.                                *)

\* m3u_process, pls_process, cue_process, qu_add_dir_r: what a playlist, a cue
\* sheet or a directory lists is in the queue, in order, each once, with its
\* own name, bounds and meta data, in the place of the entry it came from.
ListsExpanded ==
  part = "lists" => List!PlaylistListed /\ List!CueTracks /\ List!DirListed
=============================================================================
