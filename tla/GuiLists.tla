------------------------------ MODULE GuiLists ------------------------------
(***************************************************************************)
(* The playlists of the graphical interface: the queue manager of          *)
(* queue/qu.c, the bridge gui/mod.c with its tabs and its filtered list,   *)
(* and what gui/main.cpp and gui/gui.c do for them.                        *)
(*                                                                         *)
(* The GUI thread turns what the user does into commands and posts them;   *)
(* the main worker runs them in their order.  A command that is about      *)
(* rows carries the positions the rows had when it was posted.  The tracks *)
(* end on the main worker, between two commands.                           *)
(***************************************************************************)
EXTENDS Integers, Sequences, FiniteSets, SequencesExt

CONSTANTS
  Names,        \* files the user may add
  Texts,        \* filter texts: [len, shows: the names they are part of]
  Saved,        \* what may be on disk at first: sequences of lists of names
  MaxQueues,    \* bounds: queues, entries, tracks of a session,
  MaxEntries,
  MaxTracks,
  MaxPosts,     \* commands the user gives,
  MaxPending,   \* commands that wait at a time
  MaxRestarts   \* and times the program is started again

VARIABLES
  core,   \* the main worker's state: see Started
  cmds,   \* the posted commands
  disk,   \* disk[i]: the saved list i
  ses     \* the session: phase, counters and what the properties compare

guiVars == <<core, cmds, disk, ses>>

Queues == 1..MaxQueues
Entries == 1..MaxEntries
Tracks == 1..MaxTracks
NoFile == <<"nofile">>

\* How many of the files d are loaded, and whether there are entries for them.
FilesRead(d) ==
  CHOOSE k \in 0..MaxQueues : /\ \A i \in 1..k : d[i] # NoFile
                              /\ k = MaxQueues \/ d[k + 1] = NoFile
Fits(d) ==
  /\ \A i \in 1..FilesRead(d) : Len(d[i]) <= MaxEntries
  /\ Cardinality({ p \in Queues \X Entries : p[1] <= FilesRead(d) /\ p[2] <= Len(d[p[1]]) })
       <= MaxEntries

Files(l) == [i \in Queues |-> IF i <= Len(l) THEN l[i] ELSE NoFile]

ASSUME GuiAssumption ==
  /\ {MaxQueues, MaxEntries, MaxTracks, MaxPosts, MaxPending, MaxRestarts} \subseteq Nat
  /\ MaxQueues > 0
  /\ Texts \subseteq [len : Nat \ {0}, shows : SUBSET Names]
  /\ "nofile" \notin Names
  /\ \A l \in Saved : l \in Seq(Seq(Names) \union {NoFile}) /\ Fits(Files(l))

\* What has gone wrong first: a queue is used that was freed, or there is no
\* such tab, no such row or no default queue.
Bad(s, why) == IF s.ub = "none" THEN [s EXCEPT !.ub = why] ELSE s
Ents(s, q) == s.q[q].ents
EntryAt(s, q, i) == IF i \in 1..Len(Ents(s, q)) THEN Ents(s, q)[i] ELSE 0
\* q_find; 0: the entry is not in the list.
PosOf(s, q, e) ==
  IF Contains(Ents(s, q), e) THEN CHOOSE k \in 1..Len(Ents(s, q)) : Ents(s, q)[k] = e ELSE 0
NewId(f) == CHOOSE i \in DOMAIN f : f[i].st = "none" /\ \A j \in DOMAIN f : j < i => f[j].st # "none"

-----------------------------------------------------------------------------
(* queue/ent.h and queue/qu.c                                              *)

\* The elements of l that are in S, in their order.
Keep(l, S) ==
  LET kept[n \in 0..Len(l)] ==
        IF n = 0 THEN <<>> ELSE IF l[n] \in S THEN Append(kept[n - 1], l[n]) ELSE kept[n - 1]
  IN kept[Len(l)]

\* qe_unref of each of the entries es; qe_free looks at the queue of the entry.
Unref(s, es) ==
  LET gone == { e \in es : s.e[e].used <= 1 }
  IN IF \E e \in gone : s.q[s.e[e].q].st = "freed" THEN Bad(s, "freed")
     ELSE [s EXCEPT
             !.e = [e \in Entries |->
                      IF e \in gone THEN [s.e[e] EXCEPT !.used = 0, !.st = "freed"]
                      ELSE IF e \in es THEN [s.e[e] EXCEPT !.used = @ - 1] ELSE s.e[e]],
             !.q = [q \in Queues |->
                      IF s.q[q].cursor \in gone THEN [s.q[q] EXCEPT !.cursor = 0] ELSE s.q[q]]]

\* qm_add; q_filter makes a queue with the configuration of another.
QmAdd(s, q) == [s EXCEPT !.qm.lists = Append(@, q), !.q[q].st = "live"]

\* qm_rm: the position of the default queue stays.
QmRm(s, q) == [s EXCEPT !.qm.lists = Keep(@, Queues \ {q})]

\* qm_default; 0: beyond the array.
Default(s) == IF s.qm.selected < Len(s.qm.lists) THEN s.qm.lists[s.qm.selected + 1] ELSE 0

\* qm_qselect
QmQselect(s, q) ==
  IF Contains(s.qm.lists, q)
  THEN [s EXCEPT !.qm.selected = (CHOOSE i \in 1..Len(s.qm.lists) : s.qm.lists[i] = q) - 1]
  ELSE s

\* Mutant: the references of a filtered list are kept.
QFreeKeeps(s, q) ==
  LET u == IF s.gd.filtered = q THEN s ELSE Unref(s, ToSet(Ents(s, q)))
  IN [u EXCEPT !.q[q].st = "freed", !.q[q].ents = <<>>]

\* q_free
QFree(s, q) ==
  [Unref(s, ToSet(Ents(s, q))) EXCEPT !.q[q].st = "freed", !.q[q].ents = <<>>]

\* q_insert at the end, q_add; expanding is the subject of ListRead.
QAdd(s, q, name) ==
  LET e == NewId(s.e)
  IN [s EXCEPT !.e[e] = [st |-> "live", used |-> 1, q |-> q, name |-> name, trk |-> 0],
               !.q[q].ents = Append(@, e)]

\* list_add of the files of a list, one after the other.
QAddNames(s, q, names) ==
  LET add[k \in 0..Len(names)] == IF k = 0 THEN s ELSE QAdd(add[k - 1], q, names[k])
  IN add[Len(names)]

\* q_remove_at
QRemoveAt(s, q, i) ==
  LET e == Ents(s, q)[i]
      p == i - 1
      c == s.q[q].cidx
      back == c > 0 /\ (p < c \/ (p = c /\ i = Len(Ents(s, q))))
  IN Unref([s EXCEPT !.q[q].ents = RemoveAt(@, i), !.q[q].cidx = IF back THEN c - 1 ELSE c], {e})

\* q_clear
QClear(s, q) == Unref([s EXCEPT !.q[q].ents = <<>>], ToSet(Ents(s, q)))

\* qe_filter, q_filter: the entries whose name the text is part of.
QFilter(s, q, text) ==
  LET f == NewId(s.q)
      hits == Keep(Ents(s, q), { e \in Entries : s.e[e].name \in text.shows })
  IN [QmAdd(s, f) EXCEPT
        !.q[f].ents = hits, !.made = f,
        !.e = [e \in Entries |->
                 IF Contains(hits, e) THEN [s.e[e] EXCEPT !.used = @ + 1] ELSE s.e[e]]]

\* qe_stop
QeStop(s, e) ==
  IF e = 0 \/ s.e[e].trk = 0 THEN s ELSE [s EXCEPT !.t[s.e[e].trk].st = "stopping"]

\* qe_play, gtrk_open
QePlay(s, e) ==
  LET t == NewId(s.t)
  IN [s EXCEPT !.t[t] = [st |-> "run", e |-> e], !.e[e].trk = t, !.e[e].used = @ + 1,
               !.q[s.e[e].q].active = @ + 1, !.gd.playing = t]

\* q_play of an entry.  A queue stops its own track only.
QPlay(s, e) ==
  LET q == s.e[e].q
      x == QeStop(s, s.q[q].cursor)
  IN IF s.q[q].st = "freed" THEN Bad(s, "freed")
     ELSE QePlay([x EXCEPT !.q[q].cursor = e, !.q[q].cidx = PosOf(s, q, e) - 1], e)

\* q_play_next of queue q; q_play(q, NULL) if there is no cursor.
QPlayNext(s, q) ==
  LET c == s.q[q].cursor
      i == PosOf(s, q, c)
      e == EntryAt(s, q, IF i # 0 THEN i + 1 ELSE s.q[q].cidx + 1)
  IN IF e = 0 THEN s ELSE QPlay(s, e)

\* qe_close, gtrk_close: the end of a track.
QeClose(s, t) ==
  LET e == s.t[t].e
      q == s.e[e].q
      x == [s EXCEPT !.t[t].st = "over", !.gd.playing = IF @ = t THEN 0 ELSE @,
                     !.e[e].trk = IF @ = t THEN 0 ELSE @, !.q[q].active = @ - 1]
  IN IF s.q[q].st = "freed" THEN Bad(s, "freed")
     ELSE Unref(IF s.t[t].st = "run" THEN QPlayNext(x, q) ELSE x, {e})

-----------------------------------------------------------------------------
(* gui/mod.c; q_on_change and wmain_list_delete of gui/main.cpp.           *)

\* list_id_visible
ListIdVisible(s) == IF s.gd.filtered # 0 THEN s.gd.filtered ELSE s.gd.selected

\* list_filter_close: q_destroy of the filtered list tells nobody.
ListFilterClose(s) ==
  IF s.gd.filtered = 0 THEN s
  ELSE [QFree(QmRm(s, s.gd.filtered), s.gd.filtered) EXCEPT !.gd.filtered = 0]

\* list_select
ListSelect(s, i) ==
  LET x == ListFilterClose(s)
  IN IF i \notin 1..Len(x.gd.lists) THEN Bad(x, "tab")
     ELSE [x EXCEPT !.gd.selected = x.gd.lists[i],
                    !.gd.tabconv = x.gd.convert # 0 /\ x.gd.convert = x.gd.lists[i]]

\* list_created, by q_create
QCreate(s) ==
  LET q == NewId(s.q)
  IN [QmAdd(s, q) EXCEPT !.gd.lists = Append(@, q), !.gd.selected = q, !.made = q]

\* list_new
ListNew(s) == QCreate([ListFilterClose(s) EXCEPT !.gd.tabconv = FALSE])

\* Mutant: the tab on the right is selected.
QDestroyRight(s, q) ==
  LET i == CHOOSE k \in 1..Len(s.gd.lists) : s.gd.lists[k] = q
      x == [QmRm(s, q) EXCEPT !.gd.lists = RemoveAt(@, i)]
  IN QFree(ListSelect(x, i), q)

\* q_destroy of a list with a tab: list_deleted and wmain_list_delete select
\* the tab on the left.
QDestroy(s, q) ==
  LET i == CHOOSE k \in 1..Len(s.gd.lists) : s.gd.lists[k] = q
      x == [QmRm(s, q) EXCEPT !.gd.lists = RemoveAt(@, i)]
  IN QFree(ListSelect(x, IF i = 1 THEN 1 ELSE i - 1), q)

\* list_close
ListClose(s) ==
  LET x == ListFilterClose(s)
      q == x.gd.selected
      n == Len(x.gd.lists) - (IF x.gd.convert # 0 THEN 1 ELSE 0)
  IN CASE q = x.gd.convert -> [QDestroy(x, q) EXCEPT !.gd.convert = 0]
       [] q # x.gd.convert /\ n > 1 -> QDestroy(x, q)
       [] OTHER -> QClear(x, q)

\* list_filter with a text: a longer text is looked for in the filtered list.
ListFilter(s, text) ==
  LET from == IF s.gd.filtered # 0 /\ text.len > s.gd.len THEN s.gd.filtered ELSE s.gd.selected
      f == QFilter(s, from, text)
      new == f.made
  IN IF s.gd.tabconv THEN s
     ELSE [ListFilterClose(f) EXCEPT !.gd.filtered = new, !.gd.len = text.len, !.gd.text = text]

\* list_filter with an empty text
ListFilterOff(s) == IF s.gd.tabconv THEN s ELSE [ListFilterClose(s) EXCEPT !.gd.len = 0]

\* ctl_play; at() gives NULL if there is no such row, and then q_play takes
\* the cursor of the default queue.
CtlPlay(s, i) ==
  LET x == IF s.gd.filtered = 0 /\ ~s.gd.tabconv THEN QmQselect(s, s.gd.selected) ELSE s
      q == IF x.gd.filtered # 0 THEN x.gd.filtered ELSE Default(x)
      e == IF q = 0 THEN 0 ELSE EntryAt(x, q, i)
      c == IF Default(x) = 0 THEN 0 ELSE EntryAt(x, Default(x), x.q[Default(x)].cidx + 1)
  IN IF q = 0 \/ (e = 0 /\ Default(x) = 0) THEN Bad(x, "default")
     ELSE IF e # 0 THEN QPlay(x, e) ELSE IF c # 0 THEN QPlay(x, c) ELSE x

\* ctl_action: A_STOP, A_NEXT
CtlStop(s) == IF s.gd.playing = 0 THEN s ELSE [s EXCEPT !.t[s.gd.playing].st = "stopping"]
CtlNext(s) ==
  IF Default(s) = 0 THEN Bad(s, "default") ELSE QPlayNext(s, Default(s))

\* ctl_action, A_LIST_CLEAR; A_LIST_SORT, here into the opposite order.
ListClear(s) == IF s.gd.filtered # 0 THEN s ELSE QClear(s, s.gd.selected)
ListSort(s) == IF s.gd.filtered # 0 THEN s ELSE [s EXCEPT !.q[s.gd.selected].ents = Reverse(@)]

\* list_add, list_add_sz
ListAdd(s, name) == IF s.gd.filtered # 0 THEN s ELSE QAdd(s, s.gd.selected, name)

\* list_remove, and file_del, which puts the files into the trash first: the
\* rows from the last to the first.
RemoveRow(s, q, rows, k) ==
  LET r == MaxEntries + 1 - k
  IN IF r \notin rows THEN s
     ELSE IF EntryAt(s, q, r) = 0 THEN Bad(s, "row") ELSE QRemoveAt(s, q, r)

ListRemove(s, rows) ==
  LET to[k \in 0..MaxEntries] ==
        IF k = 0 THEN s ELSE RemoveRow(to[k - 1], s.gd.selected, rows, k)
  IN IF s.gd.filtered # 0 THEN s ELSE to[MaxEntries]

\* list_next_playback; 0: none
ListNextPlayback(s) ==
  LET i == CHOOSE k \in 1..Len(s.gd.lists) : s.gd.lists[k] = s.gd.selected
      after == Keep(SubSeq(s.gd.lists, i + 1, Len(s.gd.lists)), Queues \ {s.gd.convert})
  IN IF after = <<>> THEN 0 ELSE after[1]

\* The rows of queue from, added to queue to: list_add_to_next, convert_add.
AddRow(s, from, to, rows, k) ==
  IF k \notin rows THEN s
  ELSE IF EntryAt(s, from, k) = 0 THEN Bad(s, "row")
  ELSE QAdd(s, to, s.e[EntryAt(s, from, k)].name)

AddRows(s, from, to, rows) ==
  LET add[k \in 0..MaxEntries] == IF k = 0 THEN s ELSE AddRow(add[k - 1], from, to, rows, k)
  IN add[MaxEntries]

ListAddToNext(s, rows) ==
  IF ListNextPlayback(s) = 0 THEN s ELSE AddRows(s, ListIdVisible(s), ListNextPlayback(s), rows)

\* convert_add: the conversion list gets a tab of its own.
ConvertAdd(s, rows) ==
  LET n == QCreate([s EXCEPT !.gd.tabconv = TRUE])
      x == IF s.gd.convert = 0 THEN [n EXCEPT !.gd.convert = n.made] ELSE s
  IN AddRows(x, ListIdVisible(s), x.gd.convert, rows)

\* The lists that are saved: all but the conversion list.
PlaybackLists(s) == Keep(s.gd.lists, Queues \ {s.gd.convert})
Contents(s) ==
  [i \in 1..Len(PlaybackLists(s)) |->
     LET l == Ents(s, PlaybackLists(s)[i]) IN [j \in 1..Len(l) |-> s.e[l[j]].name]]

\* Mutant: the file behind the last list is left.
ListsSaveLeaves(s) ==
  [i \in DOMAIN disk |-> IF i <= Len(Contents(s)) THEN Contents(s)[i] ELSE disk[i]]

\* lists_save: list i into file i; the file behind the last one is removed.
ListsSave(s) ==
  LET c == Contents(s)
  IN [i \in DOMAIN disk |->
        IF i <= Len(c) THEN c[i] ELSE IF i = Len(c) + 1 THEN NoFile ELSE disk[i]]

\* gui_start: one list, the default one.
Started ==
  [qm |-> [lists |-> <<1>>, selected |-> 0],
   q |-> [i \in Queues |-> [st |-> IF i = 1 THEN "live" ELSE "none", ents |-> <<>>,
                            cursor |-> 0, cidx |-> 0, active |-> 0]],
   e |-> [i \in Entries |-> [st |-> "none", used |-> 0, q |-> 1, name |-> "none", trk |-> 0]],
   t |-> [i \in Tracks |-> [st |-> "none", e |-> 0]],
   gd |-> [lists |-> <<1>>, selected |-> 1, convert |-> 0, filtered |-> 0, len |-> 0,
           text |-> [len |-> 0, shows |-> Names], tabconv |-> FALSE, playing |-> 0],
   made |-> 0, ub |-> "none"]

\* lists_load: file 1 goes into the default list; a new list for each of the
\* others, up to the first file that is missing.
LoadList(s, k) ==
  LET x == IF k = 1 THEN [s EXCEPT !.made = Default(s)] ELSE ListNew(s)
  IN QAddNames(x, x.made, disk[k])

ListsLoad(s) ==
  LET load[k \in 0..FilesRead(disk)] == IF k = 0 THEN s ELSE LoadList(load[k - 1], k)
  IN load[FilesRead(disk)]

-----------------------------------------------------------------------------
(* The threads.                                                            *)

Visible == Ents(core, ListIdVisible(core))
Rows == { r \in SUBSET (1..Len(Visible)) : r # {} /\ Cardinality(r) <= 2 }

\* wmain_action, wlistfilter_action, wconvert_show; gui_core_task*
Post(f, arg, what) ==
  /\ ses.phase = "up" /\ ses.posts < MaxPosts /\ Len(cmds) < MaxPending
  /\ cmds' = Append(cmds, [f |-> f, arg |-> arg, what |-> what])
  /\ ses' = [ses EXCEPT !.posts = @ + 1, !.fresh = FALSE, !.calm = @ /\ cmds = <<>>]
  /\ UNCHANGED <<core, disk>>

PostPlain ==
  \E f \in {"new", "close", "clear", "sort", "unfilter", "stop", "next"} : Post(f, 0, {})
PostTab == \E i \in 1..Len(core.gd.lists) : Post("select", i, {})
PostText == \E t \in Texts : Post("filter", t, {})
PostName == \E n \in Names : Post("add", n, {})
PostPlay == ~core.gd.tabconv /\ \E i \in 1..Len(Visible) : Post("play", i, {Visible[i]})
PostRows ==
  \E r \in Rows, f \in {"remove", "del", "next_list", "convert"} :
    /\ f \in {"del", "convert"} => ~core.gd.tabconv
    /\ Post(f, r, { Visible[i] : i \in r })

\* corecmd_handler
Handled(s, c) ==
  CASE c.f = "new" -> ListNew(s)
    [] c.f = "close" -> ListClose(s)
    [] c.f = "clear" -> ListClear(s)
    [] c.f = "sort" -> ListSort(s)
    [] c.f = "unfilter" -> ListFilterOff(s)
    [] c.f = "stop" -> CtlStop(s)
    [] c.f = "next" -> CtlNext(s)
    [] c.f = "select" -> ListSelect(s, c.arg)
    [] c.f = "filter" -> ListFilter(s, c.arg)
    [] c.f = "add" -> ListAdd(s, c.arg)
    [] c.f = "play" -> CtlPlay(s, c.arg)
    [] c.f \in {"remove", "del"} -> ListRemove(s, c.arg)
    [] c.f = "next_list" -> ListAddToNext(s, c.arg)
    [] c.f = "convert" -> ConvertAdd(s, c.arg)
    [] c.f = "save" -> s

\* Closing the shown list is harmless if it is behind the default one and
\* none of its tracks runs.
ClosesSafely(s) ==
  LET q == s.gd.selected
  IN /\ \A i \in 1..Len(s.qm.lists) : s.qm.lists[i] = q => i - 1 > s.qm.selected
     /\ \A t \in Tracks : s.t[t].st \in {"run", "stopping"} => s.e[s.t[t].e].q # q

\* The bounds: a command runs only if there is room for what it makes.
HasRoom(s, c) ==
  /\ c.f \in {"new", "filter", "convert"} => \E q \in Queues : s.q[q].st = "none"
  /\ c.f \in {"add", "next_list", "convert"} =>
       Cardinality({ e \in Entries : s.e[e].st = "none" }) >= 2
  /\ c.f \in {"play", "next"} => \E t \in Tracks : s.t[t].st = "none"

\* The main worker runs a command.
RunCommand ==
  LET c == Head(cmds)
      s == Handled(core, c)
  IN /\ ses.phase \in {"up", "quits"} /\ core.ub = "none" /\ cmds # <<>> /\ HasRoom(core, c)
     /\ core' = s
     /\ cmds' = Tail(cmds)
     /\ disk' = IF c.f = "save" THEN ListsSave(s) ELSE disk
     /\ ses' = [ses EXCEPT
          !.goal = IF c.f = "save" THEN Contents(s) ELSE @,
          !.saved = c.f = "save",
          !.calm = @ /\ (c.f = "close" => ClosesSafely(core)),
          !.meant = c.what,
          !.trashed = IF c.f = "del" /\ core.gd.filtered = 0 /\ s.ub = "none"
                      THEN { EntryAt(core, core.gd.selected, i) : i \in c.arg } ELSE {}]

\* A track ends, by itself or because it was stopped.
TrackEnds(t) ==
  /\ ses.phase = "up" /\ core.ub = "none"
  /\ core.t[t].st \in {"run", "stopping"}
  /\ core.t[t].st = "run" => \E u \in Tracks : core.t[u].st = "none"
  /\ core' = QeClose(core, t)
  /\ UNCHANGED <<cmds, disk, ses>>

\* gui_quit: lists_save is posted and the GUI loop ends.
Quit ==
  /\ ses.phase = "up" /\ core.ub = "none" /\ ses.restarts < MaxRestarts /\ ses.posts < MaxPosts
  /\ cmds' = Append(cmds, [f |-> "save", arg |-> 0, what |-> {}])
  /\ ses' = [ses EXCEPT !.phase = "quits", !.posts = @ + 1, !.fresh = FALSE]
  /\ UNCHANGED <<core, disk>>

\* gui_stop, on the GUI thread: the main worker's loop ends, whatever is left.
Stops ==
  /\ ses.phase = "quits" /\ core.ub = "none"
  /\ ses' = [ses EXCEPT !.phase = "down"]
  /\ cmds' = <<>>
  /\ UNCHANGED <<core, disk>>

\* The program is started again, and wmain_show has the lists loaded.
Restart ==
  /\ ses.phase = "down"
  /\ core' = ListsLoad(Started)
  /\ ses' = [ses EXCEPT !.phase = "up", !.restarts = @ + 1, !.fresh = ses.saved,
                         !.saved = FALSE]
  /\ UNCHANGED <<cmds, disk>>

GuiInit ==
  /\ \E l \in Saved : disk = Files(l)
  /\ core = ListsLoad(Started)
  /\ cmds = <<>>
  /\ ses = [phase |-> "up", posts |-> 0, restarts |-> 0, fresh |-> FALSE, saved |-> FALSE,
            goal |-> <<>>, calm |-> TRUE, meant |-> {}, trashed |-> {}]

GuiOver ==
  /\ core.ub # "none" \/ ses.posts = MaxPosts \/ cmds # <<>>
  /\ UNCHANGED guiVars

GuiNext ==
  \/ PostPlain \/ PostTab \/ PostText \/ PostName \/ PostPlay \/ PostRows
  \/ RunCommand
  \/ \E t \in Tracks : TrackEnds(t)
  \/ Quit \/ Stops \/ Restart
  \/ GuiOver

GuiSpec == GuiInit /\ [][GuiNext]_guiVars

-----------------------------------------------------------------------------
(* Properties.                                                             *)

Live(q) == core.q[q].st = "live"

\* qe_ref, qe_unref: an entry's counter is the number of the lists, filtered
\* ones included, that show it and of the tracks that play it; an entry is
\* freed when the last of them is gone, and no list shows a freed one.
ListRefsExact ==
  core.ub = "none" =>
    \A e \in Entries : core.e[e].st # "none" =>
      /\ core.e[e].used =
           Cardinality({ q \in Queues : Live(q) /\ Contains(core.q[q].ents, e) })
           + Cardinality({ t \in Tracks : core.t[t].st \in {"run", "stopping"} /\ core.t[t].e = e })
      /\ core.e[e].st = "freed" <=> core.e[e].used = 0

\* list_created, list_deleted, list_close: the tabs are the queues of the
\* manager except the filtered one, in the same order; the shown list has a
\* tab, and there is always a list to play from.
TabsAreLists ==
  core.ub = "none" =>
    /\ core.gd.lists = Keep(core.qm.lists, Queues \ {core.gd.filtered})
    /\ \A i \in 1..Len(core.qm.lists) : Live(core.qm.lists[i])
    /\ Contains(core.gd.lists, core.gd.selected)
    /\ PlaybackLists(core) # <<>>
    /\ core.gd.tabconv <=> core.gd.convert # 0 /\ core.gd.selected = core.gd.convert

\* list_filter: the rows of the filtered list are entries that exist and that
\* match the text, however often the text was changed.
FilterRows ==
  core.ub = "none" /\ core.gd.filtered # 0 =>
    /\ Live(core.gd.filtered)
    /\ \A e \in ToSet(Ents(core, core.gd.filtered)) :
         core.e[e].st = "live" /\ core.e[e].name \in core.gd.text.shows

\* lists_save, lists_load: the program comes up with the lists it was left
\* with, in their order, however many there were the times before.
ListsRestored == ses.fresh => Contents(core) = ses.goal

\* What the commands rely on: if each one is given when the one before has
\* been carried out, and no list is closed that plays, is the default one or
\* stands before it, then no command meets a row, a tab or a queue that is
\* not there.
CalmIsSafe == ses.calm => core.ub = "none"

\* file_del's "Trash all selected files": the files that go are those that
\* were selected when the command was given.
TrashesSelected == ses.trashed \subseteq ses.meant

\* gui_quit: the lists are saved before the program ends.
QuitSaves == ses.phase = "down" => ses.saved

\* gui/mod.h: the filtered list "Uses the same tab as parent; auto-reset on
\* list change".
FilterOfShown ==
  core.ub = "none" /\ core.gd.filtered # 0 =>
    \A e \in ToSet(Ents(core, core.gd.filtered)) : core.e[e].q = core.gd.selected

\* Only one list plays at a time.
OneListPlays ==
  core.ub = "none" =>
    \A t, u \in Tracks :
      core.t[t].st = "run" /\ core.t[u].st = "run" => t = u

\* The tabs of the window are the lists of the core, the rows of a filtered
\* list are the entries it is to show, and each entry has exactly the
\* references its lists and tracks hold.
ListsExact == ListRefsExact /\ TabsAreLists /\ FilterRows

=============================================================================
