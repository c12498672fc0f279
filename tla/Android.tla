------------------------------ MODULE Android -------------------------------
(***************************************************************************)
(* The Android application: Track.java (Track, MP), Queue.java, Svc.java,  *)
(* SysJobs.java and, below them, the native tracks that read tags, record  *)
(* and convert, src/jni.                                                   *)
(*                                                                         *)
(* Everything in Java runs on the main looper, one message at a time; a    *)
(* command of the user or of the system may come before what the           *)
(* application itself has posted.  Native tracks run on the core's worker. *)
(* MediaPlayer, the audio focus and the services are external.             *)
(***************************************************************************)
EXTENDS Integers, Sequences, SequencesExt

CONSTANTS
  Lists0,    \* the lists at the first start: sequences of URLs, ascending
  Urls,      \* 1..n; those that are not in a list yet may be added
  Missing,   \* URLs that cannot be opened
  Confs,     \* settings, with a bound for the commands of the user and of the
             \* system under them: see ConfOk
  MaxJobs,   \* bound: native tracks
  MaxStarts  \* bound: restarts of the process

\* What is added to a track, in some order (c.order).
Filters == {"queue", "mp", "sys", "svc"}

ConfOk(c) ==
  /\ c.cmds \in Nat                                         \* bound
  /\ c.order \in [1..4 -> Filters] /\ \A f \in Filters : \E i \in 1..4 : c.order[i] = f
  /\ {c.notags, c.repeat, c.random, c.rmerr, c.rmnext, c.addnext, c.skip, c.tail} \subseteq BOOLEAN

ASSUME AndroidAssumption ==
  /\ MaxJobs \in Nat /\ MaxStarts \in Nat
  /\ Urls \subseteq Nat \ {0} /\ Lists0 \in Seq(Seq(Urls)) /\ Len(Lists0) <= 3
  /\ Missing \subseteq Urls /\ \A c \in Confs : ConfOk(c)

VARIABLES
  app,    \* the objects of the application, and the messages it has posted
  jobs,   \* the native tracks
  disk,   \* the files of the lists, and list_curpos and list_active
  ses     \* what the environment has done

appVars == <<app, jobs, disk, ses>>

Absent == <<-1>>   \* no such file
Job0 == [kind |-> "none", st |-> "none", list |-> 0, calls |-> 0]

-----------------------------------------------------------------------------
(* Queue.java: lists and indices.  Positions in a list start at 0.         *)

Throws(s) == [s EXCEPT !.bad = TRUE]   \* an exception nobody catches
HasList(s, l) == l \in 1..Len(s.q.lists)
Items(s, l) == s.q.lists[l].items
InList(s, l, pos) == pos \in 0..(Len(Items(s, l)) - 1)

\* Mutant: the list is not marked as modified.
AddToUnmarked(s, l, url) == [s EXCEPT !.q.lists[l].items = Append(@, url)]

\* A list with one more entry, and without the entry at pos, if there is one.
With(l, url) == [l EXCEPT !.items = Append(@, url), !.mod = TRUE]
Without(l, pos) ==
  [l EXCEPT !.items = IF pos \in 0..(Len(@) - 1) THEN RemoveAt(@, pos + 1) ELSE @, !.mod = TRUE]

\* PhiolaQueue.add
AddTo(s, l, url) == [s EXCEPT !.q.lists[l] = With(@, url)]

\* Mutant: the position of the playing track is not moved.
RemoveStays(s, pos) ==
  IF ~HasList(s, s.q.act) THEN Throws(s)
  ELSE [s EXCEPT !.q.lists[s.q.act] = Without(@, pos), !.q.cur = IF pos < @ THEN @ - 1 ELSE @,
                 !.q.idx = IF pos = @ THEN -1 ELSE @]

\* Queue.remove: from the active list
RemoveEntry(s, pos) ==
  IF ~HasList(s, s.q.act) THEN Throws(s)
  ELSE [s EXCEPT !.q.lists[s.q.act] = Without(@, pos), !.q.cur = IF pos < @ THEN @ - 1 ELSE @,
                 !.q.idx = IF pos = @ THEN -1 ELSE IF pos < @ THEN @ - 1 ELSE @]

\* index_next
IndexNext(s, l) == IF l + 1 = Len(s.q.lists) + 1 THEN 1 ELSE l + 1

\* next_list_add_cur
NextListAddCur(s) ==
  IF Len(s.q.lists) = 1 \/ s.t.state = "NONE" THEN s
  ELSE IF ~HasList(s, IndexNext(s, s.q.act)) THEN Throws(s)
  ELSE AddTo(s, IndexNext(s, s.q.act), s.t.url)

-----------------------------------------------------------------------------
(* The filters of a track: Queue, MP, SysJobs, Svc.                        *)

\* Queue.on_open
QueueOpen(s, c) ==
  LET x == [s EXCEPT !.q.active = TRUE, !.t.seek = IF c.skip THEN "skip" ELSE "zero",
                     !.t.tail = c.tail]
  IN IF c.notags THEN x ELSE IF ~HasList(s, s.q.act) THEN Throws(x)
     ELSE [x EXCEPT !.q.lists[s.q.act].mod = TRUE]

\* Queue.on_close, auto_stop
QueueClose(s, c) ==
  LET looks == s.q.idx >= 0 /\ s.t.error /\ c.rmerr
      lost == looks /\ (~HasList(s, s.q.act) \/ ~InList(s, s.q.act, s.q.idx))
      x == IF looks /\ ~lost /\ Items(s, s.q.act)[s.q.idx + 1] = s.t.url
           THEN RemoveEntry(s, s.q.idx) ELSE s
      goes == ~s.t.stopped /\ s.q.astop # "expired"
      y == [x EXCEPT !.q.active = FALSE, !.q.idx = -1,
                     !.q.astop = IF @ = "expired" THEN "off" ELSE @,
                     !.ended = IF goes /\ s.loop = <<>> THEN s.t.url ELSE 0,
                     !.loop = IF ~goes THEN @
                              ELSE Append(@, IF x.q.idx < 0 THEN "playcur" ELSE "next")]
  IN IF lost THEN Throws(s) ELSE y

\* MP.on_open: setDataSource fails if the player is in use, or there is no file.
MpFails(s) == s.mp.st # "idle" \/ s.t.url \in Missing
MpOpen(s) ==
  LET x == [s EXCEPT !.t.state = "OPENING"]
  IN IF MpFails(s) THEN x
     ELSE [x EXCEPT !.mp = [st |-> "preparing", src |-> s.t.url, tmr |-> FALSE, seeking |-> FALSE]]

\* Mutant: a player that is being prepared is not reset.
MpCloseEarly(s) ==
  IF s.mp.st = "preparing" THEN s
  ELSE [s EXCEPT !.mp = [st |-> "idle", src |-> 0, tmr |-> FALSE, seeking |-> FALSE]]

\* MP.on_close
MpClose(s) == [s EXCEPT !.mp = [st |-> "idle", src |-> 0, tmr |-> FALSE, seeking |-> FALSE]]

\* SysJobs.open, afocus_request; the request fails during a call.
SysFails(s) == ~s.sys.focus /\ s.sys.busy
SysOpen(s) == [s EXCEPT !.sys.later = FALSE, !.sys.focus = @ \/ ~s.sys.busy]

\* SysJobs.close
SysClose(s) == IF s.t.stopped /\ s.sys.focus THEN [s EXCEPT !.sys.later = TRUE] ELSE s

\* Svc.new_track
SvcOpen(s) ==
  [s EXCEPT !.svc = [st |-> "BUFFERING", fg |-> TRUE, later |-> FALSE,
                     on |-> s.svc.on \/ s.svc.st = "STOPPED"]]

\* Svc.close_track
SvcClose(s) == [s EXCEPT !.svc.st = "SKIPPING", !.svc.later = TRUE]

CloseFilter(s, f, c) ==
  CASE f = "queue" -> QueueClose(s, c) [] f = "mp" -> MpClose(s)
    [] f = "sys" -> SysClose(s) [] f = "svc" -> SvcClose(s)

\* Track.trk_close
TrkClose(s, c) ==
  LET s1 == CloseFilter([s EXCEPT !.t.state = "NONE"], c.order[1], c)
      s2 == CloseFilter(s1, c.order[2], c)
      s3 == CloseFilter(s2, c.order[3], c)
  IN [CloseFilter(s3, c.order[4], c) EXCEPT !.t.error = FALSE]

OpenFilter(s, f, c) ==
  CASE f = "queue" -> QueueOpen(s, c) [] f = "mp" -> MpOpen(s)
    [] f = "sys" -> SysOpen(s) [] f = "svc" -> SvcOpen(s)
OpenFails(s, f) == CASE f = "mp" -> MpFails(s) [] f = "sys" -> SysFails(s) [] OTHER -> FALSE

\* Track.start_3: the first filter that fails closes the track.
Start3(s, c) ==
  LET step(a, i) == IF ~a.ok THEN a
                    ELSE [s |-> OpenFilter(a.s, c.order[i], c), ok |-> ~OpenFails(a.s, c.order[i])]
      a1 == step([s |-> s, ok |-> TRUE], 1)
      a2 == step(a1, 2)
      a3 == step(a2, 3)
      a4 == step(a3, 4)
  IN IF a4.ok THEN a4.s ELSE TrkClose([a4.s EXCEPT !.t.error = TRUE], c)

\* Track.start: with tags, a native track reads them first (s.ask).
Start(s, l, pos, c) ==
  LET x == [s EXCEPT !.t.url = Items(s, l)[pos + 1], !.t.seek = "none"]
  IN IF s.t.state # "NONE" THEN s
     ELSE IF c.notags THEN Start3(x, c) ELSE [x EXCEPT !.ask = s.q.lists[l].id]

\* Track.stop
TrackStop(s, c) == TrkClose([s EXCEPT !.t.stopped = TRUE], c)

\* Queue._play
Play(s, l, it, c) ==
  LET x == IF s.q.active THEN TrackStop(s, c) ELSE s
  IN IF ~HasList(x, l) THEN Throws(x)
     ELSE IF ~InList(x, l, it) THEN x
     ELSE Start([x EXCEPT !.q.act = l, !.q.idx = it, !.q.cur = it], l, it, c)

\* Queue.playcur
Playcur(s, c) ==
  IF ~HasList(s, s.q.act) THEN Throws(s)
  ELSE Play(s, s.q.act, IF InList(s, s.q.act, s.q.cur) THEN s.q.cur ELSE 0, c)

\* next_random: from the first or from the second half of the list, in turn.
NextRandom(s, n) ==
  IF n = 1 THEN {0} ELSE IF ~s.q.split THEN 0..(n \div 2 - 1) ELSE (n \div 2)..(n - 1)

\* Mutant: a track is left out.
PlayDeltaTwice(s, delta, rnd, c) ==
  IF ~HasList(s, s.q.act) THEN Throws(s)
  ELSE IF Items(s, s.q.act) = <<>> THEN s ELSE Play(s, s.q.act, s.q.cur + 2 * delta, c)

\* play_delta; rnd is what next_random returns
PlayDelta(s, delta, rnd, c) ==
  LET n == Len(Items(s, s.q.act))
      i == s.q.cur + delta
      j == IF ~c.repeat THEN i ELSE IF i > n THEN 0 ELSE IF i <= 0 THEN n - 1 ELSE i
  IN IF ~HasList(s, s.q.act) THEN Throws(s)
     ELSE IF n = 0 THEN s
     ELSE IF c.random THEN Play([s EXCEPT !.q.split = IF n = 1 THEN @ ELSE ~@], s.q.act, rnd, c)
     ELSE Play(s, s.q.act, j, c)

\* order_next
OrderNext(s, rnd, c) ==
  LET rm == s.q.active /\ s.q.idx >= 0 /\ (c.addnext \/ c.rmnext)
      x == IF rm /\ c.addnext THEN NextListAddCur(s) ELSE s
      y == IF rm /\ ~x.bad THEN RemoveEntry(x, x.q.idx) ELSE x
  IN IF y.bad THEN y ELSE PlayDelta(y, IF rm \/ (s.q.active /\ s.q.idx < 0) THEN 0 ELSE 1, rnd, c)

-----------------------------------------------------------------------------
(* MP: the player's events; Track.pause, unpause and seek.                 *)

\* MP.on_complete
OnComplete(s, c) ==
  IF s.t.state = "NONE" THEN s ELSE TrkClose([s EXCEPT !.t.stopped = FALSE], c)

\* MP.on_process
MpProcess(s, c) ==
  LET x == IF s.t.seek = "none" THEN s
           ELSE [s EXCEPT !.t.state = IF @ = "PLAYING" THEN "SEEKING" ELSE @,
                          !.t.tail = @ /\ ~(s.t.seek = "user" /\ s.t.intail), !.t.seek = "none", !.mp.seeking = TRUE]
  IN IF x.t.tail /\ x.t.intail THEN OnComplete(x, c)
     ELSE IF x.t.state = "PAUSED" THEN [x EXCEPT !.mp.st = "paused"]
     ELSE IF x.t.state = "UNPAUSE" THEN [x EXCEPT !.t.state = "PLAYING", !.mp.st = "started"]
     ELSE x

\* Svc.update_track
SvcProcess(s) == IF s.t.state = "PLAYING" THEN [s EXCEPT !.svc.st = "PLAYING"] ELSE s

\* Track.update
Update(s, c) ==
  LET mpFirst == \E i, j \in 1..4 : i < j /\ c.order[i] = "mp" /\ c.order[j] = "svc"
  IN IF mpFirst THEN SvcProcess(MpProcess(s, c)) ELSE MpProcess(SvcProcess(s), c)

\* Track.pause, unpause, seek
Pause(s, c) == IF s.t.state = "PLAYING" THEN Update([s EXCEPT !.t.state = "PAUSED"], c) ELSE s
Unpause(s, c) == IF s.t.state = "PAUSED" THEN Update([s EXCEPT !.t.state = "UNPAUSE"], c) ELSE s
Seek(s, tail, c) ==
  IF s.t.state \in {"PLAYING", "PAUSED"}
  THEN Update([s EXCEPT !.t.seek = "user", !.t.intail = tail], c) ELSE s

\* MP.on_start: an automatic skip is done before the start.
OnStart(s) ==
  LET skips == s.t.seek = "skip"
  IN [s EXCEPT !.t.state = "PLAYING", !.t.seek = IF skips THEN "none" ELSE @,
               !.mp.st = "started", !.mp.tmr = TRUE, !.mp.seeking = skips]

-----------------------------------------------------------------------------
(* Steps of the main looper.                                               *)

Conf == ses.conf
Up == ~app.bad

\* Track.start wants tags: Phiola.meta starts a native track.
Asks(s) ==
  LET j == CHOOSE k \in DOMAIN jobs : jobs[k].st = "none"
  IN /\ app' = [s EXCEPT !.ask = 0]
     /\ jobs' = IF s.ask = 0 THEN jobs
                ELSE [jobs EXCEPT ![j] = [Job0 EXCEPT !.kind = "info", !.st = "run", !.list = s.ask]]

HasJob == \E k \in DOMAIN jobs : jobs[k].st = "none"

\* A track is going to be started: its tags are being read, or that is posted.
Coming == (\E j \in DOMAIN jobs : jobs[j].kind = "info" /\ jobs[j].st = "run")
          \/ \E i \in 1..Len(app.loop) : app.loop[i] \in {"next", "playcur", "start_2"}

\* Every list has its entries in the order they were added to it.
Ascending(l) == \A i, j \in 1..Len(l) : i < j => l[i] < l[j]
InOrder(s) == \A l \in 1..Len(s.q.lists) : Ascending(Items(s, l))

\* A command of the user or of the system.
User(s, moved) ==
  /\ Up /\ ses.user < Conf.cmds /\ HasJob
  /\ Asks([s EXCEPT !.ended = 0])
  /\ ses' = [ses EXCEPT !.user = @ + 1, !.moved = @ \/ moved,
                      !.crossed = @ \/ Coming \/ ~InOrder(s), !.fresh = FALSE]
  /\ UNCHANGED disk

\* visiblelist_play
UserPlay == \E pos \in 0..2 : HasList(app, app.q.sel) /\ InList(app, app.q.sel, pos)
                              /\ User(Play(app, app.q.sel, pos, Conf), FALSE)

\* MediaSessionCompat.Callback
OnPlay ==
  User(IF app.t.state = "NONE" THEN Playcur(app, Conf)
       ELSE [Unpause(app, Conf) EXCEPT !.svc.fg = TRUE], FALSE)
OnPause == User([Pause(app, Conf) EXCEPT !.svc.st = "PAUSED", !.svc.fg = FALSE], FALSE)
OnStop == User(TrackStop(app, Conf), FALSE)
Picks == IF HasList(app, app.q.act) /\ Items(app, app.q.act) # <<>> /\ Conf.random
         THEN NextRandom(app, Len(Items(app, app.q.act))) ELSE {0}
OnSkipToNext == \E r \in Picks : User(OrderNext(app, r, Conf), FALSE)
OnSkipToPrevious == \E r \in Picks : User(PlayDelta(app, -1, r, Conf), FALSE)
OnSeekTo == \E tail \in BOOLEAN : (tail => Conf.tail) /\ User(Seek(app, tail, Conf), FALSE)

\* SysJobs: BecomingNoisyReceiver, afocus_onchange; a call begins or ends
Noisy == User(Pause(app, Conf), FALSE)
FocusLoss ==
  /\ app.sys.focus
  /\ User(TrackStop([app EXCEPT !.sys.focus = FALSE], Conf), FALSE)
FocusLossTransient ==
  /\ app.sys.focus /\ app.t.state = "PLAYING"
  /\ User(Pause([app EXCEPT !.sys.transient = TRUE], Conf), FALSE)
FocusGain ==
  /\ app.sys.transient
  /\ User(Unpause([app EXCEPT !.sys.transient = FALSE], Conf), FALSE)
Call == User([app EXCEPT !.sys.busy = ~@], FALSE)

\* list_new: new_list, switch_list
ListNew ==
  /\ Len(app.q.lists) < 3
  /\ User([app EXCEPT !.q.lists = Append(@, [id |-> app.q.made + 1, items |-> <<>>, mod |-> FALSE]),
                      !.q.sel = Len(app.q.lists) + 1, !.q.made = @ + 1], FALSE)

\* Queue.clear
Cleared(s) ==
  [s EXCEPT !.q.lists[s.q.sel] = [@ EXCEPT !.items = <<>>, !.mod = TRUE],
            !.q.cur = -1, !.q.idx = -1]
ListClear == User(Cleared(app), app.q.sel # app.q.act)

\* close_current_list: the active list's position and the track's stay.
ListClose ==
  IF Len(app.q.lists) = 1 THEN User(Cleared(app), app.q.sel # app.q.act)
  ELSE User([app EXCEPT !.q.lists = RemoveAt(@, app.q.sel),
                        !.q.sel = IF @ = 1 THEN 1 ELSE @ - 1], TRUE)

\* next_list_select; next_list_add_cur; list_rm
ListSwitch == User([app EXCEPT !.q.sel = IndexNext(app, @)], FALSE)
ListNextAddCur == User(NextListAddCur(app), FALSE)
ListRm ==
  /\ app.q.sel = app.q.act /\ app.q.idx >= 0
  /\ User(RemoveEntry(app, app.q.idx), FALSE)

\* file_del_cur and its dialog, which keeps the position; file_del
FileDelCur ==
  /\ app.dlg = -1 /\ app.q.sel = app.q.act /\ app.q.idx >= 0
  /\ User([app EXCEPT !.dlg = app.q.idx], FALSE)
FileDel == app.dlg >= 0 /\ User([RemoveEntry(app, app.dlg) EXCEPT !.dlg = -1], FALSE)

\* add: URLs are numbered in the order in which they are added; sort
ListAdd ==
  LET new == { u \in Urls : /\ app.t.url < u
                            /\ \A l \in 1..Len(app.q.lists) : \A v \in ToSet(Items(app, l)) : v < u }
  IN \E u \in new : (\A v \in new : u <= v) /\ User(AddTo(app, app.q.sel, u), FALSE)
ListSort == User([app EXCEPT !.q.lists[app.q.sel].items = Reverse(@)], TRUE)

\* auto_stop
AutoStop == User([app EXCEPT !.q.astop = IF @ = "off" THEN "armed" ELSE "off"], FALSE)
AutoStopExpires ==
  /\ Up /\ app.q.astop = "armed"
  /\ app' = [app EXCEPT !.q.astop = "expired"]
  /\ UNCHANGED <<jobs, disk, ses>>

\* A step that the user has no part in.
Event(s) == Up /\ Asks(s) /\ UNCHANGED <<disk, ses>>

\* MediaPlayer calls on_start, on_complete, on_error, on_seek_complete; the
\* timer has update called.
Prepared == app.mp.st = "preparing" /\ Event(OnStart(app))
Completed == app.mp.st = "started" /\ Event(OnComplete(app, Conf))
Failed ==
  /\ app.mp.st \in {"preparing", "started"}
  /\ Event(OnComplete([app EXCEPT !.t.error = TRUE], Conf))
SeekCompleted ==
  /\ app.mp.seeking
  /\ Event([app EXCEPT !.mp.seeking = FALSE,
                       !.t.state = IF @ = "SEEKING" THEN "PLAYING" ELSE @])
Timer ==
  /\ app.mp.tmr /\ app.t.state = "PLAYING"
  /\ \E tail \in BOOLEAN : (tail => Conf.tail) /\ Event(Update([app EXCEPT !.t.intail = tail], Conf))

\* The delayed messages: they come a second later, behind what is posted.
StopDelayed ==
  /\ app.svc.later /\ app.loop = <<>>
  /\ Event(IF app.svc.st \in {"PLAYING", "BUFFERING"} THEN [app EXCEPT !.svc.later = FALSE]
           ELSE [app EXCEPT !.svc = [st |-> "STOPPED", fg |-> FALSE, later |-> FALSE, on |-> FALSE]])
AfocusAbandon ==
  /\ app.sys.later /\ app.loop = <<>>
  /\ Event([app EXCEPT !.sys.later = FALSE, !.sys.focus = FALSE])

-----------------------------------------------------------------------------
(* The native tracks: src/jni/info.h, record.h, convert.h.                 *)

\* recStart: rec_click without a recording
RecStart(s) ==
  LET j == CHOOSE k \in DOMAIN jobs : jobs[k].st = "none"
  IN /\ app' = [s EXCEPT !.trec = j]
     /\ jobs' = [jobs EXCEPT ![j] = [Job0 EXCEPT !.kind = "rec", !.st = "run"]]

\* Mutant: the handle of the recording is kept.
RecStopKeeps(s) ==
  /\ app' = [s EXCEPT !.bad = jobs[s.trec].st = "freed"]
  /\ jobs' = [jobs EXCEPT ![s.trec].st = IF @ = "run" THEN "stopping" ELSE "freed"]

\* record_stop, recStop: rec_click with a recording
RecStop(s) ==
  /\ app' = [s EXCEPT !.trec = 0, !.bad = jobs[s.trec].st = "freed"]
  /\ jobs' = [jobs EXCEPT ![s.trec].st = IF @ = "run" THEN "stopping" ELSE "freed"]

RecClick(s) == IF s.trec = 0 THEN RecStart(s) ELSE RecStop(s)

UserRec ==
  /\ Up /\ ses.user < Conf.cmds /\ HasJob
  /\ RecClick([app EXCEPT !.ended = 0])
  /\ ses' = [ses EXCEPT !.user = @ + 1, !.fresh = FALSE]
  /\ UNCHANGED disk

\* Phiola.convert
UserConvert ==
  /\ Up /\ ses.user < Conf.cmds /\ HasJob
  /\ jobs' = [jobs EXCEPT ![CHOOSE k \in DOMAIN jobs : jobs[k].st = "none"] =
                [Job0 EXCEPT !.kind = "conv", !.st = "run"]]
  /\ ses' = [ses EXCEPT !.user = @ + 1, !.fresh = FALSE]
  /\ app' = [app EXCEPT !.ended = 0]
  /\ UNCHANGED disk

\* infotrk_close, meta_queue_store: the entry's queue must be there.
\* rectrk_close, convtrk_close: the callback, which posts to the looper.
JobEnds(j) ==
  LET k == jobs[j].kind
      gone == k = "info" /\ \A l \in 1..Len(app.q.lists) : app.q.lists[l].id # jobs[j].list
  IN /\ Up /\ jobs[j].st = "run"
     /\ jobs' = [jobs EXCEPT ![j].st = IF k = "rec" THEN "finished" ELSE "freed", ![j].calls = @ + 1]
     /\ app' = [app EXCEPT !.bad = gone,
                           !.loop = IF k = "conv" THEN @
                                    ELSE Append(@, IF k = "info" THEN "start_2" ELSE "rec_click")]
     /\ UNCHANGED <<disk, ses>>

\* A recording that was stopped ends without a callback.
JobStops(j) ==
  /\ Up /\ jobs[j].st = "stopping"
  /\ jobs' = [jobs EXCEPT ![j].st = "freed"]
  /\ UNCHANGED <<app, disk, ses>>

\* The looper runs what the application has posted.
RunPost ==
  LET x == [app EXCEPT !.loop = Tail(@), !.ended = 0]
      h == Head(app.loop)
  IN /\ Up /\ app.loop # <<>> /\ HasJob
     /\ \/ h = "next" /\ \E r \in Picks : Asks(PlayDelta(x, 1, r, Conf))
        \/ h = "playcur" /\ Asks(Playcur(x, Conf))
        \/ h = "start_2" /\ Asks(Start3(x, Conf))
        \/ h = "rec_click" /\ RecClick(x)
     /\ UNCHANGED <<disk, ses>>

-----------------------------------------------------------------------------
(* Saving the lists and starting again.                                    *)

Saved(s) == [i \in 1..Len(s.q.lists) |-> s.q.lists[i].items]

\* Queue.saveconf, Core.saveconf, when the activity is left: a list is written
\* if it was modified, and the file behind the last one is removed.
SaveConf ==
  LET n == Len(app.q.lists)
  IN /\ Up /\ ses.starts < MaxStarts
     /\ disk' = [files |-> [i \in DOMAIN disk.files |->
                              IF i <= n /\ app.q.lists[i].mod THEN Saved(app)[i]
                              ELSE IF i = n + 1 THEN Absent ELSE disk.files[i]],
                 cur |-> app.q.cur, act |-> app.q.act]
     /\ app' = [app EXCEPT !.q.lists = [i \in 1..n |-> [app.q.lists[i] EXCEPT !.mod = FALSE]]]
     /\ ses' = [ses EXCEPT !.goal = Saved(app), !.saved = TRUE]
     /\ UNCHANGED jobs

\* Queue.load, conf_process1
Loaded(d) ==
  LET n == CHOOSE k \in 0..Len(d.files) : /\ \A i \in 1..k : d.files[i] # Absent
                                          /\ k = Len(d.files) \/ d.files[k + 1] = Absent
      lists == IF n = 0 THEN <<<<>>>> ELSE SubSeq(d.files, 1, n)
      act == IF d.act > Len(lists) THEN 1 ELSE d.act
  IN [q |-> [lists |-> [i \in 1..Len(lists) |-> [id |-> i, items |-> lists[i], mod |-> FALSE]],
             made |-> Len(lists), act |-> act, sel |-> act, cur |-> d.cur, idx |-> -1,
             active |-> FALSE, split |-> FALSE, astop |-> "off"],
      t |-> [state |-> "NONE", url |-> 0, stopped |-> FALSE, error |-> FALSE, seek |-> "none",
             tail |-> FALSE, intail |-> FALSE],
      mp |-> [st |-> "idle", src |-> 0, tmr |-> FALSE, seeking |-> FALSE],
      sys |-> [focus |-> FALSE, later |-> FALSE, transient |-> FALSE, busy |-> FALSE],
      svc |-> [st |-> "STOPPED", fg |-> FALSE, later |-> FALSE, on |-> FALSE],
      loop |-> <<>>, ask |-> 0, ended |-> 0, dlg |-> -1, trec |-> 0, bad |-> FALSE]

\* The system kills the process after the activity was left, and the user
\* starts it again.
Restart ==
  /\ Up /\ ses.saved /\ ses.starts < MaxStarts
  /\ app' = Loaded(disk)
  /\ jobs' = [j \in DOMAIN jobs |-> Job0]
  /\ ses' = [ses EXCEPT !.starts = @ + 1, !.fresh = Saved(app) = ses.goal, !.saved = FALSE]
  /\ UNCHANGED disk

AppInit ==
  /\ disk = [files |-> [i \in 1..4 |-> IF i <= Len(Lists0) THEN Lists0[i] ELSE Absent],
             cur |-> -1, act |-> 1]
  /\ app = Loaded(disk)
  /\ jobs = [j \in 1..MaxJobs |-> Job0]
  /\ \E c \in Confs :
       ses = [conf |-> c, user |-> 0, moved |-> FALSE, crossed |-> ~InOrder(app), starts |-> 0, saved |-> FALSE,
              fresh |-> FALSE, goal |-> <<>>]

UserNext ==
  \/ UserPlay \/ OnPlay \/ OnPause \/ OnStop \/ OnSkipToNext \/ OnSkipToPrevious \/ OnSeekTo
  \/ Noisy \/ FocusLoss \/ FocusLossTransient \/ FocusGain \/ Call
  \/ ListNew \/ ListClear \/ ListClose \/ ListSwitch \/ ListNextAddCur \/ ListRm
  \/ FileDelCur \/ FileDel \/ ListAdd
  \/ ListSort \/ AutoStop \/ UserRec \/ UserConvert

SelfNext ==
  \/ Prepared \/ Completed \/ Failed \/ SeekCompleted \/ StopDelayed \/ AfocusAbandon
  \/ \E j \in DOMAIN jobs : JobEnds(j) \/ JobStops(j)
  \/ RunPost

AppOver == (app.bad \/ ses.user = Conf.cmds \/ ~HasJob) /\ UNCHANGED appVars

AppNext ==
  \/ UserNext \/ SelfNext \/ Timer \/ AutoStopExpires \/ SaveConf \/ Restart \/ AppOver

-----------------------------------------------------------------------------
(* Properties.                                                             *)

\* The player does what the track says, with the track's file: it is idle
\* exactly if no track is open, and plays, pauses or prepares together with it;
\* the timer runs only while there is something to show.
PlayerFollowsTrack ==
  ~app.bad =>
    /\ (app.t.state = "NONE") = (app.mp.st = "idle")
    /\ (app.t.state = "OPENING") = (app.mp.st = "preparing")
    /\ (app.t.state = "PAUSED") = (app.mp.st = "paused")
    /\ app.t.state # "NONE" => app.mp.src = app.t.url
    /\ app.mp.tmr = (app.mp.st \in {"started", "paused"})
    /\ app.q.active = (app.t.state # "NONE")

\* While a track is open the application has the audio focus and its session
\* is not stopped, and neither is about to be given up; when none is open the
\* service, if it runs, is going to be stopped.
HeldWhileOpen ==
  ~app.bad =>
    /\ app.t.state # "NONE" =>
         app.sys.focus /\ ~app.sys.later /\ ~app.svc.later /\ app.svc.st # "STOPPED"
    /\ app.t.state = "NONE" /\ app.svc.on => app.svc.later

\* The position of the active track points to it, through every addition and
\* removal, unless lists were closed or sorted; nothing crashes then.
CursorOnTrack ==
  ~ses.moved =>
    /\ ~app.bad
    /\ app.q.idx >= 0 /\ app.t.state # "NONE" =>
         InList(app, app.q.act, app.q.idx) /\ Items(app, app.q.act)[app.q.idx + 1] = app.t.url

\* Without Repeat and Random, and no command while a track is going to be
\* started, a track that has ended or failed is followed by the next one of its
\* list, though it may have been removed from it; behind the last one the
\* playing ends, or begins anew if the last one was removed.
NextFollows ==
  [][LET l == Items(app, app.q.act)
         later == { u \in ToSet(l) : u > app.ended }
         head == Head(app.loop)
     IN /\ RunPost /\ head \in {"next", "playcur"}
        /\ app.ended # 0 /\ ~ses.moved /\ ~ses.crossed /\ ~Conf.repeat /\ ~Conf.random
        => IF later # {} THEN app'.t.url = Min(later)
           ELSE app'.t.url \in {app.ended} \union (IF head = "next" THEN {} ELSE ToSet(l))]_appVars

\* stop() is called for a recording that exists, once; no recording runs that
\* the button does not show; a conversion calls back at most once.
RecordingsHeld ==
  /\ app.trec # 0 => jobs[app.trec].kind = "rec" /\ jobs[app.trec].st \in {"run", "finished"}
  /\ \A j \in DOMAIN jobs :
       /\ jobs[j].kind = "rec" /\ jobs[j].st \in {"run", "finished"} => j = app.trec
       /\ jobs[j].calls <= 1

\* After a restart the lists are those that were saved, if none was closed or
\* sorted and every new one has got entries.
ListsReloaded ==
  ses.fresh /\ ~ses.moved /\ (\A i \in 1..Len(ses.goal) : ses.goal[i] # <<>>)
    => Saved(app) = ses.goal

\* The same without the condition.
ListsKept == ses.fresh => Saved(app) = ses.goal

\* Repeat All: behind the last track the first one is played.
RepeatsAll ==
  [][RunPost /\ Conf.repeat /\ Head(app.loop) = "next" /\ app.ended # 0 /\ ~ses.moved
       => app'.ask # 0 \/ app'.t.state # "NONE" \/ jobs' # jobs \/ app'.loop # Tail(app.loop)]_appVars

\* A recording is started by the user only.
RecAsked == [][RunPost => jobs' = jobs \/ \A j \in DOMAIN jobs : jobs[j].st # "none" \/ jobs'[j].kind # "rec"]_appVars

AppSpec == AppInit /\ [][AppNext]_appVars

\* Track, MP, SysJobs and Svc agree about what is played.
PlayerHeld == PlayerFollowsTrack /\ HeldWhileOpen

=============================================================================
