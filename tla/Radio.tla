------------------------------- MODULE Radio -------------------------------
(***************************************************************************)
(* Playing a network stream and saving it at the same time: net/http.c,    *)
(* net/http-filters.c, net/icy.c and core/file-tee.h.                      *)
(*                                                                         *)
(* The track that plays and the tracks that save run on the main worker,   *)
(* and so do the events of the network: one task at a time, in the order   *)
(* they were posted.  The stream is a sequence of units: audio (positive)  *)
(* and titles (negative), which an ICY server mixes in.  The HTTP library  *)
(* (netmill), the ICY parser and the ring buffer are external.             *)
(***************************************************************************)
EXTENDS ChainOps

SX == INSTANCE SequencesExt

CONSTANTS
  Streams,   \* what the server may send
  MaxChunk,  \* most units of one delivery
  RingSize,  \* units the ring buffer of the tee has room for
  MaxOuts,   \* bound: tracks the tee starts
  Tees       \* values of conf.tee

RadioAssumptions ==
  /\ MaxChunk \in Nat \ {0} /\ RingSize \in Nat \ {0} /\ MaxOuts \in Nat
  /\ Tees \subseteq {"file", "none"}

VARIABLES
  srv,    \* the server: units still to send, the whole stream, how it ends, ICY?
  net,    \* the HTTP client object of netmill: "new", "recv", "out", "end"
  line,   \* the conveyor of the playing track
  trk,    \* its phi_track, and the objects of its filters
  tee,    \* struct tee; n counts the bridges; lost: the ring was full
  outs,   \* the saving tracks, with their bridge: see NewOut
  tasks,  \* the task queue of the main worker
  ub      \* a saving track was used after it was freed

radioVars == <<srv, net, line, trk, tee, outs, tasks, ub>>

None == <<>>   \* no data
Main == 0      \* the playing track's id; the saving tracks are 1..MaxOuts
Outs == 1..MaxOuts

IsAudio(u) == u > 0
Audio(s) == SelectSeq(s, IsAudio)
Drop(s, n) == SubSeq(s, n + 1, Len(s))
Take(s, n) == SubSeq(s, 1, n)

\* A saving track and its bridge: stop says that stop() was called; users is
\* tee_brg.users; ring what is in the ring buffer; file what was written.
NewOut == [st |-> "none", stop |-> FALSE, title |-> 0, users |-> 0, ring |-> <<>>,
           file |-> <<>>, refused |-> FALSE]

Http0 == [state |-> "PROCESSING", fstate |-> 0, data |-> None, done |-> FALSE,
          icy |-> FALSE]

\* A server without ICY sends audio only; it may have no such resource.
RadioInit ==
  /\ \E s \in Streams :
       \/ \E e \in {"done", "error"} : srv = [rest |-> s, all |-> s, end |-> e, icy |-> TRUE]
       \/ \E e \in {"done", "refused"} :
            srv = [rest |-> Audio(s), all |-> Audio(s), end |-> e, icy |-> FALSE]
  /\ net = "new"
  /\ \E o \in Tees :
       line = NewLine(IF o = "file" THEN <<"http", "tee", "ui">> ELSE <<"http", "ui">>, None)
  /\ trk = [http |-> Http0, icy |-> None, meta |-> 0, changed |-> FALSE, stop |-> FALSE,
            running |-> FALSE, waited |-> FALSE, heard |-> <<>>, passed |-> <<>>]
  /\ tee = [state |-> "INIT", out |-> 0, brg |-> 0, n |-> 0, lost |-> FALSE]
  /\ outs = [o \in Outs |-> NewOut]
  /\ tasks = <<Main>>
  /\ ub = FALSE

-----------------------------------------------------------------------------
(* net/http.c and netmill.  A state of this part is [h, n, wake, taken]:   *)
(* the filter's object, the client's place, whether the track was woken    *)
(* and how many units were delivered.                                      *)

\* phi_hc_data in its first state: the chunk is handed to the track, which is
\* woken if it waits, and the client stops until it is run again.
HcData(s, data, done) ==
  LET waits == s.h.state = "WAIT"
  IN [s EXCEPT !.h.data = data, !.h.done = done, !.h.state = "DATA",
               !.h.fstate = IF waits THEN 1 ELSE @, !.wake = waits]

\* phi_hc_data in its second state: the client may receive more.
HcBack(s) == [s EXCEPT !.h.fstate = 0, !.n = "recv"]

\* phi_output_open, phi_hc_resp: the interval of the titles.
HcResp(s) == [s EXCEPT !.h.icy = srv.icy, !.n = "recv"]

\* on_complete: the client has failed, or there is no such resource.
OnComplete(s) == [s EXCEPT !.h.state = "ERR", !.wake = s.h.state = "WAIT", !.n = "end"]

\* What may happen while the client receives: some units arrive, the answer
\* ends, the connection fails, or the resource is refused.
NetEvents ==
  IF srv.end = "refused" \/ srv.rest = <<>> THEN {[what |-> srv.end, n |-> 0]}
  ELSE [what : {"data"}, n : {k \in 1..MaxChunk : k <= Len(srv.rest)}]
Nothing == [what |-> "nothing", n |-> 0]

NetDeliver(s, ev) ==
  LET r == IF s.n = "new" THEN HcResp(s) ELSE s
  IN CASE ev.what = "refused" -> OnComplete(s)
       [] ev.what = "error" -> OnComplete(r)
       [] ev.what = "done" -> [HcData(r, None, TRUE) EXCEPT !.n = "out"]
       [] ev.what = "data" ->
            [HcData(r, Take(srv.rest, ev.n), ev.n = Len(srv.rest) /\ srv.end = "done")
               EXCEPT !.n = "out", !.taken = ev.n]

\* nml_http_client_run: whatever is there already is delivered at once.
NetRun(s, ev) ==
  LET b == IF s.n = "out" THEN HcBack(s) ELSE s
  IN IF ev = Nothing THEN b ELSE NetDeliver(b, ev)

\* httpcl_process
HttpProcess(c, ev) ==
  LET h == c.s.h
  IN CASE h.state = "DATA" ->
            Ret([c EXCEPT !.s.h.icy = FALSE, !.s.h.state = "PROCESSING",
                          !.add = IF h.icy THEN <<"icy">> ELSE <<>>],
                IF h.done THEN "DONE" ELSE "DATA", h.data)
       [] h.state = "PROCESSING" ->
            Ret([c EXCEPT !.s = NetRun([c.s EXCEPT !.h.state = "WAIT"], ev)], "ASYNC", None)
       [] OTHER -> Ret(c, "ERR", None)

-----------------------------------------------------------------------------
(* net/icy.c                                                               *)

\* icy_meta
IcyMeta(t, title) == [t EXCEPT !.meta = -title, !.changed = TRUE]

\* icyread_process: the units at the front of d that are audio, or titles.
Leading(d, audio) ==
  Take(d, CHOOSE k \in 0..Len(d) : /\ \A j \in 1..k : IsAudio(d[j]) = audio
                                   /\ k = Len(d) \/ IsAudio(d[k + 1]) # audio)

\* icy_process: titles are taken out up to the next audio.
IcyProcess(c) ==
  LET d == IF c.fwd THEN c.din ELSE c.t.icy
      titles == Leading(d, FALSE)
      run == Leading(Drop(d, Len(titles)), TRUE)
      t == [SX!FoldLeft(IcyMeta, c.t, titles) EXCEPT !.icy = Drop(d, Len(titles) + Len(run))]
  IN IF c.t.stop THEN Ret(c, "LASTOUT", None)
     ELSE Ret([c EXCEPT !.t = t], IF run = None THEN "MORE" ELSE "DATA", run)

-----------------------------------------------------------------------------
(* core/file-tee.h.  A state of this part is [tee, o, q, ub]: the object,   *)
(* the saving tracks, the tasks, and whether a freed track was touched.    *)

\* core->task: a task that is queued already is not queued again.
Posted(q, t) == IF SX!Contains(q, t) THEN q ELSE Append(q, t)

\* track_stop, track_wake of a saving track.
Touched(x, o) == [x EXCEPT !.q = Posted(@, o), !.ub = @ \/ x.o[o].st = "freed"]
StopOut(x, o) == IF o = 0 THEN x ELSE [Touched(x, o) EXCEPT !.o[o].stop = TRUE]

\* tee_brg_unref: with the last user the ring goes.
BrgUnref(x, o) ==
  IF o = 0 THEN x
  ELSE [x EXCEPT !.o[o].users = @ - 1, !.o[o].ring = IF x.o[o].users = 1 THEN <<>> ELSE @]

\* tee_process, I_DATA: the title has changed and the current file is closed.
NextFile(x) ==
  [BrgUnref(StopOut(x, x.tee.out), x.tee.brg)
     EXCEPT !.tee.out = 0, !.tee.brg = 0, !.tee.state = "WAIT_META"]

\* tee_brg_new, unless there is a bridge.  A bridge has the number of the
\* track that it will feed.
WithBridge(x) ==
  IF x.tee.brg # 0 THEN x
  ELSE [x EXCEPT !.tee.brg = x.tee.n + 1, !.tee.n = @ + 1, !.o[x.tee.n + 1].users = 1]

\* ffring_writestr: what does not fit is dropped.
RingWrite(x, d) ==
  LET b == x.tee.brg
      room == RingSize - Len(x.o[b].ring)
      k == IF Len(d) <= room THEN Len(d) ELSE room
  IN [x EXCEPT !.o[b].ring = @ \o Take(d, k), !.tee.lost = @ \/ k < Len(d)]

\* tee_process, I_WAIT_META with a title: a track that saves is started.
StartOut(x, title) ==
  LET b == x.tee.brg
  IN [x EXCEPT !.o[b].st = "new", !.o[b].title = title, !.o[b].users = 2,
               !.tee.out = b, !.q = Posted(@, b), !.tee.state = "DATA"]

\* tee_process
TeeProcess(c) ==
  LET x == c.x
      more == ~c.fwd /\ (x.tee.state = "DATA" \/ (x.tee.state = "WAIT_META" /\ c.t.meta = 0))
      y == IF x.tee.state = "DATA" /\ c.t.changed THEN NextFile(x)
           ELSE IF x.tee.state = "INIT" THEN [x EXCEPT !.tee.state = "WAIT_META"] ELSE x
      w == RingWrite(WithBridge(y), c.din)
      z == CASE x.tee.state # "INIT" /\ y.tee.state = "WAIT_META" /\ c.t.meta # 0 ->
                  StartOut(w, c.t.meta)
             [] y.tee.state = "DATA" -> Touched(w, w.tee.out)
             [] OTHER -> w
  IN IF more THEN Ret(c, "MORE", None)
     ELSE Ret([c EXCEPT !.x = z, !.t.passed = @ \o c.din],
              IF c.first THEN "DONE" ELSE "DATA", c.din)

\* tee_close
TeeClose(x) ==
  [BrgUnref(StopOut(x, x.tee.out), x.tee.brg) EXCEPT !.tee.out = 0, !.tee.brg = 0]

-----------------------------------------------------------------------------
(* The playing track.                                                      *)

\* The rest of the chain, down to the audio device: it takes the data and
\* wants more, or waits for the device first.  The interface takes note of a
\* new title, if the data gets that far.
UiProcess(c, way) ==
  IF c.t.stop THEN Ret(c, "FIN", None)
  ELSE IF way = "waits" THEN Ret([c EXCEPT !.t.waited = TRUE], "ASYNC", None)
  ELSE Ret([c EXCEPT !.t.heard = @ \o c.din, !.t.waited = FALSE,
                     !.t.changed = IF way = "shows" THEN FALSE ELSE @],
           IF c.first THEN "DONE" ELSE "MORE", None)

Alone == ~trk.running /\ ~ub

\* The main worker takes up the playing track's task.
RunPlay ==
  /\ Alone /\ tasks # <<>> /\ Head(tasks) = Main
  /\ tasks' = Tail(tasks)
  /\ trk' = [trk EXCEPT !.running = TRUE]
  /\ line' = [line EXCEPT !.pc = "run"]
  /\ UNCHANGED <<srv, net, tee, outs, ub>>

\* One turn of track_run: the current filter is called.  When the chain ends
\* its filters are closed and the track's task is withdrawn.
Turn(ev, way) ==
  LET name == At(line.ch, line.cur)
      call == [fwd |-> line.fwd, first |-> line.cur = 0, din |-> line.din, t |-> trk,
               s |-> [h |-> trk.http, n |-> net, wake |-> FALSE, taken |-> 0],
               x |-> [tee |-> tee, o |-> outs, q |-> tasks, ub |-> ub],
               r |-> "DATA", out |-> None, add |-> <<>>]
      c == CASE name = "http" -> HttpProcess(call, ev)
             [] name = "icy" -> IcyProcess(call)
             [] name = "tee" -> TeeProcess(call)
             [] name = "ui" -> UiProcess(call, way)
      v == Turned(line, c.add, c.r, c.out, None)
      x == IF v.pc = "end" THEN TeeClose(c.x) ELSE c.x
      q == IF c.s.wake THEN Posted(x.q, Main) ELSE x.q
  IN /\ trk.running /\ ~ub
     /\ ev # Nothing => name = "http" /\ trk.http.state = "PROCESSING"
     /\ way # "takes" => name = "ui"
     /\ way = "waits" => ~trk.waited /\ ~trk.stop
     /\ c.x.tee.n <= MaxOuts
     /\ line' = v
     /\ trk' = [c.t EXCEPT !.http = c.s.h, !.running = v.pc = "run"]
     /\ net' = IF v.pc = "end" THEN "end" ELSE c.s.n
     /\ srv' = [srv EXCEPT !.rest = Drop(@, c.s.taken)]
     /\ tee' = x.tee /\ outs' = x.o /\ ub' = x.ub
     /\ tasks' = IF v.pc = "end" THEN SelectSeq(q, LAMBDA t : t # Main) ELSE q

\* An event of the socket, or its timer: the client goes on.
NetEvent(ev) ==
  LET s == NetDeliver([h |-> trk.http, n |-> net, wake |-> FALSE, taken |-> 0], ev)
  IN /\ Alone /\ line.pc # "end"
     /\ net = "recv" \/ (net = "new" /\ trk.http.state = "WAIT")
     /\ ev \in NetEvents
     /\ net' = s.n /\ trk' = [trk EXCEPT !.http = s.h]
     /\ srv' = [srv EXCEPT !.rest = Drop(@, s.taken)]
     /\ tasks' = IF s.wake THEN Posted(tasks, Main) ELSE tasks
     /\ UNCHANGED <<line, tee, outs, ub>>

\* The audio device has room again.
DeviceReady ==
  /\ Alone /\ line.pc = "async" /\ At(line.ch, line.cur) = "ui"
  /\ ~SX!Contains(tasks, Main)
  /\ tasks' = Append(tasks, Main)
  /\ UNCHANGED <<srv, net, line, trk, tee, outs, ub>>

\* track_stop by the user
UserStop ==
  /\ Alone /\ line.pc # "end" /\ ~trk.stop
  /\ trk' = [trk EXCEPT !.stop = TRUE]
  /\ tasks' = Posted(tasks, Main)
  /\ UNCHANGED <<srv, net, line, tee, outs, ub>>

-----------------------------------------------------------------------------
(* The saving tracks: tee-brg and the file writer behind it.               *)

\* Mutant: a stopped track ends with data still in the ring.
DrainedNot(o) ==
  IF o.stop THEN [o EXCEPT !.st = "freed", !.users = @ - 1,
                           !.ring = IF o.users = 1 THEN <<>> ELSE @]
  ELSE [o EXCEPT !.st = "run", !.file = @ \o o.ring, !.ring = <<>>]

\* tee_brg_process until the ring is empty: then the track waits, or ends if
\* it was told to stop; tee_brg_close gives the bridge up.
Drained(o) ==
  IF o.stop THEN [o EXCEPT !.st = "freed", !.file = @ \o o.ring, !.ring = <<>>,
                           !.users = @ - 1]
  ELSE [o EXCEPT !.st = "run", !.file = @ \o o.ring, !.ring = <<>>]

\* The file cannot be opened: the track finishes at once and waits for stop().
Refused(o) ==
  [o EXCEPT !.st = IF o.stop THEN "freed" ELSE "finished", !.users = @ - 1,
            !.refused = TRUE,
            !.ring = IF o.users = 1 THEN <<>> ELSE @]

\* A track that has finished is freed by the next call of track_run.
RunOut(o, ok) ==
  /\ Alone /\ tasks # <<>> /\ Head(tasks) = o
  /\ ~ok => outs[o].st = "new"
  /\ tasks' = Tail(tasks)
  /\ outs' = [outs EXCEPT ![o] =
                CASE @.st = "finished" -> [@ EXCEPT !.st = "freed"]
                  [] @.st # "finished" /\ ok -> Drained(@)
                  [] OTHER -> Refused(@)]
  /\ UNCHANGED <<srv, net, line, trk, tee, ub>>

RadioOver ==
  /\ ub \/ (line.pc = "end" /\ tasks = <<>>)
  /\ UNCHANGED radioVars

RadioNext ==
  \/ RunPlay
  \/ \E ev \in NetEvents \union {Nothing}, way \in {"takes", "shows", "waits"} : Turn(ev, way)
  \/ \E o \in Outs, ok \in BOOLEAN : RunOut(o, ok)
  \/ \E ev \in NetEvents : NetEvent(ev)
  \/ DeviceReady \/ UserStop
  \/ RadioOver

\* As long as something is left to do, something happens: the worker runs its
\* tasks, the device plays on, and the server sends or the client's timer ends
\* the wait.  The user's one stop cannot be all that happens.
RadioFairness ==
  []<>(ub \/ (line.pc = "end" /\ tasks = <<>>)) \/ []<><<TRUE>>_radioVars

RadioSpec == RadioInit /\ [][RadioNext]_radioVars /\ RadioFairness

-----------------------------------------------------------------------------
(* Properties.                                                             *)

Ended == line.pc = "end"

\* What is played is the stream's audio in its order, nothing twice, nothing
\* left out, no title taken for audio, however the network cut the stream;
\* a stream that ends well and is not stopped is played in full.
PlayedInOrder ==
  /\ SX!IsPrefix(trk.heard, Audio(srv.all))
  /\ Ended /\ ~line.failed /\ ~trk.stop => trk.heard = Audio(srv.all)

Bridged == SX!FlattenSeq([o \in 1..tee.n |-> outs[o].file \o outs[o].ring])
AllOpened == \A o \in Outs : ~outs[o].refused

\* The files hold what went through the tee, each part once and in its order,
\* as long as every file could be opened, the ring had room and a file was
\* begun: a first title, and data after the tee's first call.
SavedInOrder ==
  AllOpened /\ ~tee.lost =>
    \/ Bridged = trk.passed
    \/ Ended /\ outs[1].st = "none"

\* The title in effect at an audio unit of the stream; 0: none yet.
TitleAt(u) ==
  LET s == Take(srv.all, CHOOSE i \in 1..Len(srv.all) : srv.all[i] = u)
      t == SelectSeq(s, LAMBDA x : ~IsAudio(x))
  IN IF t = <<>> THEN 0 ELSE -SX!Last(t)

\* A file holds the audio of the title it is named after and no other; only
\* what came before the first title goes into the first file.
FilesByTitle ==
  \A o \in Outs : outs[o].st # "none" =>
    \A u \in SX!ToSet(outs[o].file) :
      TitleAt(u) = outs[o].title \/ (o = 1 /\ TitleAt(u) = 0)

\* The ring of a bridge exists exactly as long as the tee or the saving track
\* has it: nobody reads or writes a ring that was freed.
BridgeUsers ==
  ~ub => \A o \in Outs :
           outs[o].users = (IF tee.brg = o THEN 1 ELSE 0)
                           + (IF outs[o].st \in {"new", "run"} THEN 1 ELSE 0)

\* track_run's "waiting for stop()": a saving track that has finished is there
\* until the tee stops it.
OutWaitsForStop == tee.out # 0 => outs[tee.out].st # "freed"

\* The stream's end, a failure or the user's stop ends the playing track, and
\* then every saving track writes what it has and ends, too.
RadioEnds ==
  []<>(ub \/ (Ended /\ \A o \in Outs : outs[o].st \in {"none", "freed"}
                                        /\ outs[o].ring = <<>>))

\* http, icy and tee together: the stream is played in order and in full, and
\* saved in order, each title in a file of its own, through rings that live
\* exactly as long as one of their two users.
StreamKept == PlayedInOrder /\ SavedInOrder /\ FilesByTitle /\ BridgeUsers

=============================================================================
