------------------------------ MODULE Playback ------------------------------
(***************************************************************************)
(* Audio output: adev/audio-play.h with its users alsa-play.h,             *)
(* pulse-play.h, wasapi-play.h and directsound-play.h, fed by the          *)
(* interface filter (tui/play.h or gui/track-playback.h) and               *)
(* afilter/auto-conv.h.                                                    *)
(*                                                                         *)
(* Tracks play one after another on one worker: the queue stops a track    *)
(* before it starts the next one.  They share the device buffer of the     *)
(* module.  The chain is                                                   *)
(*      source -> ui -> auto-conv [-> conv] -> output                      *)
(* and trk.pc names the filter that is called.  A unit is the audio that   *)
(* fits one place of the device buffer, tagged with the number of seeks    *)
(* the user had made when it was read and with the format it is in.        *)
(* Commands and timers run between two runs of the track.                  *)
(***************************************************************************)
EXTENDS Integers, Sequences

CONSTANTS
  Formats,    \* audio formats (format, rate and channels together)
  Cap,        \* units the device buffer holds
  Tracks,     \* number of tracks that are played
  Blocks,     \* blocks of two units the source of a track has
  MaxCmds,    \* commands the user gives
  MaxFails    \* faults of the device and of its server

ASSUME PlayAssumptions ==
  /\ Cap \in Nat \ {0} /\ Tracks \in Nat \ {0} /\ Blocks \in Nat \ {0}
  /\ MaxCmds \in Nat /\ MaxFails \in Nat

VARIABLES
  env,   \* driver, interface, source and what the device supports: constant
  mod,   \* the driver's module: shared buffer, its user, timer, known formats
  bufs,  \* the live device buffers
  trk,   \* the track that is playing and its audio_out
  task,  \* the task of the track is queued (wake)
  cnt    \* tracks started, buffers made, commands and faults so far

vars == <<env, mod, bufs, trk, task, cnt>>

None == "none"
NoTrack == [pc |-> "none", id |-> 0]
Af(f, il) == [f |-> f, il |-> il]
OpenStates == {"TRY", "OPEN"}

Init ==
  /\ env \in [drv : {"alsa", "pulse", "wasapi", "dsound"}, ui : {"tui", "gui"},
              src : {"file", "net"}, sup : SUBSET Formats \ {{}}]
  /\ mod = [out |-> 0, fmt |-> None, used |-> 0, tmr |-> None, fmts |-> {}]
  /\ bufs = <<>> /\ trk = NoTrack /\ task = FALSE
  /\ cnt = [trk |-> 0, cmd |-> 0, fail |-> 0, conv |-> FALSE]

\* The worker runs nothing: it takes the next task or timer.
Idle == trk.pc \in {"none", "async"} \/ (trk.pc = "src" /\ env.src = "net")

-----------------------------------------------------------------------------
(* The device (ffaudio), as its users see it.                              *)

Buf(b) == bufs[b]
Live(b) == b \in 1..Len(bufs) /\ bufs[b].live
SetBuf(b, r) == [bufs EXCEPT ![b] = r]
StopBuf(b) == SetBuf(b, [Buf(b) EXCEPT !.on = FALSE])
ClearBuf(b) == SetBuf(b, [Buf(b) EXCEPT !.on = FALSE, !.q = <<>>])
FreeBuf(b) == IF Live(b) THEN SetBuf(b, [Buf(b) EXCEPT !.live = FALSE, !.q = <<>>, !.on = FALSE])
                         ELSE bufs

\* A running buffer plays a unit; it goes on by itself while it has data.
DevicePlays(b) ==
  /\ Live(b) /\ Buf(b).on /\ Buf(b).q # <<>>
  /\ bufs' = SetBuf(b, [Buf(b) EXCEPT !.q = Tail(@)])
  /\ UNCHANGED <<env, mod, trk, task, cnt>>

-----------------------------------------------------------------------------
(* Timers of the module.                                                   *)

\* audio_out_onplay: a waiting output is woken, any other is marked.
OnPlay(t) == [t EXCEPT !.st = "SIGNALLED"]
WakesOnPlay(t) == t.st = "WAITING"

Tick ==
  /\ Idle /\ mod.tmr = "play" /\ trk.pc # "none"
  /\ trk' = OnPlay(trk)
  /\ task' = (task \/ WakesOnPlay(trk))
  /\ UNCHANGED <<env, mod, bufs, cnt>>

\* alsa_buf_close, pulse_close_tmr, wasapi_close_tmr: one-shot.
CloseTick ==
  /\ Idle /\ mod.tmr = "close"
  /\ bufs' = FreeBuf(mod.out)
  /\ mod' = [mod EXCEPT !.out = 0, !.tmr = None]
  /\ UNCHANGED <<env, trk, task, cnt>>

-----------------------------------------------------------------------------
(* A track and its source.                                                 *)

\* The queue starts a track: its audio format is the source's.
StartTrack(f, il) ==
  /\ trk.pc = "none" /\ cnt.trk < Tracks
  /\ cnt' = [cnt EXCEPT !.trk = @ + 1]
  /\ trk' = [pc |-> "src", id |-> cnt.trk + 1, fwd |-> TRUE, din |-> <<>>,
             left |-> Blocks + 1, gone |-> {}, af |-> Af(f, il), stop |-> FALSE,
             \* audio_out
             st |-> "TRY", stream |-> 0, err |-> FALSE, recon |-> FALSE, ctx |-> FALSE,
             \* auto-conv, oaudio
             ac |-> 0, hold |-> <<>>, conv |-> FALSE, oaf |-> Af(f, il),
             caf |-> Af(None, FALSE), pause |-> FALSE, clear |-> FALSE,
             \* seeking and the interface filter
             sreq |-> FALSE, seek |-> FALSE, useek |-> FALSE, paused |-> FALSE,
             gen |-> 0, rgen |-> 0, open |-> FALSE, loud |-> FALSE]
  /\ task' = FALSE
  /\ UNCHANGED <<env, mod, bufs>>

\* The chain behind the output; a filter that returned PHI_DONE is gone.
First == {"src", "ui", "ac"} \subseteq trk.gone

\* The source is asked: it honours a seek, hands on a block (at first only
\* what it knows from the header), and leaves the chain with its last one.
Source ==
  /\ trk.pc = "src" /\ ~trk.stop
  /\ LET seeks == trk.sreq /\ trk.seek /\ env.src = "file"
         g == IF seeks THEN trk.gen ELSE trk.rgen
         left == IF seeks THEN Blocks ELSE trk.left
         u == [gen |-> g, af |-> trk.af]
     IN trk' = [trk EXCEPT !.pc = "ui", !.fwd = TRUE, !.rgen = g, !.sreq = @ /\ ~seeks,
                  !.din = IF left > Blocks THEN <<>> ELSE <<u, u>>,
                  !.left = left - 1,
                  !.gone = IF left = 1 THEN @ \union {"src"} ELSE @]
  /\ task' = FALSE   \* the source's own wake is the same task
  /\ UNCHANGED <<env, mod, bufs, cnt>>

\* Going back from filter f: the nearest filter that is still in the chain.
Back(t, f) ==
  LET up == CASE f = "ui" -> {"src"} [] f = "ac" -> {"src", "ui"}
              [] f = "out" -> {"src", "ui", "ac"}
      left == up \ t.gone
  IN IF left = {} THEN [t EXCEPT !.pc = "fin"]
     ELSE [t EXCEPT !.fwd = FALSE, !.din = <<>>,
             !.pc = IF "ac" \in left THEN "ac" ELSE IF "ui" \in left THEN "ui" ELSE "src"]

\* Going on after the interface filter.
On(t) == [t EXCEPT !.pc = IF "ac" \in t.gone THEN "out" ELSE "ac", !.fwd = TRUE]

\* tuiplay_process and gtrk_process (the track is stopped only between two
\* runs, so the output or the source sees PHI_FSTOP first).
UiProcess ==
  /\ trk' =
       CASE trk.useek -> Back([trk EXCEPT !.seek = TRUE, !.useek = FALSE], "ui")
         [] ~trk.useek /\ "src" \notin trk.gone /\ (~trk.fwd \/ trk.din = <<>>) ->
              Back([trk EXCEPT !.open = TRUE], "ui")
         [] OTHER ->
              On([trk EXCEPT !.open = TRUE, !.seek = @ /\ trk.sreq,
                    !.gone = IF "src" \in @ THEN @ \union {"ui"} ELSE @])
  /\ UNCHANGED <<env, mod, bufs, task, cnt>>

TuiPlayProcess == trk.pc = "ui" /\ env.ui = "tui" /\ UiProcess
GtrkProcess == trk.pc = "ui" /\ env.ui = "gui" /\ UiProcess

\* The conversion filter behind auto-conv gives every unit the output format.
Converted(t, us) ==
  [i \in DOMAIN us |-> IF t.conv THEN [us[i] EXCEPT !.af = t.oaf] ELSE us[i]]

\* autoconv_process: the first call keeps the block and lets the output say
\* what it needs; the second applies that and leaves the chain.
AutoConv ==
  /\ trk.pc = "ac"
  /\ IF trk.ac = 0
     THEN /\ trk' = [trk EXCEPT !.ac = 1, !.hold = trk.din, !.din = <<>>, !.pc = "out",
                       !.fwd = TRUE, !.caf = [@ EXCEPT !.il = trk.oaf.il]]
          /\ UNCHANGED cnt
     ELSE LET o == Af(IF trk.caf.f = None THEN trk.oaf.f ELSE trk.caf.f, trk.caf.il)
              t == [trk EXCEPT !.oaf = o, !.conv = o # trk.af, !.gone = @ \union {"ac"}]
          IN \/ /\ trk' = [t EXCEPT !.pc = "out", !.fwd = TRUE, !.hold = <<>>, !.din = trk.hold]
                /\ UNCHANGED cnt
             \/ \* the conversion filter is missing or cannot convert
                /\ t.conv /\ cnt.fail < MaxFails
                /\ trk' = [t EXCEPT !.pc = "fin"]
                /\ cnt' = [cnt EXCEPT !.fail = @ + 1, !.conv = TRUE]
  /\ UNCHANGED <<env, mod, bufs, task>>

-----------------------------------------------------------------------------
(* audio_out_write: what the output does with an open buffer b.  A result  *)
(* is the next track record t, the buffers, the code r and the faults n.   *)

Outcome(r, t, bs, n) == [r |-> r, t |-> t, bs |-> bs, n |-> n]

Min2(x, y) == IF x <= y THEN x ELSE y

\* One call of write(): as much as there is room for; a full buffer starts.
Filled(t, b) ==
  LET us == Converted(t, t.din)
      n == Min2(Len(us), Cap - Len(Buf(b).q))
  IN [bs |-> SetBuf(b, [Buf(b) EXCEPT !.q = @ \o SubSeq(us, 1, n), !.on = @ \/ n < Len(us)]),
      rest |-> SubSeq(t.din, n + 1, Len(t.din))]

\* Mutant: the data at hand is written after the buffer was cleared.
ClearedGoesOn(t, b) == Outcome("AGAIN", [t EXCEPT !.clear = FALSE], ClearBuf(b), 0)

\* The user has asked for a seek: the data at hand is given up.
Cleared(t, b) ==
  Outcome(IF t.sreq THEN "MORE" ELSE "AGAIN", [t EXCEPT !.clear = FALSE], ClearBuf(b), 0)

\* The state is left as it is, so that the timer does not wake the track.
Paused(t, b) == Outcome("ASYNC", [t EXCEPT !.pause = FALSE], StopBuf(b), 0)

\* write() until the data or the room ends, then drain() if nothing follows.
Fed(t, b) ==
  LET f == Filled(t, b)
      waits == [t EXCEPT !.din = f.rest, !.st = "WAITING"]
  IN CASE f.rest # <<>> -> Outcome("ASYNC", waits, f.bs, 0)
       [] f.rest = <<>> /\ First /\ f.bs[b].q = <<>> -> Outcome("DONE", [t EXCEPT !.din = <<>>], f.bs, 0)
       [] f.rest = <<>> /\ First /\ f.bs[b].q # <<>> ->
            Outcome("ASYNC", waits, [f.bs EXCEPT ![b].on = TRUE], 0)
       [] OTHER -> Outcome("MORE", [t EXCEPT !.din = <<>>, !.st = "FEEDING"], f.bs, 0)

Write(t, b) ==
  IF t.stop THEN {Outcome("FIN", t, bufs, 0)}
  ELSE IF t.clear THEN {Cleared(t, b)}
  ELSE IF t.pause THEN {Paused(t, b)}
  ELSE {Fed(t, b)} \union
       (IF cnt.fail < MaxFails /\ t.din # <<>>
        THEN {Outcome(e, [t EXCEPT !.err = TRUE], bufs, 1) : e \in {"ERR", "OFFLINE"}}
        ELSE {})

-----------------------------------------------------------------------------
(* audio_out_open and the create functions of the drivers.  A result also  *)
(* has the next module record m; its buffers are the ones of bs.           *)

Created(r, t, m, bs, n) == [r |-> r, t |-> t, m |-> m, bs |-> bs, n |-> n]

\* audio_out_open in format t.oaf: success, a format the device can do
\* instead (on the first try only), or a fault.
AudioOutOpen(t, try, bs) ==
  LET f == t.oaf.f
      b == [live |-> TRUE, fmt |-> f, q |-> <<>>, on |-> FALSE]
      faults == IF cnt.fail = MaxFails THEN {}
                ELSE {"ERR"} \union (IF env.drv = "pulse" THEN {"ECONNECTION"} ELSE {})
  IN {[r |-> e, t |-> t, bs |-> bs] : e \in faults}
     \union (CASE f \in env.sup ->
                    {[r |-> "OK", t |-> [t EXCEPT !.stream = Len(bs) + 1, !.st = "FEEDING"],
                      bs |-> Append(bs, b)]}
               [] f \notin env.sup /\ try ->
                    {[r |-> "EFORMAT", t |-> [t EXCEPT !.caf.f = g], bs |-> bs] : g \in env.sup}
               [] OTHER -> {[r |-> "ERR", t |-> t, bs |-> bs]})

\* fmt_conv_find, fmt_conv_add.
KnownGood(fs, f) == {p \in fs : p.bad = f}
Remember(fs, f, g) == (fs \ KnownGood(fs, f)) \union {[bad |-> f, good |-> g]}

\* Mutant: the timer is set up only with a new buffer.
FinNoTimer(t, m, bs, n) ==
  Created("DONE", [t EXCEPT !.ctx = TRUE],
          [m EXCEPT !.used = t.id, !.tmr = IF Len(bs) > Len(bufs) THEN "play" ELSE @], bs, n)

\* The buffer is the output's from now on, and the timer calls it.
Fin(t, m, bs, n) ==
  Created("DONE", [t EXCEPT !.ctx = TRUE], [m EXCEPT !.used = t.id, !.tmr = "play"], bs, n)

Opened(t, m, bs, n) == Fin(t, [m EXCEPT !.out = t.stream, !.fmt = t.oaf.f], bs, n)

\* A buffer is there already: its timer is stopped and its user, if any, is
\* told and forgotten.
Taken(m) == [m EXCEPT !.tmr = None, !.used = 0]
Told(t) == IF mod.used = t.id THEN OnPlay(t) ELSE t

SameFormat(t) == mod.fmt = t.oaf.f

Reused(t) == Fin([Told(t) EXCEPT !.stream = mod.out], Taken(mod), ClearBuf(mod.out), 0)

\* alsa_create and wasapi_create: formats the device refused are remembered.
CreateKnowing(t, try, err) ==
  IF mod.out # 0 /\ SameFormat(t) THEN {Reused(t)}
  ELSE IF mod.out # 0 /\ try /\ [bad |-> t.oaf.f, good |-> mod.fmt] \in mod.fmts
  THEN {Created("MORE", [Told(t) EXCEPT !.caf.f = mod.fmt], Taken(mod), bufs, 0)}
  ELSE LET m == IF mod.out # 0 THEN [Taken(mod) EXCEPT !.out = 0] ELSE mod
           bs == FreeBuf(mod.out)
       IN {CASE o.r = "OK" -> Opened(o.t, m, o.bs, 0)
             [] o.r = "EFORMAT" ->
                  Created("MORE", o.t, [m EXCEPT !.fmts = Remember(@, t.oaf.f, o.t.caf.f)], o.bs, 0)
             [] OTHER -> Created("ERR", [o.t EXCEPT !.err = err], m, o.bs, 1) :
           o \in AudioOutOpen(IF mod.out # 0 THEN Told(t) ELSE t, try, bs)}

AlsaCreate(t, try) == CreateKnowing(t, try, TRUE)
WasapiCreate(t, try) == CreateKnowing(t, try, FALSE)

\* pulse_create: no memory of formats, one reconnection.
PulseCreate(t, try) ==
  IF mod.out # 0 /\ SameFormat(t) THEN {Reused(t)}
  ELSE LET m == IF mod.out # 0 THEN [Taken(mod) EXCEPT !.out = 0] ELSE mod
           bs == FreeBuf(mod.out)
           t0 == IF mod.out # 0 THEN Told(t) ELSE t
           fail == {Created("ERR", [t0 EXCEPT !.err = TRUE], m, bs, 1)}
           After(o) == CASE o.r = "OK" -> {Opened(o.t, m, o.bs, 0)}
                         [] o.r = "EFORMAT" -> {Created("MORE", o.t, m, o.bs, 0)}
                         [] OTHER -> fail
       IN UNION {IF o.r = "ECONNECTION" /\ ~t0.recon
                 THEN fail \union   \* pulse_init fails, or the second attempt counts
                      UNION {After(o2) : o2 \in AudioOutOpen([t0 EXCEPT !.recon = TRUE], try, bs)}
                 ELSE After(o) : o \in AudioOutOpen(t0, try, bs)}

\* dsnd_create: a buffer and a timer of its own.
DsndCreate(t, try) ==
  {CASE o.r = "OK" -> Created("DONE", [o.t EXCEPT !.ctx = TRUE], [mod EXCEPT !.tmr = "play"], o.bs, 0)
     [] o.r = "EFORMAT" -> Created("MORE", o.t, mod, o.bs, 0)
     [] OTHER -> Created("ERR", o.t, mod, o.bs, 1) : o \in AudioOutOpen(t, try, bufs)}

-----------------------------------------------------------------------------
(* alsa_write, pulse_write, wasapi_write, dsnd_write.                      *)

Fault(n) == cnt' = [cnt EXCEPT !.fail = Min2(@ + n, MaxFails)]

\* The first calls: the buffer is opened; unless its format and the
\* interleaving suit, auto-conv is asked to convert, once.
Opening == trk.pc = "out" /\ trk.st \in OpenStates
TryOpen == trk.st = "TRY"

OpenOutput(c) ==
  LET asks == [c.t EXCEPT !.caf.il = TRUE, !.st = "OPEN"]
  IN /\ mod' = c.m /\ bufs' = c.bs /\ Fault(c.n)
     /\ trk' = CASE c.r = "ERR" -> [c.t EXCEPT !.pc = "fin"]
                 [] c.r = "DONE" /\ c.t.oaf.il -> [c.t EXCEPT !.st = "WAITING"]
                 [] OTHER -> IF c.t.st = "OPEN" THEN [c.t EXCEPT !.pc = "fin"]
                                                ELSE Back(asks, "out")
     /\ UNCHANGED <<env, task>>

\* A buffer is open.
Writing == trk.pc = "out" /\ trk.st \notin OpenStates

\* What the conveyor does with the result of audio_out_write.
Returned(o) ==
  CASE o.r = "MORE" -> Back(o.t, "out")
    [] o.r = "ASYNC" -> [o.t EXCEPT !.pc = "async"]
    [] o.r = "AGAIN" -> o.t
    [] OTHER -> [o.t EXCEPT !.pc = "fin"]

WriteOutput(o) ==
  /\ Fault(o.n)
  /\ bufs' = o.bs /\ trk' = Returned(o)
  /\ UNCHANGED <<env, mod, task>>

AlsaWrite ==
  /\ env.drv = "alsa"
  /\ \/ Opening /\ \E c \in AlsaCreate(trk, TryOpen) : OpenOutput(c)
     \/ Writing /\ \E o \in Write(trk, trk.stream) : WriteOutput(o)

PulseWrite ==
  /\ env.drv = "pulse"
  /\ \/ Opening /\ \E c \in PulseCreate(trk, TryOpen) : OpenOutput(c)
     \/ Writing /\ \E o \in Write(trk, trk.stream) : WriteOutput(o)

DsndWrite ==
  /\ env.drv = "dsound"
  /\ \/ Opening /\ \E c \in DsndCreate(trk, TryOpen) : OpenOutput(c)
     \/ Writing /\ \E o \in Write(trk, trk.stream) : WriteOutput(o)

\* Mutant: the state still says that the buffer is open.
ReopensNot(t) == t

\* The default device has gone: the output is opened again.
Reopens(t) == [t EXCEPT !.st = "OPEN"]

\* wasapi drops the buffer after any error of audio_out_write.
WasapiWrite ==
  /\ env.drv = "wasapi"
  /\ \/ Opening /\ \E c \in WasapiCreate(trk, TryOpen) : OpenOutput(c)
     \/ /\ Writing
        /\ \E o \in Write(trk, trk.stream) :
             IF o.r \notin {"ERR", "OFFLINE"} THEN WriteOutput(o)
             ELSE /\ Fault(o.n)
                  /\ bufs' = FreeBuf(mod.out)
                  /\ mod' = [mod EXCEPT !.out = 0, !.tmr = None, !.used = 0]
                  /\ trk' = IF o.r = "OFFLINE" THEN Reopens(o.t) ELSE Returned(o)
                  /\ UNCHANGED <<env, task>>

-----------------------------------------------------------------------------
(* Closing the output: the shared buffer is closed later, unless the next  *)
(* track takes it over.                                                    *)

Mine == mod.used = trk.id

\* After a fault the buffer is not used again.
DropBuffer ==
  /\ bufs' = FreeBuf(mod.out)
  /\ mod' = [mod EXCEPT !.out = 0, !.tmr = None, !.used = IF Mine THEN 0 ELSE @]

KeepBuffer(tmr) ==
  IF Mine THEN bufs' = StopBuf(mod.out) /\ mod' = [mod EXCEPT !.used = 0, !.tmr = tmr]
          ELSE UNCHANGED <<bufs, mod>>

Closes(drv) ==
  /\ trk.pc = "fin" /\ env.drv = drv
  /\ trk' = NoTrack /\ task' = FALSE
  /\ UNCHANGED <<env, cnt>>

AlsaClose == Closes("alsa") /\ IF trk.err THEN DropBuffer ELSE KeepBuffer("close")

PulseClose == Closes("pulse") /\ IF trk.err THEN DropBuffer ELSE KeepBuffer("close")

\* wasapi keeps the buffer open when the track has ended by itself.
WasapiClose == Closes("wasapi") /\ KeepBuffer(IF trk.stop THEN "close" ELSE None)

DsndClose ==
  /\ Closes("dsound")
  /\ bufs' = FreeBuf(trk.stream) /\ mod' = [mod EXCEPT !.tmr = None]

-----------------------------------------------------------------------------
(* Commands of the user, between two runs of the track.                    *)

Command ==
  /\ Idle /\ trk.pc \in {"async", "src"} /\ cnt.cmd < MaxCmds
  /\ cnt' = [cnt EXCEPT !.cmd = @ + 1]
  /\ UNCHANGED <<env, mod>>

\* audio_stop, if the device was opened for this track.
AdevStop(t) == IF t.ctx THEN OnPlay(t) ELSE t
AdevStops == IF trk.ctx THEN StopBuf(trk.stream) ELSE bufs
AdevWakes == trk.ctx /\ WakesOnPlay(trk)

\* A seek is noted for the interface filter and the device is cleared; only
\* the terminal wakes the track by itself.
SeekTo(wakes) ==
  /\ Command /\ trk.open
  /\ trk' = [AdevStop(trk) EXCEPT !.useek = TRUE, !.sreq = TRUE, !.clear = TRUE,
               !.gen = @ + 1, !.loud = @ \/ wakes]
  /\ bufs' = AdevStops
  /\ task' = (task \/ AdevWakes \/ wakes)

TuiPlaySeek == env.ui = "tui" /\ SeekTo(TRUE)
GtrkSeek == env.ui = "gui" /\ SeekTo(FALSE)

\* Resuming wakes the track only if the pause has been taken up.
PauseOrResume ==
  /\ Command /\ trk.open
  /\ IF trk.paused
     THEN /\ trk' = [trk EXCEPT !.paused = FALSE, !.pause = FALSE]
          /\ task' = (task \/ ~trk.pause)
          /\ UNCHANGED bufs
     ELSE /\ trk' = [AdevStop(trk) EXCEPT !.paused = TRUE, !.pause = TRUE, !.loud = ~trk.ctx]
          /\ bufs' = AdevStops
          /\ task' = (task \/ AdevWakes)

TuiPlayPauseResume == env.ui = "tui" /\ PauseOrResume
GtrkPlayPause == env.ui = "gui" /\ PauseOrResume

\* The queue stops the track.
StopTrack ==
  /\ Command
  /\ trk' = [trk EXCEPT !.stop = TRUE]
  /\ task' = TRUE
  /\ UNCHANGED bufs

\* track_run: the filter that returned PHI_ASYNC is called again; a source
\* that waits for the network ignores it, or ends on a stop.
RunTask ==
  /\ Idle /\ task /\ trk.pc # "none"
  /\ task' = FALSE
  /\ trk' = CASE trk.pc = "async" -> [trk EXCEPT !.pc = "out"]
              [] trk.pc = "src" /\ trk.stop -> [trk EXCEPT !.pc = "fin"]
              [] OTHER -> trk
  /\ UNCHANGED <<env, mod, bufs, cnt>>

\* Every track was played and no timer is left.
Rest ==
  /\ trk.pc = "none" /\ cnt.trk = Tracks /\ mod.tmr = None
  /\ UNCHANGED vars

\* One step of the track's run.
Run ==
  \/ Source \/ TuiPlayProcess \/ GtrkProcess \/ AutoConv
  \/ AlsaWrite \/ PulseWrite \/ DsndWrite \/ WasapiWrite
  \/ AlsaClose \/ PulseClose \/ DsndClose \/ WasapiClose

Next ==
  \/ \E f \in Formats, il \in BOOLEAN : StartTrack(f, il)
  \/ Run \/ Tick \/ CloseTick \/ RunTask
  \/ TuiPlaySeek \/ GtrkSeek \/ TuiPlayPauseResume \/ GtrkPlayPause \/ StopTrack
  \/ \E b \in 1..Len(bufs) : DevicePlays(b)
  \/ Rest

Spec == Init /\ [][Next]_vars

-----------------------------------------------------------------------------
(* Properties.                                                             *)

\* The output never writes to, stops or drains a buffer that was freed: the
\* track's stream is live from the moment the device was opened for it.
StreamLive ==
  trk.pc \in {"src", "ui", "ac", "out", "async"} /\ trk.ctx /\ trk.st # "OPEN" => Live(trk.stream)

\* The periodic timer calls the output of the running track only, and the
\* close timer never runs while a track uses the buffer.
TimerOwnerLive ==
  /\ mod.tmr = "play" => trk.pc # "none" /\ (env.drv # "dsound" => Mine)
  /\ mod.tmr = "close" => mod.used = 0 /\ Live(mod.out)

\* Every unit in a device buffer is in the format the buffer was opened
\* with, interleaved, whatever was negotiated with auto-conv before.
FormatAgrees ==
  \A b \in 1..Len(bufs) : \A i \in 1..Len(bufs[b].q) :
    bufs[b].q[i].af = Af(bufs[b].fmt, TRUE)

\* A paused track is silent once its pending run is over, whatever else the
\* user has pressed.  Two cases resume it all the same and are set apart
\* (loud): a seek with the terminal interface, which wakes the track, and a
\* pause before the device was opened, which leaves ST_WAITING for the timer.
PausedStaysSilent ==
  trk.pc = "async" /\ trk.paused /\ ~task /\ ~trk.loud => ~Buf(trk.stream).on

\* After a seek no audio from before it is left in the device, once the
\* device was cleared: the block under way is given up.
SeekDropsOld ==
  trk.pc = "async" /\ ~trk.clear /\ ~trk.seek /\ env.src = "file" /\ trk.ctx =>
    \A i \in 1..Len(Buf(trk.stream).q) : Buf(trk.stream).q[i].gen = trk.gen

\* An output that waits is going to be woken: the timer ticks, or its task is
\* queued; otherwise it is paused.
WaitingIsWoken ==
  trk.pc = "async" /\ ~task => trk.paused \/ (trk.st = "WAITING" /\ mod.tmr = "play")

\* A buffer of alsa or pulse that no track uses has its close timer running,
\* unless the conversion that was asked for could not be had.
IdleBufferCloses ==
  env.drv \in {"alsa", "pulse"} /\ trk.pc = "none" /\ mod.out # 0 =>
    mod.tmr = "close" \/ cnt.conv

\* audio_write: nothing is played while the track is paused, and after a seek
\* nothing of what was buffered before it.
PlaysAsAsked == PausedStaysSilent /\ SeekDropsOld

\* The buffer and the timer that adev modules share belong to one track at a
\* time, which is alive and whose format the buffer has; an idle one of alsa
\* or pulse has its close timer running.
BufferOwned == StreamLive /\ TimerOwnerLive /\ FormatAgrees /\ IdleBufferCloses

=============================================================================
