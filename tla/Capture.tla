------------------------------ MODULE Capture -------------------------------
(***************************************************************************)
(* Audio input: adev/audio-rec.h and the filters of its drivers, with the  *)
(* recording filter of the terminal (tui/rec.h) behind it.                 *)
(*                                                                         *)
(* The device captures units for ever, numbered modulo Mod, and drops the  *)
(* oldest one when its buffer is full.  All drivers but aaudio poll it     *)
(* with a timer of the track's worker; aaudio calls audio_oncapt from a    *)
(* thread of its own, at any moment.                                       *)
(***************************************************************************)
EXTENDS Integers, Sequences

CONSTANTS
  CaptCap,      \* units the device keeps
  CaptFails,    \* faults of the device and of its server
  CaptCmds      \* commands of the user

\* Unit numbers are told apart across one full buffer.
Mod == CaptCap + 2

CaptAssumptions == CaptCap \in Nat \ {0} /\ CaptFails \in Nat /\ CaptCmds \in Nat

VARIABLES
  drv,   \* the driver
  dev,   \* the device: on, units it holds, next unit, units were lost
  cap,   \* the filter's object and the track's run
  sink,  \* the next unit the chain expects, what went wrong, recorded while paused
  wake   \* the task of the track is queued

captVars == <<drv, dev, cap, sink, wake>>

Drivers == {"alsa", "pulse", "wasapi", "jack", "dsound", "aaudio"}

CaptInit ==
  /\ drv \in Drivers
  /\ dev = [on |-> FALSE, q |-> <<>>, next |-> 0, lost |-> FALSE, ev |-> FALSE]
  /\ cap = [pc |-> "open", st |-> "NONE", tmr |-> FALSE, retried |-> FALSE,
            recon |-> FALSE, stop |-> FALSE, paused |-> FALSE, fails |-> 0, cmds |-> 0]
  /\ sink = [next |-> 0, torn |-> FALSE, inPause |-> FALSE]
  /\ wake = FALSE

-----------------------------------------------------------------------------
(* Opening: audio_in_open, called by the drivers' open functions.          *)

CanFail == cap.fails < CaptFails
Failing == [cap EXCEPT !.fails = @ + 1]

\* The device refuses the format once: the loop tries the one it offers.
\* When it refuses that too, or fails, the filter is closed again.
RefusesFormat ==
  /\ cap.pc = "open" /\ CanFail
  /\ cap' = IF cap.retried THEN [Failing EXCEPT !.pc = "closed"] ELSE [Failing EXCEPT !.retried = TRUE]
  /\ UNCHANGED <<drv, dev, sink, wake>>

OpenFails ==
  /\ cap.pc = "open" /\ CanFail
  /\ cap' = [Failing EXCEPT !.pc = "closed"]
  /\ UNCHANGED <<drv, dev, sink, wake>>

\* pulsr_open: the connection to the server is set up anew, once.
PulseReconnects ==
  /\ cap.pc = "open" /\ drv = "pulse" /\ CanFail
  /\ cap' = IF cap.recon THEN [Failing EXCEPT !.pc = "closed"]
                         ELSE [Failing EXCEPT !.recon = TRUE, !.retried = FALSE]
  /\ UNCHANGED <<drv, dev, sink, wake>>

AudioInOpen(tmr) ==
  /\ cap.pc = "open"
  /\ cap' = [cap EXCEPT !.pc = "run", !.st = "SIGNALLED", !.tmr = tmr]
  /\ dev' = [dev EXCEPT !.on = TRUE]
  /\ UNCHANGED <<drv, sink, wake>>

AlsarOpen == drv = "alsa" /\ AudioInOpen(TRUE)
PulsrOpen == drv = "pulse" /\ AudioInOpen(TRUE)
WasapiInOpen == drv = "wasapi" /\ AudioInOpen(TRUE)
JackInOpen == drv = "jack" /\ AudioInOpen(TRUE)
DsndInOpen == drv = "dsound" /\ AudioInOpen(TRUE)
AaiOpen == drv = "aaudio" /\ AudioInOpen(FALSE)

-----------------------------------------------------------------------------
(* Reading: audio_in_read.                                                 *)

\* tuirec_process: the units are handed on, paused or not.
TuiRecProcess(us) ==
  [next |-> (Head(us) + Len(us)) % Mod,
   torn |-> sink.torn \/ (~dev.lost /\ Head(us) # sink.next),
   inPause |-> sink.inPause \/ cap.paused]

\* Mutant: the units stay in the device.
ReadUnitsKeeps ==
  /\ cap.pc = "run" /\ ~cap.stop /\ dev.q # <<>>
  /\ dev' = [dev EXCEPT !.lost = FALSE]
  /\ sink' = TuiRecProcess(dev.q)
  /\ cap' = [cap EXCEPT !.st = "PROCESSING"]
  /\ UNCHANGED <<drv, wake>>

\* All the device has is handed on; the chain asks for more afterwards.
ReadUnits ==
  /\ cap.pc = "run" /\ ~cap.stop /\ dev.q # <<>>
  /\ dev' = [dev EXCEPT !.q = <<>>, !.lost = FALSE]
  /\ sink' = TuiRecProcess(dev.q)
  /\ cap' = [cap EXCEPT !.st = "PROCESSING"]
  /\ UNCHANGED <<drv, wake>>

\* Nothing to read; the state is stored a moment later.
ReadNothing ==
  /\ cap.pc = "run" /\ ~cap.stop /\ dev.q = <<>>
  /\ cap' = [cap EXCEPT !.pc = "store"]
  /\ UNCHANGED <<drv, dev, sink, wake>>

\* Mutant: the filter returns without saying that it waits.
StoreWaitingSkipped ==
  /\ cap.pc = "store"
  /\ cap' = [cap EXCEPT !.pc = "async"]
  /\ UNCHANGED <<drv, dev, sink, wake>>

StoreWaiting ==
  /\ cap.pc = "store"
  /\ cap' = [cap EXCEPT !.pc = "async", !.st = "WAITING"]
  /\ UNCHANGED <<drv, dev, sink, wake>>

ReadStops ==
  /\ cap.pc = "run" /\ cap.stop
  /\ dev' = [dev EXCEPT !.on = FALSE]
  /\ cap' = [cap EXCEPT !.pc = "fin"]
  /\ UNCHANGED <<drv, sink, wake>>

\* The device fails: the recording ends with what it has.
ReadFails ==
  /\ cap.pc = "run" /\ ~cap.stop /\ CanFail
  /\ cap' = [Failing EXCEPT !.pc = "fin"]
  /\ dev' = [dev EXCEPT !.on = FALSE]
  /\ UNCHANGED <<drv, sink, wake>>

-----------------------------------------------------------------------------
(* The device, the timer and the worker.                                   *)

DeviceCaptures ==
  /\ dev.on /\ ~dev.ev
  /\ LET full == Len(dev.q) = CaptCap
         q == IF full THEN Tail(dev.q) ELSE dev.q
     IN dev' = [dev EXCEPT !.q = Append(q, dev.next), !.next = (@ + 1) % Mod,
                  !.lost = @ \/ full, !.ev = drv = "aaudio"]
  /\ UNCHANGED <<drv, cap, sink, wake>>

\* audio_oncapt.
OnCapt ==
  /\ cap' = [cap EXCEPT !.st = "SIGNALLED"]
  /\ wake' = (wake \/ cap.st = "WAITING")
  /\ UNCHANGED <<drv, sink>>

TimerTick == cap.pc = "async" /\ cap.tmr /\ OnCapt /\ UNCHANGED dev

DeviceEvent ==
  /\ dev.ev /\ cap.pc \notin {"open", "closed"}
  /\ dev' = [dev EXCEPT !.ev = FALSE]
  /\ OnCapt

TrackRuns ==
  /\ cap.pc = "async" /\ wake
  /\ wake' = FALSE
  /\ cap' = [cap EXCEPT !.pc = "run"]
  /\ UNCHANGED <<drv, dev, sink>>

\* The filter's close function and audio_in_close.
CaptCloses ==
  /\ cap.pc = "fin"
  /\ cap' = [cap EXCEPT !.pc = "closed", !.tmr = FALSE]
  /\ dev' = [dev EXCEPT !.ev = FALSE, !.q = <<>>]
  /\ UNCHANGED <<drv, sink, wake>>

CaptCommand ==
  /\ cap.pc \in {"run", "store", "async"} /\ cap.cmds < CaptCmds
  /\ UNCHANGED <<drv, dev, sink>>

StopCapture ==
  /\ CaptCommand /\ ~cap.stop
  /\ cap' = [cap EXCEPT !.stop = TRUE, !.cmds = @ + 1]
  /\ wake' = TRUE

\* tuirec_pause_resume: a flag, and a wake when it is taken back.
TuiRecPauseResume ==
  /\ CaptCommand /\ cap.pc = "async"
  /\ cap' = [cap EXCEPT !.paused = ~@, !.cmds = @ + 1]
  /\ wake' = (wake \/ cap.paused)

CaptRest == cap.pc = "closed" /\ UNCHANGED captVars

CaptRun ==
  \/ ReadUnits \/ ReadNothing \/ StoreWaiting \/ ReadStops \/ TrackRuns \/ CaptCloses

CaptNext ==
  \/ RefusesFormat \/ OpenFails \/ PulseReconnects
  \/ AlsarOpen \/ PulsrOpen \/ WasapiInOpen \/ JackInOpen \/ DsndInOpen \/ AaiOpen
  \/ CaptRun \/ ReadFails \/ DeviceCaptures \/ TimerTick \/ DeviceEvent
  \/ StopCapture \/ TuiRecPauseResume \/ CaptRest

CaptSpec == CaptInit /\ [][CaptNext]_captVars

\* The worker runs, the timer ticks, the device captures and reports.
CaptFairness ==
  /\ WF_captVars(CaptRun) /\ WF_captVars(TimerTick)
  /\ WF_captVars(DeviceCaptures) /\ WF_captVars(DeviceEvent)

-----------------------------------------------------------------------------
(* Properties.                                                             *)

\* The chain gets every unit once and in order, apart from the ones the
\* device itself has dropped and reported as an overrun.
RecordsInOrder == ~sink.torn

\* Neither the timer nor the device's thread calls a filter that was freed.
CallbackOwnerLive ==
  (cap.tmr \/ dev.ev) => cap.pc # "closed"

\* What was captured is read, although audio_in_read stores ST_WAITING after
\* it has found nothing and may overwrite the mark of a callback in between.
CapturedIsRead ==
  (dev.q # <<>>) ~> (dev.q = <<>> \/ cap.pc \in {"fin", "closed"})

\* "Recording is paused": nothing is recorded until it is resumed.
PausedRecordsNothing == ~sink.inPause

\* audio_in_read and the modules below: what is recorded is what the device
\* captured, in order, and a callback or a timer finds its object alive.
RecordsRight == RecordsInOrder /\ CallbackOwnerLive

=============================================================================
