------------------------------ MODULE MCAudio -------------------------------
(* Audio output and audio input, one of the two in each behaviour.         *)
EXTENDS Playback, Capture

VARIABLE part

all == <<env, mod, bufs, trk, task, cnt, drv, dev, cap, sink, wake, part>>

ASSUME CaptAssumption == CaptAssumptions

IdleCapture ==
  /\ drv = "alsa" /\ dev = [on |-> FALSE, q |-> <<>>, ev |-> FALSE]
  /\ cap = [pc |-> "closed", tmr |-> FALSE] /\ sink = [torn |-> FALSE, inPause |-> FALSE]
  /\ wake = FALSE
IdlePlayback ==
  /\ env = [drv |-> "alsa", src |-> "file"] /\ trk = NoTrack /\ bufs = <<>> /\ task = FALSE
  /\ mod = [out |-> 0, tmr |-> None] /\ cnt = [fail |-> 0]

MCInit ==
  \/ part = "play" /\ Init /\ IdleCapture
  \/ part = "rec" /\ CaptInit /\ IdlePlayback

MCNext ==
  \/ /\ part = "play" /\ Next
     /\ UNCHANGED <<drv, dev, cap, sink, wake, part>>
  \/ /\ part = "rec" /\ CaptNext
     /\ UNCHANGED <<env, mod, bufs, trk, task, cnt, part>>

MCSpec == MCInit /\ [][MCNext]_all /\ CaptFairness

=============================================================================
