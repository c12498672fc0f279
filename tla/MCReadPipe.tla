----------------------------- MODULE MCReadPipe -----------------------------
(***************************************************************************)
(* Playing a file, and playing and saving a stream of the net.  They share  *)
(* nothing: part says which of them a behaviour is about, and the other     *)
(* rests.                                                                   *)
(*                                                                          *)
(* Streams have titles at the start, in the middle, next to each other and  *)
(* at the end.                                                              *)
(***************************************************************************)
EXTENDS ReadPipe

CONSTANTS Streams, MaxChunk, RingSize, MaxOuts, Tees

VARIABLES part, srv, net, line, player, tee, outs, tasks, ub

netVars == <<srv, net, line, player, tee, outs, tasks, ub>>

Net == INSTANCE Radio WITH trk <- player

ASSUME ReadAssumptions /\ Net!RadioAssumptions

MCCues == {<<0, 0>>, <<2, 4>>, <<2, 6>>}
MCStreams == {<<1, -1, 2, 3, -2, 4>>, <<-1, 1, 2, -2, -3, 3>>, <<1, 2, 3, -1>>}

IdleFile ==
  /\ file = [cont |-> "wav", codec |-> "none", units |-> 1, info |-> TRUE, id3 |-> FALSE, ext |-> "wav",
             cue |-> <<0, 0>>]
  /\ conv = [NewLine(<<>>, None) EXCEPT !.pc = "end"]
  /\ trk = NewTrack(0, 0) /\ heard = <<Mark(0)>> /\ filt = NewFilters /\ asked = 0

IdleNet ==
  /\ srv = [rest |-> <<>>, all |-> <<>>, end |-> "done", icy |-> FALSE] /\ net = "end"
  /\ line = [NewLine(<<>>, Net!None) EXCEPT !.pc = "end"] /\ tasks = <<>>
  /\ player = [heard |-> <<>>, passed |-> <<>>, stop |-> FALSE]
  /\ tee = [out |-> 0, brg |-> 0, n |-> 0, lost |-> FALSE]
  /\ outs = [o \in 1..MaxOuts |-> Net!NewOut] /\ ub = FALSE

MCInit ==
  \/ part = "file" /\ ReadInit /\ IdleNet
  \/ part = "net" /\ Net!RadioInit /\ IdleFile

MCNext ==
  \/ part = "file" /\ ReadNext /\ UNCHANGED <<part, netVars>>
  \/ part = "net" /\ Net!RadioNext /\ UNCHANGED <<part, readVars>>

MCSpec ==
  MCInit /\ [][MCNext]_<<part, readVars, netVars>> /\ ReadFairness /\ Net!RadioFairness

-----------------------------------------------------------------------------
(* Properties of the stream, see Radio.                                    *)

\* phi_hc_data, icy_process, tee_process: the stream is played in order and in
\* full, and saved in order, each title in a file of its own, through rings
\* that live exactly as long as one of their two users (tee_brg_unref).
StreamKept == Net!StreamKept

\* Whatever the file, the stream, the network and the user do: the playing
\* track ends, and every track that saves a stream ends after it.
EveryTrackEnds == Ends /\ Net!RadioEnds
=============================================================================
