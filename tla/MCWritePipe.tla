---------------------------- MODULE MCWritePipe -----------------------------
(***************************************************************************)
(* Conversion of a track, and the arithmetic of samples behind it.  They    *)
(* share nothing: part says which of them a behaviour is about, and the     *)
(* other rests.                                                             *)
(***************************************************************************)
EXTENDS WritePipe

CONSTANTS Q, Gains, GainOne

VARIABLES part, req, res

Samples == INSTANCE PcmConvert

ASSUME WriteAssumptions /\ Samples!PcmAssumptions

IdleSamples ==
  /\ Samples!Ask("flac", Samples!Af("8", 1, 0, FALSE), Samples!Af("8", 1, 0, FALSE), 1, <<0>>, 0, GainOne)
  /\ res = [r |-> 0, out |-> <<0>>]

IdleTrack ==
  /\ job = [total |-> 1, blk |-> 1, tail |-> FALSE, af |-> Unset, copy |-> FALSE, type |-> "", ext |-> "",
            rec |-> FALSE, danorm |-> FALSE, stdout |-> FALSE]
  /\ conv = [NewLine(<<>>, None) EXCEPT !.pc = "end", !.failed = TRUE]
  /\ trk = NewTrack(job, Unset) /\ filt = NewFilters /\ dest = [units |-> <<>>, off |-> 0]

MCInit ==
  \/ part = "track" /\ WriteInit /\ IdleSamples
  \/ part = "samples" /\ Samples!PcmInit /\ IdleTrack

MCNext ==
  \/ part = "track" /\ WriteNext /\ UNCHANGED <<part, req, res>>
  \/ part = "samples" /\ Samples!PcmNext /\ UNCHANGED <<part, writeVars>>

MCSpec == MCInit /\ [][MCNext]_<<part, writeVars, req, res>>

-----------------------------------------------------------------------------
(* Properties of the samples, see PcmConvert.                              *)

\* pcm_convert, pcm_gain: values keep their level, their channel and their
\* place, up to a step of the coarser format.
SamplesKept == Samples!SamplesKept
=============================================================================
