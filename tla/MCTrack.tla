------------------------------ MODULE MCTrack ------------------------------
(***************************************************************************)
(* Two tracks, each of any kind, as their owners and their workers see them *)
(* (Track); and the chain of filters of one track, with a pool of four      *)
(* slots, most of them added by the filters themselves (Conveyor).  Track   *)
(* knows of the chain only when it is opened and closed: part says which of *)
(* the two a behaviour is about, and the other rests.                       *)
(***************************************************************************)
EXTENDS Track, Conveyor, TLC

CONSTANTS tr1, tr2

VARIABLE part

Both == {tr1, tr2}
Symmetry == Permutations(Both)

MCInit == part \in {"tracks", "chain"} /\ Init /\ ConveyorInit

MCNext ==
  \/ part = "tracks" /\ Next /\ UNCHANGED <<part, conveyorVars>>
  \/ part = "chain" /\ ConveyorNext /\ UNCHANGED <<part, vars>>

MCSpec == MCInit /\ [][MCNext]_<<part, vars, conveyorVars>>

=============================================================================
