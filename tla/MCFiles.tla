------------------------------ MODULE MCFiles ------------------------------
(***************************************************************************)
(* The two file filters side by side, each in behaviours of its own: they   *)
(* share nothing, so part says which of them a behaviour is about and the   *)
(* other rests.                                                             *)
(*                                                                          *)
(* Reading: buffers of a block and a half, a file long enough that both are *)
(* replaced.  Writing: a buffer of three bytes, inputs smaller than it, as  *)
(* large, and too large for it.                                             *)
(***************************************************************************)
EXTENDS FileRead, FileWrite

CONSTANTS Parts   \* what the run looks at: a subset of {"read", "write"}

ASSUME WritingAssumption == WriteAssumptions

VARIABLE part

both == <<part, vars, writeVars>>

InitFiles == part \in Parts /\ Init /\ WriteInit

ReadStep == part = "read" /\ Next /\ UNCHANGED <<part, writeVars>>
WriteStep == part = "write" /\ WriteNext /\ UNCHANGED <<part, vars>>

SpecFiles == InitFiles /\ [][ReadStep \/ WriteStep]_both

=============================================================================
