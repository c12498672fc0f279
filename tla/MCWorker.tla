------------------------------ MODULE MCWorker -----------------------------
(***************************************************************************)
(* The pool of workers and the timers of one worker.  They share no state,  *)
(* so part says which of them a behaviour is about and the other rests.     *)
(*                                                                          *)
(* Three threads compete for two workers; two timers, a worker that lingers *)
(* for two ticks.                                                           *)
(***************************************************************************)
EXTENDS Workers, Timers

CONSTANTS Parts,    \* what the run looks at: a subset of {"pool", "timers"}
          a, b, c

ThreeThreads == {a, b, c}
TwoTimers == {a, b}

ASSUME ClockAssumption == TimersAssumptions

VARIABLE part

both == <<part, vars, timerVars>>

InitBoth == part \in Parts /\ Init /\ TimersInit

PoolStep == part = "pool" /\ Next /\ UNCHANGED <<part, timerVars>>
ClockStep == part = "timers" /\ TimersNext /\ UNCHANGED <<part, vars>>

\* The fairness of the pool: see Workers.
FairThread(th) ==
  /\ WF_both(part = "pool" /\ Assigning(th) /\ UNCHANGED <<part, timerVars>>)
  /\ SF_both(part = "pool" /\ Lock(th) /\ UNCHANGED <<part, timerVars>>)

SpecBoth ==
  InitBoth /\ [][PoolStep \/ ClockStep]_both /\ \A th \in Threads : FairThread(th)

=============================================================================
