------------------------------ MODULE Conveyor ------------------------------
(***************************************************************************)
(* The filter chain of one track: core/track.c, the phi_conveyor part.     *)
(*                                                                         *)
(* Filters are slots of a pool, numbered in the order they were added; the *)
(* chain is the list of the active ones; cur is the 0-based position of    *)
(* the filter to call, -1 standing for ~0U.  A filter's open() and         *)
(* process() are arbitrary: they may add filters next to themselves and    *)
(* return any code.  Data is abstracted to the filter that owns the memory *)
(* region data_in or data_out points to.                                   *)
(***************************************************************************)
EXTENDS ChainOps, FiniteSets, Functions

CONSTANT MaxFilters  \* MAX_FILTERS: slots of the pool

ASSUME MaxFiltersAssumption == MaxFilters \in Nat \ {0}

VARIABLES
  pool,     \* i_fpool: slots in use are 1..pool
  chain,    \* filters: the active filters, first to last
  cur,      \* position of the current filter in chain, from 0
  opened,   \* slots with filter.obj set
  skip,     \* slots with filter.backward_skip set
  fwd,      \* PHI_FFWD
  din,      \* the slot that owns the region data_in points to; 0: empty
  pc,       \* "setup", "run", "async", "fin", "closed"
  failed,   \* phi_track.error is set
  held,     \* the region each filter was given as input and may still read
  ran,      \* slots whose process() was called
  okd,      \* slots whose process() last returned PHI_OK
  closed    \* slots whose close() was called, in that order

chainVars == <<pool, chain, cur>>
conveyorVars == <<pool, chain, cur, opened, skip, fwd, din, pc, failed, held, ran,
          okd, closed>>

Slots == 1..MaxFilters
Results == {"DATA", "OK", "DONE", "LASTOUT", "MORE", "BACK", "ASYNC", "FIN", "ERR"}
PCs == {"setup", "run", "async", "fin", "closed"}

ConveyorInit ==
  /\ pool = 0 /\ chain = <<>> /\ cur = -1
  /\ opened = {} /\ skip = {} /\ fwd = FALSE /\ din = 0
  /\ pc = "setup" /\ failed = FALSE
  /\ held = [f \in Slots |-> 0] /\ ran = {} /\ okd = {} /\ closed = <<>>

-----------------------------------------------------------------------------
(* track_filter, before and during the run.                                *)

\* The owner builds the chain: cur is ~0U, so the filter goes to the end.
\* With a full pool the call fails and the owner closes the track.
AddFirst ==
  /\ pc = "setup"
  /\ IF pool = MaxFilters
     THEN pc' = "closed" /\ UNCHANGED chainVars
     ELSE /\ pool' = pool + 1 /\ chain' = Append(chain, pool + 1)
          /\ UNCHANGED <<cur, pc>>
  /\ UNCHANGED <<opened, skip, fwd, din, failed, held, ran, okd, closed>>

\* The current filter adds one after itself, or before itself and then its
\* own position moves; with a full pool nothing is added.
Added(add) ==
  CASE add = "next" -> [ch |-> InsertAt(chain, cur + 1, pool + 1), c |-> cur]
    [] add = "prev" -> [ch |-> InsertAt(chain, cur, pool + 1), c |-> cur + 1]
    [] OTHER        -> [ch |-> chain, c |-> cur]

\* track_start: does nothing for an empty chain.
Start ==
  /\ pc = "setup" /\ chain # <<>>
  /\ cur' = 0 /\ pc' = "run"
  /\ UNCHANGED <<pool, chain, opened, skip, fwd, din, failed, held, ran, okd, closed>>

-----------------------------------------------------------------------------
(* track_run: trk_filter_run, trk_filter_handle_result.                    *)

\* Mutant: data_in is not reset on the way back.
TurnKeepsInput(h, out) ==
  /\ chain' = h.ch /\ cur' = h.c
  /\ CASE h.r = "MORE" -> fwd' = FALSE /\ UNCHANGED <<din, pc, failed>>
       [] h.r = "BACK" -> fwd' = FALSE /\ din' = out /\ UNCHANGED <<pc, failed>>
       [] h.r = "DATA" -> fwd' = TRUE /\ din' = out /\ UNCHANGED <<pc, failed>>
       [] h.r = "ASYNC" -> pc' = "async" /\ UNCHANGED <<fwd, din, failed>>
       [] h.r = "FIN" -> pc' = "fin" /\ UNCHANGED <<fwd, din, failed>>
       [] h.r = "ERR" -> pc' = "fin" /\ failed' = TRUE /\ UNCHANGED <<fwd, din>>

\* The end of one turn of track_run's loop: h is what Handle returned, out
\* the region data_out points to.
Turn(h, out) ==
  /\ chain' = h.ch /\ cur' = h.c
  /\ CASE h.r = "MORE" -> fwd' = FALSE /\ din' = 0 /\ UNCHANGED <<pc, failed>>
       [] h.r = "BACK" -> fwd' = FALSE /\ din' = out /\ UNCHANGED <<pc, failed>>
       [] h.r = "DATA" -> fwd' = TRUE /\ din' = out /\ UNCHANGED <<pc, failed>>
       [] h.r = "ASYNC" -> pc' = "async" /\ UNCHANGED <<fwd, din, failed>>
       [] h.r = "FIN" -> pc' = "fin" /\ UNCHANGED <<fwd, din, failed>>
       [] h.r = "ERR" -> pc' = "fin" /\ failed' = TRUE /\ UNCHANGED <<fwd, din>>

\* A filter that last returned PHI_OK is passed over on the way back, unless
\* it has become the first.
PassOver ==
  LET f == At(chain, cur)
  IN /\ pc = "run" /\ f \in skip /\ cur # 0
     /\ skip' = skip \ {f}
     /\ Turn(Handle(chain, cur, "MORE"), 0)
     /\ UNCHANGED <<pool, opened, held, ran, okd, closed>>

\* The current filter is called and not passed over.
Callable == pc = "run" /\ ~(At(chain, cur) \in skip /\ cur # 0)

\* open() fails, or says that the filter is not needed: the data goes by.
OpenFails ==
  /\ Callable /\ At(chain, cur) \notin opened
  /\ skip' = skip \ {At(chain, cur)}
  /\ Turn(Handle(chain, cur, "ERR"), 0)
  /\ UNCHANGED <<pool, opened, held, ran, okd, closed>>

OpenSkips(add) ==
  /\ Callable /\ At(chain, cur) \notin opened
  /\ add # "none" => pool < MaxFilters
  /\ skip' = skip \ {At(chain, cur)}
  /\ pool' = IF add = "none" THEN pool ELSE pool + 1
  /\ Turn(Handle(Added(add).ch, Added(add).c, "DONE"), din)
  /\ UNCHANGED <<opened, held, ran, okd, closed>>

\* The filter is opened if need be and process() is called.  It may add a
\* filter, it returns r, and its output is its own region, its input passed
\* on, or nothing.  It gives its input up by asking for more, by PHI_OK and
\* by leaving the chain.  PHI_BACK hands the input to a filter just added
\* before itself (its one use, dynanorm).
Process(add, r, out) ==
  LET f == At(chain, cur)
      a == Added(add)
      in == IF din # 0 THEN din ELSE held[f]
  IN /\ Callable
     /\ add # "none" => pool < MaxFilters
     /\ r = "BACK" => add = "prev" /\ out = din
     /\ out \in {0, f, din}
     /\ pool' = IF add = "none" THEN pool ELSE pool + 1
     /\ opened' = opened \union {f}
     /\ ran' = ran \union {f}
     /\ okd' = IF r = "OK" THEN okd \union {f} ELSE okd \ {f}
     /\ held' = [held EXCEPT ![f] =
                   IF r \in {"MORE", "BACK", "OK", "DONE", "LASTOUT"} THEN 0 ELSE in]
     /\ skip' = IF r = "OK" THEN skip \union {f} ELSE skip \ {f}
     /\ Turn(Handle(a.ch, a.c, r), out)
     /\ UNCHANGED closed

\* track_wake.
WokenUp ==
  /\ pc = "async"
  /\ pc' = "run"
  /\ UNCHANGED <<chainVars, opened, skip, fwd, din, failed, held, ran, okd, closed>>

-----------------------------------------------------------------------------
(* conveyor_close: from the last slot of the pool to the first.            *)

CloseLast ==
  /\ pc = "fin" /\ opened # {}
  /\ \E f \in opened :
       /\ \A g \in opened : g <= f
       /\ closed' = Append(closed, f)
       /\ opened' = opened \ {f}
  /\ UNCHANGED <<chainVars, skip, fwd, din, pc, failed, held, ran, okd>>

\* Mutant: the walk over the pool stops early.
ClosedEarly ==
  /\ pc = "fin"
  /\ pc' = "closed"
  /\ UNCHANGED <<chainVars, opened, skip, fwd, din, failed, held, ran, okd, closed>>

\* Every opened filter has been closed.
Closed ==
  /\ pc = "fin" /\ opened = {}
  /\ pc' = "closed"
  /\ UNCHANGED <<chainVars, opened, skip, fwd, din, failed, held, ran, okd, closed>>

\* Nothing is left to do.
ConveyorEnded ==
  /\ pc = "closed"
  /\ UNCHANGED conveyorVars

ConveyorNext ==
  \/ AddFirst \/ Start \/ PassOver \/ OpenFails
  \/ \E add \in {"none", "next", "prev"} :
       \/ OpenSkips(add)
       \/ \E r \in Results, out \in 0..MaxFilters : Process(add, r, out)
  \/ WokenUp \/ CloseLast \/ Closed \/ ConveyorEnded

ConveyorSpec == ConveyorInit /\ [][ConveyorNext]_conveyorVars

-----------------------------------------------------------------------------
(* Properties.                                                             *)

ConveyorTypeOK ==
  /\ pool \in 0..MaxFilters
  /\ chain \in Seq(Slots)
  /\ cur \in -1..MaxFilters
  /\ opened \in SUBSET Slots /\ skip \in SUBSET Slots /\ ran \in SUBSET Slots
  /\ okd \in SUBSET Slots
  /\ fwd \in BOOLEAN /\ failed \in BOOLEAN
  /\ din \in 0..MaxFilters
  /\ pc \in PCs
  /\ held \in [Slots -> 0..MaxFilters]
  /\ closed \in Seq(Slots)

\* track_run always finds a filter at the current position, whatever was
\* inserted before it, removed, or removed up to it.
CurInChain ==
  pc \in {"run", "async"} => cur \in 0..(Len(chain) - 1)

\* An active filter is a slot in use and is active once: filters_active
\* never needs more room than the pool has.
ChainFitsPool ==
  /\ \A i \in 1..Len(chain) : chain[i] \in 1..pool
  /\ \A i, j \in 1..Len(chain) : chain[i] = chain[j] => i = j

\* The memory contract of track.h: the input a filter was given stays valid
\* until it asks for more.  The filter that is called next owns no region
\* that some other active filter may still be reading, nor its own input.
InputStaysValid ==
  pc = "run" /\ ~(At(chain, cur) \in skip /\ cur # 0) =>
    LET g == At(chain, cur)
    IN din # g /\ \A f \in Range(chain) \ {g} : held[f] # g

\* A filter that returned PHI_OK is called again with more input only,
\* unless it has become the first of the chain.
OkMeansMoreInput ==
  pc = "run" /\ At(chain, cur) \in okd \ skip => fwd \/ cur = 0

\* Filters are closed in the reverse of the order they were added in, ...
ClosedInReverse ==
  \A i, j \in 1..Len(closed) : i < j => closed[i] > closed[j]

\* ... and every filter that ever ran is closed, active or not.
EveryFilterClosed ==
  pc = "closed" => ran \subseteq Range(closed)

\* trk_filter_handle, filter_add: the current filter is one of the chain, the
\* chain fits the pool, and the region a filter may still read is not given to
\* another use, and a filter is called again for the reason it gave, whatever
\* the filters return and add.
ChainSound == CurInChain /\ ChainFitsPool /\ InputStaysValid /\ OkMeansMoreInput

=============================================================================
