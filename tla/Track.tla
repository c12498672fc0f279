------------------------------- MODULE Track -------------------------------
(***************************************************************************)
(* The life cycle of tracks: core/track.c without the inside of the filter *)
(* chain, which is module Conveyor.                                        *)
(*                                                                         *)
(* A track runs on the worker it was assigned to, whenever its task_wake   *)
(* is in that worker's task queue (module TaskQueue: posting a queued task *)
(* changes nothing).  The main worker also runs the code that owns tracks: *)
(* it creates, starts, stops and wakes them, and it stops all of them.     *)
(* There are three kinds of tracks: playback tracks run on the main worker *)
(* and have a guard filter, whose close() calls stop(); conversion tracks  *)
(* have one too and run on workers of their own, so that their steps       *)
(* interleave with the owner's; the tracks of the tee filter run on the    *)
(* main worker, have no guard, and are woken when there is data for them.  *)
(*                                                                         *)
(* One step is one atomic operation on shared data: a cmpxchg of the       *)
(* state, an operation on the task queue, a critical section of            *)
(* tracks_lock, or one call of a filter.                                   *)
(***************************************************************************)
EXTENDS Naturals, FiniteSets

CONSTANTS Tracks,   \* track objects
          Kinds     \* the kinds of tracks that are created: see AllKinds

AllKinds == {"playback", "conversion", "tee"}

ASSUME TracksAssumption == IsFiniteSet(Tracks)
ASSUME KindsAssumption == Kinds \subseteq AllKinds

VARIABLES
  obj,      \* life of the object: see Lives
  kind,     \* what the track was created for
  st,       \* phi_track.state
  fstop,    \* tracks with PHI_FSTOP in phi_track.chain_flags
  queued,   \* tracks whose task_wake is in the worker's task queue
  rpc,      \* where the worker is in track_run / track_close of each track
  open,     \* tracks with filters that were opened and not yet closed
  closes,   \* how many times the opened filters of a track were closed
  op,       \* tracks with an operation in flight whose end calls wake()
  busy,     \* tracks that count as a job of their worker
  list,     \* track_ctx.tracks
  locked,   \* track_ctx.tracks_lock is held by track_xstop_all
  owned,    \* tracks the owner still refers to
  asked,    \* tracks stop() was called for
  apc,      \* where the owner is: see OwnerPCs
  arg,      \* the track it is about to post (at most one)
  left,     \* track_xstop_all: tracks not yet visited
  cnt,      \* track_xstop_all: its result
  issued    \* track_xstop_all: number of tracks visited

object == <<obj, kind, open, closes, op, busy>>
sched == <<st, fstop, queued, rpc>>
shared == <<list, locked>>
walk == <<left, cnt, issued>>
owner == <<owned, asked, apc, arg, left, cnt, issued>>
vars == <<object, sched, shared, owner>>

States == {"RUNNING", "FINISHED", "STOP", "STOPPING"}
Lives == {"none", "created", "started", "freed"}

\* "idle": not in track_run; "loop", "filter", "fin": the loop; "finclose":
\* conveyor_close of a finished track; "close", "closelist", "closeconv":
\* track_close.
RunPCs == {"idle", "loop", "filter", "fin", "finclose",
           "close", "closelist", "closeconv"}

\* "post": core->task(track_run) is the next thing to do; the others are
\* track_xstop_all.
OwnerPCs == {"idle", "post", "lock", "walk", "walkpost", "return"}

\* cross_worker_assign; the guard filter of the executable or the GUI.
Elsewhere == {t \in Tracks : kind[t] = "conversion"}
Guarded == {t \in Tracks : kind[t] \in {"playback", "conversion"}}

Init ==
  /\ obj = [t \in Tracks |-> "none"]
  /\ kind = [t \in Tracks |-> "none"]
  /\ st = [t \in Tracks |-> "RUNNING"]
  /\ rpc = [t \in Tracks |-> "idle"]
  /\ closes = [t \in Tracks |-> 0]
  /\ fstop = {} /\ queued = {} /\ open = {} /\ op = {} /\ busy = {}
  /\ list = {} /\ locked = FALSE
  /\ owned = {} /\ asked = {}
  /\ apc = "idle" /\ arg = {} /\ left = {} /\ cnt = 0 /\ issued = 0

\* The owner may call a function on the tracks in S.  It runs on the main
\* worker, by itself or called by a filter of some other track of that worker.
OwnerMayCall(S) ==
  /\ apc = "idle"
  /\ \A t \in Tracks \ Elsewhere :
       rpc[t] \in (IF t \in S THEN {"idle"} ELSE {"idle", "filter"})

\* The worker of t may take a step of t: the main worker does one thing at a
\* time.
WorkerMayRun(t) ==
  t \notin Elsewhere =>
    apc = "idle" /\ \A u \in Tracks \ Elsewhere : u # t => rpc[u] = "idle"

\* The object exists, or existed, and the owner has a pointer to it.
Reachable(t) == t \in owned /\ obj[t] \in {"started", "freed"}

-----------------------------------------------------------------------------
(* The owner.                                                              *)

\* track_create: a worker is assigned.
Create(t, k) ==
  /\ OwnerMayCall({}) /\ obj[t] = "none"
  /\ obj' = [obj EXCEPT ![t] = "created"]
  /\ kind' = [kind EXCEPT ![t] = k]
  /\ busy' = busy \union {t}
  /\ owned' = owned \union {t}
  /\ UNCHANGED <<open, closes, op, sched, shared, asked, apc, arg, walk>>

\* A filter could not be added: the creator calls track_close() itself.  The
\* track is in no list, has no task and no opened filter.
CloseCreated(t) ==
  /\ OwnerMayCall({}) /\ obj[t] = "created"
  /\ obj' = [obj EXCEPT ![t] = "freed"]
  /\ busy' = busy \ {t}
  /\ owned' = owned \ {t}
  /\ UNCHANGED <<kind, open, closes, op, sched, shared, asked, apc, arg, walk>>

\* track_start: add to the list under the lock ...
StartList(t) ==
  /\ OwnerMayCall({}) /\ obj[t] = "created"
  /\ obj' = [obj EXCEPT ![t] = "started"]
  /\ list' = list \union {t}
  /\ apc' = "post" /\ arg' = {t}
  /\ UNCHANGED <<kind, open, closes, op, busy, sched, locked, owned, asked, walk>>

\* ... then, as in track_xstop and track_wake, core->task(... track_run).
PostTask ==
  /\ apc = "post"
  /\ queued' = queued \union arg
  /\ apc' = "idle" /\ arg' = {}
  /\ UNCHANGED <<object, st, fstop, rpc, shared, owned, asked, walk>>

\* Mutant: a finished track is not posted.
StopPostsRunningOnly(s) == s = "RUNNING"

\* track_xstop: what the cmpxchg leaves in the state, and whether it posts.
StopState(s) == IF s = "RUNNING" THEN "STOP" ELSE s
StopPosts(s) == s \in {"RUNNING", "FINISHED"}

\* The owner stops one track of its own thread (qe_stop, tee_close); those
\* of the other workers are stopped by track_xstop_all only.  The owner of a
\* guarded track keeps the pointer until the guard is closed, any other
\* owner drops it.
Stop(t) ==
  /\ t \notin Elsewhere
  /\ OwnerMayCall({t}) /\ Reachable(t)
  /\ st' = [st EXCEPT ![t] = StopState(@)]
  /\ asked' = asked \union {t}
  /\ owned' = owned \ ({t} \ Guarded)
  /\ IF StopPosts(st[t]) THEN apc' = "post" /\ arg' = {t}
                         ELSE UNCHANGED <<apc, arg>>
  /\ UNCHANGED <<object, fstop, queued, rpc, shared, walk>>

\* tee_process: track->wake() of the track it feeds, after new data, whatever
\* became of that track.
Wake(t) ==
  /\ kind[t] = "tee" /\ OwnerMayCall({t}) /\ Reachable(t)
  /\ apc' = "post" /\ arg' = {t}
  /\ UNCHANGED <<object, sched, shared, owned, asked, walk>>

\* track_xstop_all: the length is read before the lock is taken, ...
StopAllCount ==
  /\ OwnerMayCall(Tracks)
  /\ cnt' = Cardinality(list) /\ issued' = 0
  /\ apc' = "lock"
  /\ UNCHANGED <<object, sched, shared, owned, asked, arg, left>>

StopAllLock ==
  /\ apc = "lock"
  /\ locked' = TRUE /\ left' = list
  /\ apc' = "walk"
  /\ UNCHANGED <<object, sched, list, owned, asked, arg, cnt, issued>>

\* ... then every track of the list gets track_xstop: the cmpxchg ...
StopAllXchg(t) ==
  /\ apc = "walk" /\ t \in left
  /\ left' = left \ {t} /\ issued' = issued + 1
  /\ st' = [st EXCEPT ![t] = StopState(@)]
  /\ asked' = asked \union {t}
  /\ IF StopPosts(st[t]) THEN apc' = "walkpost" /\ arg' = {t}
                         ELSE UNCHANGED <<apc, arg>>
  /\ UNCHANGED <<object, fstop, queued, rpc, shared, owned, cnt>>

\* ... and the post.
StopAllPost ==
  /\ apc = "walkpost"
  /\ queued' = queued \union arg
  /\ apc' = "walk" /\ arg' = {}
  /\ UNCHANGED <<object, st, fstop, rpc, shared, owned, asked, walk>>

StopAllUnlock ==
  /\ apc = "walk" /\ left = {}
  /\ locked' = FALSE
  /\ apc' = "return"
  /\ UNCHANGED <<object, sched, list, owned, asked, arg, walk>>

StopAllReturn ==
  /\ apc = "return"
  /\ apc' = "idle" /\ cnt' = 0 /\ issued' = 0
  /\ UNCHANGED <<object, sched, shared, owned, asked, arg, left>>

OwnerStep ==
  PostTask \/ StopAllLock \/ (\E t \in Tracks : StopAllXchg(t)) \/ StopAllPost
  \/ StopAllUnlock \/ StopAllReturn

-----------------------------------------------------------------------------
(* track_run and track_close, on the track's worker.                       *)

GoTo(t, pc) == rpc' = [rpc EXCEPT ![t] = pc]

\* The worker calls track_run.
Begin(t) ==
  /\ rpc[t] = "idle" /\ t \in queued /\ obj[t] = "started" /\ WorkerMayRun(t)
  /\ queued' = queued \ {t}
  /\ GoTo(t, IF st[t] = "FINISHED" THEN "close" ELSE "loop")
  /\ UNCHANGED <<object, st, fstop, shared, owner>>

\* Mutant: the state changes but the filters are not told.
LoopSilent(t) ==
  /\ rpc[t] = "loop" /\ WorkerMayRun(t)
  /\ st' = [st EXCEPT ![t] = IF @ = "STOP" THEN "STOPPING" ELSE @]
  /\ GoTo(t, "filter")
  /\ UNCHANGED <<object, fstop, queued, shared, owner>>

\* The top of the loop: the stop signal is passed on to the filters.
Loop(t) ==
  /\ rpc[t] = "loop" /\ WorkerMayRun(t)
  /\ IF st[t] = "STOP"
     THEN st' = [st EXCEPT ![t] = "STOPPING"] /\ fstop' = fstop \union {t}
     ELSE UNCHANGED <<st, fstop>>
  /\ GoTo(t, "filter")
  /\ UNCHANGED <<object, queued, shared, owner>>

\* A filter was called and the chain goes on ...
FilterGoesOn(t) ==
  /\ rpc[t] = "filter" /\ WorkerMayRun(t)
  /\ open' = open \union {t}
  /\ GoTo(t, "loop")
  /\ UNCHANGED <<obj, kind, closes, op, busy, st, fstop, queued, shared, owner>>

\* ... or it returned PHI_ASYNC, after it has started something that will
\* call wake() ...
FilterAsync(t) ==
  /\ rpc[t] = "filter" /\ WorkerMayRun(t)
  /\ open' = open \union {t} /\ op' = op \union {t}
  /\ GoTo(t, "idle")
  /\ UNCHANGED <<obj, kind, closes, busy, st, fstop, queued, shared, owner>>

\* ... or the chain ends.  A guard cannot fail to open.
FilterEnds(t) ==
  /\ rpc[t] = "filter" /\ WorkerMayRun(t)
  /\ \/ open' = open \union {t}
     \/ t \notin Guarded /\ UNCHANGED open
  /\ GoTo(t, "fin")
  /\ UNCHANGED <<obj, kind, closes, op, busy, st, fstop, queued, shared, owner>>

\* Mutant: a finished track is closed at once.
FinNoWait(t) ==
  /\ rpc[t] = "fin" /\ WorkerMayRun(t)
  /\ GoTo(t, "close")
  /\ UNCHANGED <<object, st, fstop, queued, shared, owner>>

\* track_run, label fin: cmpxchg(RUNNING -> FINISHED).
Fin(t) ==
  /\ rpc[t] = "fin" /\ WorkerMayRun(t)
  /\ IF st[t] = "RUNNING"
     THEN st' = [st EXCEPT ![t] = "FINISHED"] /\ GoTo(t, "finclose")
     ELSE UNCHANGED st /\ GoTo(t, "close")
  /\ UNCHANGED <<object, fstop, queued, shared, owner>>

\* conveyor_close: every opened filter is closed and forgotten; what it had
\* in flight is cancelled.
ConveyorClose(t) ==
  /\ closes' = [closes EXCEPT ![t] = @ + (IF t \in open THEN 1 ELSE 0)]
  /\ op' = op \ {t}
  /\ open' = open \ {t}

\* The guard's close() calls stop() and tells the owner.
GuardStops(t) ==
  IF t \in Guarded \intersect open
  THEN /\ st' = [st EXCEPT ![t] = StopState(@)]
       /\ queued' = queued \union (IF StopPosts(st[t]) THEN {t} ELSE {})
       /\ asked' = asked \union {t} /\ owned' = owned \ {t}
  ELSE UNCHANGED <<st, queued, asked, owned>>

\* A finished track closes its filters and waits for stop().
FinClose(t) ==
  /\ rpc[t] = "finclose" /\ WorkerMayRun(t)
  /\ ConveyorClose(t) /\ GuardStops(t)
  /\ GoTo(t, "idle")
  /\ UNCHANGED <<obj, kind, busy, fstop, shared, apc, arg, walk>>

\* track_close: take the task back, release the worker, ...
Close(t) ==
  /\ rpc[t] = "close" /\ WorkerMayRun(t)
  /\ queued' = queued \ {t}
  /\ busy' = busy \ {t}
  /\ GoTo(t, "closelist")
  /\ UNCHANGED <<obj, kind, open, closes, op, st, fstop, shared, owner>>

\* Mutant: a finished track stays in the list.
CloseListKeeps(t) ==
  /\ rpc[t] = "closelist" /\ WorkerMayRun(t)
  /\ ~locked
  /\ list' = IF st[t] = "FINISHED" THEN list ELSE list \ {t}
  /\ GoTo(t, "closeconv")
  /\ UNCHANGED <<object, st, fstop, queued, locked, owner>>

\* ... leave the list of tracks, ...
CloseList(t) ==
  /\ rpc[t] = "closelist" /\ WorkerMayRun(t)
  /\ ~locked
  /\ list' = list \ {t}
  /\ GoTo(t, "closeconv")
  /\ UNCHANGED <<object, st, fstop, queued, locked, owner>>

\* ... close the filters if a finished track has not done so, and free.
CloseFree(t) ==
  /\ rpc[t] = "closeconv" /\ WorkerMayRun(t)
  /\ ConveyorClose(t) /\ GuardStops(t)
  /\ obj' = [obj EXCEPT ![t] = "freed"]
  /\ GoTo(t, "idle")
  /\ UNCHANGED <<kind, busy, fstop, shared, apc, arg, walk>>

\* What the suspended filter waited for has happened: it calls wake().  The
\* kernel events and timers of a track are handled by its worker.
OpEnds(t) ==
  /\ t \in op /\ rpc[t] = "idle" /\ WorkerMayRun(t)
  /\ op' = op \ {t}
  /\ queued' = queued \union {t}
  /\ UNCHANGED <<obj, kind, open, closes, busy, st, fstop, rpc, shared, owner>>

RunStep(t) ==
  \/ Begin(t) \/ Loop(t) \/ FilterGoesOn(t) \/ FilterAsync(t) \/ FilterEnds(t)
  \/ Fin(t) \/ FinClose(t) \/ Close(t) \/ CloseList(t) \/ CloseFree(t)

\* Every track is gone and nobody has anything left to do.
Finished ==
  /\ \A t \in Tracks : obj[t] = "freed" /\ rpc[t] = "idle"
  /\ apc = "idle"
  /\ UNCHANGED vars

Next ==
  \/ \E t \in Tracks :
       \/ \E k \in Kinds : Create(t, k)
       \/ CloseCreated(t) \/ StartList(t) \/ Stop(t) \/ Wake(t)
       \/ RunStep(t) \/ OpEnds(t)
  \/ StopAllCount
  \/ OwnerStep
  \/ Finished

\* The owner's thread is scheduled.  A worker serves its task queue and its
\* kernel events in order (module TaskQueue), so a track of the main worker
\* gets its turn however often the owner is called: strong fairness.  The
\* filters of a track let go of the worker again and again (data runs out or
\* the output is full), and end the chain when they keep being called with
\* PHI_FSTOP.  Nothing says that a track ends by itself, or that anybody
\* stops it.
Fairness ==
  /\ WF_vars(OwnerStep)
  /\ \A t \in Tracks :
       /\ SF_vars(RunStep(t))
       /\ SF_vars(OpEnds(t))
       /\ SF_vars(FilterAsync(t) \/ FilterEnds(t))
       /\ SF_vars(t \in fstop /\ FilterEnds(t))

Spec == Init /\ [][Next]_vars /\ Fairness

-----------------------------------------------------------------------------
(* Properties.                                                             *)

TypeOK ==
  /\ obj \in [Tracks -> Lives]
  /\ kind \in [Tracks -> Kinds \union {"none"}]
  /\ st \in [Tracks -> States]
  /\ rpc \in [Tracks -> RunPCs]
  /\ closes \in [Tracks -> Nat]
  /\ fstop \in SUBSET Tracks /\ queued \in SUBSET Tracks
  /\ open \in SUBSET Tracks /\ op \in SUBSET Tracks /\ busy \in SUBSET Tracks
  /\ list \in SUBSET Tracks /\ locked \in BOOLEAN
  /\ owned \in SUBSET Tracks /\ asked \in SUBSET Tracks
  /\ apc \in OwnerPCs /\ arg \in SUBSET Tracks /\ left \in SUBSET Tracks
  /\ cnt \in Nat /\ issued \in Nat

\* Nothing that will touch the track outlives it: its task is in no queue, it
\* is in no list, no operation will wake it, and no caller of stop() or
\* wake() is still about to post its task.
NothingRefersTo(t) ==
  /\ t \notin queued \union list \union op \union arg \union left
  /\ rpc[t] = "idle"

\* No playback track is used after it was freed, whatever happens to the
\* other tracks: task queue, list, operations and callers have forgotten it.
NoUseAfterFree ==
  \A t \in Tracks : kind[t] = "playback" /\ obj[t] = "freed" => NothingRefersTo(t)

\* The same for the tracks that run on other workers, which only
\* track_xstop_all stops: when all filters have finished their work the
\* track object is destroyed, and that is the end of it.
ConversionNoUseAfterFree ==
  \A t \in Tracks : kind[t] = "conversion" /\ obj[t] = "freed" => NothingRefersTo(t)

\* The filters of a started track are closed exactly once, whether it
\* finishes first and is stopped later, or the other way round.
FiltersClosedOnce ==
  \A t \in Tracks :
    /\ closes[t] <= 1
    /\ obj[t] = "freed" => t \notin open

\* A guarded track that has finished is not destroyed before stop() is called
\* (track_run: "waiting for stop()"), ...
FreedOnlyAfterStop ==
  \A t \in Guarded : rpc[t] = "closelist" => t \in asked

\* ... and so is one that is only woken.
TeeFreedOnlyAfterStop ==
  \A t \in Tracks : kind[t] = "tee" /\ rpc[t] = "closelist" => t \in asked

\* The owner's pointer to a guarded track is good: the track is not destroyed
\* before the guard has told the owner.
OwnersPointerValid ==
  \A t \in owned \intersect Guarded : obj[t] # "freed"

\* The pointer of the tee filter is good until it calls stop().
TeePointerValid ==
  \A t \in owned \ Guarded : obj[t] # "freed"

\* When a stopped track of the main worker closes its filters, they were told
\* that it is being stopped: a filter such as queue-guard decides by
\* PHI_FSTOP whether to start the next track.
StopReachesFilters ==
  \A t \in Tracks \ Elsewhere :
    rpc[t] \in {"closelist", "closeconv"} /\ t \in open => t \in fstop

\* The same for a track on another worker.
ConversionStopReachesFilters ==
  \A t \in Elsewhere :
    rpc[t] \in {"closelist", "closeconv"} /\ t \in open => t \in fstop

\* The books are right while tracks come and go: a worker counts a track as
\* its job from track_create until track_close, and the list holds exactly
\* the tracks that are started and not yet taken out, so track_xstop_all
\* misses none and meets no freed one.
TracksAccountedFor ==
  \A t \in Tracks :
    /\ t \in busy <=> /\ obj[t] \in {"created", "started"}
                      /\ rpc[t] \notin {"closelist", "closeconv"}
    /\ t \in list <=> obj[t] = "started" /\ rpc[t] # "closeconv"

\* track_xstop_all returns the number of tracks it stopped.
StopAllCountsIssued == apc = "return" => cnt = issued

\* A track that was asked to stop is destroyed.
StopLeadsToFree ==
  \A t \in Tracks : (t \in asked) ~> (obj[t] = "freed")

\* A track is there until its owner has stopped it: track_run frees no track
\* that nobody stopped, and what the owner refers to was not freed.
OwnerDecides == FreedOnlyAfterStop /\ OwnersPointerValid

\* However its end and stop() fall together, a track leaves the list and its
\* worker's count once, and its filters are closed once, and told before that
\* it is being stopped.
EndsOnce == FiltersClosedOnce /\ StopReachesFilters /\ TracksAccountedFor

=============================================================================
