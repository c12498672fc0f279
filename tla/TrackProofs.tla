---------------------------- MODULE TrackProofs ----------------------------
(***************************************************************************)
(* Proofs about the two halves of core/track.c: the life of the tracks,     *)
(* for any number of tracks of any kinds, and the conveyor, for pools of    *)
(* any size and filters that do what they like.                             *)
(***************************************************************************)
EXTENDS Track, Conveyor, SequenceTheorems, FiniteSetTheorems, TLAPS

-----------------------------------------------------------------------------
(* The life of the tracks.                                                 *)

Here == Tracks \ Elsewhere
StoppingAll == {"lock", "walk", "walkpost", "return"}

\* The main worker does one thing at a time: one of its tracks runs, or the
\* owner, called by a filter of one track at most; and track_xstop_all is
\* called when no track runs there.
OneThingAtATime ==
  /\ \A t, u \in Here : t # u => rpc[t] = "idle" \/ rpc[u] = "idle"
  /\ \A t \in Here : /\ apc # "idle" => rpc[t] \in {"idle", "filter"}
                     /\ apc \in StoppingAll => rpc[t] = "idle"

\* What the owner is doing and what it holds while it does.
OwnerCalls ==
  /\ apc \notin {"post", "walkpost"} => arg = {}
  /\ locked <=> apc \in {"walk", "walkpost"}
  /\ left \subseteq list /\ (left # {} => locked)

\* Nothing has happened to a track that was not started.
Untouched(t) ==
  /\ kind[t] = "none" <=> obj[t] = "none"
  /\ obj[t] \in {"none", "created"} =>
       /\ rpc[t] = "idle" /\ st[t] = "RUNNING" /\ closes[t] = 0
       /\ t \notin fstop /\ t \notin queued /\ t \notin open /\ t \notin op
       /\ t \notin asked /\ t \notin arg
  /\ obj[t] = "none" => t \notin owned

Books(t) ==
  /\ rpc[t] # "idle" => obj[t] = "started"
  /\ t \in busy <=> /\ obj[t] \in {"created", "started"}
                    /\ rpc[t] \notin {"closelist", "closeconv"}
  /\ t \in list <=> obj[t] = "started" /\ rpc[t] # "closeconv"

\* A finished track has closed its filters, or is about to; a track being
\* closed was stopped, and one of the main worker has told its filters.
StateAgrees(t) ==
  /\ st[t] = "FINISHED" =>
       rpc[t] = "finclose" \/ (/\ rpc[t] \in {"idle", "close", "closelist", "closeconv"}
                               /\ t \notin open)
  /\ rpc[t] = "finclose" => st[t] = "FINISHED"
  /\ rpc[t] \in {"close", "closelist", "closeconv"} => st[t] # "RUNNING"
  /\ st[t] = "STOPPING" => t \in fstop
  /\ kind[t] # "conversion" /\ rpc[t] \notin {"idle", "loop"} => st[t] # "STOP"

ClosedOnce(t) ==
  /\ closes[t] \in {0, 1}
  /\ obj[t] # "freed" /\ ~(st[t] = "FINISHED" /\ rpc[t] # "finclose") => closes[t] = 0
  /\ t \in open => closes[t] = 0
  /\ obj[t] = "freed" => t \notin open

\* Nobody but the owner stops a track; the owner of a guarded one lets go of
\* it when the guard, which is open until then, is closed.
OwnerKnows(t) ==
  /\ st[t] \in {"STOP", "STOPPING"} => t \in asked
  /\ kind[t] \in {"playback", "conversion"} =>
       /\ rpc[t] \in {"fin", "finclose"} => t \in open
       /\ st[t] = "FINISHED" /\ rpc[t] # "finclose" => t \in asked /\ t \notin owned
       /\ rpc[t] \in {"close", "closelist", "closeconv"} => t \in open \/ t \notin owned
       /\ obj[t] = "freed" => t \notin owned

\* What will come back to a track does not outlive it.
Forgotten(t) ==
  /\ t \in op => obj[t] = "started"
  /\ kind[t] = "playback" /\ (t \in arg \/ t \in queued) =>
       obj[t] = "started" /\ rpc[t] \notin {"closelist", "closeconv"}

TrackGood(t) ==
  /\ Untouched(t) /\ Books(t) /\ StateAgrees(t)
  /\ ClosedOnce(t) /\ OwnerKnows(t) /\ Forgotten(t)

\* The inductive invariant of the tracks.
TrackInv ==
  /\ TypeOK /\ OneThingAtATime /\ OwnerCalls
  /\ \A t \in Tracks : TrackGood(t)

-----------------------------------------------------------------------------
(* What a step leaves alone.                                                *)

\* A step that is about another track leaves u as it is.
Same(u) ==
  /\ obj'[u] = obj[u] /\ kind'[u] = kind[u] /\ st'[u] = st[u] /\ rpc'[u] = rpc[u]
  /\ closes'[u] = closes[u]
  /\ u \in fstop' <=> u \in fstop
  /\ u \in queued' <=> u \in queued
  /\ u \in open' <=> u \in open
  /\ u \in op' <=> u \in op
  /\ u \in busy' <=> u \in busy
  /\ u \in list' <=> u \in list
  /\ u \in owned' <=> u \in owned
  /\ u \in asked' <=> u \in asked
  /\ u \in arg' => u \in arg

\* What is true of a track stays true when a step leaves it alone.
LEMMA SameGood == ASSUME NEW u, TrackGood(u), Same(u) PROVE TrackGood(u)'
<1>1. Untouched(u)'
  BY DEF TrackGood, Untouched, Same
<1>2. Books(u)'
  BY DEF TrackGood, Books, Same
<1>3. StateAgrees(u)'
  BY DEF TrackGood, StateAgrees, Same
<1>4. ClosedOnce(u)'
  BY DEF TrackGood, ClosedOnce, Same
<1>5. OwnerKnows(u)'
  BY DEF TrackGood, OwnerKnows, Same
<1>6. Forgotten(u)'
  BY DEF TrackGood, Forgotten, Same
<1> QED BY <1>1, <1>2, <1>3, <1>4, <1>5, <1>6 DEF TrackGood

\* A step of the worker of t, while the owner does not run.
LEMMA RunAlone ==
  ASSUME TypeOK, OneThingAtATime, NEW t \in Tracks, WorkerMayRun(t), NEW x,
         rpc' = [rpc EXCEPT ![t] = x], kind' = kind, apc' = apc
  PROVE  OneThingAtATime'
<1>1. rpc \in [Tracks -> RunPCs]
  BY DEF TypeOK
<1>2. \A u \in Tracks : rpc'[u] = IF u = t THEN x ELSE rpc[u]
  BY <1>1
<1>3. Here' = Here /\ Here \subseteq Tracks
  BY DEF Here, Elsewhere
<1>4. t \in Here => apc = "idle" /\ \A u \in Here : u # t => rpc[u] = "idle"
  BY DEF WorkerMayRun, Here
<1>5. ASSUME NEW v \in Here, NEW u \in Here, v # u
      PROVE  rpc'[v] = "idle" \/ rpc'[u] = "idle"
  BY <1>2, <1>3, <1>4, <1>5 DEF OneThingAtATime
<1>6. ASSUME NEW v \in Here
      PROVE  /\ apc # "idle" => rpc'[v] \in {"idle", "filter"}
             /\ apc \in StoppingAll => rpc'[v] = "idle"
  BY <1>2, <1>3, <1>4 DEF OneThingAtATime, StoppingAll
<1> QED BY <1>3, <1>5, <1>6 DEF OneThingAtATime

\* A step of the owner, which moves no track: it calls from where OwnerMayCall
\* lets it, or it goes on.
LEMMA OwnerAlone ==
  ASSUME OneThingAtATime, rpc' = rpc, kind' = kind,
         \/ \E S \in SUBSET Tracks : OwnerMayCall(S) /\ apc' \in {"idle", "post"}
         \/ OwnerMayCall(Tracks)
         \/ apc \in StoppingAll /\ apc' \in StoppingAll
         \/ apc' = "idle"
  PROVE  OneThingAtATime'
<1>1. Here' = Here /\ Here \subseteq Tracks
  BY DEF Here, Elsewhere
<1>2. /\ \A t \in Here : apc' # "idle" => rpc[t] \in {"idle", "filter"}
      /\ \A t \in Here : apc' \in StoppingAll => rpc[t] = "idle"
  BY <1>1 DEF OwnerMayCall, OneThingAtATime, StoppingAll, Here
<1> QED BY <1>1, <1>2 DEF OneThingAtATime
-----------------------------------------------------------------------------
(* The steps of a track.                                                   *)

\* A step that is about track t keeps the invariant when it does so for t.
LEMMA OneTrackInv ==
  ASSUME TrackInv, NEW t \in Tracks, TypeOK', OneThingAtATime', OwnerCalls',
         TrackGood(t)', \A u \in Tracks : u # t => Same(u)
  PROVE  TrackInv'
<1>1. ASSUME NEW u \in Tracks
      PROVE  TrackGood(u)'
  <2>1. CASE u = t
    BY <2>1
  <2>2. CASE u # t
    BY <2>2, SameGood DEF TrackInv
  <2> QED BY <2>1, <2>2
<1> QED BY <1>1 DEF TrackInv

\* The worker takes the task of the track.
LEMMA BeginStep ==
  ASSUME TrackInv, NEW t \in Tracks, Begin(t)
  PROVE  TrackInv'
<1> USE DEF object, sched, shared, owner, walk
<1>1. TypeOK /\ OneThingAtATime /\ OwnerCalls /\ TrackGood(t)
  BY DEF TrackInv
<1>2. TypeOK'
  BY <1>1 DEF Begin, TypeOK, GoTo, RunPCs
<1>3. OneThingAtATime'
  BY <1>1, RunAlone DEF Begin, GoTo
<1>4. OwnerCalls'
  BY <1>1 DEF Begin, OwnerCalls
<1>5. ASSUME NEW u \in Tracks, u # t
      PROVE  Same(u)
  BY <1>1, <1>5 DEF Begin, Same, TypeOK, GoTo
<1>6. TrackGood(t)'
  BY <1>1 DEF Begin, TypeOK, TrackGood, Untouched, Books, StateAgrees, ClosedOnce,
              OwnerKnows, Forgotten, GoTo
<1> QED BY <1>2, <1>3, <1>4, <1>5, <1>6, OneTrackInv

\* The top of the loop of track_run.
LEMMA LoopStep ==
  ASSUME TrackInv, NEW t \in Tracks, Loop(t)
  PROVE  TrackInv'
<1> USE DEF object, sched, shared, owner, walk
<1>1. TypeOK /\ OneThingAtATime /\ OwnerCalls /\ TrackGood(t)
  BY DEF TrackInv
<1>2. TypeOK'
  BY <1>1 DEF Loop, TypeOK, GoTo, RunPCs, States
<1>3. OneThingAtATime'
  BY <1>1, RunAlone DEF Loop, GoTo
<1>4. OwnerCalls'
  BY <1>1 DEF Loop, OwnerCalls
<1>5. ASSUME NEW u \in Tracks, u # t
      PROVE  Same(u)
  BY <1>1, <1>5 DEF Loop, Same, TypeOK, GoTo
<1>6. TrackGood(t)'
  BY <1>1 DEF Loop, TypeOK, TrackGood, Untouched, Books, StateAgrees, ClosedOnce,
              OwnerKnows, Forgotten, GoTo
<1> QED BY <1>2, <1>3, <1>4, <1>5, <1>6, OneTrackInv

\* A filter is called and the chain goes on.
LEMMA FilterGoesOnStep ==
  ASSUME TrackInv, NEW t \in Tracks, FilterGoesOn(t)
  PROVE  TrackInv'
<1> USE DEF object, sched, shared, owner, walk
<1>1. TypeOK /\ OneThingAtATime /\ OwnerCalls /\ TrackGood(t)
  BY DEF TrackInv
<1>2. TypeOK'
  BY <1>1 DEF FilterGoesOn, TypeOK, GoTo, RunPCs
<1>3. OneThingAtATime'
  BY <1>1, RunAlone DEF FilterGoesOn, GoTo
<1>4. OwnerCalls'
  BY <1>1 DEF FilterGoesOn, OwnerCalls
<1>5. ASSUME NEW u \in Tracks, u # t
      PROVE  Same(u)
  BY <1>1, <1>5 DEF FilterGoesOn, Same, TypeOK, GoTo
<1>6. TrackGood(t)'
  BY <1>1 DEF FilterGoesOn, TypeOK, TrackGood, Untouched, Books, StateAgrees, ClosedOnce,
              OwnerKnows, Forgotten, GoTo
<1> QED BY <1>2, <1>3, <1>4, <1>5, <1>6, OneTrackInv

\* A filter is called and suspends the track.
LEMMA FilterAsyncStep ==
  ASSUME TrackInv, NEW t \in Tracks, FilterAsync(t)
  PROVE  TrackInv'
<1> USE DEF object, sched, shared, owner, walk
<1>1. TypeOK /\ OneThingAtATime /\ OwnerCalls /\ TrackGood(t)
  BY DEF TrackInv
<1>2. TypeOK'
  BY <1>1 DEF FilterAsync, TypeOK, GoTo, RunPCs
<1>3. OneThingAtATime'
  BY <1>1, RunAlone DEF FilterAsync, GoTo
<1>4. OwnerCalls'
  BY <1>1 DEF FilterAsync, OwnerCalls
<1>5. ASSUME NEW u \in Tracks, u # t
      PROVE  Same(u)
  BY <1>1, <1>5 DEF FilterAsync, Same, TypeOK, GoTo
<1>6. TrackGood(t)'
  BY <1>1 DEF FilterAsync, TypeOK, TrackGood, Untouched, Books, StateAgrees, ClosedOnce,
              OwnerKnows, Forgotten, GoTo
<1> QED BY <1>2, <1>3, <1>4, <1>5, <1>6, OneTrackInv

\* A filter is called and ends the chain.
LEMMA FilterEndsStep ==
  ASSUME TrackInv, NEW t \in Tracks, FilterEnds(t)
  PROVE  TrackInv'
<1> USE DEF object, sched, shared, owner, walk
<1>1. TypeOK /\ OneThingAtATime /\ OwnerCalls /\ TrackGood(t)
  BY DEF TrackInv
<1>2. TypeOK'
  BY <1>1 DEF FilterEnds, TypeOK, GoTo, RunPCs
<1>3. OneThingAtATime'
  BY <1>1, RunAlone DEF FilterEnds, GoTo
<1>4. OwnerCalls'
  BY <1>1 DEF FilterEnds, OwnerCalls
<1>5. ASSUME NEW u \in Tracks, u # t
      PROVE  Same(u)
  BY <1>1, <1>5 DEF FilterEnds, Same, TypeOK, GoTo, Guarded
<1>6. TrackGood(t)'
  BY <1>1 DEF FilterEnds, TypeOK, TrackGood, Untouched, Books, StateAgrees, ClosedOnce,
              OwnerKnows, Forgotten, GoTo, Guarded
<1> QED BY <1>2, <1>3, <1>4, <1>5, <1>6, OneTrackInv

\* A track that was not stopped has finished.
LEMMA FinStep ==
  ASSUME TrackInv, NEW t \in Tracks, Fin(t)
  PROVE  TrackInv'
<1> USE DEF object, sched, shared, owner, walk
<1>1. TypeOK /\ OneThingAtATime /\ OwnerCalls /\ TrackGood(t)
  BY DEF TrackInv
<1>2. TypeOK'
  BY <1>1 DEF Fin, TypeOK, GoTo, RunPCs, States
<1>3. OneThingAtATime'
  BY <1>1, RunAlone DEF Fin, GoTo
<1>4. OwnerCalls'
  BY <1>1 DEF Fin, OwnerCalls
<1>5. ASSUME NEW u \in Tracks, u # t
      PROVE  Same(u)
  BY <1>1, <1>5 DEF Fin, Same, TypeOK, GoTo
<1>6. TrackGood(t)'
  BY <1>1 DEF Fin, TypeOK, TrackGood, Untouched, Books, StateAgrees, ClosedOnce,
              OwnerKnows, Forgotten, GoTo
<1> QED BY <1>2, <1>3, <1>4, <1>5, <1>6, OneTrackInv

\* track_close takes the task back.
LEMMA CloseStep ==
  ASSUME TrackInv, NEW t \in Tracks, Close(t)
  PROVE  TrackInv'
<1> USE DEF object, sched, shared, owner, walk
<1>1. TypeOK /\ OneThingAtATime /\ OwnerCalls /\ TrackGood(t)
  BY DEF TrackInv
<1>2. TypeOK'
  BY <1>1 DEF Close, TypeOK, GoTo, RunPCs
<1>3. OneThingAtATime'
  BY <1>1, RunAlone DEF Close, GoTo
<1>4. OwnerCalls'
  BY <1>1 DEF Close, OwnerCalls
<1>5. ASSUME NEW u \in Tracks, u # t
      PROVE  Same(u)
  BY <1>1, <1>5 DEF Close, Same, TypeOK, GoTo, WorkerMayRun,
              Elsewhere, OwnerCalls
<1>6. TrackGood(t)'
  BY <1>1 DEF Close, TypeOK, TrackGood, Untouched, Books, StateAgrees, ClosedOnce,
              OwnerKnows, Forgotten, GoTo, WorkerMayRun,
              Elsewhere, OwnerCalls
<1> QED BY <1>2, <1>3, <1>4, <1>5, <1>6, OneTrackInv

\* track_close leaves the list of tracks.
LEMMA CloseListStep ==
  ASSUME TrackInv, NEW t \in Tracks, CloseList(t)
  PROVE  TrackInv'
<1> USE DEF object, sched, shared, owner, walk
<1>1. TypeOK /\ OneThingAtATime /\ OwnerCalls /\ TrackGood(t)
  BY DEF TrackInv
<1>2. TypeOK'
  BY <1>1 DEF CloseList, TypeOK, GoTo, RunPCs
<1>3. OneThingAtATime'
  BY <1>1, RunAlone DEF CloseList, GoTo
<1>4. OwnerCalls'
  BY <1>1 DEF CloseList, OwnerCalls
<1>5. ASSUME NEW u \in Tracks, u # t
      PROVE  Same(u)
  BY <1>1, <1>5 DEF CloseList, Same, TypeOK, GoTo
<1>6. TrackGood(t)'
  BY <1>1 DEF CloseList, TypeOK, TrackGood, Untouched, Books, StateAgrees, ClosedOnce,
              OwnerKnows, Forgotten, GoTo
<1> QED BY <1>2, <1>3, <1>4, <1>5, <1>6, OneTrackInv

\* A finished track closes its filters.
LEMMA FinCloseStep ==
  ASSUME TrackInv, NEW t \in Tracks, FinClose(t)
  PROVE  TrackInv'
<1> USE DEF object, sched, shared, owner, walk
<1>1. TypeOK /\ OneThingAtATime /\ OwnerCalls /\ TrackGood(t)
  BY DEF TrackInv
<1>2. TypeOK'
  BY <1>1 DEF FinClose, TypeOK, GoTo, RunPCs, States, ConveyorClose,
               GuardStops, StopState
<1>3. OneThingAtATime'
  BY <1>1, RunAlone DEF FinClose, GoTo
<1>4. OwnerCalls'
  BY <1>1 DEF FinClose, OwnerCalls
<1>5. ASSUME NEW u \in Tracks, u # t
      PROVE  Same(u)
  BY <1>1, <1>5 DEF FinClose, Same, TypeOK, GoTo, ConveyorClose,
              GuardStops, Guarded, StopState, StopPosts
<1>6. TrackGood(t)'
  BY <1>1 DEF FinClose, TypeOK, TrackGood, Untouched, Books, StateAgrees, ClosedOnce,
              OwnerKnows, Forgotten, GoTo, ConveyorClose,
              GuardStops, Guarded, StopState, StopPosts
<1> QED BY <1>2, <1>3, <1>4, <1>5, <1>6, OneTrackInv

\* track_close closes the filters that are still open, and frees the track.
LEMMA CloseFreeStep ==
  ASSUME TrackInv, NEW t \in Tracks, CloseFree(t)
  PROVE  TrackInv'
<1> USE DEF object, sched, shared, owner, walk
<1>1. TypeOK /\ OneThingAtATime /\ OwnerCalls /\ TrackGood(t)
  BY DEF TrackInv
<1>2. TypeOK'
  BY <1>1 DEF CloseFree, TypeOK, GoTo, RunPCs, States, Lives, ConveyorClose,
               GuardStops, StopState
<1>3. OneThingAtATime'
  BY <1>1, RunAlone DEF CloseFree, GoTo
<1>4. OwnerCalls'
  BY <1>1 DEF CloseFree, OwnerCalls
<1>5. ASSUME NEW u \in Tracks, u # t
      PROVE  Same(u)
  BY <1>1, <1>5 DEF CloseFree, Same, TypeOK, GoTo, ConveyorClose,
              GuardStops, Guarded, StopState, StopPosts
<1>6. TrackGood(t)'
  BY <1>1 DEF CloseFree, TypeOK, TrackGood, Untouched, Books, StateAgrees, ClosedOnce,
              OwnerKnows, Forgotten, GoTo, ConveyorClose,
              GuardStops, Guarded, StopState, StopPosts
<1> QED BY <1>2, <1>3, <1>4, <1>5, <1>6, OneTrackInv

\* What a suspended filter waited for has happened.
LEMMA OpEndsStep ==
  ASSUME TrackInv, NEW t \in Tracks, OpEnds(t)
  PROVE  TrackInv'
<1> USE DEF object, sched, shared, owner, walk
<1>1. TypeOK /\ OneThingAtATime /\ OwnerCalls /\ TrackGood(t)
  BY DEF TrackInv
<1>2. TypeOK'
  BY <1>1 DEF OpEnds, TypeOK, Lives
<1>3. OneThingAtATime'
  BY <1>1 DEF OpEnds, OneThingAtATime, Here, Elsewhere
<1>4. OwnerCalls'
  BY <1>1 DEF OpEnds, OwnerCalls
<1>5. ASSUME NEW u \in Tracks, u # t
      PROVE  Same(u)
  BY <1>1, <1>5 DEF OpEnds, Same, TypeOK
<1>6. TrackGood(t)'
  BY <1>1 DEF OpEnds, TypeOK, TrackGood, Untouched, Books, StateAgrees, ClosedOnce,
              OwnerKnows, Forgotten
<1> QED BY <1>2, <1>3, <1>4, <1>5, <1>6, OneTrackInv

\* The creator gives the track up.
LEMMA CloseCreatedStep ==
  ASSUME TrackInv, NEW t \in Tracks, CloseCreated(t)
  PROVE  TrackInv'
<1> USE DEF object, sched, shared, owner, walk
<1>1. TypeOK /\ OneThingAtATime /\ OwnerCalls /\ TrackGood(t)
  BY DEF TrackInv
<1>2. TypeOK'
  BY <1>1 DEF CloseCreated, TypeOK, Lives
<1>3. OneThingAtATime'
  BY <1>1 DEF CloseCreated, OneThingAtATime, Here, Elsewhere
<1>4. OwnerCalls'
  BY <1>1 DEF CloseCreated, OwnerCalls
<1>5. ASSUME NEW u \in Tracks, u # t
      PROVE  Same(u)
  BY <1>1, <1>5 DEF CloseCreated, Same, TypeOK
<1>6. TrackGood(t)'
  BY <1>1 DEF CloseCreated, TypeOK, TrackGood, Untouched, Books, StateAgrees, ClosedOnce,
              OwnerKnows, Forgotten
<1> QED BY <1>2, <1>3, <1>4, <1>5, <1>6, OneTrackInv

\* The owner stops a track.
LEMMA StopStep ==
  ASSUME TrackInv, NEW t \in Tracks, Stop(t)
  PROVE  TrackInv'
<1> USE DEF object, sched, shared, owner, walk
<1>1. TypeOK /\ OneThingAtATime /\ OwnerCalls /\ TrackGood(t)
  BY DEF TrackInv
<1>2. TypeOK'
  BY <1>1 DEF Stop, TypeOK, States, OwnerPCs, StopState
<1>3. OneThingAtATime'
  <2>1. OwnerMayCall({t}) /\ {t} \in SUBSET Tracks /\ rpc' = rpc /\ kind' = kind
        /\ apc' \in {"idle", "post"}
    BY DEF Stop, OwnerMayCall
  <2> QED BY <1>1, <2>1, OwnerAlone
<1>4. OwnerCalls'
  BY <1>1 DEF Stop, OwnerCalls, OwnerMayCall
<1>5. ASSUME NEW u \in Tracks, u # t
      PROVE  Same(u)
  BY <1>1, <1>5 DEF Stop, Same, TypeOK, StopState, StopPosts, Guarded, Elsewhere,
              Reachable, OwnerMayCall
<1>6. TrackGood(t)'
  BY <1>1 DEF Stop, TypeOK, TrackGood, Untouched, Books, StateAgrees, ClosedOnce,
              OwnerKnows, Forgotten, StopState, StopPosts, Guarded, Elsewhere,
              Reachable, OwnerMayCall
<1> QED BY <1>2, <1>3, <1>4, <1>5, <1>6, OneTrackInv

\* The tee filter wakes the track it feeds.
LEMMA WakeStep ==
  ASSUME TrackInv, NEW t \in Tracks, Wake(t)
  PROVE  TrackInv'
<1> USE DEF object, sched, shared, owner, walk
<1>1. TypeOK /\ OneThingAtATime /\ OwnerCalls /\ TrackGood(t)
  BY DEF TrackInv
<1>2. TypeOK'
  BY <1>1 DEF Wake, TypeOK, OwnerPCs
<1>3. OneThingAtATime'
  BY <1>1, OwnerAlone DEF Wake
<1>4. OwnerCalls'
  BY <1>1 DEF Wake, OwnerCalls, OwnerMayCall
<1>5. ASSUME NEW u \in Tracks, u # t
      PROVE  Same(u)
  BY <1>1, <1>5 DEF Wake, Same, TypeOK, Reachable, OwnerMayCall
<1>6. TrackGood(t)'
  BY <1>1 DEF Wake, TypeOK, TrackGood, Untouched, Books, StateAgrees, ClosedOnce,
              OwnerKnows, Forgotten, Reachable, OwnerMayCall
<1> QED BY <1>2, <1>3, <1>4, <1>5, <1>6, OneTrackInv

\* track_start adds the track to the list.
LEMMA StartListStep ==
  ASSUME TrackInv, NEW t \in Tracks, StartList(t)
  PROVE  TrackInv'
<1> USE DEF object, sched, shared, owner, walk
<1>1. TypeOK /\ OneThingAtATime /\ OwnerCalls /\ TrackGood(t)
  BY DEF TrackInv
<1>2. TypeOK'
  BY <1>1 DEF StartList, TypeOK, OwnerPCs, Lives
<1>3. OneThingAtATime'
  BY <1>1, OwnerAlone DEF StartList
<1>4. OwnerCalls'
  BY <1>1 DEF StartList, OwnerCalls, OwnerMayCall
<1>5. ASSUME NEW u \in Tracks, u # t
      PROVE  Same(u)
  BY <1>1, <1>5 DEF StartList, Same, TypeOK, OwnerMayCall
<1>6. TrackGood(t)'
  BY <1>1 DEF StartList, TypeOK, TrackGood, Untouched, Books, StateAgrees, ClosedOnce,
              OwnerKnows, Forgotten, OwnerMayCall
<1> QED BY <1>2, <1>3, <1>4, <1>5, <1>6, OneTrackInv

\* track_xstop_all stops one track of the list.
LEMMA StopAllXchgStep ==
  ASSUME TrackInv, NEW t \in Tracks, StopAllXchg(t)
  PROVE  TrackInv'
<1> USE DEF object, sched, shared, owner, walk
<1>1. TypeOK /\ OneThingAtATime /\ OwnerCalls /\ TrackGood(t)
  BY DEF TrackInv
<1>2. TypeOK'
  BY <1>1 DEF StopAllXchg, TypeOK, States, OwnerPCs, StopState
<1>3. OneThingAtATime'
  BY <1>1, OwnerAlone DEF StopAllXchg, StoppingAll
<1>4. OwnerCalls'
  BY <1>1 DEF StopAllXchg, OwnerCalls
<1>5. ASSUME NEW u \in Tracks, u # t
      PROVE  Same(u)
  BY <1>1, <1>5 DEF StopAllXchg, Same, TypeOK, StopState, StopPosts, OwnerCalls,
              OneThingAtATime, StoppingAll, Here, Elsewhere
<1>6. TrackGood(t)'
  BY <1>1 DEF StopAllXchg, TypeOK, TrackGood, Untouched, Books, StateAgrees, ClosedOnce,
              OwnerKnows, Forgotten, StopState, StopPosts, OwnerCalls,
              OneThingAtATime, StoppingAll, Here, Elsewhere
<1> QED BY <1>2, <1>3, <1>4, <1>5, <1>6, OneTrackInv

\* track_create.
LEMMA CreateStep ==
  ASSUME TrackInv, NEW t \in Tracks, NEW k \in Kinds, Create(t, k)
  PROVE  TrackInv'
<1> USE DEF object, sched, shared, owner, walk
<1>1. TypeOK /\ OneThingAtATime /\ OwnerCalls /\ TrackGood(t)
  BY DEF TrackInv
<1>2. TypeOK'
  BY <1>1 DEF Create, TypeOK, Lives
<1>3. OneThingAtATime'
  <2>1. rpc' = rpc /\ apc' = apc
    BY DEF Create
  <2>2. \A u \in Tracks : u # t => (u \in Here' <=> u \in Here)
    BY <1>1 DEF Create, Here, Elsewhere, TypeOK
  <2>3. rpc[t] = "idle" /\ Here' \subseteq Tracks
    BY <1>1 DEF Create, TrackGood, Untouched, Here
  <2> QED BY <1>1, <2>1, <2>2, <2>3 DEF OneThingAtATime, StoppingAll
<1>4. OwnerCalls'
  BY <1>1 DEF Create, OwnerCalls
<1>5. ASSUME NEW u \in Tracks, u # t
      PROVE  Same(u)
  BY <1>1, <1>5 DEF Create, Same, TypeOK
<1>6. TrackGood(t)'
  <2>1. k \in {"playback", "conversion", "tee"}
    BY KindsAssumption DEF AllKinds
  <2> QED BY <1>1, <2>1 DEF Create, TypeOK, TrackGood, Untouched, Books, StateAgrees,
                            ClosedOnce, OwnerKnows, Forgotten
<1> QED BY <1>2, <1>3, <1>4, <1>5, <1>6, OneTrackInv

\* core->task(track_run), at the end of track_start, stop() and wake().
LEMMA PostStep ==
  ASSUME TrackInv, PostTask \/ StopAllPost
  PROVE  TrackInv'
<1> USE DEF object, sched, shared, owner, walk, PostTask, StopAllPost
<1>1. /\ TypeOK /\ OneThingAtATime /\ OwnerCalls
      /\ \A t \in Tracks : TrackGood(t)
  BY DEF TrackInv
<1>2. TypeOK'
  BY <1>1 DEF TypeOK, OwnerPCs
<1>3. OneThingAtATime'
  BY <1>1, OwnerAlone DEF StoppingAll
<1>4. OwnerCalls'
  BY <1>1 DEF OwnerCalls
<1>5. ASSUME NEW t \in Tracks
      PROVE  TrackGood(t)'
  BY <1>1 DEF TypeOK, TrackGood, Untouched, Books, StateAgrees, ClosedOnce,
              OwnerKnows, Forgotten
<1> QED BY <1>2, <1>3, <1>4, <1>5 DEF TrackInv

\* The rest of track_xstop_all.
LEMMA StopAllStep ==
  ASSUME TrackInv, StopAllCount \/ StopAllLock \/ StopAllUnlock \/ StopAllReturn
  PROVE  TrackInv'
<1> USE DEF object, sched, shared, owner, walk
<1>1. /\ TypeOK /\ OneThingAtATime /\ OwnerCalls
      /\ \A t \in Tracks : TrackGood(t)
  BY DEF TrackInv
<1>2. TypeOK'
  <2>1. Cardinality(list) \in Nat
    BY <1>1, TracksAssumption, FS_Subset, FS_CardinalityType DEF TypeOK
  <2>2. /\ locked' \in BOOLEAN /\ left' \in SUBSET Tracks
        /\ apc' \in OwnerPCs
    BY <1>1 DEF StopAllCount, StopAllLock, StopAllUnlock, StopAllReturn, TypeOK, OwnerPCs
  <2>3. cnt' \in Nat /\ issued' \in Nat
    BY <1>1, <2>1 DEF StopAllCount, StopAllLock, StopAllUnlock, StopAllReturn, TypeOK
  <2>4. UNCHANGED <<object, sched, list, owned, asked, arg>>
    BY DEF StopAllCount, StopAllLock, StopAllUnlock, StopAllReturn
  <2> QED BY <1>1, <2>2, <2>3, <2>4 DEF TypeOK
<1>3. OneThingAtATime'
  BY <1>1, OwnerAlone DEF StopAllCount, StopAllLock, StopAllUnlock, StopAllReturn,
                          StoppingAll
<1>4. OwnerCalls'
  BY <1>1 DEF StopAllCount, StopAllLock, StopAllUnlock, StopAllReturn, OwnerCalls,
              OwnerMayCall
<1>5. \A t \in Tracks : Same(t)
  BY DEF StopAllCount, StopAllLock, StopAllUnlock, StopAllReturn, Same
<1> QED BY <1>1, <1>2, <1>3, <1>4, <1>5, SameGood DEF TrackInv

-----------------------------------------------------------------------------
(* The theorems.                                                            *)

\* The tracks keep their inductive invariant, for any number of tracks of any
\* kinds and all interleavings of the owner and the workers.
THEOREM TrackInvariant == Spec => []TrackInv
<1>1. Init => TrackInv
  <2> SUFFICES ASSUME Init
               PROVE  TrackInv
    OBVIOUS
  <2>1. TypeOK
    BY DEF Init, TypeOK, Lives, States, RunPCs, OwnerPCs
  <2>2. OneThingAtATime /\ OwnerCalls
    BY DEF Init, OneThingAtATime, OwnerCalls, Here, StoppingAll
  <2>3. \A t \in Tracks : TrackGood(t)
    BY DEF Init, TrackGood, Untouched, Books, StateAgrees, ClosedOnce, OwnerKnows,
           Forgotten
  <2> QED BY <2>1, <2>2, <2>3 DEF TrackInv
<1>2. TrackInv /\ [Next]_vars => TrackInv'
  <2> SUFFICES ASSUME TrackInv, [Next]_vars
               PROVE  TrackInv'
    OBVIOUS
  <2>1. CASE UNCHANGED vars
    <3>1. TypeOK' /\ OneThingAtATime' /\ OwnerCalls'
      BY <2>1 DEF vars, object, sched, shared, owner, TrackInv, TypeOK, OneThingAtATime,
                  OwnerCalls, Here, Elsewhere
    <3>2. \A t \in Tracks : Same(t)
      BY <2>1 DEF vars, object, sched, shared, owner, Same
    <3> QED BY <3>1, <3>2, SameGood DEF TrackInv
  <2>2. ASSUME NEW t \in Tracks, RunStep(t)
        PROVE  TrackInv'
    BY <2>2, BeginStep, LoopStep, FilterGoesOnStep, FilterAsyncStep, FilterEndsStep,
       FinStep, FinCloseStep, CloseStep, CloseListStep, CloseFreeStep DEF RunStep
  <2>3. ASSUME NEW t \in Tracks,
               \/ \E k \in Kinds : Create(t, k)
               \/ CloseCreated(t) \/ StartList(t) \/ Stop(t) \/ Wake(t) \/ OpEnds(t)
        PROVE  TrackInv'
    BY <2>3, CreateStep, CloseCreatedStep, StartListStep, StopStep, WakeStep, OpEndsStep
  <2>4. CASE StopAllCount \/ OwnerStep
    BY <2>4, StopAllStep, PostStep, StopAllXchgStep DEF OwnerStep
  <2>5. CASE Finished
    BY <2>1, <2>5 DEF Finished
  <2> QED BY <2>1, <2>2, <2>3, <2>4, <2>5 DEF Next
<1> QED BY <1>1, <1>2, PTL DEF Spec

\* A playback track that was freed is in no task queue and no list, no
\* operation will wake it, and no caller of stop() is about to post its task.
THEOREM NoTrackUsedAfterFree == Spec => []NoUseAfterFree
<1>1. TrackInv => NoUseAfterFree
  <2> SUFFICES ASSUME TrackInv, NEW t \in Tracks, kind[t] = "playback", obj[t] = "freed"
               PROVE  NothingRefersTo(t)
    BY DEF NoUseAfterFree
  <2>1. TrackGood(t) /\ OwnerCalls
    BY DEF TrackInv
  <2> QED BY <2>1 DEF TrackGood, Books, Forgotten, OwnerCalls, NothingRefersTo
<1> QED BY <1>1, TrackInvariant, PTL

\* No track with a guard is closed that nobody stopped, and the pointer its
\* owner keeps is to a track that exists.
THEOREM OwnersDecide == Spec => []OwnerDecides
<1>1. TrackInv => OwnerDecides
  <2> SUFFICES ASSUME TrackInv
               PROVE  OwnerDecides
    OBVIOUS
  <2>1. /\ owned \in SUBSET Tracks /\ st \in [Tracks -> States]
        /\ \A t \in Tracks : StateAgrees(t) /\ OwnerKnows(t)
    BY DEF TrackInv, TypeOK, TrackGood
  <2>2. FreedOnlyAfterStop
    BY <2>1 DEF FreedOnlyAfterStop, StateAgrees, OwnerKnows, Guarded, States
  <2>3. OwnersPointerValid
    BY <2>1 DEF OwnersPointerValid, OwnerKnows, Guarded
  <2> QED BY <2>2, <2>3 DEF OwnerDecides
<1> QED BY <1>1, TrackInvariant, PTL

\* The filters of a track are closed once; those of the main worker were told
\* about a stop before; and the list and the workers' counts are exact.
THEOREM TracksEndOnce == Spec => []EndsOnce
<1>1. TrackInv => EndsOnce
  <2> SUFFICES ASSUME TrackInv
               PROVE  EndsOnce
    OBVIOUS
  <2>1. /\ st \in [Tracks -> States]
        /\ \A t \in Tracks : Books(t) /\ StateAgrees(t) /\ ClosedOnce(t)
    BY DEF TrackInv, TypeOK, TrackGood
  <2>2. FiltersClosedOnce
    BY <2>1 DEF FiltersClosedOnce, ClosedOnce
  <2>3. StopReachesFilters
    BY <2>1 DEF StopReachesFilters, StateAgrees, Elsewhere, States
  <2>4. TracksAccountedFor
    BY <2>1 DEF TracksAccountedFor, Books
  <2> QED BY <2>2, <2>3, <2>4 DEF EndsOnce
<1> QED BY <1>1, TrackInvariant, PTL

-----------------------------------------------------------------------------
(* The conveyor.                                                           *)

Live == pc \in {"run", "async"}

\* A list of filters that fits a pool of n slots.
Fits(ch, n) ==
  /\ ch \in Seq(1..n)
  /\ \A i, j \in 1..Len(ch) : ch[i] = ch[j] => i = j

\* What holds of a running chain ch with current position c, when h are the
\* regions the filters may still read, d owns data_in, and the filters in ok
\* wait for more input: a region belongs to a filter before its reader, or to
\* one that has left; the filters behind the current one have nothing to read;
\* the ones before it do not wait for more input.
Sound(ch, c, h, d, ok) ==
  /\ c \in 0..(Len(ch) - 1)
  /\ \A i, j \in 1..Len(ch) : i <= j => h[ch[i]] # ch[j]
  /\ \A i \in (c + 2)..Len(ch) : h[ch[i]] = 0
  /\ \A j \in (c + 1)..Len(ch) : d # ch[j]
  /\ \A i \in 1..c : ch[i] \notin ok

\* Only slots in use own a region, have one to read, or are opened.
OnlyInUse ==
  /\ opened \subseteq 1..pool /\ din \in 0..pool
  /\ \A f \in Slots : held[f] \in 0..pool /\ (f > pool => held[f] = 0)
  /\ \A f \in skip : held[f] = 0

\* track_start finds a track whose filters have done nothing.
SetupIsClean ==
  pc = "setup" => /\ din = 0 /\ opened = {} /\ okd = {} /\ ran = {} /\ closed = <<>>
                  /\ \A f \in Slots : held[f] = 0

LiveIsSound ==
  Live => /\ Sound(chain, cur, held, din, okd \ skip)
          /\ okd \subseteq opened /\ closed = <<>>
          /\ chain[cur + 1] \in okd \ skip => fwd \/ cur = 0

\* What ran is to be closed, or is closed; the later ones come first.
CloseInOrder ==
  /\ ran \subseteq opened \union Range(closed)
  /\ \A i \in 1..Len(closed) : \A f \in opened : f < closed[i]
  /\ ClosedInReverse
  /\ pc = "closed" => opened = {}

\* The inductive invariant of the filter chain.
ConveyorInv ==
  /\ ConveyorTypeOK /\ Fits(chain, pool) /\ OnlyInUse
  /\ SetupIsClean /\ LiveIsSound /\ CloseInOrder

-----------------------------------------------------------------------------
(* The operations on the list of active filters.                            *)

\* filter_add: the filters keep their order around the new one.
LEMMA InsertAtElements ==
  ASSUME NEW n \in Nat, NEW ch \in Seq(1..n), NEW pos \in 0..Len(ch)
  PROVE  /\ InsertAt(ch, pos, n + 1) \in Seq(1..(n + 1))
         /\ Len(InsertAt(ch, pos, n + 1)) = Len(ch) + 1
         /\ \A i \in 1..(Len(ch) + 1) :
              InsertAt(ch, pos, n + 1)[i] =
                IF i <= pos THEN ch[i] ELSE IF i = pos + 1 THEN n + 1 ELSE ch[i - 1]
<1> DEFINE f == n + 1
           m == n + 1
<1>0. m \in Nat /\ n <= m /\ f \in 1..m
  OBVIOUS
<1> HIDE DEF f, m
<1> DEFINE a == SubSeq(ch, 1, pos)
           b == SubSeq(ch, pos + 1, Len(ch))
<1>1. ch \in Seq(1..m) /\ Len(ch) \in Nat
  BY <1>0
<1>2. a \in Seq(1..m) /\ Len(a) = pos /\ \A i \in 1..pos : a[i] = ch[i]
  BY <1>0, <1>1
<1>3. /\ b \in Seq(1..m) /\ Len(b) = Len(ch) - pos
      /\ \A i \in 1..(Len(ch) - pos) : b[i] = ch[pos + i]
  <2>1. pos \in Nat /\ pos <= Len(ch)
    BY <1>1
  <2>2. b \in Seq(1..m) /\ Len(b) = Len(ch) - pos
    <3>1. ASSUME NEW i \in (pos + 1)..Len(ch)
          PROVE  ch[i] \in 1..m
      <4>1. i \in 1..Len(ch)
        BY <1>1, <2>1
      <4> QED BY <1>1, <4>1, ElementOfSeq
    <3>2. pos + 1 \in Int /\ Len(ch) \in Int
      BY <1>1, <2>1
    <3>3. /\ b \in Seq(1..m)
          /\ Len(b) = IF pos + 1 <= Len(ch) THEN Len(ch) - (pos + 1) + 1 ELSE 0
      BY <3>1, <3>2, SubSeqProperties
    <3> QED BY <1>1, <2>1, <3>3
  <2>3. \A i \in 1..(Len(ch) - pos) : b[i] = ch[pos + i]
    BY <1>1, <2>1
  <2> QED BY <2>2, <2>3
<1>4. InsertAt(ch, pos, n + 1) = (a \o <<f>>) \o b
  BY DEF InsertAt, f
<1> HIDE DEF a, b
<1>5. /\ a \o <<f>> \in Seq(1..m) /\ Len(a \o <<f>>) = pos + 1
      /\ \A i \in 1..(pos + 1) : (a \o <<f>>)[i] = IF i <= pos THEN ch[i] ELSE f
  BY <1>0, <1>2
<1> DEFINE e == a \o <<f>>
<1> HIDE DEF e
<1>6. /\ e \o b \in Seq(1..m) /\ Len(e \o b) = Len(ch) + 1
      /\ \A i \in 1..(Len(ch) + 1) :
           (e \o b)[i] = IF i <= pos + 1 THEN e[i] ELSE b[i - (pos + 1)]
  <2>1. e \in Seq(1..m) /\ Len(e) = pos + 1
    BY <1>5, Zenon DEF e
  <2>2. Len(e) + Len(b) = Len(ch) + 1
    BY <1>1, <1>3, <2>1
  <2>3. /\ e \o b \in Seq(1..m) /\ Len(e \o b) = Len(e) + Len(b)
        /\ \A i \in 1..(Len(e) + Len(b)) :
             (e \o b)[i] = IF i <= Len(e) THEN e[i] ELSE b[i - Len(e)]
    BY <1>3, <2>1, ConcatProperties
  <2> QED BY <2>1, <2>2, <2>3
<1>7. ASSUME NEW i \in 1..(Len(ch) + 1), i > pos + 1
      PROVE  b[i - (pos + 1)] = ch[i - 1]
  <2>1. i - (pos + 1) \in 1..(Len(ch) - pos) /\ pos + (i - (pos + 1)) = i - 1
    BY <1>1, <1>7
  <2> QED BY <1>3, <2>1
<1>8. ASSUME NEW i \in 1..(Len(ch) + 1)
      PROVE  (e \o b)[i] = IF i <= pos THEN ch[i]
                           ELSE IF i = pos + 1 THEN f ELSE ch[i - 1]
  <2>1. CASE i <= pos + 1
    <3>1. i \in 1..(pos + 1)
      BY <1>1, <2>1
    <3>2. (e \o b)[i] = e[i]
      BY <1>6, <2>1
    <3> QED BY <1>5, <2>1, <3>1, <3>2 DEF e
  <2>2. CASE i > pos + 1
    BY <1>1, <1>6, <1>7, <2>2
  <2>3. i <= pos + 1 \/ i > pos + 1
    BY <1>1
  <2> QED BY <2>1, <2>2, <2>3, Zenon
<1>9. InsertAt(ch, pos, n + 1) = e \o b
  BY <1>4 DEF e, f
<1>10. f = n + 1 /\ m = n + 1
  BY DEF f, m
<1> DEFINE v == e \o b
<1>11. /\ v \in Seq(1..m) /\ Len(v) = Len(ch) + 1
       /\ \A i \in 1..(Len(ch) + 1) :
            v[i] = IF i <= pos THEN ch[i] ELSE IF i = pos + 1 THEN f ELSE ch[i - 1]
  BY <1>6, <1>8
<1> HIDE DEF v
<1>12. InsertAt(ch, pos, n + 1) = v
  BY <1>9 DEF v
<1> QED BY <1>10, <1>11, <1>12

\* trk_filter_handle_result, PHI_DONE: the others keep their order.
LEMMA WithoutElements ==
  ASSUME NEW n \in Nat, NEW ch \in Seq(1..n), NEW c \in 0..(Len(ch) - 1)
  PROVE  /\ Without(ch, c) \in Seq(1..n)
         /\ Len(Without(ch, c)) = Len(ch) - 1
         /\ \A i \in 1..(Len(ch) - 1) :
              Without(ch, c)[i] = IF i <= c THEN ch[i] ELSE ch[i + 1]
<1> DEFINE a == SubSeq(ch, 1, c)
           b == SubSeq(ch, c + 2, Len(ch))
<1>1. Len(ch) \in Nat
  OBVIOUS
<1>2. a \in Seq(1..n) /\ Len(a) = c /\ \A i \in 1..c : a[i] = ch[i]
  BY <1>1
<1>3. /\ b \in Seq(1..n) /\ Len(b) = Len(ch) - 1 - c
      /\ \A i \in 1..(Len(ch) - 1 - c) : b[i] = ch[c + 1 + i]
  BY <1>1
<1>4. Without(ch, c) = a \o b
  BY DEF Without
<1> HIDE DEF a, b
<1>5. /\ a \o b \in Seq(1..n) /\ Len(a \o b) = Len(ch) - 1
      /\ \A i \in 1..(Len(ch) - 1) : (a \o b)[i] = IF i <= c THEN a[i] ELSE b[i - c]
  <2>1. Len(a) + Len(b) = Len(ch) - 1
    BY <1>1, <1>2, <1>3
  <2>2. /\ a \o b \in Seq(1..n) /\ Len(a \o b) = Len(a) + Len(b)
        /\ \A i \in 1..(Len(a) + Len(b)) :
             (a \o b)[i] = IF i <= Len(a) THEN a[i] ELSE b[i - Len(a)]
    BY <1>2, <1>3, ConcatProperties
  <2> QED BY <1>2, <2>1, <2>2
<1>6. ASSUME NEW i \in 1..(Len(ch) - 1), i > c
      PROVE  b[i - c] = ch[i + 1]
  <2>1. i - c \in 1..(Len(ch) - 1 - c) /\ c + 1 + (i - c) = i + 1
    BY <1>1, <1>6
  <2> QED BY <1>3, <2>1
<1>7. ASSUME NEW i \in 1..(Len(ch) - 1)
      PROVE  (a \o b)[i] = IF i <= c THEN ch[i] ELSE ch[i + 1]
  <2>1. CASE i <= c
    <3>1. i \in 1..c /\ (a \o b)[i] = a[i]
      BY <1>1, <1>5, <2>1
    <3> QED BY <1>2, <2>1, <3>1
  <2>2. CASE i > c
    BY <1>1, <1>5, <1>6, <2>2
  <2>3. i <= c \/ i > c
    BY <1>1
  <2> QED BY <2>1, <2>2, <2>3, Zenon
<1> QED BY <1>4, <1>5, <1>7

\* PHI_LASTOUT: the filters up to the current one leave.
LEMMA RestElements ==
  ASSUME NEW n \in Nat, NEW ch \in Seq(1..n), NEW c \in 0..(Len(ch) - 2)
  PROVE  /\ Len(SubSeq(ch, c + 2, Len(ch))) = Len(ch) - 1 - c
         /\ \A i \in 1..(Len(ch) - 1 - c) : SubSeq(ch, c + 2, Len(ch))[i] = ch[i + c + 1]
         /\ SubSeq(ch, c + 2, Len(ch)) \in Seq(1..n)
  OBVIOUS

\* Regions belong to the slots 1..n; the next slot has none to read.
InUse(n, h, d, ok) ==
  /\ d \in 0..n /\ ok \subseteq 1..n
  /\ h[n + 1] = 0 /\ \A f \in 1..n : h[f] \in 0..n

\* A filter is put at position pos, right before or right after position c,
\* which becomes e.
Beside(c, pos, e) == (pos = c /\ e = c + 1) \/ (pos = c + 1 /\ e = c)

\* track_filter from inside a filter: a new slot next to the current filter
\* disturbs nothing, and the current filter stays the current one.
LEMMA InsertSound ==
  ASSUME NEW n \in Nat, NEW ch, NEW c, NEW h, NEW d, NEW ok,
         Fits(ch, n), Sound(ch, c, h, d, ok), InUse(n, h, d, ok),
         NEW pos, NEW e, Beside(c, pos, e)
  PROVE  /\ Fits(InsertAt(ch, pos, n + 1), n + 1)
         /\ Sound(InsertAt(ch, pos, n + 1), e, h, d, ok)
         /\ InsertAt(ch, pos, n + 1)[e + 1] = ch[c + 1]
         /\ InsertAt(ch, pos, n + 1)[pos + 1] = n + 1
<1> USE DEF InUse
<1> DEFINE u == InsertAt(ch, pos, n + 1)
<1>0. /\ c \in Int /\ pos \in {c, c + 1} /\ e = IF pos = c THEN c + 1 ELSE c
  BY DEF Beside, Sound, Fits
<1>1. /\ ch \in Seq(1..n) /\ Len(ch) \in Nat /\ c \in 0..(Len(ch) - 1)
      /\ pos \in 0..Len(ch) /\ e \in 0..Len(ch)
  BY <1>0 DEF Fits, Sound
<1>2. /\ u \in Seq(1..(n + 1)) /\ Len(u) = Len(ch) + 1
      /\ \A i \in 1..(Len(ch) + 1) :
           u[i] = IF i <= pos THEN ch[i] ELSE IF i = pos + 1 THEN n + 1 ELSE ch[i - 1]
  BY <1>1, InsertAtElements
<1> HIDE DEF u
<1> DEFINE k(i) == IF i <= pos THEN i ELSE i - 1
<1>3. ASSUME NEW i \in 1..Len(u), i # pos + 1
      PROVE  k(i) \in 1..Len(ch) /\ u[i] = ch[k(i)]
  <2>1. i \in 1..(Len(ch) + 1) /\ k(i) \in 1..Len(ch)
    BY <1>0, <1>1, <1>2, <1>3
  <2>2. CASE i <= pos
    BY <1>2, <2>1, <2>2
  <2>3. CASE ~(i <= pos)
    BY <1>2, <1>3, <2>1, <2>3
  <2> QED BY <2>1, <2>2, <2>3
<1>4. \A i \in 1..Len(ch) : ch[i] \in 1..n /\ ch[i] # n + 1
  BY <1>0, <1>1
<1>5. pos + 1 \in 1..Len(u) /\ u[pos + 1] = n + 1
  BY <1>0, <1>1, <1>2
<1>6. ASSUME NEW i \in 1..Len(u), NEW j \in 1..Len(u), i # pos + 1, j # pos + 1
      PROVE  (k(i) = k(j) => i = j) /\ (i <= j => k(i) <= k(j))
  <2>1. i \in Int /\ j \in Int /\ pos \in Int
    BY <1>0, <1>1, <1>2
  <2> QED BY <1>6, <2>1
<1>7. ASSUME NEW i \in 1..Len(u), NEW j \in 1..Len(u), u[i] = u[j]
      PROVE  i = j
  <2>1. CASE i = pos + 1 \/ j = pos + 1
    BY <1>3, <1>4, <1>5, <1>7, <2>1
  <2>2. CASE i # pos + 1 /\ j # pos + 1
    <3>1. ch[k(i)] = ch[k(j)] /\ k(i) \in 1..Len(ch) /\ k(j) \in 1..Len(ch)
      BY <1>3, <1>7, <2>2
    <3>2. k(i) = k(j)
      BY <3>1 DEF Fits
    <3> QED BY <1>6, <2>2, <3>2
  <2> QED BY <2>1, <2>2
<1>8. ASSUME NEW i \in 1..Len(u), NEW j \in 1..Len(u), i <= j
      PROVE  h[u[i]] # u[j]
  <2>1. CASE i = pos + 1
    <3>1. h[u[i]] = 0
      BY <1>5, <2>1
    <3>2. u[j] # 0
      BY <1>2
    <3> QED BY <3>1, <3>2
  <2>2. CASE i # pos + 1 /\ j = pos + 1
    <3>1. h[u[i]] \in 0..n
      BY <1>3, <1>4, <2>2
    <3> QED BY <1>5, <2>2, <3>1
  <2>3. CASE i # pos + 1 /\ j # pos + 1
    <3>1. k(i) \in 1..Len(ch) /\ k(j) \in 1..Len(ch) /\ k(i) <= k(j)
      BY <1>3, <1>6, <1>8, <2>3
    <3>2. u[i] = ch[k(i)] /\ u[j] = ch[k(j)]
      BY <1>3, <2>3
    <3> HIDE DEF k
    <3> QED BY <3>1, <3>2 DEF Sound
  <2> QED BY <2>1, <2>2, <2>3
<1>9. ASSUME NEW i \in (e + 2)..Len(u)
      PROVE  h[u[i]] = 0
  <2>1. i \in 1..Len(u)
    BY <1>0, <1>1, <1>2
  <2>2. CASE i = pos + 1
    BY <1>5, <2>2
  <2>3. CASE i # pos + 1
    <3>1. k(i) \in (c + 2)..Len(ch)
      BY <1>0, <1>1, <1>2, <1>9, <2>3
    <3> QED BY <1>3, <2>1, <2>3, <3>1 DEF Sound
  <2> QED BY <2>2, <2>3
<1>10. ASSUME NEW j \in (e + 1)..Len(u)
       PROVE  d # u[j]
  <2>1. j \in 1..Len(u)
    BY <1>0, <1>1, <1>2
  <2>2. CASE j = pos + 1
    BY <1>5, <2>2
  <2>3. CASE j # pos + 1
    <3>1. k(j) \in (c + 1)..Len(ch)
      BY <1>0, <1>1, <1>2, <1>10, <2>3
    <3> QED BY <1>3, <2>1, <2>3, <3>1 DEF Sound
  <2> QED BY <2>2, <2>3
<1>11. ASSUME NEW i \in 1..e
       PROVE  u[i] \notin ok
  <2>1. i \in 1..Len(u)
    BY <1>0, <1>1, <1>2
  <2>2. CASE i = pos + 1
    BY <1>5, <2>2
  <2>3. CASE i # pos + 1
    <3>1. k(i) \in 1..c
      BY <1>0, <1>1, <1>2, <1>11, <2>3
    <3> QED BY <1>3, <2>1, <2>3, <3>1 DEF Sound
  <2> QED BY <2>2, <2>3
<1>12. Fits(u, n + 1)
  BY <1>2, <1>7 DEF Fits
<1>13. Sound(u, e, h, d, ok)
  BY <1>1, <1>2, <1>8, <1>9, <1>10, <1>11 DEF Sound
<1>14. u[e + 1] = ch[c + 1]
  <2>1. e + 1 \in 1..(Len(ch) + 1)
    BY <1>0, <1>1
  <2>2. CASE pos = c
    BY <1>0, <1>1, <1>2, <2>1, <2>2
  <2>3. CASE pos = c + 1
    BY <1>0, <1>1, <1>2, <2>1, <2>3
  <2> QED BY <1>0, <2>2, <2>3
<1> QED BY <1>5, <1>12, <1>13, <1>14 DEF u

\* u is ch without the filters at the positions lo..c; data goes on from
\* position e, with the region of out.
Left(ch, c, lo, u) ==
  /\ lo <= c /\ Len(u) = Len(ch) - 1 - (c - lo)
  /\ \A i \in 1..Len(u) : u[i] = IF i <= lo THEN ch[i] ELSE ch[i + 1 + (c - lo)]
GoesOn(ch, c, d, lo, u, e, out) ==
  /\ e \in 0..(Len(u) - 1) /\ e \in {lo - 1, lo}
  /\ out \in {0, ch[c + 1], d} /\ (e = lo - 1 => out = 0)

\* A filter that leaves, or several, take nothing from the others: what is
\* left, in its order, with a position behind the ones that left.
LEMMA LeaveSound ==
  ASSUME NEW n \in Nat, NEW ch, NEW c, NEW h, NEW d, NEW ok,
         Fits(ch, n), Sound(ch, c, h, d, ok),
         NEW lo \in Nat, NEW u \in Seq(1..n), NEW e, NEW out,
         Left(ch, c, lo, u), GoesOn(ch, c, d, lo, u, e, out)
  PROVE  Fits(u, n) /\ Sound(u, e, h, out, ok)
<1> USE DEF Left, GoesOn
<1> DEFINE k(i) == IF i <= lo THEN i ELSE i + 1 + (c - lo)
<1>1. /\ Len(ch) \in Nat /\ c \in 0..(Len(ch) - 1) /\ Len(u) \in Nat
      /\ \A i \in 1..Len(ch) : ch[i] \in 1..n
  BY DEF Fits, Sound
<1>2. \A i \in 1..Len(u) :
        /\ k(i) \in 1..Len(ch) /\ k(i) # c + 1 /\ u[i] = ch[k(i)]
        /\ k(i) <= lo \/ k(i) > c + 1
  BY <1>1
<1>3. \A i, j \in 1..Len(u) : (k(i) = k(j) => i = j) /\ (i <= j => k(i) <= k(j))
  BY <1>1
<1>4. \A i \in 1..Len(u) : (i > lo <=> k(i) > c + 1) /\ (i <= lo => k(i) = i)
  BY <1>1
<1> HIDE DEF k
<1>5. Fits(u, n)
  <2>1. ASSUME NEW i \in 1..Len(u), NEW j \in 1..Len(u), u[i] = u[j]
        PROVE  i = j
    <3>1. ch[k(i)] = ch[k(j)] /\ k(i) \in 1..Len(ch) /\ k(j) \in 1..Len(ch)
      BY <1>2, <2>1
    <3>2. k(i) = k(j)
      BY <3>1 DEF Fits
    <3> QED BY <1>3, <3>2
  <2> QED BY <2>1 DEF Fits
<1>6. ASSUME NEW i \in 1..Len(u), NEW j \in 1..Len(u), i <= j
      PROVE  h[u[i]] # u[j]
  <2>1. k(i) \in 1..Len(ch) /\ k(j) \in 1..Len(ch) /\ k(i) <= k(j)
    BY <1>2, <1>3, <1>6
  <2>2. u[i] = ch[k(i)] /\ u[j] = ch[k(j)]
    BY <1>2
  <2> QED BY <2>1, <2>2 DEF Sound
<1>7. ASSUME NEW i \in (e + 2)..Len(u)
      PROVE  h[u[i]] = 0
  <2>1. i \in 1..Len(u) /\ i > lo
    BY <1>1
  <2>2. k(i) \in (c + 2)..Len(ch)
    BY <1>1, <1>2, <1>4, <2>1
  <2> QED BY <1>2, <2>1, <2>2 DEF Sound
<1>8. ASSUME NEW j \in (e + 1)..Len(u)
      PROVE  out # u[j]
  <2>1. j \in 1..Len(u) /\ u[j] = ch[k(j)] /\ k(j) \in 1..Len(ch) /\ k(j) # c + 1
    BY <1>1, <1>2
  <2>2. u[j] \in 1..n
    BY <2>1, <1>1
  <2>3. CASE out = 0
    BY <2>2, <2>3
  <2>4. CASE out = ch[c + 1]
    <3>1. c + 1 \in 1..Len(ch)
      BY <1>1
    <3> QED BY <2>1, <2>4, <3>1 DEF Fits
  <2>5. CASE out = d /\ e = lo
    <3>1. j > lo
      BY <1>8, <2>5
    <3>2. k(j) \in (c + 1)..Len(ch)
      BY <1>1, <1>4, <2>1, <3>1
    <3> QED BY <2>1, <2>5, <3>2 DEF Sound
  <2> QED BY <2>3, <2>4, <2>5
<1>9. ASSUME NEW i \in 1..e
      PROVE  u[i] \notin ok
  <2>1. i \in 1..Len(u) /\ i <= lo /\ i \in 1..c
    BY <1>1
  <2>2. u[i] = ch[i]
    BY <1>2, <1>4, <2>1
  <2> QED BY <2>1, <2>2 DEF Sound
<1> QED BY <1>5, <1>6, <1>7, <1>8, <1>9 DEF Sound

\* What track_run sees after trk_filter_handle_result: the current filter has
\* returned r with output out; if it asks for more, it has nothing to read.
\* The chain goes on soundly, unless it ends.
LEMMA HandleSound ==
  ASSUME NEW n \in Nat, NEW ch, NEW c, NEW h, NEW d, NEW ok,
         Fits(ch, n), Sound(ch, c, h, d, ok), ch[c + 1] \notin ok,
         NEW r \in Results, NEW out \in {0, ch[c + 1], d},
         r \in {"MORE", "BACK"} => h[ch[c + 1]] = 0,
         r = "BACK" => c > 0 /\ out = d /\ out # ch[c],
         NEW v, v = Handle(ch, c, r)
  PROVE  /\ v.r \in {"MORE", "BACK", "DATA", "ASYNC", "FIN", "ERR"}
         /\ Fits(v.ch, n) /\ v.c \in -1..(Len(ch) - 1)
         /\ v.r = "MORE" => Sound(v.ch, v.c, h, 0, ok)
         /\ v.r \in {"BACK", "DATA"} => Sound(v.ch, v.c, h, out, ok)
         /\ v.r = "ASYNC" => Sound(v.ch, v.c, h, d, ok)
         /\ v.r \in {"MORE", "BACK", "ASYNC"} => v.ch[v.c + 1] \notin ok
<1>1. /\ ch \in Seq(1..n) /\ Len(ch) \in Nat /\ c \in 0..(Len(ch) - 1)
      /\ \A i \in 1..Len(ch) : ch[i] \in 1..n
  BY DEF Fits, Sound
<1>2. Fits(<<>>, n)
  BY DEF Fits
<1>3. CASE r = "DONE" /\ Len(ch) # 1
  <2> DEFINE u == Without(ch, c)
  <2>1. /\ u \in Seq(1..n) /\ Len(u) = Len(ch) - 1
        /\ \A i \in 1..(Len(ch) - 1) : u[i] = IF i <= c THEN ch[i] ELSE ch[i + 1]
    BY <1>1, WithoutElements
  <2>2. v = Forward(u, c - 1)
    BY <1>3 DEF Handle
  <2> HIDE DEF u
  <2>3. c \in Nat /\ Left(ch, c, c, u)
    BY <1>1, <2>1 DEF Left
  <2>4. CASE (c - 1) + 1 = Len(u)
    <3>1. v = [ch |-> u, c |-> c - 1, r |-> "MORE"]
      BY <2>2, <2>4 DEF Forward
    <3>2. c - 1 \in 0..(Len(u) - 1)
      BY <1>1, <1>3, <2>1, <2>4
    <3>3. Fits(u, n) /\ Sound(u, c - 1, h, 0, ok)
      <4>1. GoesOn(ch, c, d, c, u, c - 1, 0)
        BY <3>2 DEF GoesOn
      <4> QED BY <2>1, <2>3, <4>1, LeaveSound
    <3>4. u[(c - 1) + 1] \notin ok
      <4>1. c \in 1..c /\ u[c] = ch[c] /\ (c - 1) + 1 = c
        BY <1>1, <1>3, <2>1, <2>4, <3>2
      <4> QED BY <4>1 DEF Sound
    <3> QED BY <1>1, <3>1, <3>2, <3>3, <3>4
  <2>5. CASE (c - 1) + 1 # Len(u)
    <3>1. v = [ch |-> u, c |-> c, r |-> "DATA"]
      BY <1>1, <2>2, <2>5 DEF Forward
    <3>2. c \in 0..(Len(u) - 1)
      <4>1. Len(u) = Len(ch) - 1
        BY <2>1
      <4> QED BY <1>1, <2>5, <4>1
    <3>3. Fits(u, n) /\ Sound(u, c, h, out, ok)
      <4>1. GoesOn(ch, c, d, c, u, c, out)
        BY <1>1, <3>2 DEF GoesOn
      <4> QED BY <2>1, <2>3, <4>1, LeaveSound
    <3> QED BY <1>1, <3>1, <3>3
  <2> QED BY <2>4, <2>5
<1>4. CASE r = "LASTOUT" /\ c + 1 # Len(ch)
  <2> DEFINE u == SubSeq(ch, c + 2, Len(ch))
  <2>1. /\ u \in Seq(1..n) /\ Len(u) = Len(ch) - 1 - c
        /\ \A i \in 1..(Len(ch) - 1 - c) : u[i] = ch[i + c + 1]
    <3>1. c \in 0..(Len(ch) - 2)
      BY <1>1, <1>4
    <3> QED BY <1>1, <3>1, RestElements
  <2>2. v = Forward(u, -1)
    BY <1>4 DEF Handle
  <2> HIDE DEF u
  <2>3. v = [ch |-> u, c |-> 0, r |-> "DATA"]
    BY <1>1, <1>4, <2>1, <2>2 DEF Forward
  <2>4. 0 \in Nat /\ Left(ch, c, 0, u) /\ GoesOn(ch, c, d, 0, u, 0, out)
    BY <1>1, <1>4, <2>1 DEF Left, GoesOn
  <2>5. Fits(u, n) /\ Sound(u, 0, h, out, ok)
    BY <2>1, <2>4, LeaveSound
  <2> QED BY <1>1, <2>3, <2>5
<1>5. ASSUME v = [ch |-> <<>>, c |-> -1, r |-> "FIN"]
      PROVE  /\ v.r = "FIN" /\ Fits(v.ch, n) /\ v.c \in -1..(Len(ch) - 1)
  BY <1>1, <1>2, <1>5
<1>6. CASE r \in {"OK", "DATA"}
  <2>1. v = Forward(ch, c)
    BY <1>6 DEF Handle
  <2>2. CASE c + 1 = Len(ch)
    <3>1. v = [ch |-> ch, c |-> c, r |-> "MORE"]
      BY <2>1, <2>2 DEF Forward
    <3>2. Sound(ch, c, h, 0, ok)
      BY <1>1 DEF Sound
    <3> QED BY <1>1, <3>1, <3>2
  <2>3. CASE c + 1 # Len(ch)
    <3>1. v = [ch |-> ch, c |-> c + 1, r |-> "DATA"]
      BY <2>1, <2>3 DEF Forward
    <3>2. c + 1 \in 0..(Len(ch) - 1)
      BY <1>1, <2>3
    <3>3. ASSUME NEW j \in (c + 2)..Len(ch)
          PROVE  out # ch[j]
      <4>1. j \in 1..Len(ch) /\ j # c + 1 /\ c + 1 \in 1..Len(ch)
            /\ j \in (c + 1)..Len(ch)
        BY <1>1
      <4> QED BY <1>1, <4>1 DEF Fits, Sound
    <3>4. ASSUME NEW i \in 1..(c + 1)
          PROVE  ch[i] \notin ok
      <4>1. i = c + 1 \/ i \in 1..c
        BY <1>1
      <4> QED BY <4>1 DEF Sound
    <3>5. Sound(ch, c + 1, h, out, ok)
      BY <1>1, <3>2, <3>3, <3>4 DEF Sound
    <3> QED BY <1>1, <3>1, <3>2, <3>5
  <2> QED BY <2>2, <2>3
<1>7. CASE r \in {"MORE", "BACK"} /\ c # 0
  <2>1. v = [ch |-> ch, c |-> c - 1, r |-> r]
    BY <1>7 DEF Handle
  <2>2. c - 1 \in 0..(Len(ch) - 1) /\ c \in 1..c /\ (c - 1) + 1 = c
    BY <1>1, <1>7
  <2>3. ch[(c - 1) + 1] \notin ok
    BY <2>2 DEF Sound
  <2>4. ASSUME NEW i \in ((c - 1) + 2)..Len(ch)
        PROVE  h[ch[i]] = 0
    <3>1. i = c + 1 \/ i \in (c + 2)..Len(ch)
      BY <1>1, <2>2
    <3> QED BY <1>7, <3>1 DEF Sound
  <2>5. \A i \in 1..(c - 1) : ch[i] \notin ok
    BY <1>1 DEF Sound
  <2>6. Sound(ch, c - 1, h, 0, ok)
    BY <1>1, <2>2, <2>4, <2>5 DEF Sound
  <2>7. ASSUME r = "BACK", NEW j \in ((c - 1) + 1)..Len(ch)
        PROVE  out # ch[j]
    <3>1. j = c \/ j \in (c + 1)..Len(ch)
      BY <1>1, <2>2
    <3> QED BY <2>7, <3>1 DEF Sound
  <2>8. r = "BACK" => Sound(ch, c - 1, h, out, ok)
    BY <1>1, <2>2, <2>4, <2>5, <2>7 DEF Sound
  <2> QED BY <1>1, <1>7, <2>1, <2>2, <2>3, <2>6, <2>8
<1>8. CASE r \in {"MORE", "BACK"} /\ c = 0
  <2>1. v = [ch |-> ch, c |-> c, r |-> "ERR"]
    BY <1>8 DEF Handle
  <2> QED BY <1>1, <2>1
<1>9. CASE r \in {"ASYNC", "FIN", "ERR"}
  <2>1. v = [ch |-> ch, c |-> c, r |-> r]
    BY <1>9 DEF Handle
  <2> QED BY <1>1, <1>9, <2>1
<1>10. r \in {"DATA", "OK", "DONE", "LASTOUT", "MORE", "BACK", "ASYNC", "FIN", "ERR"}
  BY DEF Results
<1>12. CASE r \in {"MORE", "BACK"}
  BY <1>7, <1>8, <1>12
<1>13. CASE r = "DONE"
  <2>1. CASE Len(ch) = 1
    <3>1. v = [ch |-> <<>>, c |-> -1, r |-> "FIN"]
      BY <1>13, <2>1 DEF Handle
    <3> QED BY <1>5, <3>1
  <2>2. CASE Len(ch) # 1
    BY <1>3, <1>13, <2>2
  <2> QED BY <2>1, <2>2, Zenon
<1>14. CASE r = "LASTOUT"
  <2>1. CASE c + 1 = Len(ch)
    <3>1. v = [ch |-> <<>>, c |-> -1, r |-> "FIN"]
      BY <1>14, <2>1 DEF Handle
    <3> QED BY <1>5, <3>1
  <2>2. CASE c + 1 # Len(ch)
    BY <1>4, <1>14, <2>2
  <2> QED BY <2>1, <2>2, Zenon
<1> QED BY <1>6, <1>9, <1>10, <1>12, <1>13, <1>14

-----------------------------------------------------------------------------
(* The steps of track_run.                                                  *)

\* track_filter called by the current filter of a running chain.
LEMMA AddedSound ==
  ASSUME ConveyorInv, Live, NEW add \in {"none", "next", "prev"},
         add # "none" => pool < MaxFilters,
         NEW n, n = IF add = "none" THEN pool ELSE pool + 1
  PROVE  /\ n \in 0..MaxFilters /\ pool <= n
         /\ Fits(Added(add).ch, n)
         /\ Sound(Added(add).ch, Added(add).c, held, din, okd \ skip)
         /\ Added(add).ch[Added(add).c + 1] = chain[cur + 1]
         /\ add = "prev" => /\ Added(add).c > 0
                            /\ Added(add).ch[Added(add).c] = pool + 1
<1>1. pool \in Nat /\ MaxFilters \in Nat /\ pool <= MaxFilters
  BY MaxFiltersAssumption DEF ConveyorInv, ConveyorTypeOK
<1>2. /\ Fits(chain, pool) /\ Sound(chain, cur, held, din, okd \ skip)
      /\ okd \subseteq opened /\ opened \subseteq 1..pool /\ din \in 0..pool
      /\ \A f \in Slots : held[f] \in 0..pool /\ (f > pool => held[f] = 0)
  BY DEF ConveyorInv, LiveIsSound, OnlyInUse
<1>3. CASE add = "none"
  <2>1. Added(add).ch = chain /\ Added(add).c = cur
    BY <1>3 DEF Added
  <2> QED BY <1>1, <1>2, <1>3, <2>1
<1>4. CASE add # "none"
  <2>1. /\ n = pool + 1 /\ n \in Slots
        /\ \A f \in 1..pool : f \in Slots
    BY <1>1, <1>4 DEF Slots
  <2>2. InUse(pool, held, din, okd \ skip)
    <3>1. held[pool + 1] = 0 /\ \A f \in 1..pool : held[f] \in 0..pool
      BY <1>1, <1>2, <2>1
    <3>2. okd \ skip \subseteq 1..pool
      BY <1>2
    <3> QED BY <1>2, <3>1, <3>2 DEF InUse
  <2>4. cur \in Nat /\ cur # cur + 1
    BY <1>2 DEF Sound, Fits
  <2>5. CASE add = "next"
    <3> DEFINE u == InsertAt(chain, cur + 1, pool + 1)
    <3>1. Added(add).ch = u /\ Added(add).c = cur
      BY <2>5 DEF Added
    <3>2. Beside(cur, cur + 1, cur)
      BY DEF Beside
    <3>3. /\ Fits(u, pool + 1) /\ Sound(u, cur, held, din, okd \ skip)
          /\ u[cur + 1] = chain[cur + 1]
      BY <1>1, <1>2, <2>2, <3>2, InsertSound
    <3> HIDE DEF u
    <3> QED BY <1>1, <2>1, <2>5, <3>1, <3>3
  <2>6. CASE add = "prev"
    <3> DEFINE u == InsertAt(chain, cur, pool + 1)
    <3>1. Added(add).ch = u /\ Added(add).c = cur + 1
      BY <2>6 DEF Added
    <3>2. Beside(cur, cur, cur + 1)
      BY DEF Beside
    <3>3. /\ Fits(u, pool + 1) /\ Sound(u, cur + 1, held, din, okd \ skip)
          /\ u[(cur + 1) + 1] = chain[cur + 1] /\ u[cur + 1] = pool + 1
      BY <1>1, <1>2, <2>2, <3>2, InsertSound
    <3> HIDE DEF u
    <3> QED BY <1>1, <2>1, <2>4, <3>1, <3>3
  <2> QED BY <1>4, <2>5, <2>6
<1> QED BY <1>3, <1>4

\* A filter's own region of input changes, to nothing or to a region that it
\* may read, and it does not wait for more: the chain stays sound.
LEMMA CalledSound ==
  ASSUME NEW n \in Nat, NEW S, NEW ch, NEW c, NEW h \in [S -> Nat], NEW d \in Nat,
         NEW ok, 1..n \subseteq S,
         Fits(ch, n), Sound(ch, c, h, d, ok), NEW x \in {0, d, h[ch[c + 1]]},
         NEW ko \in SUBSET ok
  PROVE  Sound(ch, c, [h EXCEPT ![ch[c + 1]] = x], d, ko)
<1> DEFINE f == ch[c + 1]
           g == [h EXCEPT ![f] = x]
<1>0. ch \in Seq(1..n) /\ c \in 0..(Len(ch) - 1)
  BY DEF Fits, Sound
<1>1. /\ Len(ch) \in Nat /\ c \in 0..(Len(ch) - 1) /\ c + 1 \in 1..Len(ch)
      /\ \A i \in 1..Len(ch) : ch[i] \in 1..n
  <2>1. \A i \in 1..Len(ch) : ch[i] \in 1..n
    BY <1>0, ElementOfSeq
  <2>2. Len(ch) \in Nat
    BY <1>0
  <2>3. c + 1 \in 1..Len(ch)
    BY <1>0, <2>2
  <2> QED BY <1>0, <2>1, <2>2, <2>3
<1>2. f \in S /\ g[f] = x /\ \A i \in 1..Len(ch) : i # c + 1 => g[ch[i]] = h[ch[i]]
  BY <1>1 DEF Fits
<1> HIDE DEF g
<1>3. ASSUME NEW i \in 1..Len(ch), NEW j \in 1..Len(ch), i <= j
      PROVE  g[ch[i]] # ch[j]
  <2>1. CASE i = c + 1
    <3>1. j \in (c + 1)..Len(ch) /\ ch[j] # 0
      BY <1>1, <1>3, <2>1
    <3>2. x # ch[j]
      BY <1>1, <1>3, <2>1, <3>1 DEF Sound
    <3> QED BY <1>2, <2>1, <3>2
  <2>2. CASE i # c + 1
    BY <1>2, <1>3, <2>2 DEF Sound
  <2> QED BY <2>1, <2>2
<1>4. ASSUME NEW i \in (c + 2)..Len(ch)
      PROVE  g[ch[i]] = 0
  <2>1. i \in 1..Len(ch) /\ i # c + 1
    BY <1>1
  <2> QED BY <1>2, <2>1 DEF Sound
<1>5. Sound(ch, c, g, d, ko)
  BY <1>1, <1>3, <1>4 DEF Sound
<1> QED BY <1>5 DEF g

\* The list of active filters never needs more room than the pool has.
LEMMA FitsLength ==
  ASSUME NEW n \in Nat, NEW ch, Fits(ch, n)
  PROVE  Len(ch) \in 0..n
<1>1. Len(ch) \in Nat /\ ch \in [1..Len(ch) -> 1..n]
  BY DEF Fits
<1>2. /\ IsFiniteSet(1..Len(ch)) /\ Cardinality(1..Len(ch)) = Len(ch)
      /\ IsFiniteSet(1..n) /\ Cardinality(1..n) = n
  <2>1. ASSUME NEW m \in Nat
        PROVE  IsFiniteSet(1..m) /\ Cardinality(1..m) = m
    <3>1. /\ IsFiniteSet(1..m)
          /\ Cardinality(1..m) = IF 1 > m THEN 0 ELSE m - 1 + 1
      BY FS_Interval
    <3> QED BY <3>1
  <2> QED BY <1>1, <2>1
<1>3. CASE n < Len(ch)
  <2>1. \E x, y \in 1..Len(ch) : x # y /\ ch[x] = ch[y]
    BY <1>1, <1>2, <1>3, FS_PigeonHole
  <2> QED BY <2>1 DEF Fits
<1> QED BY <1>1, <1>3

\* One turn of track_run's loop after the current filter has returned: the
\* chain stays sound while it runs.
LEMMA TurnSound ==
  ASSUME pc = "run", fwd \in BOOLEAN, failed \in BOOLEAN, MaxFilters \in Nat,
         NEW n \in 0..MaxFilters, NEW ch, NEW c, NEW h, NEW ok,
         Fits(ch, n), Sound(ch, c, h, din, ok), ch[c + 1] \notin ok,
         NEW r \in Results, NEW out \in {0, ch[c + 1], din},
         r \in {"MORE", "BACK"} => h[ch[c + 1]] = 0,
         r = "BACK" => c > 0 /\ out = din /\ out # ch[c],
         Turn(Handle(ch, c, r), out)
  PROVE  /\ Fits(chain', n) /\ cur' \in -1..MaxFilters
         /\ pc' \in {"run", "async", "fin"} /\ din' \in {0, din, out}
         /\ fwd' \in BOOLEAN /\ failed' \in BOOLEAN
         /\ pc' \in {"run", "async"} => /\ Sound(chain', cur', h, din', ok)
                                        /\ chain'[cur' + 1] \in ok => fwd'
<1> DEFINE v == Handle(ch, c, r)
<1>1. n \in Nat
  OBVIOUS
<1>2. /\ v.r \in {"MORE", "BACK", "DATA", "ASYNC", "FIN", "ERR"}
      /\ Fits(v.ch, n) /\ v.c \in -1..(Len(ch) - 1)
      /\ v.r = "MORE" => Sound(v.ch, v.c, h, 0, ok)
      /\ v.r \in {"BACK", "DATA"} => Sound(v.ch, v.c, h, out, ok)
      /\ v.r = "ASYNC" => Sound(v.ch, v.c, h, din, ok)
      /\ v.r \in {"MORE", "BACK", "ASYNC"} => v.ch[v.c + 1] \notin ok
  BY <1>1, HandleSound
<1>3. Turn(v, out)
  OBVIOUS
<1> HIDE DEF v
<1>4. Len(ch) \in 0..n
  BY <1>1, FitsLength
<1>5. chain' = v.ch /\ cur' = v.c /\ Fits(chain', n) /\ cur' \in -1..MaxFilters
  BY <1>2, <1>3, <1>4 DEF Turn
<1>6. CASE v.r = "MORE"
  <2>1. fwd' = FALSE /\ din' = 0 /\ pc' = pc /\ failed' = failed
    BY <1>3, <1>6 DEF Turn
  <2> QED BY <1>2, <1>5, <1>6, <2>1
<1>7. CASE v.r = "BACK"
  <2>1. fwd' = FALSE /\ din' = out /\ pc' = pc /\ failed' = failed
    BY <1>3, <1>7 DEF Turn
  <2> QED BY <1>2, <1>5, <1>7, <2>1
<1>8. CASE v.r = "DATA"
  <2>1. fwd' = TRUE /\ din' = out /\ pc' = pc /\ failed' = failed
    BY <1>3, <1>8 DEF Turn
  <2> QED BY <1>2, <1>5, <1>8, <2>1
<1>9. CASE v.r = "ASYNC"
  <2>1. fwd' = fwd /\ din' = din /\ pc' = "async" /\ failed' = failed
    BY <1>3, <1>9 DEF Turn
  <2> QED BY <1>2, <1>5, <1>9, <2>1
<1>10. CASE v.r \in {"FIN", "ERR"}
  <2>1. fwd' = fwd /\ din' = din /\ pc' = "fin" /\ failed' \in {failed, TRUE}
    BY <1>3, <1>10 DEF Turn
  <2> QED BY <1>5, <2>1
<1> QED BY <1>2, <1>6, <1>7, <1>8, <1>9, <1>10

\* What a turn of the loop has to show for the inductive invariant.
LEMMA RunningInv ==
  ASSUME pc' \in {"run", "async", "fin"}, pool' \in 0..MaxFilters, Fits(chain', pool'),
         cur' \in -1..MaxFilters, fwd' \in BOOLEAN, failed' \in BOOLEAN,
         MaxFilters \in Nat, ran' \in SUBSET Slots, okd' \in SUBSET Slots,
         skip' \in SUBSET Slots, held' \in [Slots -> 0..MaxFilters],
         opened' \subseteq 1..pool', din' \in 0..pool', closed' = <<>>,
         \A f \in Slots : held'[f] \in 0..pool' /\ (f > pool' => held'[f] = 0),
         \A f \in skip' : held'[f] = 0, okd' \subseteq opened', ran' \subseteq opened',
         Live' => /\ Sound(chain', cur', held', din', okd' \ skip')
                  /\ chain'[cur' + 1] \in okd' \ skip' => fwd' \/ cur' = 0
  PROVE  ConveyorInv'
<1>1. 1..pool' \subseteq Slots
  BY DEF Slots
<1>2. chain' \in Seq(Slots)
  BY <1>1 DEF Fits
<1>3. closed' \in Seq(Slots)
  OBVIOUS
<1>4. opened' \in SUBSET Slots /\ din' \in 0..MaxFilters /\ pc' \in PCs
  BY <1>1 DEF PCs
<1>5. ConveyorTypeOK'
  BY <1>2, <1>3, <1>4 DEF ConveyorTypeOK
<1>6. Fits(chain, pool)'
  BY DEF Fits
<1>7. OnlyInUse' /\ SetupIsClean'
  BY DEF OnlyInUse, SetupIsClean
<1>8. LiveIsSound'
  BY DEF LiveIsSound, Sound
<1>9. CloseInOrder'
  BY DEF CloseInOrder, ClosedInReverse
<1> QED BY <1>5, <1>6, <1>7, <1>8, <1>9 DEF ConveyorInv

\* A filter is passed over on the way back.
LEMMA PassOverStep == ConveyorInv /\ PassOver => ConveyorInv'
<1> SUFFICES ASSUME ConveyorInv, PassOver
             PROVE  ConveyorInv'
  OBVIOUS
<1> DEFINE f == chain[cur + 1]
<1>1. /\ pc = "run" /\ f \in skip /\ cur # 0 /\ skip' = skip \ {f}
      /\ Turn(Handle(chain, cur, "MORE"), 0)
      /\ UNCHANGED <<pool, opened, held, ran, okd, closed>>
  BY DEF PassOver, At
<1>2. /\ Fits(chain, pool) /\ Sound(chain, cur, held, din, okd \ skip)
      /\ okd \subseteq opened /\ closed = <<>>
  BY <1>1 DEF ConveyorInv, LiveIsSound, Live
<1>3. /\ chain \in Seq(1..pool) /\ Len(chain) \in Nat /\ cur \in 1..(Len(chain) - 1)
      /\ cur + 1 \in 1..Len(chain)
  BY <1>1, <1>2 DEF Fits, Sound
<1>4. Handle(chain, cur, "MORE") = [ch |-> chain, c |-> cur - 1, r |-> "MORE"]
  BY <1>1 DEF Handle
<1>5. /\ chain' = chain /\ cur' = cur - 1 /\ fwd' = FALSE /\ din' = 0
      /\ UNCHANGED <<pc, failed>>
  <2> DEFINE v == Handle(chain, cur, "MORE")
  <2>1. v.ch = chain /\ v.c = cur - 1 /\ v.r = "MORE" /\ Turn(v, 0)
    BY <1>1, <1>4
  <2> HIDE DEF v
  <2> QED BY <2>1 DEF Turn
<1>6. /\ pool \in 0..MaxFilters /\ MaxFilters \in Nat /\ cur \in -1..MaxFilters
      /\ failed \in BOOLEAN /\ ran \in SUBSET Slots /\ okd \in SUBSET Slots
      /\ skip \in SUBSET Slots /\ held \in [Slots -> 0..MaxFilters]
      /\ opened \subseteq 1..pool /\ \A g \in skip : held[g] = 0
      /\ \A g \in Slots : held[g] \in 0..pool /\ (g > pool => held[g] = 0)
      /\ ran \subseteq opened
  BY <1>2, MaxFiltersAssumption DEF ConveyorInv, ConveyorTypeOK, OnlyInUse, CloseInOrder, Range
<1>7. Sound(chain, cur - 1, held, 0, okd \ skip')
  <2>1. \A j \in 1..Len(chain) : chain[j] # 0
    BY <1>3, <1>6
  <2>2. ASSUME NEW i \in ((cur - 1) + 2)..Len(chain)
        PROVE  held[chain[i]] = 0
    <3>1. i = cur + 1 \/ i \in (cur + 2)..Len(chain)
      BY <1>3
    <3> QED BY <1>1, <1>2, <1>6, <3>1 DEF Sound
  <2>3. ASSUME NEW i \in 1..(cur - 1)
        PROVE  chain[i] \notin okd \ skip'
    <3>1. i \in 1..cur /\ i \in 1..Len(chain) /\ i # cur + 1
      BY <1>3
    <3>2. chain[i] # f
      BY <1>2, <1>3, <3>1 DEF Fits
    <3> QED BY <1>1, <1>2, <3>1, <3>2 DEF Sound
  <2> QED BY <1>2, <1>3, <2>1, <2>2, <2>3 DEF Sound
<1>8. chain[(cur - 1) + 1] \notin okd \ skip'
  <2>1. (cur - 1) + 1 = cur /\ cur \in 1..cur /\ cur \in 1..Len(chain) /\ cur # cur + 1
    BY <1>3
  <2>2. chain[cur] # f
    BY <1>2, <1>3, <2>1 DEF Fits
  <2> QED BY <1>1, <1>2, <2>1, <2>2 DEF Sound
<1>9. cur' \in -1..MaxFilters /\ din' \in 0..pool'
  BY <1>1, <1>3, <1>5, <1>6
<1>10. /\ Sound(chain', cur', held', din', okd' \ skip')
       /\ chain'[cur' + 1] \notin okd' \ skip'
  BY <1>1, <1>5, <1>7, <1>8
<1>11. /\ pc' \in {"run", "async", "fin"} /\ pool' \in 0..MaxFilters
       /\ Fits(chain', pool') /\ fwd' \in BOOLEAN /\ failed' \in BOOLEAN
       /\ ran' \in SUBSET Slots /\ okd' \in SUBSET Slots /\ skip' \in SUBSET Slots
       /\ held' \in [Slots -> 0..MaxFilters] /\ opened' \subseteq 1..pool'
       /\ closed' = <<>> /\ okd' \subseteq opened' /\ ran' \subseteq opened'
       /\ \A g \in Slots : held'[g] \in 0..pool' /\ (g > pool' => held'[g] = 0)
       /\ \A g \in skip' : held'[g] = 0
  BY <1>1, <1>2, <1>5, <1>6
<1> QED BY <1>6, <1>9, <1>10, <1>11, RunningInv

\* open() fails, or says that the filter is not needed.
LEMMA OpenStep ==
  ASSUME ConveyorInv, OpenFails \/ \E add \in {"none", "next", "prev"} : OpenSkips(add)
  PROVE  ConveyorInv'
<1> DEFINE f == chain[cur + 1]
<1>1. PICK add \in {"none", "next", "prev"}, r \in {"ERR", "DONE"}, out \in {0, din} :
        /\ pc = "run" /\ f \notin opened /\ skip' = skip \ {f}
        /\ add # "none" => pool < MaxFilters
        /\ pool' = IF add = "none" THEN pool ELSE pool + 1
        /\ Turn(Handle(Added(add).ch, Added(add).c, r), out)
        /\ UNCHANGED <<opened, held, ran, okd, closed>>
  <2>1. CASE OpenFails
    <3>1. Added("none").ch = chain /\ Added("none").c = cur
      BY DEF Added
    <3>2. /\ pc = "run" /\ f \notin opened /\ skip' = skip \ {f} /\ pool' = pool
          /\ Turn(Handle(Added("none").ch, Added("none").c, "ERR"), 0)
          /\ UNCHANGED <<opened, held, ran, okd, closed>>
      BY <2>1, <3>1 DEF OpenFails, Callable, At
    <3> QED BY <3>2
  <2>2. ASSUME NEW add \in {"none", "next", "prev"}, OpenSkips(add)
        PROVE  /\ pc = "run" /\ f \notin opened /\ skip' = skip \ {f}
               /\ add # "none" => pool < MaxFilters
               /\ pool' = IF add = "none" THEN pool ELSE pool + 1
               /\ Turn(Handle(Added(add).ch, Added(add).c, "DONE"), din)
               /\ UNCHANGED <<opened, held, ran, okd, closed>>
    BY <2>2 DEF OpenSkips, Callable, At
  <2> QED BY <2>1, <2>2
<1>2. /\ okd \subseteq opened /\ closed = <<>> /\ Live
  BY <1>1 DEF ConveyorInv, LiveIsSound, Live
<1>3. /\ pool \in 0..MaxFilters /\ MaxFilters \in Nat /\ fwd \in BOOLEAN
      /\ failed \in BOOLEAN /\ ran \in SUBSET Slots /\ okd \in SUBSET Slots
      /\ skip \in SUBSET Slots /\ held \in [Slots -> 0..MaxFilters]
      /\ opened \subseteq 1..pool /\ (\A g \in skip : held[g] = 0) /\ din \in 0..pool
      /\ \A g \in Slots : held[g] \in 0..pool /\ (g > pool => held[g] = 0)
      /\ ran \subseteq opened
  BY <1>2, MaxFiltersAssumption
  DEF ConveyorInv, ConveyorTypeOK, OnlyInUse, CloseInOrder, Range
<1> DEFINE ch == Added(add).ch
           c == Added(add).c
<1>4. /\ pool' \in 0..MaxFilters /\ pool <= pool' /\ Fits(ch, pool')
      /\ Sound(ch, c, held, din, okd \ skip) /\ ch[c + 1] = f
  BY <1>1, <1>2, AddedSound
<1> HIDE DEF ch, c
<1>5. okd \ skip' = okd \ skip /\ f \notin okd \ skip
  BY <1>1, <1>2
<1>6. r \in Results /\ r \notin {"MORE", "BACK"} /\ out \in {0, ch[c + 1], din}
      /\ ch[c + 1] \notin okd \ skip
  BY <1>4, <1>5 DEF Results
<1>7. /\ Fits(chain', pool') /\ cur' \in -1..MaxFilters
      /\ pc' \in {"run", "async", "fin"} /\ din' \in {0, din, out}
      /\ fwd' \in BOOLEAN /\ failed' \in BOOLEAN
      /\ pc' \in {"run", "async"} => /\ Sound(chain', cur', held, din', okd \ skip)
                                     /\ chain'[cur' + 1] \in okd \ skip => fwd'
  <2>1. Turn(Handle(ch, c, r), out)
    BY <1>1 DEF ch, c
  <2> QED BY <1>1, <1>3, <1>4, <1>6, <2>1, TurnSound
<1>8. /\ ran' \in SUBSET Slots /\ okd' \in SUBSET Slots /\ skip' \in SUBSET Slots
      /\ held' \in [Slots -> 0..MaxFilters] /\ opened' \subseteq 1..pool'
      /\ closed' = <<>> /\ okd' \subseteq opened' /\ ran' \subseteq opened'
      /\ \A g \in skip' : held'[g] = 0
  <2>1. skip' \subseteq skip
    BY <1>1
  <2>2. 1..pool \subseteq 1..pool'
    BY <1>3, <1>4
  <2>3. /\ opened' = opened /\ held' = held /\ ran' = ran /\ okd' = okd
        /\ closed' = closed
    BY <1>1
  <2> QED BY <1>2, <1>3, <2>1, <2>2, <2>3, Zenon
<1>9. \A g \in Slots : held'[g] \in 0..pool' /\ (g > pool' => held'[g] = 0)
  BY <1>1, <1>3, <1>4 DEF Slots
<1>10. din' \in 0..pool'
  BY <1>3, <1>4, <1>7
<1>11. Live' => /\ Sound(chain', cur', held', din', okd' \ skip')
                /\ chain'[cur' + 1] \in okd' \ skip' => fwd' \/ cur' = 0
  <2>1. held' = held /\ okd' \ skip' = okd \ skip
    BY <1>1, <1>5
  <2>2. Live' => pc' \in {"run", "async"}
    BY DEF Live
  <2> QED BY <1>7, <2>1, <2>2, Zenon
<1> QED BY <1>3, <1>4, <1>7, <1>8, <1>9, <1>10, <1>11, RunningInv

\* process(): whatever the filter adds, returns and hands on.
LEMMA ProcessStep ==
  ASSUME ConveyorInv, NEW add \in {"none", "next", "prev"}, NEW r \in Results,
         NEW out \in 0..MaxFilters, Process(add, r, out)
  PROVE  ConveyorInv'
<1> DEFINE f == chain[cur + 1]
           x == IF r \in {"MORE", "BACK", "OK", "DONE", "LASTOUT"} THEN 0
                ELSE IF din # 0 THEN din ELSE held[f]
<1>1. /\ pc = "run" /\ (add # "none" => pool < MaxFilters)
      /\ r = "BACK" => add = "prev" /\ out = din
      /\ out \in {0, f, din}
      /\ pool' = IF add = "none" THEN pool ELSE pool + 1
      /\ opened' = opened \union {f} /\ ran' = ran \union {f}
      /\ okd' = IF r = "OK" THEN okd \union {f} ELSE okd \ {f}
      /\ held' = [held EXCEPT ![f] = x]
      /\ skip' = IF r = "OK" THEN skip \union {f} ELSE skip \ {f}
      /\ Turn(Handle(Added(add).ch, Added(add).c, r), out)
      /\ UNCHANGED closed
  BY DEF Process, Callable, At
<1>2. /\ okd \subseteq opened /\ closed = <<>> /\ Live /\ Fits(chain, pool)
      /\ cur \in 0..(Len(chain) - 1)
  BY <1>1 DEF ConveyorInv, LiveIsSound, Live, Sound
<1>3. /\ pool \in 0..MaxFilters /\ MaxFilters \in Nat /\ fwd \in BOOLEAN
      /\ failed \in BOOLEAN /\ ran \in SUBSET Slots /\ okd \in SUBSET Slots
      /\ skip \in SUBSET Slots /\ held \in [Slots -> 0..MaxFilters]
      /\ opened \subseteq 1..pool /\ (\A g \in skip : held[g] = 0) /\ din \in 0..pool
      /\ \A g \in Slots : held[g] \in 0..pool /\ (g > pool => held[g] = 0)
      /\ ran \subseteq opened
  BY <1>2, MaxFiltersAssumption
  DEF ConveyorInv, ConveyorTypeOK, OnlyInUse, CloseInOrder, Range
<1> DEFINE ch == Added(add).ch
           c == Added(add).c
<1>4. /\ pool' \in 0..MaxFilters /\ pool <= pool' /\ Fits(ch, pool')
      /\ Sound(ch, c, held, din, okd \ skip) /\ ch[c + 1] = f
      /\ add = "prev" => c > 0 /\ ch[c] = pool + 1
  BY <1>1, <1>2, AddedSound
<1> HIDE DEF ch, c
<1>5. f \in 1..pool /\ f \in Slots
  <2>1. cur + 1 \in 1..Len(chain) /\ chain \in Seq(1..pool)
    BY <1>2 DEF Fits
  <2>2. f \in 1..pool
    BY <2>1, ElementOfSeq
  <2> QED BY <1>3, <2>2 DEF Slots
<1>6. x \in {0, din, held[f]} /\ x \in 0..pool
      /\ (r \in {"MORE", "BACK", "OK"} => x = 0)
  BY <1>3, <1>5
<1> HIDE DEF x, f
<1>7. okd' \ skip' \in SUBSET (okd \ skip) /\ f \notin okd' \ skip'
  BY <1>1
<1>8. Sound(ch, c, held', din, okd' \ skip')
  <2>1. /\ pool' \in Nat /\ 1..pool' \subseteq Slots /\ held \in [Slots -> Nat]
        /\ din \in Nat
    BY <1>3, <1>4 DEF Slots
  <2>2. Sound(ch, c, [held EXCEPT ![ch[c + 1]] = x], din, okd' \ skip')
    <3>1. x \in {0, din, held[ch[c + 1]]}
      BY <1>4, <1>6
    <3> QED BY <1>4, <1>7, <2>1, <3>1, CalledSound
  <2> QED BY <1>1, <1>4, <2>2
<1>9. held'[f] = x /\ held' \in [Slots -> 0..MaxFilters]
      /\ \A g \in Slots : g # f => held'[g] = held[g]
  BY <1>1, <1>3, <1>5, <1>6
<1>10. /\ out \in {0, ch[c + 1], din} /\ ch[c + 1] \notin okd' \ skip'
       /\ r \in {"MORE", "BACK"} => held'[ch[c + 1]] = 0
       /\ r = "BACK" => c > 0 /\ out = din /\ out # ch[c]
  BY <1>1, <1>3, <1>4, <1>6, <1>7, <1>9
<1>11. /\ Fits(chain', pool') /\ cur' \in -1..MaxFilters
       /\ pc' \in {"run", "async", "fin"} /\ din' \in {0, din, out}
       /\ fwd' \in BOOLEAN /\ failed' \in BOOLEAN
       /\ pc' \in {"run", "async"} =>
            /\ Sound(chain', cur', held', din', okd' \ skip')
            /\ chain'[cur' + 1] \in okd' \ skip' => fwd'
  <2> DEFINE h == held'
             ok == okd' \ skip'
  <2>1. Turn(Handle(ch, c, r), out)
    BY <1>1 DEF ch, c
  <2>2. /\ Sound(ch, c, h, din, ok) /\ ch[c + 1] \notin ok
        /\ (r \in {"MORE", "BACK"} => h[ch[c + 1]] = 0)
    BY <1>8, <1>10
  <2>3. r = "BACK" => c > 0 /\ out = din /\ out # ch[c]
    BY <1>10
  <2>4. pc = "run" /\ out \in {0, ch[c + 1], din}
    BY <1>1, <1>10
  <2> HIDE DEF h, ok
  <2>5. /\ Fits(chain', pool') /\ cur' \in -1..MaxFilters
        /\ pc' \in {"run", "async", "fin"} /\ din' \in {0, din, out}
        /\ fwd' \in BOOLEAN /\ failed' \in BOOLEAN
        /\ pc' \in {"run", "async"} => /\ Sound(chain', cur', h, din', ok)
                                       /\ chain'[cur' + 1] \in ok => fwd'
    BY <1>3, <1>4, <2>1, <2>2, <2>3, <2>4, TurnSound
  <2> QED BY <2>5, Zenon DEF h, ok
<1>12. /\ ran' \in SUBSET Slots /\ okd' \in SUBSET Slots /\ skip' \in SUBSET Slots
       /\ opened' \subseteq 1..pool' /\ closed' = <<>>
       /\ okd' \subseteq opened' /\ ran' \subseteq opened'
  BY <1>1, <1>2, <1>3, <1>4, <1>5
<1>13. \A g \in skip' : held'[g] = 0
  BY <1>1, <1>3, <1>6, <1>9
<1>14. \A g \in Slots : held'[g] \in 0..pool' /\ (g > pool' => held'[g] = 0)
  <2> SUFFICES ASSUME NEW g \in Slots
               PROVE  held'[g] \in 0..pool' /\ (g > pool' => held'[g] = 0)
    OBVIOUS
  <2>1. CASE g = f
    BY <1>3, <1>4, <1>5, <1>6, <1>9, <2>1
  <2>2. CASE g # f
    BY <1>3, <1>4, <1>9, <2>2 DEF Slots
  <2> QED BY <2>1, <2>2
<1>15. din' \in 0..pool'
  BY <1>1, <1>3, <1>4, <1>5, <1>11
<1>16. Live' => /\ Sound(chain', cur', held', din', okd' \ skip')
                /\ chain'[cur' + 1] \in okd' \ skip' => fwd' \/ cur' = 0
  BY <1>11 DEF Live
<1> QED BY <1>3, <1>4, <1>9, <1>11, <1>12, <1>13, <1>14, <1>15, <1>16, RunningInv

\* The owner adds the filters before the run.
LEMMA AddFirstStep == ConveyorInv /\ AddFirst => ConveyorInv'
<1> SUFFICES ASSUME ConveyorInv, AddFirst
             PROVE  ConveyorInv'
  OBVIOUS
<1> USE MaxFiltersAssumption
<1>1. /\ pc = "setup" /\ ConveyorTypeOK /\ Fits(chain, pool) /\ OnlyInUse
      /\ CloseInOrder /\ SetupIsClean /\ MaxFilters \in Nat /\ pool \in 0..MaxFilters
  BY DEF AddFirst, ConveyorInv, ConveyorTypeOK
<1>2. UNCHANGED <<opened, skip, fwd, din, failed, held, ran, okd, closed, cur>>
  BY DEF AddFirst, chainVars
<1>3. CASE pool = MaxFilters
  <2>1. pc' = "closed" /\ pool' = pool /\ chain' = chain
    BY <1>3 DEF AddFirst, chainVars
  <2>2. ConveyorTypeOK'
    BY <1>1, <1>2, <2>1 DEF ConveyorTypeOK, PCs
  <2>3. Fits(chain, pool)' /\ OnlyInUse'
    BY <1>1, <1>2, <2>1 DEF Fits, OnlyInUse
  <2>4. SetupIsClean' /\ LiveIsSound'
    BY <2>1 DEF SetupIsClean, LiveIsSound, Live
  <2>5. CloseInOrder'
    BY <1>1, <1>2, <2>1 DEF CloseInOrder, SetupIsClean, ClosedInReverse
  <2> QED BY <2>2, <2>3, <2>4, <2>5 DEF ConveyorInv
<1>4. CASE pool # MaxFilters
  <2>1. pc' = pc /\ pool' = pool + 1 /\ chain' = Append(chain, pool + 1)
    BY <1>4 DEF AddFirst
  <2>2. pool' \in 0..MaxFilters /\ pool <= pool' /\ 1..pool' \subseteq Slots
    BY <1>1, <1>4, <2>1 DEF Slots
  <2>3. Fits(chain, pool)'
    <3>1. chain \in Seq(1..pool) /\ Len(chain) \in Nat
      BY <1>1 DEF Fits
    <3>2. chain \in Seq(1..pool')
      BY <1>1, <2>2, <3>1
    <3>3. pool + 1 \in 1..pool' /\ \A i \in 1..Len(chain) : chain[i] \in 1..pool
      BY <1>1, <2>1, <3>1
    <3>4. /\ chain' \in Seq(1..pool') /\ Len(chain') = Len(chain) + 1
          /\ (\A i \in 1..Len(chain) : chain'[i] = chain[i])
          /\ chain'[Len(chain) + 1] = pool + 1
      BY <2>1, <3>1, <3>2, <3>3
    <3>5. \A i \in 1..Len(chain) : chain'[i] # pool + 1
      BY <1>1, <3>3, <3>4
    <3>6. ASSUME NEW i \in 1..Len(chain'), NEW j \in 1..Len(chain'), chain'[i] = chain'[j]
          PROVE  i = j
      <4>1. \A k \in 1..Len(chain') : k \in 1..Len(chain) \/ k = Len(chain) + 1
        BY <3>1, <3>4
      <4>2. CASE i \in 1..Len(chain) /\ j \in 1..Len(chain)
        BY <1>1, <3>4, <3>6, <4>2 DEF Fits
      <4> QED BY <3>4, <3>5, <3>6, <4>1, <4>2
    <3> QED BY <3>4, <3>6 DEF Fits
  <2>4. ConveyorTypeOK'
    <3>1. chain' \in Seq(Slots)
      BY <2>2, <2>3 DEF Fits
    <3> QED BY <1>1, <1>2, <2>1, <2>2, <3>1 DEF ConveyorTypeOK
  <2>5. OnlyInUse'
    <3>1. opened' = {} /\ din' = 0 /\ held' = held /\ skip' = skip
          /\ \A f \in Slots : held[f] = 0
      BY <1>1, <1>2 DEF SetupIsClean
    <3>2. skip \subseteq Slots
      BY <1>1 DEF ConveyorTypeOK
    <3> QED BY <2>2, <3>1, <3>2 DEF OnlyInUse
  <2>6. SetupIsClean' /\ LiveIsSound'
    BY <1>1, <1>2, <2>1 DEF SetupIsClean, LiveIsSound, Live
  <2>7. CloseInOrder'
    BY <1>1, <1>2, <2>1 DEF CloseInOrder, ClosedInReverse
  <2> QED BY <2>3, <2>4, <2>5, <2>6, <2>7 DEF ConveyorInv
<1> QED BY <1>3, <1>4

\* track_start, track_wake: only the position and the state of the run change.
LEMMA StartStep == ConveyorInv /\ (Start \/ WokenUp) => ConveyorInv'
<1> SUFFICES ASSUME ConveyorInv, Start \/ WokenUp
             PROVE  ConveyorInv'
  OBVIOUS
<1>1. /\ ConveyorTypeOK /\ Fits(chain, pool) /\ OnlyInUse /\ CloseInOrder
      /\ SetupIsClean /\ LiveIsSound
  BY DEF ConveyorInv
<1>2. /\ pc' = "run"
      /\ UNCHANGED <<pool, chain, opened, skip, fwd, din, failed, held, ran, okd, closed>>
  BY DEF Start, WokenUp, chainVars
<1>3. MaxFilters \in Nat /\ pool \in Nat /\ chain \in Seq(1..pool) /\ Len(chain) \in Nat
  BY <1>1, MaxFiltersAssumption DEF ConveyorTypeOK, Fits
<1>4. cur' \in -1..MaxFilters /\ LiveIsSound'
  <2>1. CASE Start
    <3>1. /\ cur' = 0 /\ din = 0 /\ okd = {} /\ closed = <<>>
          /\ \A f \in Slots : held[f] = 0
      BY <1>1, <2>1 DEF Start, SetupIsClean
    <3>2. Len(chain) > 0
      BY <1>3, <2>1 DEF Start
    <3>3. \A i \in 1..Len(chain) : chain[i] \in 1..pool /\ chain[i] \in Slots
      BY <1>1, <1>3 DEF ConveyorTypeOK, Slots
    <3>4. Sound(chain, 0, held, 0, {})
      <4>1. /\ \A i, j \in 1..Len(chain) : held[chain[i]] # chain[j]
            /\ \A j \in 1..Len(chain) : 0 # chain[j] /\ held[chain[j]] = 0
        BY <1>3, <3>1, <3>3
      <4> QED BY <1>3, <3>2, <4>1 DEF Sound
    <3>5. okd' \ skip' = {} /\ okd' = {} /\ held' = held /\ chain' = chain
          /\ din' = 0 /\ closed' = <<>>
      BY <1>2, <3>1
    <3>6. Sound(chain', cur', held', din', okd' \ skip')
      BY <3>1, <3>4, <3>5
    <3>7. LiveIsSound'
      BY <3>1, <3>5, <3>6 DEF LiveIsSound
    <3> QED BY <1>3, <3>1, <3>7
  <2>2. CASE WokenUp
    <3>1. cur' = cur /\ Live
      BY <2>2 DEF WokenUp, chainVars, Live
    <3>2. /\ Sound(chain, cur, held, din, okd \ skip) /\ okd \subseteq opened
          /\ closed = <<>> /\ (chain[cur + 1] \in okd \ skip => fwd \/ cur = 0)
      BY <1>1, <3>1 DEF LiveIsSound
    <3>3. LiveIsSound'
      BY <1>2, <3>1, <3>2 DEF LiveIsSound
    <3> QED BY <1>1, <3>1, <3>3 DEF ConveyorTypeOK
  <2> QED BY <2>1, <2>2
<1>5. ConveyorTypeOK'
  BY <1>1, <1>2, <1>4 DEF ConveyorTypeOK, PCs
<1>6. Fits(chain, pool)' /\ OnlyInUse'
  BY <1>1, <1>2 DEF Fits, OnlyInUse
<1>7. SetupIsClean' /\ CloseInOrder'
  BY <1>1, <1>2 DEF SetupIsClean, CloseInOrder, ClosedInReverse
<1> QED BY <1>4, <1>5, <1>6, <1>7 DEF ConveyorInv

\* conveyor_close: the last opened filter is closed, until none is left.
LEMMA ChainCloseStep == ConveyorInv /\ (CloseLast \/ Closed) => ConveyorInv'
<1> SUFFICES ASSUME ConveyorInv, CloseLast \/ Closed
             PROVE  ConveyorInv'
  OBVIOUS
<1>1. /\ ConveyorTypeOK /\ Fits(chain, pool) /\ OnlyInUse /\ CloseInOrder
      /\ SetupIsClean /\ LiveIsSound
  BY DEF ConveyorInv
<1>2. /\ pc' \in {"fin", "closed"}
      /\ UNCHANGED <<pool, chain, cur, skip, fwd, din, failed, held, ran, okd>>
  BY DEF CloseLast, Closed, chainVars
<1>3. opened' \subseteq opened /\ closed' \in Seq(Slots) /\ CloseInOrder'
  <2>1. CASE CloseLast
    <3>1. PICK f \in opened : /\ \A g \in opened : g <= f
                              /\ closed' = Append(closed, f)
                              /\ opened' = opened \ {f}
      BY <2>1 DEF CloseLast
    <3>2. /\ opened \subseteq Slots /\ closed \in Seq(Slots) /\ Len(closed) \in Nat
          /\ f \in Slots
      BY <1>1 DEF ConveyorTypeOK
    <3>3. /\ closed' \in Seq(Slots) /\ Len(closed') = Len(closed) + 1
          /\ (\A i \in 1..Len(closed) : closed'[i] = closed[i])
          /\ closed'[Len(closed) + 1] = f
      BY <3>1, <3>2
    <3>4. /\ ran \subseteq opened \union Range(closed)
          /\ (\A i \in 1..Len(closed) : \A g \in opened : g < closed[i])
          /\ \A i, j \in 1..Len(closed) : i < j => closed[i] > closed[j]
      BY <1>1 DEF CloseInOrder, ClosedInReverse
    <3>5. Range(closed) \union {f} \subseteq Range(closed')
      <4>1. DOMAIN closed = 1..Len(closed) /\ DOMAIN closed' = 1..(Len(closed) + 1)
        BY <3>2, <3>3
      <4>2. \A i \in 1..Len(closed) : i \in 1..(Len(closed) + 1)
        BY <3>2
      <4>3. Len(closed) + 1 \in 1..(Len(closed) + 1)
        BY <3>2
      <4> QED BY <3>3, <4>1, <4>2, <4>3 DEF Range
    <3>6. \A i \in 1..Len(closed') : i \in 1..Len(closed) \/ i = Len(closed) + 1
      BY <3>2, <3>3
    <3>7. ran' \subseteq opened' \union Range(closed')
      BY <1>2, <3>1, <3>4, <3>5
    <3>8. ASSUME NEW i \in 1..Len(closed'), NEW g \in opened'
          PROVE  g < closed'[i]
      <4>1. g \in Nat /\ f \in Nat /\ g \in opened /\ g # f
        BY <3>1, <3>2 DEF Slots
      <4> QED BY <3>1, <3>3, <3>4, <3>6, <4>1
    <3>9. ASSUME NEW i \in 1..Len(closed'), NEW j \in 1..Len(closed'), i < j
          PROVE  closed'[i] > closed'[j]
      <4>1. i \in 1..Len(closed)
        BY <3>2, <3>3, <3>6, <3>9
      <4>2. closed[i] \in Nat /\ f \in Nat
        <5>1. closed[i] \in Slots
          BY <3>2, <4>1, ElementOfSeq
        <5> QED BY <3>2, <5>1 DEF Slots
      <4>3. CASE j \in 1..Len(closed)
        BY <3>3, <3>4, <3>9, <4>1, <4>3
      <4>4. CASE j = Len(closed) + 1
        BY <3>3, <3>4, <4>1, <4>2, <4>4
      <4> QED BY <3>6, <4>3, <4>4
    <3>10. pc' = "fin"
      BY <2>1 DEF CloseLast
    <3> QED BY <3>1, <3>3, <3>7, <3>8, <3>9, <3>10 DEF CloseInOrder, ClosedInReverse
  <2>2. CASE Closed
    <3>1. opened = {} /\ UNCHANGED <<opened, closed>>
      BY <2>2 DEF Closed
    <3> QED BY <1>1, <1>2, <3>1 DEF CloseInOrder, ClosedInReverse, ConveyorTypeOK
  <2> QED BY <2>1, <2>2
<1>4. ConveyorTypeOK'
  BY <1>1, <1>2, <1>3 DEF ConveyorTypeOK, PCs
<1>5. Fits(chain, pool)'
  BY <1>1, <1>2 DEF Fits
<1>6. OnlyInUse'
  BY <1>1, <1>2, <1>3 DEF OnlyInUse
<1>7. SetupIsClean' /\ LiveIsSound'
  BY <1>2 DEF SetupIsClean, LiveIsSound, Live
<1> QED BY <1>3, <1>4, <1>5, <1>6, <1>7 DEF ConveyorInv

-----------------------------------------------------------------------------
(* The theorems.                                                            *)

\* The chain of a track keeps its inductive invariant for any size of the
\* pool and whatever its filters return, add and pass on.
THEOREM ConveyorInvariant == ConveyorSpec => []ConveyorInv
<1>1. ConveyorInit => ConveyorInv
  <2> SUFFICES ASSUME ConveyorInit
               PROVE  ConveyorInv
    OBVIOUS
  <2>1. /\ pool = 0 /\ chain = <<>> /\ cur = -1 /\ opened = {} /\ skip = {}
        /\ fwd = FALSE /\ din = 0 /\ pc = "setup" /\ failed = FALSE /\ ran = {}
        /\ okd = {} /\ closed = <<>> /\ MaxFilters \in Nat
        /\ held \in [Slots -> 0..MaxFilters] /\ \A f \in Slots : held[f] = 0
    BY MaxFiltersAssumption DEF ConveyorInit
  <2>2. ConveyorTypeOK
    <3>1. chain \in Seq(Slots) /\ closed \in Seq(Slots)
      BY <2>1
    <3>2. pool \in 0..MaxFilters /\ cur \in -1..MaxFilters /\ din \in 0..MaxFilters
      BY <2>1
    <3> QED BY <2>1, <3>1, <3>2 DEF ConveyorTypeOK, PCs
  <2>3. Fits(chain, pool) /\ OnlyInUse
    BY <2>1 DEF Fits, OnlyInUse
  <2>4. SetupIsClean /\ LiveIsSound /\ CloseInOrder
    BY <2>1 DEF SetupIsClean, LiveIsSound, Live, CloseInOrder, ClosedInReverse
  <2> QED BY <2>2, <2>3, <2>4 DEF ConveyorInv
<1>2. ConveyorInv /\ [ConveyorNext]_conveyorVars => ConveyorInv'
  <2> SUFFICES ASSUME ConveyorInv, [ConveyorNext]_conveyorVars
               PROVE  ConveyorInv'
    OBVIOUS
  <2>1. CASE AddFirst
    BY <2>1, AddFirstStep
  <2>2. CASE Start \/ WokenUp
    BY <2>2, StartStep
  <2>3. CASE PassOver
    BY <2>3, PassOverStep
  <2>4. CASE OpenFails \/ \E add \in {"none", "next", "prev"} : OpenSkips(add)
    BY <2>4, OpenStep
  <2>5. CASE \E add \in {"none", "next", "prev"} :
               \E r \in Results, out \in 0..MaxFilters : Process(add, r, out)
    BY <2>5, ProcessStep
  <2>6. CASE CloseLast \/ Closed
    BY <2>6, ChainCloseStep
  <2>7. CASE UNCHANGED conveyorVars
    BY <2>7 DEF conveyorVars, ConveyorInv, ConveyorTypeOK, Fits, OnlyInUse,
                SetupIsClean, LiveIsSound, Live, Sound, CloseInOrder, ClosedInReverse
  <2>8. CASE ConveyorEnded
    BY <2>7, <2>8 DEF ConveyorEnded
  <2> QED BY <2>1, <2>2, <2>3, <2>4, <2>5, <2>6, <2>7, <2>8 DEF ConveyorNext
<1> QED BY <1>1, <1>2, PTL DEF ConveyorSpec

\* track_run always has a filter to call, the list of active filters fits its
\* pool, no filter is called that owns memory another one may still read, and
\* PHI_OK is answered with more input: for any number of filters.
THEOREM ChainIsSound == ConveyorSpec => []ChainSound
<1>1. ConveyorInv => ChainSound
  <2> SUFFICES ASSUME ConveyorInv
               PROVE  ChainSound
    OBVIOUS
  <2>1. Fits(chain, pool) /\ LiveIsSound /\ pool \in Nat
    BY MaxFiltersAssumption DEF ConveyorInv, ConveyorTypeOK
  <2>2. /\ chain \in Seq(1..pool) /\ Len(chain) \in Nat
        /\ (\A i \in 1..Len(chain) : chain[i] \in 1..pool)
        /\ \A i, j \in 1..Len(chain) : chain[i] = chain[j] => i = j
    BY <2>1 DEF Fits
  <2>3. CurInChain
    BY <2>1 DEF CurInChain, LiveIsSound, Live, Sound
  <2>4. ChainFitsPool
    BY <2>2 DEF ChainFitsPool
  <2>5. InputStaysValid
    <3> SUFFICES ASSUME pc = "run"
                 PROVE  /\ din # chain[cur + 1]
                        /\ \A f \in Range(chain) \ {chain[cur + 1]} :
                             held[f] # chain[cur + 1]
      BY DEF InputStaysValid, At
    <3>1. Sound(chain, cur, held, din, okd \ skip)
      BY <2>1 DEF LiveIsSound, Live
    <3>2. cur \in 0..(Len(chain) - 1) /\ cur + 1 \in 1..Len(chain)
      BY <2>2, <3>1 DEF Sound
    <3>3. din # chain[cur + 1]
      BY <2>2, <3>1, <3>2 DEF Sound
    <3>4. ASSUME NEW f \in Range(chain) \ {chain[cur + 1]}
          PROVE  held[f] # chain[cur + 1]
      <4>1. PICK i \in 1..Len(chain) : f = chain[i]
        BY <2>2 DEF Range
      <4>2. CASE i <= cur + 1
        BY <3>1, <3>2, <4>1, <4>2 DEF Sound
      <4>3. CASE i > cur + 1
        <5>1. i \in (cur + 2)..Len(chain)
          BY <2>2, <3>2, <4>3
        <5>2. held[f] = 0
          BY <3>1, <4>1, <5>1 DEF Sound
        <5>3. chain[cur + 1] # 0
          BY <2>2, <3>2
        <5> QED BY <5>2, <5>3
      <4> QED BY <3>2, <4>2, <4>3
    <3> QED BY <3>3, <3>4
  <2>6. OkMeansMoreInput
    BY <2>1 DEF OkMeansMoreInput, At, LiveIsSound, Live
  <2> QED BY <2>3, <2>4, <2>5, <2>6 DEF ChainSound
<1> QED BY <1>1, ConveyorInvariant, PTL

\* conveyor_close closes every filter whose process() was called, also the ones
\* that had left the chain, for any number of filters.
THEOREM FiltersAllClosed == ConveyorSpec => []EveryFilterClosed
<1>1. ConveyorInv => EveryFilterClosed
  BY DEF ConveyorInv, CloseInOrder, EveryFilterClosed
<1> QED BY <1>1, ConveyorInvariant, PTL

\* ... and a later filter before an earlier one, whose objects it may use.
THEOREM FiltersClosedInReverse == ConveyorSpec => []ClosedInReverse
<1>1. ConveyorInv => ClosedInReverse
  BY DEF ConveyorInv, CloseInOrder
<1> QED BY <1>1, ConveyorInvariant, PTL

=============================================================================
