-------------------------- MODULE WorkersProofs -----------------------------
(***************************************************************************)
(* Proofs about Workers for any number of threads and workers, and about   *)
(* Timers for any set of timers, any delays, any tick and any time the     *)
(* kernel timer lingers.                                                   *)
(***************************************************************************)
EXTENDS Workers, Timers, FiniteSetTheorems, TLAPS

-----------------------------------------------------------------------------
(* The pool of workers.                                                    *)

\* The tracks that are assigned to worker w.
Held(w) == {th \in Threads : pc[th] = "held" /\ best[th] = w}

\* Whoever creates a worker holds the lock until wrkx_assign unlocks it: there
\* is one creator at most, ...
OneCreator == \A th \in Threads : pc[th] \in {"create", "unlock"} <=> lock = th

\* ... and the worker it creates is the last one, and not set up.
CreatesNewest ==
  \A th \in Threads :
    pc[th] = "create" => len > 1 /\ best[th] = len - 1 /\ best[th] \notin ready

\* The inductive invariant of the pool.
PoolInv == TypeOK /\ JobsExact /\ OnlyNewestUnready /\ OneCreator /\ CreatesNewest

\* The number of jobs of a worker is one its counter can hold.
LEMMA HeldCounts ==
  ASSUME NEW w
  PROVE  IsFiniteSet(Held(w)) /\ Cardinality(Held(w)) \in 0..Cardinality(Threads)
<1>1. Held(w) \in SUBSET Threads
  BY DEF Held
<1>2. IsFiniteSet(Held(w)) /\ Cardinality(Held(w)) <= Cardinality(Threads)
  BY <1>1, FS_Subset, ThreadsAssumption
<1>3. Cardinality(Held(w)) \in Nat /\ Cardinality(Threads) \in Nat
  BY <1>2, FS_CardinalityType, ThreadsAssumption
<1> QED BY <1>2, <1>3

-----------------------------------------------------------------------------

\* The counters keep counting the assigned tracks: ffatomic_fetch_add of
\* wrkx_assign and of wrkx_release are the only steps that move a track.
LEMMA JobsExactStep == PoolInv /\ [Next]_vars => JobsExact'
<1> SUFFICES ASSUME PoolInv, [Next]_vars
             PROVE  JobsExact'
  OBVIOUS
<1>1. pc \in [Threads -> PCs] /\ best \in [Threads -> Ids] /\ jobs \in [Ids -> Nat]
  BY ThreadsAssumption, FS_CardinalityType DEF PoolInv, TypeOK
<1>2. \A w \in Ids : jobs[w] = Cardinality(Held(w))
  BY DEF PoolInv, JobsExact, Held
<1>3. ASSUME NEW th \in Threads, AddJob(th)
      PROVE  JobsExact'
  <2> SUFFICES ASSUME NEW w \in Ids
               PROVE  jobs'[w] = Cardinality(Held(w)')
    BY DEF JobsExact, Held
  <2>1. CASE w = best[th]
    <3>1. Held(w)' = Held(w) \union {th} /\ th \notin Held(w)
      BY <1>1, <1>3, <2>1 DEF AddJob, Go, Held, scanned
    <3>2. Cardinality(Held(w)') = Cardinality(Held(w)) + 1
      BY <3>1, HeldCounts, FS_AddElement
    <3> QED BY <1>1, <1>2, <1>3, <2>1, <3>2 DEF AddJob
  <2>2. CASE w # best[th]
    <3>1. Held(w)' = Held(w)
      BY <1>1, <1>3, <2>2 DEF AddJob, Go, Held, scanned
    <3> QED BY <1>1, <1>2, <1>3, <2>2, <3>1 DEF AddJob
  <2> QED BY <2>1, <2>2
<1>4. ASSUME NEW th \in Threads, Release(th)
      PROVE  JobsExact'
  <2> SUFFICES ASSUME NEW w \in Ids
               PROVE  jobs'[w] = Cardinality(Held(w)')
    BY DEF JobsExact, Held
  <2>1. CASE w = best[th]
    <3>1. Held(w)' = Held(w) \ {th} /\ th \in Held(w)
      BY <1>1, <1>4, <2>1 DEF Release, Go, Held, scanned
    <3>2. Cardinality(Held(w)') = Cardinality(Held(w)) - 1
      BY <3>1, HeldCounts, FS_RemoveElement
    <3> QED BY <1>1, <1>2, <1>4, <2>1, <3>2 DEF Release
  <2>2. CASE w # best[th]
    <3>1. Held(w)' = Held(w)
      BY <1>1, <1>4, <2>2 DEF Release, Go, Held, scanned
    <3> QED BY <1>1, <1>2, <1>4, <2>2, <3>1 DEF Release
  <2> QED BY <2>1, <2>2
<1>5. ASSUME UNCHANGED jobs,
             \A th \in Threads :
               \/ pc'[th] = pc[th] /\ best'[th] = best[th]
               \/ pc[th] # "held" /\ pc'[th] # "held"
      PROVE  JobsExact'
  <2>1. \A w \in Ids : Held(w)' = Held(w)
    BY <1>5 DEF Held
  <2> QED BY <1>2, <1>5, <2>1 DEF JobsExact, Held
<1>6. ASSUME NEW th \in Threads, AssignMain(th) \/ AssignAny(th)
      PROVE  JobsExact'
  BY <1>1, <1>5, <1>6 DEF AssignMain, AssignAny, Go
<1>7. ASSUME NEW th \in Threads, Scan(th) \/ ScanEnds(th) \/ Decide(th)
      PROVE  JobsExact'
  BY <1>1, <1>5, <1>7 DEF Scan, ScanEnds, Decide, Go, scanned
<1>8. ASSUME NEW th \in Threads,
             Lock(th) \/ CreateOk(th) \/ CreateFails(th) \/ Unlock(th)
      PROVE  JobsExact'
  BY <1>1, <1>5, <1>8 DEF Lock, CreateOk, CreateFails, Unlock, Go, scanned
<1>9. CASE UNCHANGED vars
  BY <1>5, <1>9 DEF vars
<1> QED
  BY <1>3, <1>4, <1>6, <1>7, <1>8, <1>9 DEF Next, Assigning

\* Every step of wrkx_assign and wrkx_release keeps the types; the counters
\* do because they are exact.
LEMMA TypeOKStep == PoolInv /\ [Next]_vars => TypeOK'
<1> SUFFICES ASSUME PoolInv, [Next]_vars
             PROVE  TypeOK'
  OBVIOUS
<1>1. Cardinality(Threads) \in Nat
  BY ThreadsAssumption, FS_CardinalityType
<1>2. \A w \in Ids : jobs'[w] \in 0..Cardinality(Threads)
  <2>1. ASSUME NEW w \in Ids
        PROVE  Cardinality(Held(w)') \in 0..Cardinality(Threads)
    <3>1. Held(w)' \in SUBSET Threads
      BY DEF Held
    <3>2. /\ IsFiniteSet(Held(w)')
          /\ Cardinality(Held(w)') <= Cardinality(Threads)
      BY <3>1, FS_Subset, ThreadsAssumption
    <3>3. Cardinality(Held(w)') \in Nat
      BY <3>2, FS_CardinalityType
    <3> QED BY <1>1, <3>2, <3>3
  <2> QED BY <2>1, JobsExactStep DEF JobsExact, Held
<1> USE <1>1, CapAssumption DEF PoolInv, TypeOK, PCs, Ids, ManyJobs, scanned
<1>3. ASSUME NEW th \in Threads, AssignMain(th) \/ AssignAny(th)
      PROVE  TypeOK'
  <2>1. 0 \in Ids /\ 0 \in 0..Cap /\ ManyJobs \in 0..ManyJobs
    OBVIOUS
  <2>2. pc' \in [Threads -> PCs]
    BY <1>3 DEF AssignMain, AssignAny, Go
  <2>3. CASE AssignMain(th)
    BY <2>1, <2>2, <2>3 DEF AssignMain
  <2>4. CASE AssignAny(th)
    BY <2>1, <2>2, <2>4 DEF AssignAny
  <2> QED BY <1>3, <2>3, <2>4
<1>4. ASSUME NEW th \in Threads, Scan(th)
      PROVE  TypeOK'
  <2>1. it[th] \in Ids /\ jobs[it[th]] \in 0..Cardinality(Threads)
    BY <1>4 DEF Scan
  <2>2. it' \in [Threads -> 0..Cap]
    BY <1>4, <2>1 DEF Scan
  <2>3. min' \in [Threads -> 0..ManyJobs] /\ best' \in [Threads -> Ids]
    BY <1>4, <2>1 DEF Scan
  <2>4. pc' \in [Threads -> PCs]
    BY <1>4 DEF Scan, Go
  <2> QED BY <1>4, <2>2, <2>3, <2>4 DEF Scan
<1>5. ASSUME NEW th \in Threads, ScanEnds(th) \/ Decide(th)
      PROVE  TypeOK'
  BY <1>5 DEF ScanEnds, Decide, Go
<1>6. ASSUME NEW th \in Threads, Lock(th)
      PROVE  TypeOK'
  <2>1. pc' \in [Threads -> PCs]
    BY <1>6 DEF Lock, Go
  <2>2. CASE len < Cap
    <3>1. len \in Ids /\ len + 1 \in 1..Cap
      BY <2>2
    <3>2. best' \in [Threads -> Ids]
      BY <1>6, <2>2, <3>1 DEF Lock
    <3> QED BY <1>6, <2>1, <2>2, <3>1, <3>2 DEF Lock
  <2>3. CASE ~(len < Cap)
    BY <1>6, <2>1, <2>3 DEF Lock
  <2> QED BY <2>2, <2>3
<1>7. ASSUME NEW th \in Threads, CreateOk(th) \/ Unlock(th)
      PROVE  TypeOK'
  BY <1>7 DEF CreateOk, Unlock, Go
<1>8. ASSUME NEW th \in Threads, CreateFails(th)
      PROVE  TypeOK'
  <2>1. pc' \in [Threads -> PCs]
    BY <1>8 DEF CreateFails, Go
  <2>2. len' \in 1..Cap /\ 0 \in Ids
    BY <1>8 DEF CreateFails, Go, CreatesNewest
  <2>3. best' \in [Threads -> Ids]
    BY <1>8, <2>2 DEF CreateFails
  <2> QED BY <1>8, <2>1, <2>2, <2>3 DEF CreateFails
<1>9. ASSUME NEW th \in Threads, AddJob(th) \/ Release(th)
      PROVE  TypeOK'
  <2>1. jobs' = [w \in Ids |-> jobs'[w]]
    BY <1>9 DEF AddJob, Release
  <2>2. jobs' \in [Ids -> 0..Cardinality(Threads)]
    BY <1>2, <2>1
  <2> QED BY <1>9, <2>2 DEF AddJob, Release, Go
<1>10. CASE UNCHANGED vars
  BY <1>10 DEF vars
<1> QED
  BY <1>3, <1>4, <1>5, <1>6, <1>7, <1>8, <1>9, <1>10 DEF Next, Assigning
\* A critical section: the lock has one holder, which is the creator.
LEMMA OneCreatorStep == PoolInv /\ [Next]_vars => OneCreator'
<1> SUFFICES ASSUME PoolInv, [Next]_vars
             PROVE  OneCreator'
  OBVIOUS
<1> USE ThreadsAssumption DEF PoolInv, TypeOK, OneCreator, Go, scanned
<1>1. ASSUME NEW th \in Threads, AssignMain(th) \/ AssignAny(th)
      PROVE  OneCreator'
  BY <1>1 DEF AssignMain, AssignAny
<1>2. ASSUME NEW th \in Threads, Scan(th) \/ ScanEnds(th) \/ Decide(th)
      PROVE  OneCreator'
  BY <1>2 DEF Scan, ScanEnds, Decide
<1>3. ASSUME NEW th \in Threads, Lock(th)
      PROVE  OneCreator'
  BY <1>3 DEF Lock
<1>4. ASSUME NEW th \in Threads, CreateOk(th) \/ CreateFails(th) \/ Unlock(th)
      PROVE  OneCreator'
  BY <1>4 DEF CreateOk, CreateFails, Unlock
<1>5. ASSUME NEW th \in Threads, AddJob(th) \/ Release(th)
      PROVE  OneCreator'
  BY <1>5 DEF AddJob, Release
<1>6. CASE UNCHANGED vars
  BY <1>6 DEF vars
<1> QED BY <1>1, <1>2, <1>3, <1>4, <1>5, <1>6 DEF Next, Assigning

\* The worker under creation stays the newest one: nobody else changes the
\* number of workers meanwhile.
LEMMA NewestStep ==
  PoolInv /\ OneCreator' /\ [Next]_vars => OnlyNewestUnready' /\ CreatesNewest'
<1> SUFFICES ASSUME PoolInv, OneCreator', [Next]_vars
             PROVE  OnlyNewestUnready' /\ CreatesNewest'
  OBVIOUS
<1> DEFINE Making == {x \in Threads : pc[x] = "create"}
<1>1. /\ len \in Nat \ {0} /\ len <= Cap /\ ready \in SUBSET Ids
      /\ pc \in [Threads -> PCs] /\ best \in [Threads -> Ids] /\ Cap \in Nat
  BY CapAssumption DEF PoolInv, TypeOK
<1>2. ASSUME UNCHANGED <<len, ready>>,
             \A th \in Threads : (pc[th] = "create") <=> (pc'[th] = "create"),
             \A th \in Threads : pc[th] = "create" => best'[th] = best[th]
      PROVE  OnlyNewestUnready' /\ CreatesNewest'
  <2>1. {best'[th] : th \in {x \in Threads : pc'[x] = "create"}} =
        {best[th] : th \in {x \in Threads : pc[x] = "create"}}
    BY <1>2
  <2> QED BY <1>2, <2>1 DEF PoolInv, OnlyNewestUnready, CreatesNewest
<1>3. ASSUME NEW th \in Threads, AssignMain(th) \/ AssignAny(th)
      PROVE  OnlyNewestUnready' /\ CreatesNewest'
  BY <1>1, <1>2, <1>3 DEF AssignMain, AssignAny, Go
<1>4. ASSUME NEW th \in Threads, Scan(th) \/ ScanEnds(th) \/ Decide(th)
      PROVE  OnlyNewestUnready' /\ CreatesNewest'
  BY <1>1, <1>2, <1>4 DEF Scan, ScanEnds, Decide, Go, scanned
<1>5. ASSUME NEW th \in Threads, AddJob(th) \/ Release(th) \/ Unlock(th)
      PROVE  OnlyNewestUnready' /\ CreatesNewest'
  BY <1>1, <1>2, <1>5 DEF AddJob, Release, Unlock, Go, scanned
<1>6. ASSUME NEW th \in Threads, Lock(th)
      PROVE  OnlyNewestUnready' /\ CreatesNewest'
  <2>1. CASE len < Cap
    <3>1. Making = {} /\ {x \in Threads : pc'[x] = "create"} = {th}
      BY <1>1, <1>6, <2>1, ThreadsAssumption DEF Lock, Go, PoolInv, OneCreator
    <3>2. ready = 0..(len - 1)
      BY <3>1 DEF PoolInv, OnlyNewestUnready
    <3>3. len' = len + 1 /\ best'[th] = len /\ ready' = ready
      BY <1>1, <1>6, <2>1 DEF Lock
    <3> QED BY <1>1, <3>1, <3>2, <3>3 DEF OnlyNewestUnready, CreatesNewest
  <2>2. CASE ~(len < Cap)
    BY <1>1, <1>2, <1>6, <2>2 DEF Lock, Go
  <2> QED BY <2>1, <2>2
<1>7. ASSUME NEW th \in Threads, pc[th] = "create"
      PROVE  /\ Making = {th} /\ len > 1 /\ best[th] = len - 1
             /\ ready = 0..(len - 2)
  <2>1. Making = {th}
    BY <1>7, ThreadsAssumption DEF PoolInv, OneCreator
  <2>2. len > 1 /\ best[th] = len - 1 /\ best[th] \notin ready
    BY <1>7 DEF PoolInv, CreatesNewest
  <2>3. 0..(len - 1) = ready \union {len - 1}
    BY <2>1, <2>2 DEF PoolInv, OnlyNewestUnready
  <2>4. ASSUME NEW w
        PROVE  w \in ready <=> w \in 0..(len - 2)
    BY <1>1, <2>2, <2>3
  <2> QED BY <2>1, <2>2, <2>4
<1>8. ASSUME NEW th \in Threads, CreateOk(th)
      PROVE  OnlyNewestUnready' /\ CreatesNewest'
  <2>1. {x \in Threads : pc'[x] = "create"} = {}
    BY <1>1, <1>7, <1>8 DEF CreateOk, Go
  <2>2. ready' = 0..(len' - 1)
    BY <1>1, <1>7, <1>8 DEF CreateOk, Go
  <2> QED BY <2>1, <2>2 DEF OnlyNewestUnready, CreatesNewest
<1>9. ASSUME NEW th \in Threads, CreateFails(th)
      PROVE  OnlyNewestUnready' /\ CreatesNewest'
  <2>1. {x \in Threads : pc'[x] = "create"} = {}
    BY <1>1, <1>7, <1>9 DEF CreateFails, Go
  <2>2. ready' = 0..(len' - 1)
    BY <1>1, <1>7, <1>9 DEF CreateFails, Go
  <2> QED BY <2>1, <2>2 DEF OnlyNewestUnready, CreatesNewest
<1>10. CASE UNCHANGED vars
  BY <1>2, <1>10 DEF vars
<1> QED
  BY <1>3, <1>4, <1>5, <1>6, <1>8, <1>9, <1>10 DEF Next, Assigning

-----------------------------------------------------------------------------

\* The inductive invariant of wrkx_assign and wrkx_release holds.
THEOREM PoolInvariant == Spec => []PoolInv
<1>1. Init => PoolInv
  <2> SUFFICES ASSUME Init PROVE PoolInv
    OBVIOUS
  <2>1. Cardinality(Threads) \in Nat
    BY ThreadsAssumption, FS_CardinalityType
  <2>2. TypeOK
    BY <2>1, CapAssumption DEF Init, TypeOK, Ids, PCs, ManyJobs
  <2>3. JobsExact
    <3>1. \A w \in Ids : Held(w) = {}
      BY DEF Init, Held
    <3> QED BY <3>1, FS_EmptySet DEF Init, JobsExact, Held
  <2>4. OnlyNewestUnready
    <3>1. {x \in Threads : pc[x] = "create"} = {}
      BY DEF Init
    <3> QED BY <3>1 DEF Init, OnlyNewestUnready
  <2>5. OneCreator /\ CreatesNewest
    BY ThreadsAssumption DEF Init, OneCreator, CreatesNewest
  <2> QED BY <2>2, <2>3, <2>4, <2>5 DEF PoolInv
<1>2. PoolInv /\ [Next]_vars => PoolInv'
  BY TypeOKStep, JobsExactStep, OneCreatorStep, NewestStep DEF PoolInv
<1> QED BY <1>1, <1>2, PTL DEF Spec

\* However many threads assign tracks at once and whichever creations fail,
\* the counters of jobs are exact and only the newest worker of the pool may
\* not be set up (wrkx_assign, wrkx_release).
THEOREM PoolIsExact == Spec => []PoolExact
<1>1. PoolInv => PoolExact
  BY DEF PoolInv, PoolExact
<1> QED BY <1>1, PoolInvariant, PTL

\* The capacity of the vector of workers is never exceeded, no counter falls
\* below zero (the assertion in wrkx_release) or exceeds the number of
\* threads, and no position of the scan leaves the vector.
THEOREM PoolTypes == Spec => []TypeOK
<1>1. PoolInv => TypeOK
  BY DEF PoolInv
<1> QED BY <1>1, PoolInvariant, PTL

-----------------------------------------------------------------------------
(* The timers of a worker.                                                 *)

\* The worker's time is that of the last tick, and exact inside on_timer.
TimeKept == now <= clock /\ (tpc # "idle" => now = clock)

\* What zzkq_timer_start believes of the kernel timer is so, unless a start
\* has failed; whoever waits made it start.
FlagIsTrue ==
  /\ ~broken => (active <=> ktimer)
  /\ \A t \in Timers : due[t] # Off => active

\* The next tick is one interval ahead at most, and not missed.
TickAhead == ktimer => clock <= tick /\ tick <= clock + Tick

\* A timer is queued for the time it was set for, counted from the worker's
\* idea of the time; so is a periodic one that is put back.
QueuedInTime ==
  \A t \in Timers :
    /\ every[t] > 0 => wait[t] = every[t]
    /\ due[t] # Off => due[t] <= set[t] + wait[t]

\* Unless it is about to be called, a timer is reached by the next tick in time.
NextTickInTime ==
  ~broken =>
    \A t \in Timers :
      due[t] # Off /\ (tpc = "idle" \/ due[t] > now) => tick <= set[t] + wait[t] + Tick

\* The inductive invariant of a worker's timers.
TimersInv ==
  /\ TimersTypeOK /\ TimeKept /\ FlagIsTrue /\ StopOnlyWhenAlone
  /\ TickAhead /\ QueuedInTime /\ NextTickInTime

\* A delay is a number.
LEMMA DelaysAreNat ==
  ASSUME TimersAssumptions
  PROVE  \A d \in {0} \union Delays : d \in Nat
<1>1. ASSUME NEW d \in Delays
      PROVE  d \in Nat
  BY DEF TimersAssumptions
<1>2. 0 \in Nat
  OBVIOUS
<1>3. \A d \in {0} \union Delays : d = 0 \/ d \in Delays
  BY Zenon
<1> QED BY <1>1, <1>2, <1>3

-----------------------------------------------------------------------------

\* Every call of wrk_timer and every step of on_timer keeps the types.
LEMMA TimersTypeStep ==
  ASSUME TimersAssumptions
  PROVE  TimersTypeOK /\ [TimersNext]_timerVars => TimersTypeOK'
<1> SUFFICES ASSUME TimersTypeOK, [TimersNext]_timerVars
             PROVE  TimersTypeOK'
  OBVIOUS
<1> USE DEF TimersAssumptions, TimersTypeOK, Times, Off, queue, hist
<1>1. CASE Advance
  BY <1>1 DEF Advance
<1>2. CASE OnTimer
  <2>1. clock + Tick \in Nat
    OBVIOUS
  <2> QED BY <1>2, <2>1 DEF OnTimer
<1>3. CASE HandlerReturns \/ Suspend
  BY <1>3 DEF HandlerReturns, Suspend
<1>4. CASE ProcessEnds
  BY <1>4 DEF ProcessEnds
<1>5. ASSUME NEW t \in Timers, NEW d \in Delays, NEW periodic \in BOOLEAN,
             Start(t, d, periodic)
      PROVE  TimersTypeOK'
  <2>1. d \in Nat /\ now + d \in Times /\ clock + Tick \in Nat
    OBVIOUS
  <2>2. due' \in [Timers -> Times] /\ set' \in [Timers -> Nat]
    BY <1>5, <2>1 DEF Start
  <2>3. every' \in [Timers -> {0} \union Delays] /\ wait' \in [Timers -> {0} \union Delays]
    BY <1>5, <2>1 DEF Start
  <2>4. tick' \in Nat
    BY <1>5, <2>1 DEF Start
  <2> QED BY <1>5, <2>2, <2>3, <2>4 DEF Start
<1>6. ASSUME NEW t \in Timers, Stop(t)
      PROVE  TimersTypeOK'
  <2>1. now + Linger \in Times
    OBVIOUS
  <2> QED BY <1>6, <2>1 DEF Stop
<1>7. ASSUME NEW t \in Timers, Fire(t)
      PROVE  TimersTypeOK'
  <2>1. every[t] \in {0} \union Delays
    OBVIOUS
  <2>2. every[t] \in Nat
    BY <2>1, DelaysAreNat, Zenon
  <2>3. now + every[t] \in Times
    BY <2>2
  <2>4. due' \in [Timers -> Times] /\ set' \in [Timers -> Nat]
    BY <1>7, <2>3 DEF Fire
  <2>5. early' \in SUBSET Timers
    BY <1>7 DEF Fire
  <2> QED BY <1>7, <2>4, <2>5 DEF Fire
<1>8. ASSUME NEW t \in Timers, StartFails(t)
      PROVE  TimersTypeOK'
  BY <1>8 DEF StartFails
<1>9. CASE UNCHANGED timerVars \/ TimersFinished
  BY <1>9 DEF timerVars, TimersFinished
<1> QED BY <1>1, <1>2, <1>3, <1>4, <1>5, <1>6, <1>7, <1>8, <1>9 DEF TimersNext

-----------------------------------------------------------------------------
(* One lemma per action: each keeps the other parts of the invariant.       *)

\* Time passes up to the next tick, never beyond it.
LEMMA AdvanceStep ==
  ASSUME TimersAssumptions, TimersInv, Advance
  PROVE  TimeKept' /\ FlagIsTrue' /\ StopOnlyWhenAlone' /\ TickAhead'
         /\ QueuedInTime' /\ NextTickInTime'
  BY DEF TimersAssumptions, TimersInv, TimersTypeOK, Advance, TimeKept, FlagIsTrue,
         StopOnlyWhenAlone, TickAhead, QueuedInTime, NextTickInTime, queue, hist

\* on_timer sets the worker's time right; what is due is not yet called.
LEMMA OnTimerStep ==
  ASSUME TimersAssumptions, TimersInv, OnTimer
  PROVE  TimeKept' /\ FlagIsTrue' /\ StopOnlyWhenAlone' /\ TickAhead'
         /\ QueuedInTime' /\ NextTickInTime'
<1> USE DEF TimersInv, OnTimer, queue, hist
<1>1. TimeKept' /\ FlagIsTrue' /\ StopOnlyWhenAlone' /\ QueuedInTime'
  BY DEF TimersTypeOK, TimeKept, FlagIsTrue, StopOnlyWhenAlone, QueuedInTime
<1>2. TickAhead'
  BY DEF TimersAssumptions, TimersTypeOK, TickAhead
<1>3. NextTickInTime'
  <2> SUFFICES ASSUME NEW t \in Timers, due[t] # Off, due[t] > clock
               PROVE  clock + Tick <= set[t] + wait[t] + Tick
    BY DEF NextTickInTime
  <2>1. due[t] \in Nat /\ set[t] \in Nat /\ wait[t] \in {0} \union Delays
    BY DEF TimersTypeOK, Times
  <2>2. wait[t] \in Nat
    BY <2>1, DelaysAreNat, Zenon
  <2>3. due[t] <= set[t] + wait[t]
    BY DEF QueuedInTime
  <2> QED BY <2>1, <2>2, <2>3 DEF TimersAssumptions, TimersTypeOK
<1> QED BY <1>1, <1>2, <1>3

\* A timer that is set is counted from the time of the last tick, which is
\* not later than now: its tick comes in time, started or running already.
LEMMA StartStep ==
  ASSUME TimersAssumptions, TimersInv, NEW u \in Timers, NEW d \in Delays,
         NEW periodic \in BOOLEAN, Start(u, d, periodic)
  PROVE  TimeKept' /\ FlagIsTrue' /\ StopOnlyWhenAlone' /\ TickAhead'
         /\ QueuedInTime' /\ NextTickInTime'
<1> USE DEF TimersInv, Start
<1>1. /\ d \in Nat \ {0} /\ clock \in Nat /\ now \in Nat /\ tick \in Nat
      /\ Tick \in Nat /\ \A t \in Timers : set[t] \in Nat /\ due[t] \in Times
      /\ \A t \in Timers : wait[t] \in {0} \union Delays /\ every[t] \in {0} \union Delays
  BY DEF TimersAssumptions, TimersTypeOK
<1>2. \A t \in Timers : wait[t] \in Nat /\ every[t] \in Nat
  BY <1>1, DelaysAreNat, Zenon
<1>3. TimeKept' /\ StopOnlyWhenAlone'
  BY DEF TimeKept, StopOnlyWhenAlone, Off
<1>4. FlagIsTrue'
  BY DEF FlagIsTrue, TimersTypeOK
<1>5. TickAhead'
  BY <1>1 DEF TickAhead, TimersTypeOK
<1>6. \A t \in Timers : t # u => UNCHANGED <<due[t], set[t], wait[t], every[t]>>
  BY DEF TimersTypeOK
<1>7. /\ due'[u] = now + d /\ set'[u] = clock /\ wait'[u] = d
      /\ every'[u] = IF periodic THEN d ELSE 0
  BY DEF TimersTypeOK
<1>8. QueuedInTime'
  BY <1>1, <1>2, <1>6, <1>7 DEF QueuedInTime, TimeKept
<1>9. NextTickInTime'
  <2> SUFFICES ASSUME ~broken, NEW t \in Timers, due'[t] # Off,
                      tpc = "idle" \/ due'[t] > now
               PROVE  tick' <= set'[t] + wait'[t] + Tick
    BY DEF NextTickInTime
  <2>1. CASE t = u
    <3>1. tick' <= clock + Tick
      BY <1>1 DEF FlagIsTrue, TickAhead
    <3>2. tick' \in Nat
      BY <1>1
    <3> QED BY <1>1, <1>7, <2>1, <3>1, <3>2
  <2>2. CASE t # u
    <3>1. due[t] # Off /\ active
      BY <1>6, <2>2 DEF FlagIsTrue
    <3>2. tick' = tick
      BY <3>1
    <3> QED BY <1>6, <2>2, <3>1, <3>2 DEF NextTickInTime
  <2> QED BY <2>1, <2>2
<1> QED BY <1>3, <1>4, <1>5, <1>8, <1>9

\* A timer that is taken back leaves the others as they are; the stop of the
\* kernel timer is queued only when it was the last.
LEMMA StopStep ==
  ASSUME TimersAssumptions, TimersInv, NEW u \in Timers, Stop(u)
  PROVE  TimeKept' /\ FlagIsTrue' /\ StopOnlyWhenAlone' /\ TickAhead'
         /\ QueuedInTime' /\ NextTickInTime'
<1> USE DEF TimersInv, Stop, hist
<1>1. \A t \in Timers : due'[t] = Off \/ due'[t] = due[t]
  BY DEF TimersTypeOK
<1>2. TimeKept' /\ FlagIsTrue' /\ TickAhead' /\ QueuedInTime' /\ NextTickInTime'
  BY <1>1 DEF TimeKept, FlagIsTrue, TickAhead, QueuedInTime, NextTickInTime
<1>3. StopOnlyWhenAlone'
  BY <1>1 DEF StopOnlyWhenAlone, Empty
<1> QED BY <1>2, <1>3

\* fftimerqueue_process: a timer that is called is out of the queue, or put
\* back one interval ahead.
LEMMA FireStep ==
  ASSUME TimersAssumptions, TimersInv, NEW u \in Timers, Fire(u)
  PROVE  TimeKept' /\ FlagIsTrue' /\ StopOnlyWhenAlone' /\ TickAhead'
         /\ QueuedInTime' /\ NextTickInTime'
<1> USE DEF TimersInv, Fire
<1>1. /\ clock \in Nat /\ now = clock /\ tick \in Nat
      /\ Tick \in Nat /\ \A t \in Timers : set[t] \in Nat /\ due[t] \in Times
      /\ \A t \in Timers : wait[t] \in {0} \union Delays /\ every[t] \in {0} \union Delays
  BY DEF TimersAssumptions, TimersTypeOK, TimeKept
<1>2. \A t \in Timers : wait[t] \in Nat /\ every[t] \in Nat
  BY <1>1, DelaysAreNat, Zenon
<1>3. \A t \in Timers : t # u => UNCHANGED <<due[t], set[t]>>
  BY DEF TimersTypeOK
<1>4. /\ due'[u] = IF every[u] > 0 THEN now + every[u] ELSE Off
      /\ set'[u] = clock /\ wait' = wait /\ every' = every
  BY DEF TimersTypeOK
<1>5. due[u] # Off /\ active /\ stopdue = Off
  BY DEF IsFirst, Due, FlagIsTrue, StopOnlyWhenAlone
<1>6. TimeKept' /\ FlagIsTrue' /\ TickAhead' /\ StopOnlyWhenAlone'
  BY <1>5 DEF TimeKept, FlagIsTrue, TickAhead, StopOnlyWhenAlone
<1>7. QueuedInTime'
  BY <1>1, <1>2, <1>3, <1>4 DEF QueuedInTime
<1>8. NextTickInTime'
  <2> SUFFICES ASSUME ~broken, NEW t \in Timers, due'[t] # Off,
                      due'[t] > now
               PROVE  tick <= set'[t] + wait[t] + Tick
    BY DEF NextTickInTime
  <2>1. CASE t = u
    <3>1. tick <= clock + Tick
      BY <1>5 DEF FlagIsTrue, TickAhead
    <3> QED BY <1>1, <1>2, <1>4, <2>1, <3>1
  <2>2. CASE t # u
    BY <1>3, <2>2 DEF NextTickInTime
  <2> QED BY <2>1, <2>2
<1> QED BY <1>6, <1>7, <1>8

\* on_timer goes back to the event loop when no timer is due: what is left is
\* due after this tick.
LEMMA ProcessEndsStep ==
  ASSUME TimersAssumptions, TimersInv, ProcessEnds
  PROVE  TimeKept' /\ FlagIsTrue' /\ StopOnlyWhenAlone' /\ TickAhead'
         /\ QueuedInTime' /\ NextTickInTime'
<1> USE DEF TimersInv, ProcessEnds, hist
<1>1. TimeKept' /\ FlagIsTrue' /\ TickAhead' /\ QueuedInTime'
  BY DEF TimeKept, FlagIsTrue, TickAhead, QueuedInTime
<1>2. StopOnlyWhenAlone'
  BY DEF StopOnlyWhenAlone, Empty
<1>3. \A t \in Timers : due[t] # Off => due[t] > now
  BY DEF Due, TimersTypeOK, Times
<1>4. NextTickInTime'
  BY <1>3 DEF NextTickInTime
<1> QED BY <1>1, <1>2, <1>4

\* The other steps start and call nothing; timer_suspend stops the kernel
\* timer when no timer is queued.
LEMMA OtherStep ==
  ASSUME TimersAssumptions, TimersInv,
         \/ HandlerReturns \/ Suspend \/ TimersFinished \/ UNCHANGED timerVars
         \/ \E t \in Timers : StartFails(t)
  PROVE  TimeKept' /\ FlagIsTrue' /\ StopOnlyWhenAlone' /\ TickAhead'
         /\ QueuedInTime' /\ NextTickInTime'
<1> USE DEF TimersInv, TimeKept, FlagIsTrue, StopOnlyWhenAlone, TickAhead,
            QueuedInTime, NextTickInTime
<1>1. CASE HandlerReturns
  BY <1>1 DEF HandlerReturns, queue, hist
<1>2. CASE Suspend
  BY <1>2 DEF Suspend, hist, IsFirst, Due
<1>3. CASE TimersFinished \/ UNCHANGED timerVars
  BY <1>3 DEF TimersFinished, timerVars
<1>4. ASSUME NEW t \in Timers, StartFails(t)
      PROVE  TimeKept' /\ FlagIsTrue' /\ StopOnlyWhenAlone' /\ TickAhead'
             /\ QueuedInTime' /\ NextTickInTime'
  BY <1>4 DEF StartFails
<1> QED BY <1>1, <1>2, <1>3, <1>4

-----------------------------------------------------------------------------

\* The inductive invariant of wrk_timer, on_timer and timer_suspend holds.
THEOREM TimersInvariant ==
  ASSUME TimersAssumptions
  PROVE  TimersSpec => []TimersInv
<1>1. TimersInit => TimersInv
  <2> SUFFICES ASSUME TimersInit PROVE TimersInv
    OBVIOUS
  <2>1. TimersTypeOK
    <3>1. /\ every \in [Timers -> {0} \union Delays]
          /\ wait \in [Timers -> {0} \union Delays]
      BY DEF TimersInit
    <3>2. due \in [Timers -> Times] /\ set \in [Timers -> Nat] /\ stopdue \in Times
      BY DEF TimersInit, Times, Off
    <3>3. clock \in 0..MaxTime /\ now \in 0..MaxTime /\ tick \in Nat
      BY DEF TimersAssumptions, TimersInit
    <3> QED BY <3>1, <3>2, <3>3 DEF TimersInit, TimersTypeOK
  <2>2. TimeKept /\ FlagIsTrue /\ StopOnlyWhenAlone /\ TickAhead /\ QueuedInTime
        /\ NextTickInTime
    BY DEF TimersInit, TimeKept, FlagIsTrue, StopOnlyWhenAlone, TickAhead, QueuedInTime,
           NextTickInTime, Off
  <2> QED BY <2>1, <2>2 DEF TimersInv
<1>2. TimersInv /\ [TimersNext]_timerVars => TimersInv'
  <2> SUFFICES ASSUME TimersInv, [TimersNext]_timerVars
               PROVE  TimersInv'
    OBVIOUS
  <2>1. TimersTypeOK'
    BY TimersTypeStep DEF TimersInv
  <2>2. TimeKept' /\ FlagIsTrue' /\ StopOnlyWhenAlone' /\ TickAhead'
        /\ QueuedInTime' /\ NextTickInTime'
    BY AdvanceStep, OnTimerStep, StartStep, StopStep, FireStep, ProcessEndsStep,
       OtherStep DEF TimersNext
  <2> QED BY <2>1, <2>2 DEF TimersInv
<1> QED BY <1>1, <1>2, PTL DEF TimersSpec

\* The kernel timer ticks while somebody waits, a timer is called at the first
\* tick after it is due, and the timer that stops the kernel timer is queued
\* alone, whatever the handlers set and take back (core/worker.h).
THEOREM TimersAreServed ==
  ASSUME TimersAssumptions
  PROVE  TimersSpec => []TimersServed
<1>1. TimersInv => TimersServed
  <2> SUFFICES ASSUME TimersInv PROVE TimersServed
    OBVIOUS
  <2>1. TicksWhileNeeded
    BY DEF TimersInv, FlagIsTrue, TicksWhileNeeded
  <2>2. ASSUME tpc = "idle", ~broken, NEW t \in Timers, due[t] # Off
        PROVE  clock <= set[t] + wait[t] + Tick
    <3>1. clock <= tick /\ tick <= set[t] + wait[t] + Tick
      BY <2>2 DEF TimersInv, FlagIsTrue, TickAhead, NextTickInTime
    <3>2. /\ clock \in Nat /\ tick \in Nat /\ set[t] \in Nat /\ Tick \in Nat
          /\ wait[t] \in {0} \union Delays
      BY DEF TimersAssumptions, TimersInv, TimersTypeOK
    <3>3. wait[t] \in Nat
      BY <3>2, DelaysAreNat, Zenon
    <3> QED BY <3>1, <3>2, <3>3
  <2> QED BY <2>1, <2>2 DEF TimersInv, NeverLate, TimersServed
<1> QED BY <1>1, TimersInvariant, PTL

=============================================================================
