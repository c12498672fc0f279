------------------------------ MODULE Workers ------------------------------
(***************************************************************************)
(* The pool of workers: wrkx_assign, wrkx_release and wrkx_available of     *)
(* core/worker.h.                                                           *)
(*                                                                          *)
(* Worker 0 is the main one; the others are created when every worker has   *)
(* a job.  Conversion tracks are created by whichever worker's track has    *)
(* just ended, so several threads assign at the same time: they read the    *)
(* counters one by one without the lock, and only the creation of a worker  *)
(* is a critical section.                                                   *)
(***************************************************************************)
EXTENDS Naturals, FiniteSets

CONSTANTS Threads,  \* threads that create tracks
          Cap,      \* conf.workers: capacity of wrk_ctx.workers
          Nobody    \* the lock is free

ASSUME CapAssumption == Cap \in Nat \ {0}
ASSUME ThreadsAssumption == IsFiniteSet(Threads) /\ Nobody \notin Threads

VARIABLES
  len,    \* wrk_ctx.workers.len
  ready,  \* workers whose kqueue and task queue are set up
  jobs,   \* worker.njobs
  lock,   \* wrk_ctx.lock: its holder
  pc,     \* where each thread is: see PCs
  it,     \* the scan: the worker looked at next
  best,   \* the worker chosen so far
  min     \* jobs_min: its jobs

scanned == <<it, best, min>>
vars == <<len, ready, jobs, lock, pc, it, best, min>>

Ids == 0..(Cap - 1)

\* "idle": has no track to run; "held": a track of its own is assigned to
\* worker best.
PCs == {"idle", "scan", "decide", "lock", "create", "unlock", "add", "held"}

\* ~0U: more than there are threads.
ManyJobs == Cardinality(Threads) + 1

Init ==
  /\ len = 1 /\ ready = {0}
  /\ jobs = [w \in Ids |-> 0] /\ lock = Nobody
  /\ pc = [th \in Threads |-> "idle"]
  /\ it = [th \in Threads |-> 0] /\ best = [th \in Threads |-> 0]
  /\ min = [th \in Threads |-> ManyJobs]

Go(th, from, to) == pc[th] = from /\ pc' = [pc EXCEPT ![th] = to]

\* wrkx_assign without cross-worker assignment: the main worker.
AssignMain(th) ==
  /\ Go(th, "idle", "add")
  /\ best' = [best EXCEPT ![th] = 0]
  /\ UNCHANGED <<len, ready, jobs, lock, it, min>>

\* With it: look for the least busy worker ...
AssignAny(th) ==
  /\ Go(th, "idle", "scan")
  /\ it' = [it EXCEPT ![th] = 0]
  /\ min' = [min EXCEPT ![th] = ManyJobs]
  /\ UNCHANGED <<len, ready, jobs, lock, best>>

\* ... one by one; an idle one ends the search.
Scan(th) ==
  LET w == it[th]
      better == jobs[w] < min[th]
  IN /\ w < len
     /\ Go(th, "scan", IF jobs[w] = 0 THEN "decide" ELSE "scan")
     /\ it' = [it EXCEPT ![th] = w + 1]
     /\ min' = [min EXCEPT ![th] = IF better THEN jobs[w] ELSE @]
     /\ best' = [best EXCEPT ![th] = IF better THEN w ELSE @]
     /\ UNCHANGED <<len, ready, jobs, lock>>

ScanEnds(th) ==
  /\ it[th] >= len
  /\ Go(th, "scan", "decide")
  /\ UNCHANGED <<len, ready, jobs, lock, scanned>>

\* No idle worker and room for one more: the lock is needed.
Decide(th) ==
  /\ Go(th, "decide", IF min[th] # 0 /\ len < Cap THEN "lock" ELSE "add")
  /\ UNCHANGED <<len, ready, jobs, lock, scanned>>

\* The capacity is checked again; the new worker counts from here on,
\* although nothing of it is set up.
Lock(th) ==
  /\ lock = Nobody /\ lock' = th
  /\ IF len < Cap
     THEN /\ Go(th, "lock", "create")
          /\ len' = len + 1 /\ best' = [best EXCEPT ![th] = len]
     ELSE Go(th, "lock", "unlock") /\ UNCHANGED <<len, best>>
  /\ UNCHANGED <<ready, jobs, it, min>>

\* wrk_create and wrk_start ...
CreateOk(th) ==
  /\ Go(th, "create", "unlock")
  /\ ready' = ready \union {best[th]}
  /\ UNCHANGED <<len, jobs, lock, scanned>>

\* ... or one of them fails: the main worker is used.
CreateFails(th) ==
  /\ Go(th, "create", "unlock")
  /\ len' = len - 1 /\ best' = [best EXCEPT ![th] = 0]
  /\ UNCHANGED <<ready, jobs, lock, it, min>>

\* Mutant: the lock is kept when there was no room.
UnlockOnlyCreator(th) ==
  /\ Go(th, "unlock", "add")
  /\ lock' = IF len < Cap THEN Nobody ELSE lock
  /\ UNCHANGED <<len, ready, jobs, scanned>>

Unlock(th) ==
  /\ Go(th, "unlock", "add")
  /\ lock' = Nobody
  /\ UNCHANGED <<len, ready, jobs, scanned>>

\* Mutant: the counter is read in the scan and written back here.
AddStale(th) ==
  /\ Go(th, "add", "held")
  /\ jobs' = [jobs EXCEPT ![best[th]] = IF min[th] = ManyJobs THEN @ + 1 ELSE min[th] + 1]
  /\ UNCHANGED <<len, ready, lock, scanned>>

\* ffatomic_fetch_add(&w->njobs, 1): the track may now post tasks to it.
AddJob(th) ==
  /\ Go(th, "add", "held")
  /\ jobs' = [jobs EXCEPT ![best[th]] = @ + 1]
  /\ UNCHANGED <<len, ready, lock, scanned>>

\* wrkx_release, when the track is closed.
Release(th) ==
  /\ Go(th, "held", "idle")
  /\ jobs' = [jobs EXCEPT ![best[th]] = @ - 1]
  /\ UNCHANGED <<len, ready, lock, scanned>>

\* The steps of a call of wrkx_assign that has begun.
Assigning(th) ==
  \/ Scan(th) \/ ScanEnds(th) \/ Decide(th) \/ Lock(th) \/ CreateOk(th)
  \/ CreateFails(th) \/ Unlock(th) \/ AddJob(th)

Next == \E th \in Threads :
          AssignMain(th) \/ AssignAny(th) \/ Assigning(th) \/ Release(th)

\* Every thread is scheduled; the lock is a spin lock, which somebody who
\* keeps asking gets if it is free again and again.
Fairness == \A th \in Threads : WF_vars(Assigning(th)) /\ SF_vars(Lock(th))

Spec == Init /\ [][Next]_vars /\ Fairness

-----------------------------------------------------------------------------
(* Properties.                                                             *)

TypeOK ==
  /\ len \in 1..Cap /\ ready \in SUBSET Ids
  /\ jobs \in [Ids -> 0..Cardinality(Threads)]
  /\ lock \in Threads \union {Nobody} /\ pc \in [Threads -> PCs]
  /\ it \in [Threads -> 0..Cap] /\ best \in [Threads -> Ids]
  /\ min \in [Threads -> 0..ManyJobs]

\* njobs is exactly the number of tracks assigned to the worker, so it never
\* falls below zero (the assertion in wrkx_release).
JobsExact ==
  \A w \in Ids :
    jobs[w] = Cardinality({th \in Threads : pc[th] = "held" /\ best[th] = w})

\* The workers that count are set up, but for the one under creation, whose
\* creator holds the lock: a failed creation leaves no gap behind.
OnlyNewestUnready ==
  0..(len - 1) = ready \union {best[th] : th \in {x \in Threads : pc[x] = "create"}}

\* A thread that has begun to assign a worker ends up with one.
AssignReturns ==
  \A th \in Threads : (pc[th] = "scan") ~> (pc[th] = "held")

\* A track is assigned to a worker that is able to take its tasks.
AssignedIsReady ==
  \A th \in Threads : pc[th] = "held" => best[th] \in ready

\* wrkx_available
Available ==
  IF len < Cap \/ \E w \in 0..(len - 1) : jobs[w] = 0 THEN 1 ELSE 0

\* workers_available() is the number of workers that have nothing to do.
AvailableIsNumber ==
  Available = (Cap - len) + Cardinality({w \in 0..(len - 1) : jobs[w] = 0})

\* wrkx_assign, wrkx_release: the counters of jobs are exact, and only the
\* newest worker of the pool may not be set up yet.
PoolExact == JobsExact /\ OnlyNewestUnready

=============================================================================
