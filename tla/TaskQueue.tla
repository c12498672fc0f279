----------------------------- MODULE TaskQueue -----------------------------
(***************************************************************************)
(* A worker thread and its task queue: util/taskqueue.h (the list and its  *)
(* lock), util/kq-tq.h (the kernel event that wakes the worker) and the    *)
(* loop of util/kq.h.                                                      *)
(*                                                                         *)
(* Any thread posts: under the lock it links the task unless it is linked  *)
(* already, and only the thread that found the list empty signals the      *)
(* worker, after it has released the lock.  The worker looks at the first  *)
(* element without the lock, then takes the lock to unlink it, then calls  *)
(* the handler.  One step of the model is one critical section, one        *)
(* unlocked access or one kernel call.                                     *)
(*                                                                         *)
(* The kernel event is modelled as an eventfd: a post makes it ready,      *)
(* ffkq_post_consume() makes it not ready, the wait returns every ready    *)
(* event of the kernel queue.                                              *)
(***************************************************************************)
EXTENDS Naturals, Sequences

CONSTANTS Tasks,     \* fftask objects
          Threads,   \* threads that may post or stop
          Worker,    \* the thread that runs the loop, one of Threads
          None,      \* no task
          MaxPosts   \* bound: calls of zzkq_tq_post in a behaviour

ASSUME WorkerAssumption == Worker \in Threads
ASSUME NoneAssumption == None \notin Tasks
ASSUME MaxPostsAssumption == MaxPosts \in Nat

VARIABLES
  queue,    \* fftaskqueue.tasks: the linked tasks, first to last
  sig,      \* kq_tq.kqpost is ready in the kernel queue
  stopsig,  \* kq.kqpost is ready in the kernel queue
  stop,     \* zzkq.stop
  wpc,      \* where the worker is: see WorkerPCs
  evs,      \* events returned by the last ffkq_wait, not yet dispatched
  it,       \* fftaskqueue_run's local: the element it found first
  ppc,      \* what each thread still has to do of zzkq_tq_post / zzkq_stop
  posts,    \* number of posts so far
  owed      \* tasks posted since their handler was last entered

kernel == <<sig, stopsig>>
worker == <<wpc, evs, it>>
vars == <<queue, sig, stopsig, stop, wpc, evs, it, ppc, posts, owed>>

\* "loop": tests stop; "wait": in ffkq_wait; "dispatch": walks the events;
\* "kevent": in the handler of some other kernel event (timer, socket, file);
\* "consume", "first", "rm", "call", "handler": zzkq_tq_process and
\* fftaskqueue_run; "exit": zzkq_run has returned.
WorkerPCs == {"loop", "wait", "dispatch", "kevent", "consume", "first", "rm",
              "call", "handler", "exit"}

PosterPCs == {"idle", "signal", "stopsignal"}

\* fftaskqueue_active: t->sib.next is set while the task is linked.
Linked(t) == \E i \in 1..Len(queue) : queue[i] = t

\* The queue without its i-th element (fflist_rm).
Unlink(q, i) == [j \in 1..(Len(q) - 1) |-> IF j < i THEN q[j] ELSE q[j + 1]]

\* The worker is inside user code: a task's handler or a kernel event's one.
InUserCode == wpc \in {"handler", "kevent"}

Init ==
  /\ queue = <<>>
  /\ sig = FALSE /\ stopsig = FALSE /\ stop = FALSE
  /\ wpc = "loop" /\ evs = {} /\ it = None
  /\ ppc = [th \in Threads |-> "idle"]
  /\ posts = 0
  /\ owed = {}

-----------------------------------------------------------------------------
(* Posters: any thread; the worker itself only from user code.             *)

CanCall(th) == ppc[th] = "idle" /\ (th = Worker => InUserCode)

\* Mutant: the result is computed after the task has been linked.
PostEmptyLate(th, t) ==
  /\ CanCall(th)
  /\ posts < MaxPosts
  /\ posts' = posts + 1
  /\ owed' = owed \union {t}
  /\ queue' = IF Linked(t) THEN queue ELSE Append(queue, t)
  /\ UNCHANGED <<ppc, kernel, stop, worker>>

\* Mutant: a task counts as queued until its handler has returned.
PostUnlessCalled(th, t) ==
  /\ CanCall(th)
  /\ posts < MaxPosts
  /\ posts' = posts + 1
  /\ owed' = owed \union {t}
  /\ \/ /\ Linked(t) \/ it = t
        /\ UNCHANGED <<queue, ppc>>
     \/ /\ ~(Linked(t) \/ it = t)
        /\ queue' = Append(queue, t)
        /\ ppc' = [ppc EXCEPT ![th] = IF queue = <<>> THEN "signal" ELSE "idle"]
  /\ UNCHANGED <<kernel, stop, worker>>

\* fftaskqueue_post: the critical section.  Its result, "the queue was
\* empty", is what makes the caller signal.
Post(th, t) ==
  /\ CanCall(th)
  /\ posts < MaxPosts
  /\ posts' = posts + 1
  /\ owed' = owed \union {t}
  /\ \/ /\ Linked(t)
        /\ UNCHANGED <<queue, ppc>>
     \/ /\ ~Linked(t)
        /\ queue' = Append(queue, t)
        /\ ppc' = [ppc EXCEPT ![th] = IF queue = <<>> THEN "signal" ELSE "idle"]
  /\ UNCHANGED <<kernel, stop, worker>>

\* zzkq_tq_post: ffkq_post(kt->kqpost) after the lock is released.
Signal(th) ==
  /\ ppc[th] = "signal"
  /\ sig' = TRUE
  /\ ppc' = [ppc EXCEPT ![th] = "idle"]
  /\ UNCHANGED <<queue, stopsig, stop, worker, posts, owed>>

\* Mutant: any thread may unlink a task.
DelAnywhere(i) ==
  /\ queue' = Unlink(queue, i)
  /\ owed' = owed \ {queue[i]}
  /\ UNCHANGED <<kernel, stop, worker, ppc, posts>>

\* fftaskqueue_del of the i-th task ("one reader/deleter": user code that
\* runs on this worker).  Of an unlinked task it changes nothing.
Del(i) ==
  /\ InUserCode /\ ppc[Worker] = "idle"
  /\ queue' = Unlink(queue, i)
  /\ owed' = owed \ {queue[i]}
  /\ UNCHANGED <<kernel, stop, worker, ppc, posts>>

\* zzkq_stop: set the flag ...
StopSet(th) ==
  /\ CanCall(th)
  /\ ~stop
  /\ stop' = TRUE
  /\ ppc' = [ppc EXCEPT ![th] = "stopsignal"]
  /\ UNCHANGED <<queue, kernel, worker, posts, owed>>

\* Mutant: the flag is set but nobody wakes the worker.
StopSignalDropped(th) ==
  /\ ppc[th] = "stopsignal"
  /\ ppc' = [ppc EXCEPT ![th] = "idle"]
  /\ UNCHANGED <<queue, kernel, stop, worker, posts, owed>>

\* ... then wake the worker.
StopSignal(th) ==
  /\ ppc[th] = "stopsignal"
  /\ stopsig' = TRUE
  /\ ppc' = [ppc EXCEPT ![th] = "idle"]
  /\ UNCHANGED <<queue, sig, stop, worker, posts, owed>>

-----------------------------------------------------------------------------
(* The worker.                                                             *)

\* zzkq_run: while (!stop)
LoopTest ==
  /\ wpc = "loop"
  /\ wpc' = IF stop THEN "exit" ELSE "wait"
  /\ UNCHANGED <<queue, kernel, stop, evs, it, ppc, posts, owed>>

\* Mutant: the stop event is handed to a handler like the others.
WaitStopDispatched ==
  /\ wpc = "wait"
  /\ \E io \in SUBSET {"io"} :
       /\ sig \/ stopsig \/ io # {}
       /\ evs' = io \union (IF sig THEN {"tq"} ELSE {})
                   \union (IF stopsig THEN {"stop"} ELSE {})
  /\ wpc' = "dispatch"
  /\ UNCHANGED <<queue, kernel, stop, it, ppc, posts, owed>>

\* ffkq_wait returns what is ready: the task queue's event, the stop event
\* (which has no handler) and possibly some other kernel event.
Wait ==
  /\ wpc = "wait"
  /\ \E io \in SUBSET {"io"} :
       /\ sig \/ stopsig \/ io # {}
       /\ evs' = io \union (IF sig THEN {"tq"} ELSE {})
  /\ wpc' = "dispatch"
  /\ UNCHANGED <<queue, kernel, stop, it, ppc, posts, owed>>

\* zzkq_run: the walk over the returned events, in any order.
Dispatch ==
  /\ wpc = "dispatch"
  /\ \/ evs = {} /\ wpc' = "loop" /\ UNCHANGED evs
     \/ \E e \in evs :
          /\ evs' = evs \ {e}
          /\ wpc' = IF e = "tq" THEN "consume" ELSE "kevent"
  /\ UNCHANGED <<queue, kernel, stop, it, ppc, posts, owed>>

KeventReturn ==
  /\ wpc = "kevent" /\ ppc[Worker] = "idle"
  /\ wpc' = "dispatch"
  /\ UNCHANGED <<queue, kernel, stop, evs, it, ppc, posts, owed>>

\* zzkq_tq_process: ffkq_post_consume, before the queue is looked at.
Consume ==
  /\ wpc = "consume"
  /\ sig' = FALSE
  /\ wpc' = "first"
  /\ UNCHANGED <<queue, stopsig, stop, evs, it, ppc, posts, owed>>

\* fftaskqueue_run: the unlocked look at the first element.
RunFirst ==
  /\ wpc = "first"
  /\ IF queue = <<>>
     THEN wpc' = "dispatch" /\ it' = None
     ELSE wpc' = "rm" /\ it' = Head(queue)
  /\ UNCHANGED <<queue, kernel, stop, evs, ppc, posts, owed>>

\* fftaskqueue_run: unlink it, under the lock.
RunRm ==
  /\ wpc = "rm"
  /\ \E i \in 1..Len(queue) : queue[i] = it /\ queue' = Unlink(queue, i)
  /\ wpc' = "call"
  /\ UNCHANGED <<kernel, stop, evs, it, ppc, posts, owed>>

\* fftaskqueue_run: t->handler(t->param) is entered ...
RunCall ==
  /\ wpc = "call"
  /\ owed' = owed \ {it}
  /\ wpc' = "handler"
  /\ UNCHANGED <<queue, kernel, stop, evs, it, ppc, posts>>

\* Mutant: one task is called for one event.
HandlerReturnOnce ==
  /\ wpc = "handler" /\ ppc[Worker] = "idle"
  /\ it' = None
  /\ wpc' = "dispatch"
  /\ UNCHANGED <<queue, kernel, stop, evs, ppc, posts, owed>>

\* ... and returns; the next element is looked at.
HandlerReturn ==
  /\ wpc = "handler" /\ ppc[Worker] = "idle"
  /\ it' = None
  /\ wpc' = "first"
  /\ UNCHANGED <<queue, kernel, stop, evs, ppc, posts, owed>>

WorkerStep ==
  \/ LoopTest \/ Wait \/ Dispatch \/ KeventReturn \/ Consume
  \/ RunFirst \/ RunRm \/ RunCall \/ HandlerReturn

\* zzkq_run has returned and every other thread has nothing left to do.
Finished ==
  /\ wpc = "exit" /\ posts = MaxPosts
  /\ \A th \in Threads : ppc[th] = "idle"
  /\ UNCHANGED vars

Next ==
  \/ \E th \in Threads, t \in Tasks : Post(th, t)
  \/ \E th \in Threads : Signal(th) \/ StopSet(th) \/ StopSignal(th)
  \/ \E i \in 1..Len(queue) : Del(i)
  \/ WorkerStep
  \/ Finished

\* The kernel schedules the worker and every thread that is inside
\* zzkq_tq_post or zzkq_stop; user code returns.  Nobody has to post, and no
\* other kernel event has to come: the worker sleeps until it is signalled.
Fairness ==
  /\ WF_vars(WorkerStep /\ (wpc = "wait" => sig \/ stopsig))
  /\ \A th \in Threads : WF_vars(Signal(th) \/ StopSignal(th))

Spec == Init /\ [][Next]_vars /\ Fairness

-----------------------------------------------------------------------------
(* Properties.                                                             *)

TypeOK ==
  /\ queue \in Seq(Tasks)
  /\ sig \in BOOLEAN /\ stopsig \in BOOLEAN /\ stop \in BOOLEAN
  /\ wpc \in WorkerPCs
  /\ evs \in SUBSET {"tq", "io"}
  /\ it \in Tasks \union {None}
  /\ ppc \in [Threads -> PosterPCs]
  /\ posts \in Nat
  /\ owed \in SUBSET Tasks

\* A task is linked at most once, whoever posts it and whenever: linking it
\* twice would corrupt the list.
LinkedOnce ==
  \A i, j \in 1..Len(queue) : queue[i] = queue[j] => i = j

\* A task in the queue never waits for a wake-up nobody is going to send:
\* the event is ready, or a thread is about to make it ready, or the worker
\* is still going to look at the queue before it sleeps (zzkq_tq_post signals
\* only for the first task; zzkq_tq_process consumes before it runs).
NoLostWakeup ==
  queue # <<>> =>
    \/ sig
    \/ \E th \in Threads : ppc[th] = "signal"
    \/ "tq" \in evs
    \/ wpc \in {"consume", "first", "rm", "call", "handler"}

\* What fftaskqueue_run found first without the lock is still linked, and
\* still first, when it unlinks it under the lock.
FirstStaysFirst ==
  wpc = "rm" => queue # <<>> /\ Head(queue) = it

\* A post that found the task linked is not lost: the handler's next call is
\* entered after that post, because the task is unlinked before the call.
NoLostPost ==
  \A t \in owed : Linked(t) \/ (wpc = "call" /\ it = t)

\* A posted task is called (or taken back by the worker's own code) unless
\* the worker is stopped.
PostedIsCalled ==
  \A t \in Tasks : (t \in owed) ~> (t \notin owed \/ stop)

\* zzkq_stop makes zzkq_run return, also when the worker sleeps.
StopEndsLoop == stop ~> (wpc = "exit")

\* The inductive invariant behind the four safety properties: what it points
\* to is a task from the moment it is found, and the worker goes back to
\* sleep only with every returned event dispatched.
QueueInv ==
  /\ TypeOK /\ LinkedOnce /\ NoLostWakeup /\ FirstStaysFirst /\ NoLostPost
  /\ wpc \in {"rm", "call", "handler"} => it \in Tasks
  /\ wpc \in {"loop", "wait"} => evs = {}

Abstract == INSTANCE Mailbox WITH
              fifo <- queue,
              active <- IF wpc \in {"call", "handler"} THEN it ELSE None,
              closed <- stop

\* The queue, its lock-free peek and its conditional wake-up implement the
\* mailbox: FIFO, one call at a time, every post served until stop.
ImplementsMailbox == Abstract!Spec

=============================================================================
