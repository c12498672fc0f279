-------------------------- MODULE TaskQueueProofs --------------------------
(***************************************************************************)
(* Proofs about TaskQueue for any set of tasks, any set of posting threads *)
(* and any number of posts.                                                *)
(***************************************************************************)
EXTENDS TaskQueue, SequenceTheorems, TLAPS

\* What fflist_rm leaves: one element less, the others in their order.
LEMMA UnlinkType ==
  ASSUME NEW S, NEW q \in Seq(S), NEW i \in 1..Len(q)
  PROVE  /\ Unlink(q, i) \in Seq(S)
         /\ Len(Unlink(q, i)) = Len(q) - 1
         /\ \A j \in 1..(Len(q) - 1) :
              Unlink(q, i)[j] = IF j < i THEN q[j] ELSE q[j + 1]
  BY DEF Unlink

\* fflist_rm loses nothing but the element it removes.
LEMMA UnlinkKeeps ==
  ASSUME NEW S, NEW q \in Seq(S), NEW i \in 1..Len(q),
         NEW k \in 1..Len(q), k # i
  PROVE  \E j \in 1..Len(Unlink(q, i)) : Unlink(q, i)[j] = q[k]
<1> DEFINE u == Unlink(q, i)
<1>1. Len(q) \in Nat /\ i \in Nat /\ k \in Nat
  OBVIOUS
<1>2. /\ Len(u) = Len(q) - 1
      /\ \A j \in 1..(Len(q) - 1) : u[j] = IF j < i THEN q[j] ELSE q[j + 1]
  BY UnlinkType
<1> HIDE DEF u
<1>3. CASE k < i
  <2>1. k \in 1..(Len(q) - 1)
    BY <1>1, <1>3
  <2>2. u[k] = q[k]
    BY <1>2, <1>3, <2>1
  <2> QED BY <1>2, <2>1, <2>2 DEF u
<1>4. CASE k > i
  <2>1. k - 1 \in 1..(Len(q) - 1) /\ ~(k - 1 < i) /\ (k - 1) + 1 = k
    BY <1>1, <1>4
  <2>2. u[k - 1] = q[k]
    BY <1>2, <2>1
  <2> QED BY <1>2, <2>1, <2>2 DEF u
<1> QED BY <1>1, <1>3, <1>4

\* Taking the first element out is Tail.
LEMMA UnlinkFirst ==
  ASSUME NEW S, NEW q \in Seq(S), q # <<>>
  PROVE  Unlink(q, 1) = Tail(q)
<1>1. Len(q) \in Nat /\ Len(q) > 0 /\ 1 \in 1..Len(q)
  BY EmptySeq
<1>2. /\ Unlink(q, 1) \in Seq(S)
      /\ Len(Unlink(q, 1)) = Len(q) - 1
      /\ \A j \in 1..(Len(q) - 1) : Unlink(q, 1)[j] = q[j + 1]
  BY <1>1, UnlinkType
<1>3. /\ Tail(q) \in Seq(S)
      /\ Len(Tail(q)) = Len(q) - 1
      /\ \A j \in 1..(Len(q) - 1) : Tail(q)[j] = q[j + 1]
  BY <1>1, HeadTailProperties
<1> QED BY <1>2, <1>3, SeqEqual

-----------------------------------------------------------------------------

\* The state of the queue, of the worker and of the posters has its type:
\* every step of util/taskqueue.h, util/kq-tq.h and util/kq.h keeps it.
THEOREM TypeCorrect == Spec => []TypeOK
<1>1. Init => TypeOK
  <2> SUFFICES ASSUME Init PROVE TypeOK
    OBVIOUS
  <2>1. queue \in Seq(Tasks)
    BY EmptySeq DEF Init
  <2>2. ppc \in [Threads -> PosterPCs] /\ posts \in Nat
    BY DEF Init, PosterPCs
  <2>3. /\ sig \in BOOLEAN /\ stopsig \in BOOLEAN /\ stop \in BOOLEAN
        /\ wpc \in WorkerPCs /\ evs \in SUBSET {"tq", "io"}
        /\ it \in Tasks \union {None} /\ owed \in SUBSET Tasks
    BY DEF Init, WorkerPCs
  <2> QED BY <2>1, <2>2, <2>3 DEF TypeOK
<1>2. TypeOK /\ [Next]_vars => TypeOK'
  <2> SUFFICES ASSUME TypeOK, [Next]_vars
               PROVE  TypeOK'
    OBVIOUS
  <2> USE DEF TypeOK, WorkerPCs, PosterPCs, kernel, worker
  <2>1. ASSUME NEW th \in Threads, NEW t \in Tasks, Post(th, t)
        PROVE  TypeOK'
    BY <2>1 DEF Post
  <2>2. ASSUME NEW th \in Threads, Signal(th)
        PROVE  TypeOK'
    BY <2>2 DEF Signal
  <2>3. ASSUME NEW th \in Threads, StopSet(th)
        PROVE  TypeOK'
    BY <2>3 DEF StopSet
  <2>4. ASSUME NEW th \in Threads, StopSignal(th)
        PROVE  TypeOK'
    BY <2>4 DEF StopSignal
  <2>5. ASSUME NEW i \in 1..Len(queue), Del(i)
        PROVE  TypeOK'
    BY <2>5, UnlinkType DEF Del
  <2>6. CASE LoopTest
    BY <2>6 DEF LoopTest
  <2>7. CASE Wait
    BY <2>7 DEF Wait
  <2>8. CASE Dispatch
    BY <2>8 DEF Dispatch
  <2>9. CASE KeventReturn
    BY <2>9 DEF KeventReturn
  <2>10. CASE Consume
    BY <2>10 DEF Consume
  <2>11. CASE RunFirst
    BY <2>11 DEF RunFirst
  <2>12. CASE RunRm
    BY <2>12, UnlinkType DEF RunRm
  <2>13. CASE RunCall
    BY <2>13 DEF RunCall
  <2>14. CASE HandlerReturn
    BY <2>14 DEF HandlerReturn
  <2>15. CASE UNCHANGED vars
    BY <2>15 DEF vars
  <2>16. CASE Finished
    BY <2>16 DEF Finished, vars
  <2> QED
    BY <2>1, <2>2, <2>3, <2>4, <2>5, <2>6, <2>7, <2>8, <2>9, <2>10, <2>11,
       <2>12, <2>13, <2>14, <2>15, <2>16 DEF Next, WorkerStep
<1> QED BY <1>1, <1>2, PTL DEF Spec


-----------------------------------------------------------------------------

\* fftaskqueue_post, fftaskqueue_del and fftaskqueue_run never link a task
\* twice.
LEMMA LinkedOnceStep == QueueInv /\ TypeOK' /\ [Next]_vars => LinkedOnce'
<1> SUFFICES ASSUME QueueInv, TypeOK', [Next]_vars
             PROVE  LinkedOnce'
  OBVIOUS
<1> USE DEF QueueInv
<1>1. ASSUME NEW th \in Threads, NEW t \in Tasks, Post(th, t)
      PROVE  LinkedOnce'
  BY <1>1 DEF Post, LinkedOnce, Linked, TypeOK
<1>2. ASSUME NEW i \in 1..Len(queue), queue' = Unlink(queue, i)
      PROVE  LinkedOnce'
  <2>1. /\ Len(queue') = Len(queue) - 1
        /\ \A j \in 1..(Len(queue) - 1) :
             queue'[j] = IF j < i THEN queue[j] ELSE queue[j + 1]
    BY <1>2, UnlinkType DEF TypeOK
  <2>2. Len(queue) \in Nat
    BY DEF TypeOK
  <2>3. ASSUME NEW j \in 1..Len(queue'), NEW k \in 1..Len(queue'),
               queue'[j] = queue'[k]
        PROVE  j = k
    BY <2>1, <2>2, <2>3 DEF LinkedOnce
  <2> QED BY <2>3 DEF LinkedOnce
<1>3. CASE UNCHANGED queue
  BY <1>3 DEF LinkedOnce
<1> QED
  BY <1>1, <1>2, <1>3
  DEF Next, WorkerStep, Signal, StopSet, StopSignal, Del, LoopTest, Wait,
      Dispatch, KeventReturn, Consume, RunFirst, RunRm, RunCall,
      HandlerReturn, Finished, vars, kernel, worker

\* Nobody but the worker unlinks, so what it found first stays first.
LEMMA FirstStaysFirstStep ==
  QueueInv /\ TypeOK' /\ [Next]_vars => FirstStaysFirst'
<1> SUFFICES ASSUME QueueInv, TypeOK', [Next]_vars
             PROVE  FirstStaysFirst'
  OBVIOUS
<1> USE DEF QueueInv
<1>1. ASSUME NEW th \in Threads, NEW t \in Tasks, Post(th, t)
      PROVE  FirstStaysFirst'
  BY <1>1 DEF Post, FirstStaysFirst, worker, TypeOK
<1>2. CASE UNCHANGED <<queue, wpc, it>>
  BY <1>2 DEF FirstStaysFirst
<1>3. CASE RunFirst
  BY <1>3 DEF RunFirst, FirstStaysFirst
<1>4. CASE wpc' # "rm"
  BY <1>4 DEF FirstStaysFirst
<1> QED
  BY <1>1, <1>2, <1>3, <1>4
  DEF Next, WorkerStep, Signal, StopSet, StopSignal, Del, LoopTest, Wait,
      Dispatch, KeventReturn, Consume, RunRm, RunCall, HandlerReturn, Finished,
      vars, kernel, worker, InUserCode

\* A task that was posted stays linked until the call that serves the post.
LEMMA NoLostPostStep == QueueInv /\ TypeOK' /\ [Next]_vars => NoLostPost'
<1> SUFFICES ASSUME QueueInv, TypeOK', [Next]_vars
             PROVE  NoLostPost'
  OBVIOUS
<1> USE DEF QueueInv
<1>1. ASSUME NEW th \in Threads, NEW u \in Tasks, Post(th, u)
      PROVE  NoLostPost'
  <2> SUFFICES ASSUME NEW t \in owed', ~(wpc' = "call" /\ it' = t)
               PROVE  Linked(t)'
    BY DEF NoLostPost
  <2>1. Linked(t) \/ t = u
    BY <1>1 DEF Post, NoLostPost, worker
  <2>2. CASE Linked(u)
    BY <1>1, <2>1, <2>2 DEF Post, Linked
  <2>3. CASE ~Linked(u)
    <3>1. queue' = Append(queue, u) /\ queue \in Seq(Tasks)
      BY <1>1, <2>3 DEF Post, TypeOK
    <3>2. /\ Len(queue') = Len(queue) + 1 /\ queue'[Len(queue) + 1] = u
          /\ \A i \in 1..Len(queue) : queue'[i] = queue[i]
      BY <3>1
    <3>3. Len(queue) \in Nat
      BY <3>1
    <3> QED BY <2>1, <3>2, <3>3 DEF Linked
  <2> QED BY <2>2, <2>3
<1>2. ASSUME NEW i \in 1..Len(queue), NEW t \in owed, t # queue[i],
             queue' = Unlink(queue, i), Linked(t)
      PROVE  Linked(t)'
  <2>1. PICK k \in 1..Len(queue) : queue[k] = t
    BY <1>2 DEF Linked
  <2>2. \E j \in 1..Len(Unlink(queue, i)) : Unlink(queue, i)[j] = queue[k]
    BY <1>2, <2>1, UnlinkKeeps DEF TypeOK
  <2> QED BY <1>2, <2>1, <2>2 DEF Linked
<1>3. ASSUME NEW i \in 1..Len(queue), Del(i)
      PROVE  NoLostPost'
  BY <1>2, <1>3 DEF Del, NoLostPost, InUserCode, worker
<1>4. CASE RunRm
  BY <1>2, <1>4 DEF RunRm, NoLostPost
<1>5. CASE RunCall
  BY <1>5 DEF RunCall, NoLostPost, Linked, kernel
<1>6. CASE UNCHANGED <<queue, owed>> /\ (wpc = "call" => UNCHANGED <<wpc, it>>)
  BY <1>6 DEF NoLostPost, Linked
<1> QED
  BY <1>1, <1>3, <1>4, <1>5, <1>6
  DEF Next, WorkerStep, Signal, StopSet, StopSignal, LoopTest, Wait,
      Dispatch, KeventReturn, Consume, RunFirst, HandlerReturn, Finished, vars,
      kernel, worker

\* The thread that found the queue empty signals; the worker consumes the
\* signal before it looks at the queue.
LEMMA NoLostWakeupStep == QueueInv /\ TypeOK' /\ [Next]_vars => NoLostWakeup'
<1> SUFFICES ASSUME QueueInv, TypeOK', [Next]_vars
             PROVE  NoLostWakeup'
  OBVIOUS
<1> USE DEF QueueInv, NoLostWakeup, TypeOK, WorkerPCs, PosterPCs
<1>1. ASSUME NEW th \in Threads, NEW t \in Tasks, Post(th, t)
      PROVE  NoLostWakeup'
  <2>1. CASE queue = <<>>
    <3>1. ~Linked(t)
      BY <2>1 DEF Linked
    <3> QED BY <1>1, <2>1, <3>1 DEF Post
  <2>2. CASE queue # <<>>
    BY <1>1, <2>2 DEF Post, kernel, worker, CanCall
  <2> QED BY <2>1, <2>2
<1>2. ASSUME NEW th \in Threads, Signal(th)
      PROVE  NoLostWakeup'
  BY <1>2 DEF Signal
<1>3. ASSUME NEW th \in Threads, StopSet(th) \/ StopSignal(th)
      PROVE  NoLostWakeup'
  BY <1>3 DEF StopSet, StopSignal, kernel, worker, CanCall
<1>4. ASSUME NEW i \in 1..Len(queue), Del(i)
      PROVE  NoLostWakeup'
  <2>1. queue # <<>>
    BY <1>4
  <2> QED BY <1>4, <2>1 DEF Del, kernel, worker
<1>5. CASE LoopTest \/ KeventReturn
  BY <1>5 DEF LoopTest, KeventReturn, kernel
<1>6. CASE Wait
  BY <1>6 DEF Wait, kernel
<1>7. CASE Dispatch
  BY <1>7 DEF Dispatch, kernel
<1>8. CASE Consume \/ RunFirst \/ RunRm \/ RunCall \/ HandlerReturn
  BY <1>8 DEF Consume, RunFirst, RunRm, RunCall, HandlerReturn, kernel
<1>9. CASE UNCHANGED vars \/ Finished
  BY <1>9 DEF Finished, vars
<1> QED
  BY <1>1, <1>2, <1>3, <1>4, <1>5, <1>6, <1>7, <1>8, <1>9 DEF Next, WorkerStep

\* The element the worker handles is a task, and its batch of kernel events
\* is finished before it sleeps again.
LEMMA WorkerStateStep ==
  QueueInv /\ TypeOK' /\ [Next]_vars =>
    /\ (wpc \in {"rm", "call", "handler"} => it \in Tasks)'
    /\ (wpc \in {"loop", "wait"} => evs = {})'
<1> SUFFICES ASSUME QueueInv, TypeOK', [Next]_vars
             PROVE  /\ (wpc \in {"rm", "call", "handler"} => it \in Tasks)'
                    /\ (wpc \in {"loop", "wait"} => evs = {})'
  OBVIOUS
<1> USE DEF QueueInv, TypeOK, WorkerPCs
<1>1. CASE UNCHANGED worker
  BY <1>1 DEF worker
<1>2. CASE LoopTest \/ Wait \/ KeventReturn \/ Consume
  BY <1>2 DEF LoopTest, Wait, KeventReturn, Consume
<1>3. CASE Dispatch
  BY <1>3 DEF Dispatch
<1>4. CASE RunFirst
  <2>1. queue # <<>> => Head(queue) \in Tasks
    OBVIOUS
  <2> QED BY <1>4, <2>1 DEF RunFirst
<1>5. CASE RunRm \/ RunCall \/ HandlerReturn
  BY <1>5 DEF RunRm, RunCall, HandlerReturn
<1> QED
  BY <1>1, <1>2, <1>3, <1>4, <1>5
  DEF Next, WorkerStep, Post, Signal, StopSet, StopSignal, Del, Finished, vars,
      worker

-----------------------------------------------------------------------------

\* The inductive invariant of the queue and its worker.
THEOREM QueueInvariant == Spec => []QueueInv
<1>1. Init => LinkedOnce /\ NoLostWakeup /\ FirstStaysFirst /\ NoLostPost
  BY DEF Init, LinkedOnce, NoLostWakeup, FirstStaysFirst, NoLostPost
<1>2. Init => (wpc \in {"rm", "call", "handler"} => it \in Tasks)
              /\ (wpc \in {"loop", "wait"} => evs = {})
  BY DEF Init
<1>3. TypeOK /\ TypeOK' /\ QueueInv /\ [Next]_vars => QueueInv'
  BY LinkedOnceStep, FirstStaysFirstStep, NoLostPostStep, NoLostWakeupStep,
     WorkerStateStep DEF QueueInv
<1>4. TypeOK /\ Init => QueueInv
  BY <1>1, <1>2 DEF QueueInv
<1> QED BY <1>3, <1>4, TypeCorrect, PTL DEF Spec

\* A queued task never waits for a wake-up nobody is going to send
\* (zzkq_tq_post signals for the first task only).
THEOREM WakeupNeverLost == Spec => []NoLostWakeup
<1>1. QueueInv => NoLostWakeup
  BY DEF QueueInv
<1> QED BY <1>1, QueueInvariant, PTL

\* A post is served by a call that is entered after it, also when the task
\* was queued already (fftaskqueue_run unlinks before it calls).
THEOREM PostNeverLost == Spec => []NoLostPost
<1>1. QueueInv => NoLostPost
  BY DEF QueueInv
<1> QED BY <1>1, QueueInvariant, PTL

\* The lock-free look at the first element is safe: the element is still
\* linked and first when fftaskqueue_run unlinks it.
THEOREM PeekIsSafe == Spec => []FirstStaysFirst
<1>1. QueueInv => FirstStaysFirst
  BY DEF QueueInv
<1> QED BY <1>1, QueueInvariant, PTL

\* Every step of the queue, of its posters and of its worker is a step of
\* the mailbox or leaves it alone: tasks are called one at a time, in the
\* order they were posted, and only the worker's code takes one back.
THEOREM RefinesMailbox == Spec => Abstract!Safety
<1>1. Init => Abstract!Init
  BY DEF Init, Abstract!Init
<1>2. QueueInv /\ [Next]_vars => [Abstract!Next]_(Abstract!vars)
  <2> SUFFICES ASSUME QueueInv, [Next]_vars
               PROVE  [Abstract!Next]_(Abstract!vars)
    OBVIOUS
  <2> USE DEF Abstract!Next, Abstract!vars, kernel, worker
  <2>1. ASSUME NEW th \in Threads, NEW t \in Tasks, Post(th, t)
        PROVE  [Abstract!Next]_(Abstract!vars)
    <3>1. CASE Linked(t)
      BY <2>1, <3>1 DEF Post
    <3>2. CASE ~Linked(t)
      BY <2>1, <3>2 DEF Post, Linked, Abstract!Post, Abstract!Posted
    <3> QED BY <3>1, <3>2
  <2>2. ASSUME NEW th \in Threads, StopSet(th)
        PROVE  [Abstract!Next]_(Abstract!vars)
    BY <2>2 DEF StopSet, Abstract!Close
  <2>3. ASSUME NEW i \in 1..Len(queue), Del(i)
        PROVE  [Abstract!Next]_(Abstract!vars)
    BY <2>3 DEF Del, Unlink, Abstract!Cancel, Abstract!Drop
  <2>4. CASE RunRm
    <3>1. queue \in Seq(Tasks) /\ queue # <<>> /\ Head(queue) = it
      BY <2>4 DEF RunRm, QueueInv, FirstStaysFirst, TypeOK
    <3>2. 1 \in 1..Len(queue) /\ queue[1] = it
      BY <3>1
    <3>3. queue' = Tail(queue)
      BY <2>4, <3>1, <3>2, UnlinkFirst DEF RunRm, QueueInv, LinkedOnce
    <3> QED BY <2>4, <3>1, <3>3 DEF RunRm, Abstract!Call
  <2>5. CASE HandlerReturn
    BY <2>5, NoneAssumption DEF HandlerReturn, QueueInv, Abstract!Return
  <2>6. ASSUME UNCHANGED <<queue, stop>>,
               wpc \in {"call", "handler"} <=> wpc' \in {"call", "handler"},
               wpc \in {"call", "handler"} => UNCHANGED it
        PROVE  [Abstract!Next]_(Abstract!vars)
    BY <2>6
  <2>7. ASSUME NEW th \in Threads, Signal(th) \/ StopSignal(th)
        PROVE  [Abstract!Next]_(Abstract!vars)
    BY <2>6, <2>7 DEF Signal, StopSignal
  <2>8. CASE LoopTest \/ Wait \/ Dispatch \/ KeventReturn
    BY <2>6, <2>8 DEF LoopTest, Wait, Dispatch, KeventReturn
  <2>9. CASE Consume \/ RunFirst \/ RunCall
    BY <2>6, <2>9 DEF Consume, RunFirst, RunCall
  <2>10. CASE UNCHANGED vars
    BY <2>6, <2>10 DEF vars
  <2> QED
    BY <2>1, <2>2, <2>3, <2>4, <2>5, <2>7, <2>8, <2>9, <2>10
    DEF Next, WorkerStep, Finished
<1> QED BY <1>1, <1>2, QueueInvariant, PTL DEF Spec, Abstract!Safety

=============================================================================
