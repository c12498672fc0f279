------------------------------ MODULE Mailbox ------------------------------
(***************************************************************************)
(* What a worker's task queue promises to the code that uses core->task(): *)
(* a task is posted at most once at a time, the posted tasks are called    *)
(* one after another in the order they were posted, a task can be taken    *)
(* back only by the code that runs on the worker, and as long as nobody    *)
(* stops the worker a posted task is eventually called.                    *)
(*                                                                         *)
(* No locks, kernel events or wake-ups: TaskQueue has those, and is shown  *)
(* to implement this module.                                               *)
(***************************************************************************)
EXTENDS Naturals, Sequences

CONSTANTS Tasks,   \* the fftask objects
          None     \* "no task is being called"

VARIABLES fifo,    \* posted tasks, oldest first
          active,  \* the task whose handler is being called, or None
          closed   \* somebody asked the worker to stop

vars == <<fifo, active, closed>>

Posted(t) == \E i \in 1..Len(fifo) : fifo[i] = t

\* The queue without its i-th element.
Drop(q, i) == [j \in 1..(Len(q) - 1) |-> IF j < i THEN q[j] ELSE q[j + 1]]

Init == fifo = <<>> /\ active = None /\ closed = FALSE

Post(t) ==
  /\ ~Posted(t)
  /\ fifo' = Append(fifo, t)
  /\ UNCHANGED <<active, closed>>

Call ==
  /\ active = None
  /\ fifo # <<>>
  /\ active' = Head(fifo)
  /\ fifo' = Tail(fifo)
  /\ UNCHANGED closed

Return ==
  /\ active # None
  /\ active' = None
  /\ UNCHANGED <<fifo, closed>>

Cancel(i) ==
  /\ fifo' = Drop(fifo, i)
  /\ UNCHANGED <<active, closed>>

Close ==
  /\ closed' = TRUE
  /\ UNCHANGED <<fifo, active>>

Next ==
  \/ \E t \in Tasks : Post(t)
  \/ Call
  \/ Return
  \/ \E i \in 1..Len(fifo) : Cancel(i)
  \/ Close

Safety == Init /\ [][Next]_vars

\* A worker that nobody stops keeps calling what is posted.
Service == WF_vars(~closed /\ (Call \/ Return))

Spec == Safety /\ Service

=============================================================================
