------------------------------- MODULE Timers -------------------------------
(***************************************************************************)
(* The timers of a worker: wrk_timer, on_timer and timer_suspend of         *)
(* core/worker.h with the kernel timer of util/kq-timer.h.                  *)
(*                                                                          *)
(* One kernel timer ticks for all timers of a worker; it is started when a  *)
(* timer is set and stopped, by a timer of the worker's own (tmr_stop),     *)
(* when there has been none for a while.  The worker's idea of the time,    *)
(* now_msec, is the time of the last tick.  The timer queue (ffsys) is      *)
(* external: modelled as a function from timers to the time they are due.   *)
(***************************************************************************)
EXTENDS Integers

CONSTANTS Timers,     \* phi_timer objects
          Delays,     \* interval_msec without its sign
          Tick,       \* conf.timer_interval_msec
          Linger,     \* 10000: how long the kernel timer outlives the last timer
          MaxTime     \* bound: the time a behaviour lasts

TimersAssumptions ==
  /\ Delays \subseteq Nat \ {0}
  /\ Tick \in Nat \ {0} /\ Linger \in Nat /\ MaxTime \in Nat

VARIABLES
  clock,    \* the monotonic clock
  now,      \* worker.now_msec
  active,   \* kq_timer.kev.rtask.active: the kernel timer counts as started
  ktimer,   \* the kernel timer is really running
  tick,     \* when it ticks next
  due,      \* timerq: when each timer is due; Off if it is not in the queue
  stopdue,  \* the same for tmr_stop
  every,    \* the interval of a periodic timer; 0 for a one shot
  set,      \* history: when the timer was set, or when it last fired
  wait,     \* history: the delay it was set with
  tpc,      \* "idle", "process": in fftimerqueue_process, "handler"
  fired,    \* on_timer: n
  early,    \* history: timers whose handler was called too early
  broken    \* history: the kernel timer could not be started once

queue == <<due, stopdue, every>>
hist == <<set, wait, early, broken>>
timerVars == <<clock, now, active, ktimer, tick, due, stopdue, every, set, wait, tpc, fired,
          early, broken>>

Off == -1

\* wrk_create calls on_timer() once: now is the time the worker was created.
TimersInit ==
  /\ clock = 0 /\ now = 0 /\ active = FALSE /\ ktimer = FALSE /\ tick = 0
  /\ due = [t \in Timers |-> Off] /\ stopdue = Off
  /\ every = [t \in Timers |-> 0]
  /\ set = [t \in Timers |-> 0] /\ wait = [t \in Timers |-> 0]
  /\ tpc = "idle" /\ fired = FALSE /\ early = {} /\ broken = FALSE

\* timerq.tree.len is 0
Empty(d, s) == s = Off /\ \A t \in Timers : d[t] = Off

\* Time goes on, but not past a tick the worker has to handle.
Advance ==
  /\ tpc = "idle" /\ clock < MaxTime
  /\ ~(ktimer /\ clock >= tick)
  /\ clock' = clock + 1
  /\ UNCHANGED <<now, active, ktimer, tick, queue, hist, tpc, fired>>

MayCall == tpc \in {"idle", "handler"}

\* wrk_timer with an interval: the kernel timer is kept, or started.
Start(t, d, periodic) ==
  /\ MayCall
  /\ stopdue' = Off
  /\ active' = TRUE
  /\ ktimer' = (active => ktimer)
  /\ tick' = IF active THEN tick ELSE clock + Tick
  /\ due' = [due EXCEPT ![t] = now + d]
  /\ every' = [every EXCEPT ![t] = IF periodic THEN d ELSE 0]
  /\ set' = [set EXCEPT ![t] = clock] /\ wait' = [wait EXCEPT ![t] = d]
  /\ UNCHANGED <<clock, now, tpc, fired, early, broken>>

\* Starting the kernel timer fails: the timer is not added, and the flag that
\* zzkq_timer_start has set already stays set.
StartFails(t) ==
  /\ MayCall /\ ~active
  /\ stopdue' = Off /\ active' = TRUE /\ broken' = TRUE
  /\ UNCHANGED <<clock, now, ktimer, tick, due, every, set, wait, tpc, fired, early>>

\* wrk_timer with interval 0: when no timer is left, the stop of the kernel
\* timer is prepared.
Stop(t) ==
  LET d == [due EXCEPT ![t] = Off]
  IN /\ MayCall
     /\ due' = d
     /\ stopdue' = IF Empty(d, stopdue) THEN now + Linger ELSE stopdue
     /\ UNCHANGED <<clock, now, active, ktimer, tick, every, hist, tpc, fired>>

\* on_timer: the time is read and the due timers are called ...
OnTimer ==
  /\ tpc = "idle" /\ ktimer /\ clock >= tick
  /\ now' = clock /\ tick' = clock + Tick
  /\ tpc' = "process" /\ fired' = FALSE
  /\ UNCHANGED <<clock, active, ktimer, queue, hist>>

Due(time) == time # Off /\ time <= now

\* A timer is due and none is due before it.
IsFirst(time) ==
  /\ Due(time)
  /\ \A t \in Timers : due[t] # Off => time <= due[t]
  /\ stopdue # Off => time <= stopdue

\* ... one by one; a periodic one is put back before its handler is called.
Fire(t) ==
  /\ tpc = "process" /\ IsFirst(due[t])
  /\ due' = [due EXCEPT ![t] = IF every[t] > 0 THEN now + every[t] ELSE Off]
  /\ fired' = TRUE /\ tpc' = "handler"
  /\ early' = IF clock + Tick < set[t] + wait[t] THEN early \union {t} ELSE early
  /\ set' = [set EXCEPT ![t] = clock]
  /\ UNCHANGED <<clock, now, active, ktimer, tick, stopdue, every, wait, broken>>

HandlerReturns ==
  /\ tpc = "handler" /\ tpc' = "process"
  /\ UNCHANGED <<clock, now, active, ktimer, tick, queue, hist, fired>>

\* timer_suspend, the handler of tmr_stop
Suspend ==
  /\ tpc = "process" /\ IsFirst(stopdue)
  /\ stopdue' = Off /\ active' = FALSE /\ ktimer' = FALSE /\ fired' = TRUE
  /\ UNCHANGED <<clock, now, tick, due, every, hist, tpc>>

\* Mutant: the kernel timer is stopped at once, also if a handler has set a
\* timer.
ProcessEndsStopped ==
  /\ tpc = "process" /\ ~Due(stopdue) /\ \A t \in Timers : ~Due(due[t])
  /\ ktimer' = (ktimer /\ ~fired) /\ active' = (active /\ ~fired)
  /\ tpc' = "idle"
  /\ UNCHANGED <<clock, now, tick, queue, hist, fired>>

\* on_timer: no timer is due any more; if some timer was called and none is
\* left, the stop is prepared.
ProcessEnds ==
  /\ tpc = "process" /\ ~Due(stopdue) /\ \A t \in Timers : ~Due(due[t])
  /\ stopdue' = IF fired /\ Empty(due, stopdue) THEN now + Linger ELSE stopdue
  /\ tpc' = "idle"
  /\ UNCHANGED <<clock, now, active, ktimer, tick, due, every, hist, fired>>

TimersFinished == tpc = "idle" /\ clock = MaxTime /\ UNCHANGED timerVars

TimersNext ==
  \/ Advance \/ OnTimer \/ HandlerReturns \/ Suspend \/ ProcessEnds \/ TimersFinished
  \/ \E t \in Timers :
       \/ Stop(t) \/ Fire(t) \/ StartFails(t)
       \/ \E d \in Delays, periodic \in BOOLEAN : Start(t, d, periodic)

TimersSpec == TimersInit /\ [][TimersNext]_timerVars

-----------------------------------------------------------------------------
(* Properties.                                                             *)

Times == {Off} \union Nat

TimersTypeOK ==
  /\ clock \in 0..MaxTime /\ now \in 0..MaxTime /\ active \in BOOLEAN /\ ktimer \in BOOLEAN
  /\ tick \in Nat /\ due \in [Timers -> Times] /\ stopdue \in Times
  /\ every \in [Timers -> {0} \union Delays]
  /\ set \in [Timers -> Nat] /\ wait \in [Timers -> {0} \union Delays]
  /\ tpc \in {"idle", "process", "handler"} /\ fired \in BOOLEAN
  /\ early \in SUBSET Timers /\ broken \in BOOLEAN

\* The kernel timer is never stopped while somebody waits for a timer,
\* whatever the handlers start and stop during the tick that stops it, if it
\* could be started whenever it had to be.
TicksWhileNeeded == ~broken /\ (\E t \in Timers : due[t] # Off) => ktimer

\* The same after the kernel timer could not be started (zzkq_timer_start):
\* a timer that was set is waited for.
TicksAfterFailure == broken /\ (\E t \in Timers : due[t] # Off) => ktimer

\* A timer is called at the first tick after it is due, never later.
NeverLate ==
  tpc = "idle" /\ ~broken =>
    \A t \in Timers : due[t] # Off => clock <= set[t] + wait[t] + Tick

\* The worker's own timer is not in the queue together with others: it would
\* stop the kernel timer under them.
StopOnlyWhenAlone == stopdue # Off => \A t \in Timers : due[t] = Off

\* A timer is not called before its interval has passed, give or take the
\* resolution of one tick.
NeverEarly == \A t \in Timers : t \notin early

\* wrk_timer, on_timer and timer_suspend: the kernel timer runs while a timer
\* waits, a timer is called at the first tick after it is due, and tmr_stop,
\* which stops the kernel timer, is never queued with other timers.
TimersServed == TicksWhileNeeded /\ NeverLate /\ StopOnlyWhenAlone

=============================================================================
