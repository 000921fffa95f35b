------------------------------ MODULE VTimers ------------------------------
(***************************************************************************)
(* The virtual timers of the simulation (EcoDrive/platform/host/           *)
(* platform.cpp).  The tick thread advances the simulated time by slices   *)
(* of 1 ms, each in steps of the least period it knows, and calls the      *)
(* timers that are due; the main thread registers and re-configures        *)
(* timers while it runs, without a lock.                                   *)
(*                                                                         *)
(* The main thread's stores are separate actions, in program order.  The   *)
(* tick thread looks at one timer in one action: it passes over a timer    *)
(* without a callback, the callback is stored last and never taken away,   *)
(* and the period is read once.  What a callback does is left to the       *)
(* module that composes this one: it runs while at = "callback".           *)
(***************************************************************************)
EXTENDS Integers

CONSTANTS
  MaxTimers,            \* HOST_TIMERS
  Periods,              \* periods the main thread asks for
  Slice,                \* tick_thread's sleep_ns, and the first least period
  Now,                  \* now_ns() when a timer is registered
  Word,                 \* times are unsigned, modulo Word
  MaxTime,              \* bound: simulated time
  MaxCalls,             \* bound: calls of the main thread
  None                  \* no time

ASSUME VTimersAssumption ==
  /\ MaxTimers \in Nat \ {0} /\ Slice \in Nat \ {0} /\ MaxTime \in Nat
  /\ Periods \subseteq 1..Slice /\ MaxCalls \in Nat
  /\ Word \in Nat /\ 2 * Slice < Word
  /\ Now \in MaxTime + 1 .. Word - Slice - 1
  /\ None \notin Int

Ids == 0..MaxTimers - 1

VARIABLES
  index,                \* timer_index
  period, last,         \* periodic_time_ns and last_time_ns of each timer
  callback,             \* the timers whose cb is set
  minStep,              \* min_timestep_ns
  time,                 \* sim.time_ns
  main,                 \* where the main thread stands, and in which call
  calls,                \* history: calls made
  at, dt, left, scan,   \* where the tick thread stands; dt_ns, steps, t_idx
  steady,               \* history: timers unchanged since the slice began
  fired,                \* history: when each was last called while steady
  paced                 \* history: timers called since the step last changed

table  == <<index, period, last, callback, minStep>>
tick   == <<time, at, dt, left, scan>>
timers == <<table, tick, main, calls, steady, fired, paced>>

Idle == [at |-> "idle", id |-> 0, period |-> 0]

TimersInit ==
  /\ index = 0 /\ callback = {}
  /\ period = [t \in Ids |-> 0] /\ last = [t \in Ids |-> 0]
  /\ minStep = Slice
  /\ main = Idle /\ calls = 0
  /\ time = 0 /\ at = "sleep" /\ dt = Slice /\ left = 0 /\ scan = 0
  /\ steady = Ids /\ fired = [t \in Ids |-> None] /\ paced = {}

-----------------------------------------------------------------------------
(* Main thread. *)

(* register_timer takes the next slot: timers[mgr->timer_index++]. *)
Register(p) ==
  /\ main = Idle /\ calls < MaxCalls
  /\ index < MaxTimers
  /\ index' = index + 1
  /\ main' = [at |-> "fields", id |-> index, period |-> p]
  /\ calls' = calls + 1
  /\ UNCHANGED <<period, last, callback, minStep, tick, steady, fired,
                 paced>>

(* Its period and the time of now. *)
RegisterFields ==
  /\ main.at = "fields"
  /\ period' = [period EXCEPT ![main.id] = main.period]
  /\ last' = [last EXCEPT ![main.id] = Now]
  /\ main' = [main EXCEPT !.at = "callback"]
  /\ UNCHANGED <<index, callback, minStep, tick, calls, steady, fired, paced>>

(* t->cb = cb. *)
RegisterCallback ==
  /\ main.at = "callback"
  /\ callback' = callback \union {main.id}
  /\ main' = [main EXCEPT !.at = "step"]
  /\ steady' = steady \ {main.id}
  /\ fired' = [fired EXCEPT ![main.id] = None]
  /\ UNCHANGED <<index, period, last, minStep, tick, calls, paced>>

(* configure_timer_timestep.  The slot behind the last timer is accepted   *)
(* too: configPwm, called before init, configures timer 0 of none.         *)
Configure(t, p) ==
  /\ main = Idle /\ calls < MaxCalls
  /\ t <= index
  /\ period' = [period EXCEPT ![t] = p]
  /\ main' = [at |-> "step", id |-> t, period |-> p]
  /\ calls' = calls + 1
  /\ steady' = steady \ {t}
  /\ fired' = [fired EXCEPT ![t] = None]
  /\ UNCHANGED <<index, last, callback, minStep, tick, paced>>

(* Faulty variant: the comparison is the other way round. *)
RaiseStep ==
  /\ main.at = "step"
  /\ minStep' = IF main.period > minStep THEN main.period ELSE minStep
  /\ main' = Idle
  /\ UNCHANGED <<index, period, last, callback, tick, calls, steady, fired,
                 paced>>

(* Both end by lowering the least period; nothing ever raises it. *)
LowerStep ==
  /\ main.at = "step"
  /\ minStep' = IF main.period < minStep THEN main.period ELSE minStep
  /\ main' = Idle
  /\ UNCHANGED <<index, period, last, callback, tick, calls, steady, fired,
                 paced>>

-----------------------------------------------------------------------------
(* Tick thread. *)

(* tick: the step is read once for the whole slice. *)
BeginSlice ==
  /\ at = "sleep"
  /\ time + Slice <= MaxTime
  /\ dt' = minStep /\ left' = Slice \div minStep
  /\ at' = "step"
  /\ steady' = IF main.at = "step" THEN Ids \ {main.id} ELSE Ids
  /\ paced' = IF minStep = dt THEN paced ELSE {}
  /\ UNCHANGED <<table, time, scan, main, calls, fired>>

(* The time advances, and the timers are looked at from the first. *)
Step ==
  /\ at = "step" /\ left > 0
  /\ time' = time + dt /\ left' = left - 1 /\ scan' = 0
  /\ at' = "scan"
  /\ UNCHANGED <<table, dt, main, calls, steady, fired, paced>>

EndSlice ==
  /\ at = "step" /\ left = 0
  /\ at' = "sleep"
  /\ UNCHANGED <<table, time, dt, left, scan, main, calls, steady, fired,
                 paced>>

(* Faulty variant: signed times. *)
DueSigned(t) == time - last[t] >= period[t]

(* sim.time_ns - t->last_time_ns >= t->periodic_time_ns, unsigned.  For a  *)
(* timer that was never called last is the monotonic clock, far ahead of   *)
(* the simulated time: the difference wraps around and the timer is due.   *)
Due(t) == (time - last[t]) % Word >= period[t]

(* A timer that is not due, or has no callback yet. *)
Skip ==
  /\ at = "scan" /\ scan < index
  /\ ~(scan \in callback /\ Due(scan))
  /\ scan' = scan + 1
  /\ UNCHANGED <<table, time, at, dt, left, main, calls, steady, fired, paced>>

(* t->last_time_ns = sim.time_ns, and the call. *)
Fire ==
  /\ at = "scan" /\ scan < index
  /\ scan \in callback /\ Due(scan)
  /\ last' = [last EXCEPT ![scan] = time]
  /\ fired' = [fired EXCEPT ![scan] = IF scan \in steady THEN time ELSE None]
  /\ paced' = paced \union {scan}
  /\ at' = "callback"
  /\ UNCHANGED <<index, period, callback, minStep, time, dt, left, scan,
                 main, calls, steady>>

(* The callback returns. *)
Return ==
  /\ at = "callback"
  /\ scan' = scan + 1 /\ at' = "scan"
  /\ UNCHANGED <<table, time, dt, left, main, calls, steady, fired, paced>>

EndScan ==
  /\ at = "scan" /\ scan >= index
  /\ at' = "step"
  /\ UNCHANGED <<table, time, dt, left, scan, main, calls, steady, fired,
                 paced>>

MainNext == (\E p \in Periods : Register(p) \/ Configure(0, p))
            \/ RegisterFields \/ RegisterCallback \/ LowerStep
TickNext == BeginSlice \/ Step \/ EndSlice \/ Skip \/ EndScan

(* The first step of simulated time at which the period of a timer is      *)
(* over, counted from a step at which it was called.                       *)
Interval(t) == ((period[t] + dt - 1) \div dt) * dt

PeriodApart ==
  \A t \in Ids :
    fired[t] # None /\ fired'[t] # fired[t] /\ fired'[t] # None =>
      LET apart == fired'[t] - fired[t] IN
      /\ period[t] <= apart /\ apart < period[t] + dt /\ apart < 2 * period[t]
      /\ t \in paced => apart = Interval(t)

(* A timer is called when its period is over, and at the first step of the *)
(* simulated time at which it is: of two calls, with no change to the      *)
(* timer since before the slice of the first, the second is at least a     *)
(* period and less than a period and a step behind the first, and less     *)
(* than two periods, because the step is lowered to every period asked     *)
(* for, though the main thread changes other timers meanwhile.  While the  *)
(* step stays the same the calls are evenly spaced, at the period rounded  *)
(* up to whole steps: tick sets last_time_ns to the time of the call, so   *)
(* what a call comes late is not made up for.                              *)
KeepsRate == [][PeriodApart]_timers

(* No timer is forgotten: at the end of a slice, every timer whose         *)
(* registration or change was complete when the slice began has been       *)
(* called, if its period is not longer than the steps of the slice, and    *)
(* its next call is not overdue.  In particular the first call comes       *)
(* although last is far ahead of the simulated time.                       *)
EveryTimerIsCalled ==
  at = "sleep" =>
    \A t \in callback \intersect steady :
      /\ period[t] <= (Slice \div dt) * dt => fired[t] # None
      /\ fired[t] # None => time - fired[t] < period[t]
=============================================================================
