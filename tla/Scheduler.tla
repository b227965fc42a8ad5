------------------------------- MODULE Scheduler -------------------------------
(***************************************************************************)
(* CycleScheduler (core/daemon/scheduler.py): the synchronous loop that    *)
(* runs one cycle after another until max_cycles is reached or a stop has  *)
(* been requested.  SIGINT and SIGTERM only set a flag (lines 64-69), so   *)
(* the environment's RequestStop interleaves with every step of the loop:  *)
(* during the startup delay, inside a cycle, between the test of the flag  *)
(* and the sleep, and during the sleep, which a handler that returns       *)
(* normally does not cut short.                                            *)
(*                                                                         *)
(* Durations are left out: a rest (lines 53-57) is one step, whatever      *)
(* tick_interval_s leaves to sleep, zero included.                         *)
(***************************************************************************)
EXTENDS Integers

CONSTANTS
  Unlimited,        \* max_cycles is None
  MaxCyclesValues,  \* the values max_cycles may be configured to
  CycleBound        \* cap: an unlimited daemon starts no cycle of this number
                    \* or a later one unless a stop has been requested

ASSUME SchedulerAssumption ==
  /\ Unlimited \notin Int
  /\ MaxCyclesValues \subseteq Int \union {Unlimited}
  /\ CycleBound \in Nat

VARIABLES
  max_cycles,       \* SchedulerConfig.max_cycles, fixed at start
  startup_delay,    \* SchedulerConfig.startup_delay_s > 0, fixed at start
  place,            \* where start() is
  next_number,      \* the number the next cycle is given
  completed_cycles, \* _completed_cycles
  stop,             \* _stop
  at_stop           \* history: _completed_cycles when the stop was requested

schedulerVars == <<max_cycles, startup_delay, place, next_number, completed_cycles, stop, at_stop>>
schedulerConfig == <<max_cycles, startup_delay>>

SchedulerPlaces == {"new", "delay", "loop", "cycle", "check", "rest", "stopped"}

SchedulerInit ==
  /\ max_cycles \in MaxCyclesValues
  /\ startup_delay \in BOOLEAN
  /\ place = "new"
  /\ next_number = 0
  /\ completed_cycles = 0
  /\ stop = FALSE
  /\ at_stop = 0

-----------------------------------------------------------------------------
(* The steps of start().                                                   *)

\* start() installs the handlers and may have a delay to sleep first.
Start ==
  /\ place = "new"
  /\ place' = IF startup_delay THEN "delay" ELSE "loop"
  /\ UNCHANGED <<schedulerConfig, next_number, completed_cycles, stop, at_stop>>

\* mistake: a stop during the delay ends the loop before its first cycle
EndDelayHeedingStop ==
  /\ place = "delay"
  /\ place' = IF stop THEN "stopped" ELSE "loop"
  /\ UNCHANGED <<schedulerConfig, next_number, completed_cycles, stop, at_stop>>

\* The delay ends; the flag is not looked at.
EndDelay ==
  /\ place = "delay"
  /\ place' = "loop"
  /\ UNCHANGED <<schedulerConfig, next_number, completed_cycles, stop, at_stop>>

EnterCycle ==
  /\ place = "loop"
  /\ max_cycles # Unlimited \/ stop \/ next_number < CycleBound
  /\ place' = "cycle"
  /\ UNCHANGED <<schedulerConfig, next_number, completed_cycles, stop, at_stop>>

\* runner.run returned (CycleRunner catches every Exception of its steps).
EndCycle ==
  /\ place = "cycle"
  /\ completed_cycles' = completed_cycles + 1
  /\ place' = "check"
  /\ UNCHANGED <<schedulerConfig, next_number, stop, at_stop>>

LimitReached == max_cycles # Unlimited /\ completed_cycles >= max_cycles

\* mistake: a stop is no reason to leave
LeaveLoopAtLimit ==
  /\ place = "check" /\ LimitReached
  /\ place' = "stopped"
  /\ UNCHANGED <<schedulerConfig, next_number, completed_cycles, stop, at_stop>>

LeaveLoop ==
  /\ place = "check"
  /\ LimitReached \/ stop
  /\ place' = "stopped"
  /\ UNCHANGED <<schedulerConfig, next_number, completed_cycles, stop, at_stop>>

\* mistake: the flag is not looked at
StayInLoopUnasked ==
  /\ place = "check" /\ ~LimitReached
  /\ place' = "rest"
  /\ UNCHANGED <<schedulerConfig, next_number, completed_cycles, stop, at_stop>>

StayInLoop ==
  /\ place = "check"
  /\ ~LimitReached
  /\ ~stop
  /\ place' = "rest"
  /\ UNCHANGED <<schedulerConfig, next_number, completed_cycles, stop, at_stop>>

\* Sleeps what is left of the interval, if anything, and numbers the next cycle.
Rest ==
  /\ place = "rest"
  /\ next_number' = next_number + 1
  /\ place' = "loop"
  /\ UNCHANGED <<schedulerConfig, completed_cycles, stop, at_stop>>

\* A signal, or a call of stop().
RequestStop ==
  /\ place # "stopped"
  /\ ~stop
  /\ stop' = TRUE
  /\ at_stop' = completed_cycles
  /\ UNCHANGED <<schedulerConfig, place, next_number, completed_cycles>>

Loop == Start \/ EndDelay \/ EnterCycle \/ EndCycle \/ LeaveLoop \/ StayInLoop \/ Rest

SchedulerNext == Loop \/ RequestStop

SchedulerSafety == SchedulerInit /\ [][SchedulerNext]_schedulerVars

\* The process keeps being scheduled, a cycle returns and a sleep ends; nobody
\* has to send a signal.
SchedulerSpec == SchedulerSafety /\ WF_schedulerVars(Loop)

-----------------------------------------------------------------------------
SchedulerTypeOK ==
  /\ max_cycles \in MaxCyclesValues
  /\ startup_delay \in BOOLEAN
  /\ place \in SchedulerPlaces
  /\ next_number \in Nat
  /\ completed_cycles \in Nat
  /\ stop \in BOOLEAN
  /\ at_stop \in Nat

\* The smallest number of cycles start() can end after: it tests the limit
\* only after a cycle.
EffectiveLimit ==
  IF max_cycles = Unlimited THEN Unlimited
  ELSE IF max_cycles < 1 THEN 1 ELSE max_cycles

(* The cycle number handed to the runner is the number of cycles run before *)
(* it, so exactly one cycle is number 0 (the one that scans the sources),   *)
(* and the N that line 59 prints counts the cycles 0..N-1, none cut short.  *)
NumbersInStep ==
  IF place \in {"check", "rest", "stopped"}
  THEN completed_cycles = next_number + 1
  ELSE completed_cycles = next_number

(* A stop requested at any moment lets at most one more cycle finish: the  *)
(* one in progress, or the one that starts because the request arrived     *)
(* during the startup delay or after the flag had been tested.             *)
AtMostOneMoreCycle == stop => completed_cycles <= at_stop + 1

(* A limited daemon never runs more cycles than its limit, or than the one *)
(* it always runs.                                                         *)
LimitRespected == EffectiveLimit # Unlimited => completed_cycles <= EffectiveLimit

(* Once a stop has been requested the scheduler ends, however many cycles  *)
(* were asked for; and with a limit it ends by itself.                     *)
Ends ==
  /\ stop ~> (place = "stopped")
  /\ (max_cycles # Unlimited) ~> (place = "stopped")

(* The loop implements the service its operator sees.                      *)
Service == INSTANCE BoundedService WITH
  runs <- completed_cycles,
  limit <- IF stop /\ (EffectiveLimit = Unlimited \/ at_stop + 1 < EffectiveLimit)
           THEN at_stop + 1 ELSE EffectiveLimit,
  stopping <- stop,
  done <- place = "stopped"

ImplementsService == Service!Spec
=============================================================================
