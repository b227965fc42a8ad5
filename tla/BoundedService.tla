---------------------------- MODULE BoundedService ----------------------------
(***************************************************************************)
(* What CycleScheduler promises its operator, without saying how the loop  *)
(* is written: a service that runs a job a limited number of times and can *)
(* be asked to stop.  A stop request lets at most one more run finish, and *)
(* the service never ends before it has run once.                          *)
(* core/daemon/scheduler.py is shown to implement it (module Scheduler).   *)
(***************************************************************************)
EXTENDS Integers

CONSTANT Unlimited    \* the value of limit when nothing bounds the runs

VARIABLES
  runs,       \* runs finished so far
  limit,      \* the number of runs that may still be reached, or Unlimited
  stopping,   \* a stop has been requested
  done        \* the service has ended

vars == <<runs, limit, stopping, done>>

\* limit lowered to at most n
Lowered(n) == IF limit = Unlimited \/ n < limit THEN n ELSE limit

Init ==
  /\ runs = 0
  /\ limit = Unlimited \/ limit \in Nat \ {0}
  /\ stopping = FALSE
  /\ done = FALSE

Run ==
  /\ ~done
  /\ limit = Unlimited \/ runs < limit
  /\ runs' = runs + 1
  /\ UNCHANGED <<limit, stopping, done>>

RequestStop ==
  /\ ~done
  /\ ~stopping
  /\ stopping' = TRUE
  /\ limit' = Lowered(runs + 1)
  /\ UNCHANGED <<runs, done>>

End ==
  /\ ~done
  /\ runs > 0
  /\ stopping \/ runs = limit
  /\ done' = TRUE
  /\ UNCHANGED <<runs, limit, stopping>>

Next == Run \/ RequestStop \/ End

Spec == Init /\ [][Next]_vars
=============================================================================
