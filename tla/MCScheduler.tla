----------------------------- MODULE MCScheduler -----------------------------
(* Scheduler with no limit and with limits below, at and above one cycle.   *)
EXTENDS Scheduler

CONSTANT none    \* the model value standing for None

MCMaxCycles == {none, -1, 0, 1, 2, 3}
=============================================================================
