---------------------------- MODULE ForecastLedger ----------------------------
(***************************************************************************)
(* What the feedback loop promises about forecasts: one is open from its   *)
(* registration until the first cycle it is due at, when it is settled     *)
(* together with every other one that is due.  A cycle whose resolution    *)
(* fails settles nothing, and a restart forgets what is open.              *)
(***************************************************************************)
EXTENDS Integers

CONSTANTS
  Ids,        \* forecast ids
  Distances   \* how many resolutions ahead a forecast may be due

VARIABLES
  clock,   \* resolutions since the process started
  open,    \* forecasts registered and not settled
  due      \* the clock each forecast is due at

vars == <<clock, open, due>>

Init ==
  /\ clock = 0
  /\ open = {}
  /\ due \in [Ids -> Int]

\* The forecasts F are registered, each the given distance ahead.
Register(F, distance) ==
  /\ F \intersect open = {}
  /\ open' = open \union F
  /\ due' = [id \in Ids |-> IF id \in F THEN clock + distance[id] ELSE due[id]]
  /\ UNCHANGED clock

\* What the next resolution finds due.
Mature == {id \in open : due[id] <= clock + 1}

Settle ==
  /\ clock' = clock + 1
  /\ open' = open \ Mature
  /\ UNCHANGED due

Postpone ==
  /\ clock' = clock + 1
  /\ UNCHANGED <<open, due>>

Restart ==
  /\ clock' = 0
  /\ open' = {}
  /\ UNCHANGED due

Next ==
  \/ \E F \in SUBSET Ids : \E distance \in [F -> Distances] : Register(F, distance)
  \/ Settle
  \/ Postpone
  \/ Restart

Spec == Init /\ [][Next]_vars
=============================================================================
