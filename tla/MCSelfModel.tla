------------------------------ MODULE MCSelfModel ------------------------------
(* Two sources: one reports two metrics with an ordinary, a slightly higher  *)
(* and an extreme value, the other one steady metric or nothing at all; as   *)
(* many ticks as fill the window and push a value out, and one restart.      *)
(* Longer windows are rehearsed.                                             *)
EXTENDS SelfModel, TLC

CONSTANTS a, b

MCBoth(v) == [load |-> v, heat |-> v]
MCReadings == (a :> {MCBoth(0), MCBoth(1), MCBoth(9)}) @@ (b :> {[m \in {} |-> 0]})
MCRehearsed == UNION {[1..n -> {0, 1, 9}] : n \in 3..8}
=============================================================================
