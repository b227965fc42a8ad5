---------------------------- MODULE MCFeedbackLoop ----------------------------
(* FeedbackLoop with one metric, as the daemon wires it, two horizons and   *)
(* one plan thread.  A forecast predicts 0 and is either missed by a whole  *)
(* unit or (with nothing observed) scored as exact.                         *)
EXTENDS FeedbackLoop, TLC

CONSTANTS health, short, medium, t1

MCDistance == (short :> 1) @@ (medium :> 2)
MCPredicted == {0}
MCObserved == {Unit}
MCConfidences == {Unit}
=============================================================================
