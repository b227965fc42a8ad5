----------------------------- MODULE MCCalibration -----------------------------
(* One record in sixths: four samples of every size of error. *)
EXTENDS Calibration

CONSTANTS health, short

MCPredicted == {0, 3, Unit}
MCObserved == 0..Unit
=============================================================================
