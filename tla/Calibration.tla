------------------------------ MODULE Calibration ------------------------------
(***************************************************************************)
(* CalibrationStore (core/planner/calibration.py): running mean absolute   *)
(* error and signed bias per field and horizon, rewritten as a whole to    *)
(* calibration.json after every sample.                                    *)
(*                                                                         *)
(* The store rounds both means to six decimals after every sample, so      *)
(* they are integers in units of 10^-6: Unit stands for 1.0 (10^6 in the   *)
(* code) and the division below rounds the way round() does.               *)
(***************************************************************************)
EXTENDS FixedPoint

CONSTANTS
  Fields,      \* metric names
  Horizons,    \* forecast horizons
  Unit,        \* the fixed-point representation of 1.0
  Predicted,   \* metric values a forecast may predict
  Observed,    \* metric values that may be observed
  MaxSamples   \* cap on the samples of one record in a behaviour of the store alone

ASSUME CalibrationAssumption ==
  /\ Unit \in Nat \ {0}
  /\ Predicted \subseteq 0..Unit
  /\ Observed \subseteq 0..Unit
  /\ MaxSamples \in Nat

VARIABLES
  records,      \* _records; a key without a record has sample_count 0
  record_file,  \* calibration.json
  records_lag   \* history: the last write of the file failed

calibrationVars == <<records, record_file, records_lag>>

Keys == Fields \X Horizons

\* total is history: the exact sum of the magnitudes of the errors.
NoSamples == [mae |-> 0, bias |-> 0, sample_count |-> 0, total |-> 0]

CalibrationInit ==
  /\ records = [k \in Keys |-> NoSamples]
  /\ record_file = records
  /\ records_lag = FALSE

\* mistake: the old mean weighs as one sample
WithSampleUnweighted(rec, predicted, actual) ==
  LET size == Magnitude(predicted - actual)
  IN  [mae |-> RoundedDiv(rec.mae + size, 2), bias |-> 0,
       sample_count |-> rec.sample_count + 1, total |-> rec.total + size]

\* The record after one more prediction-actual pair.
WithSample(rec, predicted, actual) ==
  LET n == rec.sample_count
      error == predicted - actual
  IN  [mae |-> RoundedDiv(rec.mae * n + Magnitude(error), n + 1),
       bias |-> RoundedDiv(rec.bias * n + error, n + 1),
       sample_count |-> n + 1,
       total |-> rec.total + Magnitude(error)]

\* mistake: the file is opened for writing, and emptied, before the dump fails
PersistInPlace(written) ==
  /\ record_file' = IF written THEN records' ELSE [k \in Keys |-> NoSamples]
  /\ records_lag' = ~written

\* _persist: every record is written to a temporary file that replaces the
\* old one; the write fails before the replacement or not at all.
PersistRecords(written) ==
  /\ record_file' = IF written THEN records' ELSE record_file
  /\ records_lag' = ~written

\* update: the record changes in memory first; a failed write raises.
UpdateRecord(f, h, predicted, actual, written) ==
  /\ records' = [records EXCEPT ![<<f, h>>] = WithSample(@, predicted, actual)]
  /\ PersistRecords(written)

\* load, in the constructor of a new process.
LoadRecords ==
  /\ records' = record_file
  /\ records_lag' = FALSE
  /\ UNCHANGED record_file

HasRecord(f, h) == records[<<f, h>>].sample_count > 0

-----------------------------------------------------------------------------
(* The store on its own: samples, failed writes and restarts in any order. *)

CalibrationNext ==
  \/ \E f \in Fields, h \in Horizons, p \in Predicted, a \in Observed, written \in BOOLEAN :
       /\ records[<<f, h>>].sample_count < MaxSamples
       /\ UpdateRecord(f, h, p, a, written)
  \/ LoadRecords

CalibrationSpec == CalibrationInit /\ [][CalibrationNext]_calibrationVars

Record == [mae: Nat, bias: Int, sample_count: Nat, total: Nat]

CalibrationTypeOK ==
  /\ records \in [Keys -> Record]
  /\ record_file \in [Keys -> Record]
  /\ records_lag \in BOOLEAN

(* Errors are fractions of 1, so their mean is one too; and a mean of      *)
(* signed errors is no larger than the mean of their magnitudes.  Rounding *)
(* after every sample must not break either.                               *)
ErrorsBounded ==
  \A k \in Keys : /\ records[k].mae \in 0..Unit
                  /\ Magnitude(records[k].bias) <= records[k].mae

(* A mean is rounded again at every sample, so the stored one drifts from  *)
(* the exact one; after n samples by less than (n + 1) / 4 units.          *)
DriftBounded ==
  \A k \in Keys :
    LET rec == records[k]
        n == rec.sample_count
    IN  4 * Magnitude(rec.mae * n - rec.total) <= n * (n + 1)

(* The file never holds a sample that memory does not.                     *)
FileNeverAhead ==
  \A k \in Keys : record_file[k].sample_count <= records[k].sample_count

(* No step, a restart included, takes a sample back from the file.         *)
SamplesAreKept ==
  [][\A k \in Keys : record_file'[k].sample_count >= record_file[k].sample_count]_calibrationVars
=============================================================================
