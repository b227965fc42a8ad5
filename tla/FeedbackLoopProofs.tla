-------------------------- MODULE FeedbackLoopProofs --------------------------
(***************************************************************************)
(* Theorems of Calibration, for any unit, any fields and any values, and   *)
(* of FeedbackLoop, for any fields, horizons, distances, threads and       *)
(* values, and with any number of failures and restarts.                   *)
(***************************************************************************)
EXTENDS FeedbackLoop, ArithmeticProofs

(***************************************************************************)
(*                             Calibration                                 *)
(***************************************************************************)
-----------------------------------------------------------------------------
(* One sample.                                                             *)

(* What ErrorsBounded and DriftBounded say of one record.                  *)
Sound(rec) ==
  /\ rec \in Record
  /\ rec.mae \in 0..Unit
  /\ Magnitude(rec.bias) <= rec.mae
  /\ 4 * Magnitude(rec.mae * rec.sample_count - rec.total)
       <= rec.sample_count * (rec.sample_count + 1)

\* A record stays sound: its mean absolute error stays in the unit interval
\* by order and exactness of rounding, the bias below it by order and
\* symmetry, and the drift grows by half a unit at most.
LEMMA SampleKeepsSound ==
  ASSUME NEW rec, Sound(rec), NEW predicted \in 0..Unit, NEW observed \in 0..Unit
  PROVE  /\ Sound(WithSample(rec, predicted, observed))
         /\ WithSample(rec, predicted, observed).sample_count = rec.sample_count + 1
<1> DEFINE n == rec.sample_count
<1> DEFINE e == predicted - observed
<1> DEFINE x == rec.mae * n + Magnitude(e)
<1> DEFINE y == rec.bias * n + e
<1> DEFINE mae == RoundedDiv(x, n + 1)
<1> DEFINE bias == RoundedDiv(y, n + 1)
<1> DEFINE new == WithSample(rec, predicted, observed)
<1>1. /\ Unit \in Nat /\ n \in Nat /\ n + 1 \in Nat \ {0}
      /\ rec.mae \in Int /\ rec.bias \in Int /\ rec.total \in Nat
      /\ 0 <= rec.mae /\ rec.mae <= Unit
      /\ -rec.mae <= rec.bias /\ rec.bias <= rec.mae
  BY CalibrationAssumption DEF Sound, Record, Magnitude
<1>2. /\ e \in Int /\ Magnitude(e) \in Nat /\ Magnitude(e) <= Unit
      /\ -Magnitude(e) <= e /\ e <= Magnitude(e)
  BY <1>1 DEF Magnitude
<1>3. new = [mae |-> mae, bias |-> bias, sample_count |-> n + 1,
             total |-> rec.total + Magnitude(e)]
  BY DEF WithSample
<1>4. x \in Int /\ y \in Int
  BY <1>1, <1>2
<1>5. mae \in Int /\ bias \in Int
  BY <1>1, <1>4, RoundingError
<1>6. mae \in 0..Unit
  <2>1. 0 <= x
    <3>1. rec.mae * n \in Nat
      BY <1>1
    <3> QED
      BY <1>1, <1>2, <3>1
  <2>2. x <= (n + 1) * Unit
    <3>1. rec.mae * n <= Unit * n
      BY <1>1
    <3>2. (n + 1) * Unit = Unit * n + Unit
      BY <1>1
    <3> QED
      BY <1>1, <1>2, <3>1, <3>2
  <2>3. (n + 1) * 0 = 0
    BY <1>1
  <2> HIDE DEF x, n
  <2>4. 0 <= RoundedDiv(x, n + 1) /\ RoundedDiv(x, n + 1) <= Unit
    BY <1>1, <1>4, <2>1, <2>2, <2>3, RoundingBounds
  <2> QED
    BY <1>1, <1>5, <2>4
<1>7. Magnitude(bias) <= mae
  <2>1. y <= x /\ -x <= y
    <3>1. rec.bias * n <= rec.mae * n /\ -(rec.mae * n) <= rec.bias * n
      BY <1>1
    <3> QED
      BY <1>1, <1>2, <3>1
  <2>2. bias <= mae
    BY <1>1, <1>4, <2>1, RoundingMonotone
  <2>3. -mae <= bias
    <3>1. RoundedDiv(-x, n + 1) <= bias
      <4>1. -x \in Int
        BY <1>4
      <4> QED
        BY <1>1, <1>4, <2>1, <4>1, RoundingMonotone
    <3>2. RoundedDiv(-x, n + 1) = -mae
      BY <1>1, <1>4, RoundingSymmetric
    <3> QED
      BY <3>1, <3>2
  <2> QED
    BY <1>5, <2>2, <2>3 DEF Magnitude
<1>8. 4 * Magnitude(mae * (n + 1) - (rec.total + Magnitude(e))) <= (n + 1) * (n + 2)
  <2> DEFINE old == rec.mae * n - rec.total
  <2> DEFINE step == (n + 1) * mae - x
  <2>1. old \in Int /\ 4 * old <= n * (n + 1) /\ -(n * (n + 1)) <= 4 * old
    <3>1. old \in Int /\ n * (n + 1) \in Nat
      BY <1>1
    <3>2. 4 * Magnitude(old) <= n * (n + 1)
      BY DEF Sound
    <3> HIDE DEF old
    <3> QED
      BY <3>1, <3>2 DEF Magnitude
  <2>2. step \in Int /\ 2 * step <= n + 1 /\ -(n + 1) <= 2 * step
    <3> DEFINE d == n + 1
    <3>1. d \in Nat \ {0}
      BY <1>1
    <3> HIDE DEF x, d
    <3>2. /\ d * RoundedDiv(x, d) - x \in Int
          /\ 2 * (d * RoundedDiv(x, d) - x) <= d
          /\ -d <= 2 * (d * RoundedDiv(x, d) - x)
      BY <1>4, <3>1, RoundingError
    <3> QED
      BY <3>2 DEF d
  <2>3. mae * (n + 1) - (rec.total + Magnitude(e)) = step + old
    BY <1>1, <1>2, <1>5
  <2>4. (n + 1) * (n + 2) = n * (n + 1) + 2 * (n + 1) /\ n * (n + 1) \in Nat
    BY <1>1
  <2> HIDE DEF old, step
  <2>5. /\ 4 * (step + old) <= n * (n + 1) + 2 * (n + 1)
        /\ -(n * (n + 1) + 2 * (n + 1)) <= 4 * (step + old)
    BY <1>1, <2>1, <2>2, <2>4
  <2>6. 4 * Magnitude(step + old) <= n * (n + 1) + 2 * (n + 1)
    <3> DEFINE z == step + old
    <3> DEFINE c == n * (n + 1) + 2 * (n + 1)
    <3>1. z \in Int /\ c \in Int
      BY <1>1, <2>1, <2>2, <2>4
    <3> HIDE DEF z, c
    <3>2. 4 * z <= c /\ -c <= 4 * z
      BY <2>5 DEF z, c
    <3>3. 4 * Magnitude(z) <= c
      BY <3>1, <3>2 DEF Magnitude
    <3> QED
      BY <3>3 DEF z, c
  <2> QED
    BY <2>3, <2>4, <2>6
<1>9. new \in Record
  BY <1>1, <1>2, <1>3, <1>5, <1>6 DEF Record
<1>10. (n + 1) * (n + 2) = new.sample_count * (new.sample_count + 1)
  BY <1>1, <1>3
<1> QED
  BY <1>3, <1>6, <1>7, <1>8, <1>9, <1>10 DEF Sound

-----------------------------------------------------------------------------
(* The store.                                                              *)

(* The inductive invariant: every record is sound, in memory and in the    *)
(* file, from which a restart takes it back; and the file is not ahead.    *)
StoreIInv ==
  /\ records \in [Keys -> Record]
  /\ record_file \in [Keys -> Record]
  /\ records_lag \in BOOLEAN
  /\ \A k \in Keys : Sound(records[k]) /\ Sound(record_file[k])
  /\ FileNeverAhead

LEMMA InitStoreIInv == CalibrationInit => StoreIInv
<1> SUFFICES ASSUME CalibrationInit PROVE StoreIInv
  OBVIOUS
<1>1. NoSamples \in Record /\ Sound(NoSamples)
  BY CalibrationAssumption DEF NoSamples, Record, Sound, Magnitude
<1>2. NoSamples.sample_count <= NoSamples.sample_count
  BY DEF NoSamples
<1> QED
  BY <1>1, <1>2 DEF CalibrationInit, StoreIInv, FileNeverAhead

\* One sample, with or without a write that succeeds.
LEMMA UpdateKeepsStoreIInv ==
  ASSUME StoreIInv, NEW f \in Fields, NEW h \in Horizons,
         NEW predicted \in 0..Unit, NEW observed \in 0..Unit, NEW written \in BOOLEAN,
         UpdateRecord(f, h, predicted, observed, written)
  PROVE  /\ StoreIInv'
         /\ \A k \in Keys : record_file'[k].sample_count >= record_file[k].sample_count
<1> DEFINE key == <<f, h>>
<1> DEFINE new == WithSample(records[key], predicted, observed)
<1>1. key \in Keys
  BY DEF Keys
<1>2. Sound(new) /\ new.sample_count = records[key].sample_count + 1
  BY <1>1, SampleKeepsSound DEF StoreIInv
<1>3. records' = [records EXCEPT ![key] = new]
  BY DEF UpdateRecord
<1> HIDE DEF new, key
<1>4. \A k \in Keys : /\ records'[k] = IF k = key THEN new ELSE records[k]
                      /\ Sound(records'[k])
                      /\ records[k].sample_count \in Nat
                      /\ record_file[k].sample_count \in Nat
                      /\ records'[k].sample_count \in Nat
                      /\ records'[k].sample_count >= records[k].sample_count
  BY <1>1, <1>2, <1>3 DEF StoreIInv, Sound, Record
<1>5. records' \in [Keys -> Record]
  BY <1>1, <1>2, <1>3 DEF StoreIInv, Sound
<1>6. CASE written
  <2>1. record_file' = records' /\ records_lag' \in BOOLEAN
    BY <1>6 DEF UpdateRecord, PersistRecords
  <2> QED
    BY <1>4, <1>5, <2>1 DEF StoreIInv, FileNeverAhead
<1>7. CASE ~written
  <2>1. record_file' = record_file /\ records_lag' \in BOOLEAN
    BY <1>7 DEF UpdateRecord, PersistRecords
  <2> QED
    BY <1>4, <1>5, <2>1 DEF StoreIInv, FileNeverAhead
<1> QED
  BY <1>6, <1>7

\* A restart.
LEMMA LoadKeepsStoreIInv ==
  ASSUME StoreIInv, LoadRecords
  PROVE  /\ StoreIInv'
         /\ \A k \in Keys : record_file'[k].sample_count >= record_file[k].sample_count
<1>1. \A k \in Keys : record_file[k].sample_count \in Nat
  BY DEF StoreIInv, Record
<1>2. records' = record_file /\ record_file' = record_file /\ records_lag' \in BOOLEAN
  BY DEF LoadRecords
<1>3. \A k \in Keys : Sound(records'[k]) /\ Sound(record_file'[k])
  BY <1>2 DEF StoreIInv
<1>4. \A k \in Keys : record_file'[k].sample_count <= records'[k].sample_count
  BY <1>1, <1>2
<1> QED
  BY <1>1, <1>2, <1>3, <1>4 DEF StoreIInv, FileNeverAhead, Sound

LEMMA StepStoreIInv ==
  ASSUME StoreIInv, [CalibrationNext]_calibrationVars
  PROVE  /\ StoreIInv'
         /\ \A k \in Keys : record_file'[k].sample_count >= record_file[k].sample_count
<1>1. CASE \E f \in Fields, h \in Horizons, p \in Predicted, a \in Observed, written \in BOOLEAN :
             UpdateRecord(f, h, p, a, written)
  BY <1>1, CalibrationAssumption, UpdateKeepsStoreIInv
<1>2. CASE LoadRecords
  BY <1>2, LoadKeepsStoreIInv
<1>3. CASE UNCHANGED calibrationVars
  <2>1. \A k \in Keys : record_file[k].sample_count \in Nat
    BY DEF StoreIInv, Record
  <2> QED
    BY <1>3, <2>1 DEF calibrationVars, StoreIInv, FileNeverAhead
<1> QED
  BY <1>1, <1>2, <1>3 DEF CalibrationNext

THEOREM StoreInvariant == CalibrationSpec => []StoreIInv
<1>1. CalibrationInit => StoreIInv
  BY InitStoreIInv
<1>2. StoreIInv /\ [CalibrationNext]_calibrationVars => StoreIInv'
  BY StepStoreIInv
<1> QED
  BY <1>1, <1>2, PTL DEF CalibrationSpec

(* Records and file keep their types, whatever is sampled, fails or        *)
(* restarts.                                                               *)
THEOREM RecordsTyped == CalibrationSpec => []CalibrationTypeOK
<1>1. StoreIInv => CalibrationTypeOK
  BY DEF StoreIInv, CalibrationTypeOK
<1> QED
  BY <1>1, StoreInvariant, PTL

(* The mean error of every record stays in the unit interval and its bias  *)
(* within the mean error, however many samples are rounded.                *)
THEOREM ErrorsStayBounded == CalibrationSpec => []ErrorsBounded
<1>1. StoreIInv => ErrorsBounded
  BY DEF StoreIInv, ErrorsBounded, Sound
<1> QED
  BY <1>1, StoreInvariant, PTL

(* Rounding after every sample costs less than (n + 1) / 4 units of the    *)
(* mean of n samples.                                                      *)
THEOREM DriftStaysBounded == CalibrationSpec => []DriftBounded
<1>1. StoreIInv => DriftBounded
  BY DEF StoreIInv, DriftBounded, Sound
<1> QED
  BY <1>1, StoreInvariant, PTL

(* The file never holds a sample that memory does not.                     *)
THEOREM FileStaysBehind == CalibrationSpec => []FileNeverAhead
<1>1. StoreIInv => FileNeverAhead
  BY DEF StoreIInv
<1> QED
  BY <1>1, StoreInvariant, PTL

(* No step takes a sample back from the file.                              *)
THEOREM FileKeepsSamples == CalibrationSpec => SamplesAreKept
<1>1. StoreIInv /\ [CalibrationNext]_calibrationVars =>
        [\A k \in Keys : record_file'[k].sample_count >= record_file[k].sample_count]_calibrationVars
  BY StepStoreIInv
<1> QED
  BY <1>1, StoreInvariant, PTL DEF CalibrationSpec, SamplesAreKept

(***************************************************************************)
(*                            FeedbackLoop                                 *)
(***************************************************************************)

-----------------------------------------------------------------------------
(* The plan tree: what its operations keep, whatever the confidences are.  *)

PlanIInv ==
  /\ PlanTypeOK
  /\ thread_writes # "lagging" => thread_file = threads
  /\ \A t \in Threads : thread_file[t].status \in Ended => threads[t].status \in Ended

\* No thread that has ended goes on, in memory or in the file.
KeepsEnds ==
  \A t \in Threads : thread_file[t].status \in Ended => thread_file'[t].status \in Ended

\* An active thread was there before, with the same links, and stays gated.
KeepsLinks ==
  \A t \in Threads : threads'[t].status = "active" =>
    /\ threads[t].status = "active"
    /\ threads'[t].forecast_ids = threads[t].forecast_ids
    /\ threads[t].gated => threads'[t].gated

LEMMA InitPlanIInv == PlanInit => PlanIInv
<1> SUFFICES ASSUME PlanInit PROVE PlanIInv
  OBVIOUS
<1>1. /\ DOMAIN NoThread = {"status", "confidence", "forecast_ids", "gated"}
      /\ NoThread.status = "absent" /\ NoThread.gated = FALSE
  BY DEF NoThread
<1>2. DOMAIN threads = Threads /\ \A t \in Threads : threads[t] = NoThread
  BY DEF PlanInit
<1>3. Table(threads) /\ thread_file = threads
  BY <1>1, <1>2 DEF PlanInit, Table, Statuses
<1> QED
  BY <1>1, <1>2, <1>3 DEF PlanInit, PlanIInv, PlanTypeOK, Ended

\* A write that succeeds or fails after a change that revives no thread.
LEMMA PersistKeepsPlanIInv ==
  ASSUME PlanIInv, Table(threads)', NEW written \in BOOLEAN, PersistThreads(written),
         \A t \in Threads : threads[t].status \in Ended => threads'[t].status \in Ended
  PROVE  PlanIInv' /\ KeepsEnds /\ (thread_writes' = "ok" => thread_writes = "ok")
<1>1. CASE written
  <2>1. thread_file' = threads' /\ thread_writes' = Recovered
    BY <1>1 DEF PersistThreads
  <2> QED
    BY <2>1 DEF PlanIInv, PlanTypeOK, KeepsEnds, Recovered, Table
<1>2. CASE ~written
  <2>1. thread_file' = thread_file /\ thread_writes' = "lagging"
    BY <1>2 DEF PersistThreads
  <2> QED
    BY <2>1 DEF PlanIInv, PlanTypeOK, KeepsEnds, Table
<1> QED
  BY <1>1, <1>2

\* The thread t gets a status, and is gated or not; the others stay.
Changed(t, status, gated) ==
  /\ Table(threads)'
  /\ \A u \in Threads \ {t} : threads'[u] = threads[u]
  /\ threads'[t].status = status
  /\ threads'[t].gated = gated

LEMMA AddKeepsPlanIInv ==
  ASSUME PlanIInv, NEW t \in Threads, NEW c, NEW ids, NEW written \in BOOLEAN,
         AddThread(t, c, ids, written)
  PROVE  /\ PlanIInv' /\ KeepsEnds /\ (thread_writes' = "ok" => thread_writes = "ok")
         /\ Changed(t, "active", FALSE)
         /\ threads'[t].forecast_ids = ids
<1> DEFINE new == [status |-> "active", confidence |-> c, forecast_ids |-> ids, gated |-> FALSE]
<1>1. /\ DOMAIN new = {"status", "confidence", "forecast_ids", "gated"}
      /\ new.status = "active" /\ new.gated = FALSE /\ new.forecast_ids = ids
  OBVIOUS
<1>2. threads' = [threads EXCEPT ![t] = new] /\ DOMAIN threads = Threads
  BY DEF AddThread, PlanIInv, PlanTypeOK, Table
<1> HIDE DEF new
<1>3. /\ DOMAIN threads' = Threads /\ threads'[t] = new
      /\ \A u \in Threads \ {t} : threads'[u] = threads[u]
  BY <1>2
<1>4. Changed(t, "active", FALSE) /\ threads'[t].forecast_ids = ids
  BY <1>1, <1>3 DEF Changed, PlanIInv, PlanTypeOK, Table, Statuses
<1>5. \A u \in Threads : threads[u].status \in Ended => threads'[u].status \in Ended
  BY <1>3 DEF AddThread, Ended
<1>6. PersistThreads(written)
  BY DEF AddThread
<1> QED
  BY <1>4, <1>5, <1>6, PersistKeepsPlanIInv DEF Changed

LEMMA UpdateKeepsPlanIInv ==
  ASSUME PlanIInv, NEW t \in Threads, NEW c, NEW below \in BOOLEAN, NEW written \in BOOLEAN,
         UpdateConfidence(t, c, below, written)
  PROVE  /\ PlanIInv' /\ KeepsEnds /\ KeepsLinks /\ (thread_writes' = "ok" => thread_writes = "ok")
         /\ threads'[t].gated
<1> DEFINE status == IF below THEN "abandoned" ELSE threads[t].status
<1>1. /\ Table(threads)
      /\ DOMAIN threads = Threads
      /\ DOMAIN threads[t] = {"status", "confidence", "forecast_ids", "gated"}
  BY DEF PlanIInv, PlanTypeOK, Table
<1>2. threads' = [threads EXCEPT ![t] = [[[threads[t] EXCEPT !.confidence = c]
                                           EXCEPT !.status = status] EXCEPT !.gated = TRUE]]
  BY <1>1 DEF UpdateConfidence
<1>3. /\ DOMAIN threads' = Threads
      /\ \A u \in Threads \ {t} : threads'[u] = threads[u]
      /\ threads'[t].status = status
      /\ threads'[t].gated = TRUE
      /\ threads'[t].forecast_ids = threads[t].forecast_ids
      /\ DOMAIN threads'[t] = {"status", "confidence", "forecast_ids", "gated"}
  BY <1>1, <1>2
<1>4. Changed(t, status, TRUE)
  BY <1>1, <1>3 DEF Changed, Table, Statuses
<1>5. \A u \in Threads : threads[u].status \in Ended => threads'[u].status \in Ended
  BY <1>3 DEF Ended
<1>6. PersistThreads(written)
  BY DEF UpdateConfidence
<1>7. KeepsLinks
  BY <1>3 DEF KeepsLinks
<1> QED
  BY <1>3, <1>4, <1>5, <1>6, <1>7, PersistKeepsPlanIInv DEF Changed

LEMMA CompleteKeepsPlanIInv ==
  ASSUME PlanIInv, NEW t \in Threads, NEW written \in BOOLEAN, Complete(t, written)
  PROVE  PlanIInv' /\ KeepsEnds /\ KeepsLinks /\ (thread_writes' = "ok" => thread_writes = "ok")
<1>1. /\ Table(threads)
      /\ DOMAIN threads = Threads
      /\ DOMAIN threads[t] = {"status", "confidence", "forecast_ids", "gated"}
  BY DEF PlanIInv, PlanTypeOK, Table
<1>2. threads' = [threads EXCEPT ![t] = [threads[t] EXCEPT !.status = "completed"]]
  BY <1>1 DEF Complete
<1>3. /\ DOMAIN threads' = Threads
      /\ \A u \in Threads \ {t} : threads'[u] = threads[u]
      /\ threads'[t].status = "completed"
      /\ threads'[t].gated = threads[t].gated
      /\ DOMAIN threads'[t] = {"status", "confidence", "forecast_ids", "gated"}
  BY <1>1, <1>2
<1>4. Table(threads)'
  BY <1>1, <1>3 DEF Table, Statuses
<1>5. \A u \in Threads : threads[u].status \in Ended => threads'[u].status \in Ended
  BY <1>3 DEF Ended
<1>6. PersistThreads(written)
  BY DEF Complete
<1>7. KeepsLinks
  BY <1>3 DEF KeepsLinks
<1> QED
  BY <1>4, <1>5, <1>6, <1>7, PersistKeepsPlanIInv

LEMMA LoadKeepsPlanIInv ==
  ASSUME PlanIInv, LoadThreads
  PROVE  /\ PlanIInv' /\ KeepsEnds
         /\ thread_writes' = "ok" => thread_writes = "ok" /\ threads' = threads
<1>1. threads' = thread_file /\ thread_file' = thread_file /\ thread_writes' = Recovered
  BY DEF LoadThreads
<1>2. Table(threads)' /\ Table(thread_file)'
  BY <1>1 DEF PlanIInv, PlanTypeOK, Table
<1>3. thread_writes' \in {"ok", "recovered"}
  BY <1>1 DEF Recovered, PlanIInv, PlanTypeOK
<1> QED
  BY <1>1, <1>2, <1>3 DEF PlanIInv, PlanTypeOK, KeepsEnds, Recovered

-----------------------------------------------------------------------------
(* The invariant of the loop, part by part.                                *)

\* Memory and calibration.json are the same unless the last write failed.
RecordsInStep == ~records_lag => record_file = records

Due == {id \in pending : MatureAt(id, cycle)}

\* A resolve divides the mature forecasts into those done and those to do.
Phases ==
  /\ pc = "idle" => todo = {} /\ resolved = {}
  /\ pc # "idle" => todo \union resolved = Due /\ todo \intersect resolved = {}
  /\ pc \in {"score", "refresh"} => current \in todo

\* The resolve in progress has scored the field of the forecast.
ScoredNow(id, f) ==
  \/ id \in resolved
  \/ id = current /\ pc = "score" /\ f \notin unscored
  \/ id = current /\ pc = "refresh"

\* How often a forecast that is still pending can have been scored.
Counts ==
  /\ \A id \in Ids, f \in Fields : id > Len(forecasts) => scored[id][f] = 0
  /\ \A id \in pending, f \in Fields :
       IF ScoredNow(id, f) THEN scored[id][f] >= 1 /\ scored[id][f] <= 1 + aborts
                           ELSE scored[id][f] <= aborts

\* No refresh of a thread can have been undone by a restart.
NothingUndone == restarts = 0 \/ thread_writes = "ok"

Links ==
  NothingUndone =>
    \A t \in Threads : threads[t].status = "active" =>
      /\ threads[t].forecast_ids \intersect (settled \union resolved) # {} => threads[t].gated
      /\ pc = "refresh" /\ current \in threads[t].forecast_ids /\ t \notin unrefreshed
           => threads[t].gated

LEMMA PendingAreIds ==
  ASSUME LoopTypes
  PROVE  Len(forecasts) \in Nat /\ pending \subseteq Ids /\ settled \subseteq Ids
<1>1. forecasts \in Seq(Forecast)
  BY DEF LoopTypes
<1> QED
  BY <1>1, FeedbackAssumption DEF LoopTypes, Ids

-----------------------------------------------------------------------------
(* The two stores, step by step.                                           *)

LEMMA ForecastTyped ==
  ASSUME LoopTypes, NEW id \in 1..Len(forecasts)
  PROVE  /\ forecasts[id].horizon \in Horizons
         /\ forecasts[id].registered_cycle \in Nat
         /\ forecasts[id].predictions \in [Fields -> Predicted]
<1>1. forecasts \in Seq(Forecast)
  BY DEF LoopTypes
<1>2. forecasts[id] \in Forecast
  BY <1>1
<1> QED
  BY <1>2 DEF Forecast

\* A value of actual or of a prediction is a fraction of 1.
LEMMA SampleIsFraction ==
  ASSUME LoopTypes, Phases, NEW f \in Fields, pc = "score"
  PROVE  /\ forecasts[current].horizon \in Horizons
         /\ forecasts[current].predictions[f] \in 0..Unit
         /\ (actual[f] # Missing => actual[f] \in 0..Unit)
<1>1. current \in 1..Len(forecasts)
  BY DEF LoopTypes, Phases
<1>2. forecasts[current].horizon \in Horizons /\ forecasts[current].predictions[f] \in Predicted
  BY <1>1, ForecastTyped
<1>3. actual[f] \in Observed \union {Missing}
  BY DEF LoopTypes
<1> QED
  BY <1>2, <1>3, CalibrationAssumption

LEMMA StepStores ==
  ASSUME LoopTypes, Phases, StoreIInv, RecordsInStep, [Next]_vars
  PROVE  StoreIInv' /\ RecordsInStep'
<1>1. ASSUME NEW f \in unscored, NEW written \in BOOLEAN, ScoreField(f, written)
      PROVE  StoreIInv' /\ RecordsInStep'
  <2> DEFINE h == forecasts[current].horizon
  <2> DEFINE predicted == forecasts[current].predictions[f]
  <2> DEFINE observed == IF actual[f] = Missing THEN predicted ELSE actual[f]
  <2>1. pc = "score" /\ UpdateRecord(f, h, predicted, observed, written)
    BY <1>1 DEF ScoreField
  <2>2. f \in Fields
    BY DEF LoopTypes
  <2>3. h \in Horizons /\ predicted \in 0..Unit /\ observed \in 0..Unit
    BY <2>1, <2>2, SampleIsFraction
  <2> HIDE DEF h, predicted, observed
  <2>4. StoreIInv'
    BY <2>1, <2>2, <2>3, UpdateKeepsStoreIInv
  <2>5. RecordsInStep'
    BY <2>1 DEF UpdateRecord, PersistRecords, RecordsInStep
  <2> QED
    BY <2>4, <2>5
<1>2. CASE Restart
  BY <1>2, LoadKeepsStoreIInv DEF Restart, RecordsInStep, LoadRecords
<1>3. CASE UNCHANGED calibrationVars
  BY <1>3 DEF calibrationVars, StoreIInv, RecordsInStep, FileNeverAhead
<1>4. ASSUME [Next]_vars, ~UNCHANGED calibrationVars, ~Restart
      PROVE  \E f \in unscored, written \in BOOLEAN : ScoreField(f, written)
  BY <1>4 DEF vars, Next, Call, Resolve, Register, CallAddThread, CallUpdateConfidence, CallComplete,
              BeginResolve, Visit, CollectLinked, RefreshThread, AbortResolve, Leave, EndResolve
<1> QED
  BY <1>1, <1>2, <1>3, <1>4

LEMMA FallsBelowTyped == FallsBelow \in BOOLEAN
<1>1. (Unit < 2 * AbandonThreshold) \in BOOLEAN /\ (Trust < AbandonThreshold * Cardinality(Recorded)) \in BOOLEAN
  OBVIOUS
<1> QED
  BY <1>1, Zenon DEF FallsBelow

LEMMA StepPlan ==
  ASSUME LoopTypes, PlanIInv, [Next]_vars
  PROVE  PlanIInv' /\ KeepsEnds
<1>1. ASSUME NEW t \in Threads, NEW c, NEW ids, NEW written \in BOOLEAN,
             AddThread(t, c, ids, written)
      PROVE  PlanIInv' /\ KeepsEnds
  BY <1>1, AddKeepsPlanIInv
<1>2. ASSUME NEW t \in Threads, NEW c, NEW below \in BOOLEAN, NEW written \in BOOLEAN,
             UpdateConfidence(t, c, below, written)
      PROVE  PlanIInv' /\ KeepsEnds
  BY <1>2, UpdateKeepsPlanIInv
<1>3. ASSUME NEW t \in Threads, NEW written \in BOOLEAN, Complete(t, written)
      PROVE  PlanIInv' /\ KeepsEnds
  BY <1>3, CompleteKeepsPlanIInv
<1>4. CASE LoadThreads
  BY <1>4, LoadKeepsPlanIInv
<1>5. CASE UNCHANGED planVars
  BY <1>5 DEF planVars, PlanIInv, PlanTypeOK, Table, KeepsEnds
<1>6. CASE Call
  <2>1. ASSUME NEW c PROVE (c < AbandonThreshold) \in BOOLEAN
    OBVIOUS
  <2> QED
    BY <1>1, <1>2, <1>3, <1>5, <1>6, <2>1
    DEF Call, Register, CallAddThread, CallUpdateConfidence, CallComplete
<1>7. CASE Resolve
  <2>1. FallsBelow \in BOOLEAN /\ TRUE \in BOOLEAN /\ FALSE \in BOOLEAN
    BY FallsBelowTyped
  <2>2. CASE \E t \in unrefreshed : RefreshThread(t) \/ AbortResolve(t)
    BY <1>2, <2>1, <2>2 DEF RefreshThread, AbortResolve, LoopTypes
  <2>3. CASE UNCHANGED planVars
    BY <1>5, <2>3
  <2> QED
    BY <1>7, <2>2, <2>3 DEF Resolve, BeginResolve, Visit, ScoreField, CollectLinked, Leave, EndResolve
<1> QED
  BY <1>4, <1>5, <1>6, <1>7 DEF Next, Restart, vars

-----------------------------------------------------------------------------
(* The loop, step by step.                                                 *)

\* A registration appends one forecast that is not mature yet.
LEMMA RegisterAppends ==
  ASSUME LoopTypes, NEW h \in Horizons, NEW predictions \in [Fields -> Predicted],
         Register(h, predictions)
  PROVE  /\ Len(forecasts) \in Nat /\ Len(forecasts') = Len(forecasts) + 1
         /\ forecasts' \in Seq(Forecast)
         /\ \A id \in 1..Len(forecasts) : forecasts'[id] = forecasts[id]
         /\ forecasts'[Len(forecasts) + 1].horizon = h
         /\ forecasts'[Len(forecasts) + 1].registered_cycle = cycle
         /\ pc = "idle" /\ pc' = "idle"
         /\ Len(forecasts') <= MaxForecasts
         /\ pending' = pending \union {Len(forecasts) + 1}
         /\ UNCHANGED <<cycle, actual, todo, current, unscored, unrefreshed, resolved,
                        scored, settled, aborts, aborted, restarts>>
<1> DEFINE new == [horizon |-> h, registered_cycle |-> cycle, predictions |-> predictions]
<1>1. forecasts \in Seq(Forecast) /\ cycle \in Nat
  BY DEF LoopTypes
<1>2. new \in Forecast /\ new.horizon = h /\ new.registered_cycle = cycle
  BY <1>1 DEF Forecast
<1>3. forecasts' = Append(forecasts, new)
  BY DEF Register
<1> HIDE DEF new
<1>4. /\ Len(forecasts) \in Nat /\ Len(forecasts') = Len(forecasts) + 1
      /\ forecasts' \in Seq(Forecast)
      /\ \A id \in 1..Len(forecasts) : forecasts'[id] = forecasts[id]
      /\ forecasts'[Len(forecasts) + 1] = new
  BY <1>1, <1>2, <1>3
<1>5. Len(forecasts) + 1 <= MaxForecasts
  BY <1>4, FeedbackAssumption DEF Register
<1> QED
  BY <1>2, <1>4, <1>5 DEF Register, locals, history

LEMMA ClearedTyped ==
  ASSUME ClearLocals
  PROVE  /\ actual' \in [Fields -> Observed \union {Missing}]
         /\ todo' = {} /\ resolved' = {}
         /\ unscored' = {} /\ unrefreshed' = {}
BY DEF ClearLocals

LEMMA StepTypes ==
  ASSUME LoopTypes, Phases, [Next]_vars
  PROVE  LoopTypes'
<1>1. ASSUME NEW h \in Horizons, NEW predictions \in [Fields -> Predicted], Register(h, predictions)
      PROVE  LoopTypes'
  <2>1. /\ Len(forecasts) \in Nat
        /\ Len(forecasts) + 1 \notin 1..Len(forecasts)
        /\ 1..Len(forecasts') = 1..Len(forecasts) \union {Len(forecasts) + 1}
    BY <1>1, RegisterAppends
  <2>2. /\ pending' \subseteq 1..Len(forecasts')
        /\ settled' \subseteq 1..Len(forecasts')
        /\ pending' \intersect settled' = {}
    BY <1>1, <2>1, RegisterAppends DEF LoopTypes
  <2> QED
    BY <1>1, <2>2, RegisterAppends DEF LoopTypes
<1>2. ASSUME NEW observed \in [Fields -> Observed \union {Missing}], BeginResolve(observed)
      PROVE  LoopTypes'
  BY <1>2 DEF LoopTypes, BeginResolve, history
<1>3. ASSUME NEW id \in todo, Visit(id)
      PROVE  LoopTypes'
  BY <1>3 DEF LoopTypes, Visit, history, ledger
<1>4. ASSUME NEW f \in unscored, NEW written \in BOOLEAN, ScoreField(f, written)
      PROVE  LoopTypes'
  <2>1. scored' = [scored EXCEPT ![current][f] = @ + 1]
    BY <1>4 DEF ScoreField
  <2>2. scored' \in [Ids -> [Fields -> Nat]]
    <3> DEFINE row == [scored[current] EXCEPT ![f] = @ + 1]
    <3>1. scored \in [Ids -> [Fields -> Nat]] /\ current \in Ids
      BY <1>4, PendingAreIds DEF LoopTypes, Phases, ScoreField
    <3>2. row \in [Fields -> Nat]
      <4>1. scored[current] \in [Fields -> Nat] /\ f \in Fields
        BY <3>1 DEF LoopTypes
      <4> QED
        BY <4>1
    <3>3. scored' = [scored EXCEPT ![current] = row]
      BY <2>1, <3>1
    <3> QED
      BY <3>1, <3>2, <3>3
  <2> QED
    BY <1>4, <2>2 DEF LoopTypes, ScoreField, ledger
<1>5. CASE CollectLinked
  BY <1>5 DEF LoopTypes, CollectLinked, history, ledger, ActiveThreads
<1>6. ASSUME NEW t \in unrefreshed, RefreshThread(t)
      PROVE  LoopTypes'
  BY <1>6 DEF LoopTypes, RefreshThread, history, ledger
<1>7. ASSUME NEW t \in unrefreshed, AbortResolve(t)
      PROVE  LoopTypes'
  BY <1>7, ClearedTyped DEF LoopTypes, AbortResolve, ledger
<1>8. CASE Leave
  BY <1>8 DEF LoopTypes, Phases, Leave, history, ledger
<1>9. CASE EndResolve
  BY <1>9, ClearedTyped DEF LoopTypes, EndResolve
<1>10. CASE Restart
  BY <1>10, ClearedTyped DEF LoopTypes, Restart
<1>11. CASE UNCHANGED <<ledger, pc, locals, history>>
  BY <1>11 DEF LoopTypes, ledger, locals, history
<1> QED
  BY <1>1, <1>2, <1>3, <1>4, <1>5, <1>6, <1>7, <1>8, <1>9, <1>10, <1>11
  DEF vars, Next, Call, Resolve, CallAddThread, CallUpdateConfidence, CallComplete

LEMMA StepPhases ==
  ASSUME LoopTypes, Phases, [Next]_vars
  PROVE  Phases'
<1>1. ASSUME NEW h \in Horizons, NEW predictions \in [Fields -> Predicted], Register(h, predictions)
      PROVE  Phases'
  BY <1>1, RegisterAppends DEF Phases
<1>2. ASSUME NEW observed \in [Fields -> Observed \union {Missing}], BeginResolve(observed)
      PROVE  Phases'
  BY <1>2 DEF Phases, BeginResolve, Due, MatureAt
<1>3. ASSUME NEW id \in todo, Visit(id)
      PROVE  Phases'
  BY <1>3 DEF Phases, Visit, ledger, Due, MatureAt
<1>4. ASSUME NEW f \in unscored, NEW written \in BOOLEAN, ScoreField(f, written)
      PROVE  Phases'
  BY <1>4 DEF Phases, ScoreField, ledger, Due, MatureAt
<1>5. CASE CollectLinked
  BY <1>5 DEF Phases, CollectLinked, ledger, Due, MatureAt
<1>6. ASSUME NEW t \in unrefreshed, RefreshThread(t)
      PROVE  Phases'
  BY <1>6 DEF Phases, RefreshThread, ledger, Due, MatureAt
<1>7. CASE Leave
  BY <1>7 DEF Phases, Leave, ledger, Due, MatureAt
<1>8. CASE ClearLocals /\ pc' = "idle"
  BY <1>8, ClearedTyped DEF Phases
<1>9. CASE UNCHANGED <<ledger, pc, locals>>
  BY <1>9 DEF Phases, ledger, locals, Due, MatureAt
<1> QED
  BY <1>1, <1>2, <1>3, <1>4, <1>5, <1>6, <1>7, <1>8, <1>9
  DEF vars, Next, Call, Resolve, CallAddThread, CallUpdateConfidence, CallComplete,
      AbortResolve, EndResolve, Restart

\* Only the field being scored is counted, and only once per visit.
LEMMA ScoreCounts ==
  ASSUME LoopTypes, Phases, NEW f \in unscored, NEW written \in BOOLEAN, ScoreField(f, written)
  PROVE  /\ f \in Fields /\ current \in Ids /\ current \in todo /\ pc = "score" /\ pc' = "score"
         /\ unscored' = unscored \ {f}
         /\ scored'[current][f] = scored[current][f] + 1
         /\ \A id \in Ids, g \in Fields : id # current \/ g # f => scored'[id][g] = scored[id][g]
         /\ UNCHANGED <<ledger, todo, current, resolved, settled, aborts, aborted>>
<1>1. /\ scored \in [Ids -> [Fields -> Nat]] /\ current \in Ids /\ f \in Fields
      /\ scored[current] \in [Fields -> Nat]
  BY PendingAreIds DEF LoopTypes, Phases, ScoreField
<1> DEFINE row == [scored[current] EXCEPT ![f] = @ + 1]
<1>2. scored' = [scored EXCEPT ![current] = row]
  BY <1>1 DEF ScoreField
<1>3. row[f] = scored[current][f] + 1 /\ \A g \in Fields \ {f} : row[g] = scored[current][g]
  BY <1>1
<1> HIDE DEF row
<1>4. scored'[current] = row /\ \A id \in Ids \ {current} : scored'[id] = scored[id]
  BY <1>1, <1>2
<1> QED
  BY <1>1, <1>3, <1>4 DEF ScoreField, Phases

LEMMA StepCounts ==
  ASSUME LoopTypes, Phases, Counts, [Next]_vars
  PROVE  Counts'
<1>1. /\ Len(forecasts) \in Nat /\ pending \subseteq Ids /\ todo \subseteq pending
      /\ resolved \subseteq pending /\ aborts \in Nat
      /\ \A id \in Ids, f \in Fields : scored[id][f] \in Nat
  BY PendingAreIds DEF LoopTypes
<1>2. ASSUME NEW h \in Horizons, NEW predictions \in [Fields -> Predicted], Register(h, predictions)
      PROVE  Counts'
  <2>1. Len(forecasts) + 1 \in Ids
    BY <1>1, <1>2, RegisterAppends, FeedbackAssumption DEF Ids
  <2>2. \A id \in pending', f \in Fields : ~ScoredNow(id, f)'
    BY <1>2, RegisterAppends DEF Phases, ScoredNow
  <2>3. \A f \in Fields : scored[Len(forecasts) + 1][f] = 0
    BY <1>1, <2>1 DEF Counts
  <2>4. \A id \in pending, f \in Fields : scored[id][f] <= aborts
    BY <1>2, RegisterAppends DEF Phases, ScoredNow, Counts
  <2>5. \A id \in pending', f \in Fields : scored'[id][f] <= aborts'
    BY <1>1, <1>2, <2>3, <2>4, RegisterAppends
  <2>6. \A id \in Ids, f \in Fields : id > Len(forecasts') => scored'[id][f] = 0
    BY <1>1, <1>2, RegisterAppends DEF Counts, Ids
  <2> QED
    BY <2>2, <2>5, <2>6 DEF Counts
<1>3. ASSUME NEW observed \in [Fields -> Observed \union {Missing}], BeginResolve(observed)
      PROVE  Counts'
  BY <1>3 DEF Counts, ScoredNow, Phases, BeginResolve, history
<1>4. ASSUME NEW id \in todo, Visit(id)
      PROVE  Counts'
  BY <1>4 DEF Counts, ScoredNow, Phases, Visit, history, ledger
<1>5. ASSUME NEW f \in unscored, NEW written \in BOOLEAN, ScoreField(f, written)
      PROVE  Counts'
  <2>1. current \in pending /\ current \notin resolved /\ current <= Len(forecasts)
    <3>1. pc = "score" /\ current \in todo
      BY <1>5, ScoreCounts
    <3>2. current \in pending /\ pending \subseteq 1..Len(forecasts)
      BY <3>1 DEF LoopTypes
    <3>3. current \notin resolved
      BY <3>1 DEF Phases
    <3> QED
      BY <1>1, <3>2, <3>3
  <2>2. \A id \in Ids, g \in Fields : id > Len(forecasts') => scored'[id][g] = 0
    BY <1>1, <1>5, <2>1, ScoreCounts DEF Counts, ledger, Ids
  <2>3. ~ScoredNow(current, f) /\ ScoredNow(current, f)'
    BY <1>5, <2>1, ScoreCounts DEF ScoredNow
  <2>4. \A id \in pending, g \in Fields :
          id # current \/ g # f => (ScoredNow(id, g)' <=> ScoredNow(id, g))
    BY <1>5, ScoreCounts DEF ScoredNow
  <2>5. scored'[current][f] >= 1 /\ scored'[current][f] <= 1 + aborts
    BY <1>1, <1>5, <2>1, <2>3, ScoreCounts DEF Counts
  <2>6. \A id \in pending, g \in Fields :
          IF ScoredNow(id, g)' THEN scored'[id][g] >= 1 /\ scored'[id][g] <= 1 + aborts
                               ELSE scored'[id][g] <= aborts
    BY <1>1, <1>5, <2>3, <2>4, <2>5, ScoreCounts DEF Counts
  <2> QED
    BY <1>5, <2>2, <2>6, ScoreCounts DEF Counts, ledger
<1>6. CASE CollectLinked
  BY <1>6 DEF Counts, ScoredNow, CollectLinked, history, ledger
<1>7. ASSUME NEW t \in unrefreshed, RefreshThread(t)
      PROVE  Counts'
  BY <1>7 DEF Counts, ScoredNow, RefreshThread, history, ledger
<1>8. ASSUME NEW t \in unrefreshed, AbortResolve(t)
      PROVE  Counts'
  <2>1. \A id \in pending, f \in Fields : ~ScoredNow(id, f)'
    BY <1>8, ClearedTyped DEF AbortResolve, ScoredNow
  <2>2. \A id \in pending, f \in Fields : scored[id][f] <= 1 + aborts
    BY <1>1 DEF Counts
  <2> QED
    BY <1>1, <1>8, <2>1, <2>2 DEF Counts, AbortResolve, ledger
<1>9. CASE Leave
  BY <1>9 DEF Counts, ScoredNow, Leave, history, ledger
<1>10. CASE EndResolve
  BY <1>10, ClearedTyped DEF Counts, ScoredNow, EndResolve
<1>11. CASE Restart
  BY <1>11 DEF Counts, Restart
<1>12. CASE UNCHANGED <<ledger, pc, locals, history>>
  BY <1>12 DEF Counts, ScoredNow, ledger, locals, history
<1> QED
  BY <1>2, <1>3, <1>4, <1>5, <1>6, <1>7, <1>8, <1>9, <1>10, <1>11, <1>12
  DEF vars, Next, Call, Resolve, CallAddThread, CallUpdateConfidence, CallComplete

LEMMA StepLinks ==
  ASSUME LoopTypes, Phases, PlanIInv, Links, [Next]_vars
  PROVE  Links'
<1>1. pending \intersect settled = {} /\ unrefreshed \subseteq Threads
  BY DEF LoopTypes
<1>2. ASSUME NEW t \in Threads, NEW c, NEW ids \in SUBSET pending, NEW written \in BOOLEAN,
             CallAddThread(t, c, ids, written)
      PROVE  Links'
  <2>1. AddThread(t, c, ids, written) /\ UNCHANGED <<pc, settled, resolved, current, restarts>>
    BY <1>2 DEF CallAddThread, locals, history
  <2>2. pc = "idle" /\ resolved = {}
    BY <1>2 DEF CallAddThread, Phases
  <2>3. /\ \A u \in Threads \ {t} : threads'[u] = threads[u]
        /\ threads'[t].forecast_ids = ids
        /\ NothingUndone' => NothingUndone
    <3>1. /\ Changed(t, "active", FALSE) /\ threads'[t].forecast_ids = ids
          /\ thread_writes' = "ok" => thread_writes = "ok"
      BY <2>1, AddKeepsPlanIInv
    <3>2. \A u \in Threads \ {t} : threads'[u] = threads[u]
      BY <3>1 DEF Changed
    <3>3. NothingUndone' => NothingUndone
      BY <2>1, <3>1 DEF NothingUndone
    <3> QED
      BY <3>1, <3>2, <3>3
  <2>4. threads'[t].forecast_ids \intersect (settled' \union resolved') = {}
    BY <1>1, <2>1, <2>2, <2>3
  <2> QED
    BY <2>1, <2>2, <2>3, <2>4 DEF Links
<1>3. ASSUME NEW t \in Threads, NEW c, NEW below \in BOOLEAN, NEW written \in BOOLEAN,
             UpdateConfidence(t, c, below, written),
             UNCHANGED <<settled, resolved, current, restarts>>,
             pc' = pc, pc # "refresh"
      PROVE  Links'
  <2>1. KeepsLinks /\ (NothingUndone' => NothingUndone)
    BY <1>3, UpdateKeepsPlanIInv DEF NothingUndone
  <2> QED
    BY <1>3, <2>1 DEF Links, KeepsLinks
<1>4. ASSUME NEW t \in Threads, NEW written \in BOOLEAN, CallComplete(t, written)
      PROVE  Links'
  <2>1. KeepsLinks /\ (NothingUndone' => NothingUndone)
    BY <1>4, CompleteKeepsPlanIInv DEF CallComplete, NothingUndone, history
  <2>2. pc' = "idle" /\ UNCHANGED <<settled, resolved>>
    BY <1>4 DEF CallComplete, locals, history
  <2> QED
    BY <2>1, <2>2 DEF Links, KeepsLinks
<1>5. ASSUME NEW t \in unrefreshed, RefreshThread(t)
      PROVE  Links'
  <2>1. FallsBelow \in BOOLEAN
    BY FallsBelowTyped
  <2>2. t \in Threads /\ UpdateConfidence(t, RefreshedConfidence, FallsBelow, TRUE)
    BY <1>1, <1>5 DEF RefreshThread
  <2>3. UNCHANGED <<pc, current, resolved, settled, restarts>> /\ unrefreshed' = unrefreshed \ {t}
    BY <1>5 DEF RefreshThread, history
  <2>4. KeepsLinks /\ threads'[t].gated /\ (NothingUndone' => NothingUndone)
    BY <2>1, <2>2, <2>3, UpdateKeepsPlanIInv DEF NothingUndone
  <2> QED
    BY <2>2, <2>3, <2>4 DEF Links, KeepsLinks
<1>6. ASSUME NEW t \in unrefreshed, AbortResolve(t)
      PROVE  Links'
  <2>1. FallsBelow \in BOOLEAN
    BY FallsBelowTyped
  <2>2. t \in Threads /\ UpdateConfidence(t, RefreshedConfidence, FallsBelow, FALSE)
    BY <1>1, <1>6 DEF AbortResolve
  <2>3. pc' = "idle" /\ resolved' = {} /\ UNCHANGED <<settled, restarts>>
    BY <1>6, ClearedTyped DEF AbortResolve
  <2>4. KeepsLinks /\ (NothingUndone' => NothingUndone)
    BY <2>1, <2>2, <2>3, UpdateKeepsPlanIInv DEF NothingUndone
  <2> QED
    BY <2>3, <2>4 DEF Links, KeepsLinks
<1>7. CASE CollectLinked
  <2>1. UNCHANGED <<threads, thread_writes, restarts, settled, resolved, current>>
    BY <1>7 DEF CollectLinked, planVars, history
  <2>2. \A t \in Threads : threads[t].status = "active" /\ current \in threads[t].forecast_ids
          => t \in unrefreshed'
    BY <1>7 DEF CollectLinked, ActiveThreads
  <2> QED
    BY <2>1, <2>2 DEF Links, NothingUndone
<1>8. CASE Leave
  <2>1. /\ UNCHANGED <<threads, thread_writes, restarts, settled>>
        /\ resolved' = resolved \union {current}
        /\ pc = "refresh" /\ unrefreshed = {} /\ pc' = "scan"
    BY <1>8 DEF Leave, planVars, history
  <2> QED
    BY <2>1 DEF Links, NothingUndone
<1>9. CASE EndResolve
  <2>1. /\ UNCHANGED <<threads, thread_writes, restarts>>
        /\ settled' = settled \union resolved /\ resolved' = {}
        /\ pc' = "idle"
    BY <1>9, ClearedTyped DEF EndResolve, planVars
  <2> QED
    BY <2>1 DEF Links, NothingUndone
<1>10. CASE Restart
  <2>1. /\ NothingUndone' => thread_writes' = "ok"
        /\ pc' = "idle" /\ resolved' = {} /\ settled' = settled
    BY <1>10, ClearedTyped DEF Restart, NothingUndone, LoopTypes
  <2>2. NothingUndone' => threads' = threads /\ NothingUndone
    BY <1>10, <2>1, LoadKeepsPlanIInv DEF Restart, NothingUndone
  <2> QED
    BY <2>1, <2>2 DEF Links
<1>11. ASSUME UNCHANGED <<threads, thread_writes, restarts, settled, resolved>>,
              pc' # "refresh"
       PROVE  Links'
  BY <1>11 DEF Links, NothingUndone
<1>12. CASE UNCHANGED vars
  BY <1>12 DEF Links, NothingUndone, vars, planVars, locals, history
<1>13. CASE Call
  <2>1. ASSUME NEW h \in Horizons, NEW predictions \in [Fields -> Predicted], Register(h, predictions)
        PROVE  Links'
    BY <1>11, <2>1 DEF Register, planVars, locals, history
  <2>2. ASSUME NEW t \in Threads, NEW c \in Confidences, NEW written \in BOOLEAN,
               CallUpdateConfidence(t, c, written)
        PROVE  Links'
    <3>1. (c < AbandonThreshold) \in BOOLEAN
      OBVIOUS
    <3> QED
      BY <1>3, <2>2, <3>1 DEF CallUpdateConfidence, locals, history
  <2> QED
    BY <1>2, <1>4, <1>13, <2>1, <2>2 DEF Call
<1>14. CASE Resolve
  <2>1. CASE \E observed \in [Fields -> Observed \union {Missing}] : BeginResolve(observed)
    BY <1>11, <2>1 DEF BeginResolve, planVars, history
  <2>2. CASE \E id \in todo : Visit(id)
    BY <1>11, <2>2 DEF Visit, planVars, history
  <2>3. CASE \E f \in unscored, written \in BOOLEAN : ScoreField(f, written)
    BY <1>11, <2>3 DEF ScoreField, planVars
  <2> QED
    BY <1>5, <1>6, <1>7, <1>8, <1>9, <1>14, <2>1, <2>2, <2>3 DEF Resolve
<1> QED
  BY <1>10, <1>12, <1>13, <1>14 DEF Next

\* The distance of a forecast stays, and the clock only moves forward, so a
\* mature forecast stays mature.
LEMMA MatureStaysMature ==
  ASSUME LoopTypes, NEW id \in 1..Len(forecasts), MatureAt(id, cycle),
         cycle' \in Nat, cycle' >= cycle, forecasts'[id] = forecasts[id]
  PROVE  MatureAt(id, cycle)'
<1>1. forecasts[id].registered_cycle \in Nat /\ Distance[forecasts[id].horizon] \in Nat /\ cycle \in Nat
  BY ForecastTyped, FeedbackAssumption DEF LoopTypes
<1> QED
  BY <1>1 DEF MatureAt

LEMMA StepPromises ==
  ASSUME LoopTypes, Phases, Counts, ScoredInTimeAndOnce, [Next]_vars
  PROVE  ScoredInTimeAndOnce'
<1>1. /\ Len(forecasts) \in Nat /\ pending \subseteq 1..Len(forecasts) /\ pending \subseteq Ids
      /\ settled \subseteq Ids /\ pending \intersect settled = {} /\ aborts \in Nat /\ cycle \in Nat
      /\ \A id \in Ids, f \in Fields : scored[id][f] \in Nat
  BY PendingAreIds DEF LoopTypes
<1>2. ASSUME NEW h \in Horizons, NEW predictions \in [Fields -> Predicted], Register(h, predictions)
      PROVE  ScoredInTimeAndOnce'
  <2>1. PICK new : new = Len(forecasts) + 1
    OBVIOUS
  <2>2. ~MatureAt(new, cycle)'
    <3>1. /\ forecasts'[new].horizon = h /\ forecasts'[new].registered_cycle = cycle
          /\ cycle' = cycle
      BY <1>2, <2>1, RegisterAppends
    <3>2. Distance[h] \in Nat \ {0}
      BY FeedbackAssumption
    <3>3. cycle' - forecasts'[new].registered_cycle < Distance[forecasts'[new].horizon]
      BY <1>1, <3>1, <3>2
    <3> QED
      BY <1>1, <3>1, <3>2, <3>3 DEF MatureAt
  <2>3. new \in Ids /\ \A f \in Fields : scored'[new][f] = 0
    <3>1. new \in Ids /\ new > Len(forecasts)
      BY <1>1, <1>2, <2>1, RegisterAppends, FeedbackAssumption DEF Ids
    <3> QED
      BY <1>2, <3>1, RegisterAppends DEF Counts
  <2>4. \A id \in pending : MatureAt(id, cycle)' <=> MatureAt(id, cycle)
    BY <1>1, <1>2, RegisterAppends DEF MatureAt
  <2>5. /\ pending' = pending \union {new} /\ pc = "idle" /\ pc' = "idle"
        /\ UNCHANGED <<scored, aborted>>
    BY <1>2, <2>1, RegisterAppends
  <2>6. NothingOverdue'
    BY <2>2, <2>4, <2>5 DEF ScoredInTimeAndOnce, NothingOverdue
  <2>7. NeverScoredEarly'
    <3>1. \A id \in pending, f \in Fields : scored'[id][f] > 0 => MatureAt(id, cycle)'
      BY <2>4, <2>5 DEF ScoredInTimeAndOnce, NeverScoredEarly
    <3>2. \A f \in Fields : ~(scored'[new][f] > 0)
      BY <2>3
    <3> QED
      BY <2>5, <3>1, <3>2 DEF NeverScoredEarly
  <2>8. ScoredOnce'
    BY <1>2, RegisterAppends DEF ScoredInTimeAndOnce, ScoredOnce
  <2> QED
    BY <2>6, <2>7, <2>8 DEF ScoredInTimeAndOnce
<1>3. ASSUME NEW observed \in [Fields -> Observed \union {Missing}], BeginResolve(observed)
      PROVE  ScoredInTimeAndOnce'
  <2>1. /\ pc' = "scan" /\ cycle' = cycle + 1
        /\ UNCHANGED <<forecasts, pending, scored, settled, aborts>>
    BY <1>3 DEF BeginResolve, history
  <2>2. \A id \in pending : MatureAt(id, cycle) => MatureAt(id, cycle)'
    BY <1>1, <2>1, MatureStaysMature
  <2> QED
    BY <2>1, <2>2 DEF ScoredInTimeAndOnce, NothingOverdue, NeverScoredEarly, ScoredOnce
<1>4. ASSUME NEW f \in unscored, NEW written \in BOOLEAN, ScoreField(f, written)
      PROVE  ScoredInTimeAndOnce'
  <2>1. current \in pending /\ MatureAt(current, cycle)
    BY <1>4, ScoreCounts DEF Phases, Due
  <2>2. /\ pc' = "score" /\ UNCHANGED <<forecasts, pending, cycle, settled, aborts>>
        /\ \A id \in Ids \ {current}, g \in Fields : scored'[id][g] = scored[id][g]
    BY <1>4, ScoreCounts DEF ledger
  <2>3. NeverScoredEarly'
    BY <1>1, <2>1, <2>2 DEF ScoredInTimeAndOnce, NeverScoredEarly, MatureAt
  <2>4. ScoredOnce'
    BY <1>1, <2>1, <2>2 DEF ScoredInTimeAndOnce, ScoredOnce
  <2> QED
    BY <2>2, <2>3, <2>4 DEF ScoredInTimeAndOnce, NothingOverdue
<1>5. ASSUME NEW t \in unrefreshed, AbortResolve(t)
      PROVE  ScoredInTimeAndOnce'
  <2>1. /\ aborted' /\ aborts' = aborts + 1
        /\ UNCHANGED <<forecasts, pending, cycle, settled, scored>>
    BY <1>5 DEF AbortResolve, ledger
  <2>2. NothingOverdue' /\ NeverScoredEarly'
    BY <2>1 DEF ScoredInTimeAndOnce, NothingOverdue, NeverScoredEarly, MatureAt
  <2>3. ScoredOnce'
    BY <1>1, <2>1 DEF ScoredInTimeAndOnce, ScoredOnce
  <2> QED
    BY <2>2, <2>3 DEF ScoredInTimeAndOnce
<1>6. CASE EndResolve
  <2>1. pending' = pending \ resolved /\ settled' = settled \union resolved
    BY <1>6 DEF EndResolve
  <2>2. UNCHANGED <<forecasts, cycle, scored, aborts>>
    BY <1>6 DEF EndResolve
  <2>3. resolved = Due /\ resolved \subseteq pending
    BY <1>6 DEF EndResolve, Phases, LoopTypes
  <2>4. NothingOverdue' /\ NeverScoredEarly'
    BY <2>1, <2>2, <2>3 DEF ScoredInTimeAndOnce, NothingOverdue, NeverScoredEarly, MatureAt, Due
  <2>5. \A id \in resolved, f \in Fields : scored[id][f] >= 1 /\ scored[id][f] <= 1 + aborts
    BY <2>3 DEF Counts, ScoredNow
  <2>6. ScoredOnce'
    BY <2>1, <2>2, <2>5 DEF ScoredInTimeAndOnce, ScoredOnce
  <2> QED
    BY <2>4, <2>6 DEF ScoredInTimeAndOnce
<1>7. CASE Restart
  <2>1. pending' = {} /\ UNCHANGED <<settled, scored, aborts>>
    BY <1>7 DEF Restart
  <2> QED
    BY <2>1 DEF ScoredInTimeAndOnce, NothingOverdue, NeverScoredEarly, ScoredOnce
<1>8. ASSUME UNCHANGED <<ledger, history>>, pc' = pc \/ pc' # "idle"
      PROVE  ScoredInTimeAndOnce'
  BY <1>8 DEF ScoredInTimeAndOnce, NothingOverdue, NeverScoredEarly, ScoredOnce, MatureAt, ledger, history
<1>9. CASE Call
  BY <1>2, <1>8, <1>9 DEF Call, CallAddThread, CallUpdateConfidence, CallComplete
<1>10. CASE Resolve
  <2>1. CASE CollectLinked \/ Leave \/ \E id \in todo : Visit(id)
    BY <1>8, <2>1 DEF CollectLinked, Leave, Visit
  <2>2. CASE \E t \in unrefreshed : RefreshThread(t)
    BY <1>8, <2>2 DEF RefreshThread
  <2> QED
    BY <1>3, <1>4, <1>5, <1>6, <1>10, <2>1, <2>2 DEF Resolve
<1> QED
  BY <1>7, <1>8, <1>9, <1>10 DEF Next, vars

-----------------------------------------------------------------------------
(* The inductive invariant and what follows from it.                       *)

LoopIInv ==
  /\ LoopTypes /\ Phases /\ Counts /\ ScoredInTimeAndOnce /\ Links
  /\ PlanIInv /\ StoreIInv /\ RecordsInStep

LEMMA InitLoopIInv == Init => LoopIInv
<1> SUFFICES ASSUME Init PROVE LoopIInv
  OBVIOUS
<1>1. StoreIInv /\ PlanIInv
  BY InitStoreIInv, InitPlanIInv DEF Init
<1>2. RecordsInStep
  BY DEF Init, CalibrationInit, RecordsInStep
<1>3. Len(forecasts) = 0 /\ forecasts \in Seq(Forecast) /\ 0 <= MaxForecasts
  BY FeedbackAssumption DEF Init
<1>4. LoopTypes
  BY <1>3 DEF Init, LoopTypes
<1>5. Phases
  BY DEF Init, Phases
<1>6. Counts /\ ScoredInTimeAndOnce
  BY DEF Init, Counts, ScoredInTimeAndOnce, NothingOverdue, NeverScoredEarly, ScoredOnce
<1>7. Links
  BY DEF Init, Links
<1> QED
  BY <1>1, <1>2, <1>4, <1>5, <1>6, <1>7 DEF LoopIInv

LEMMA StepLoopIInv ==
  ASSUME LoopIInv, [Next]_vars
  PROVE  LoopIInv'
BY StepTypes, StepPhases, StepCounts, StepPromises, StepLinks, StepPlan, StepStores DEF LoopIInv

THEOREM LoopInvariant == Safety => []LoopIInv
<1>1. LoopIInv /\ [Next]_vars => LoopIInv'
  BY StepLoopIInv
<1> QED
  BY <1>1, InitLoopIInv, PTL DEF Safety

(* The loop and its two stores keep their types: a resolve works on open   *)
(* forecasts only, and none is both open and settled.                      *)
THEOREM LoopTyped == Safety => []TypeOK
<1>1. LoopIInv => TypeOK
  BY DEF LoopIInv, StoreIInv, PlanIInv, CalibrationTypeOK, TypeOK
<1> QED
  BY <1>1, LoopInvariant, PTL

(* Between resolutions no mature forecast waits, unless the last one was   *)
(* aborted; none is scored before its distance has elapsed; and a settled  *)
(* one was scored on every field, once unless aborted resolutions repeated *)
(* it: for any number of forecasts, failures and restarts.                 *)
THEOREM ForecastsScoredInTime == Safety => []ScoredInTimeAndOnce
<1>1. LoopIInv => ScoredInTimeAndOnce
  BY DEF LoopIInv
<1> QED
  BY <1>1, LoopInvariant, PTL

(* Each file equals memory unless its last write failed.                   *)
THEOREM FilesLagAfterFailureOnly == Safety => []FilesLagOnlyAfterFailure
<1>1. LoopIInv => FilesLagOnlyAfterFailure
  BY DEF LoopIInv, PlanIInv, PlanTypeOK, RecordsInStep, FilesLagOnlyAfterFailure
<1> QED
  BY <1>1, LoopInvariant, PTL

(* Unless a restart undid a refresh, an active thread linked to a settled  *)
(* forecast has been refreshed.                                            *)
THEOREM LinkedAreRefreshed == Safety => []SettledRefreshesLinked
<1>1. LoopIInv => SettledRefreshesLinked
  BY DEF LoopIInv, Links, NothingUndone, SettledRefreshesLinked, ActiveThreads
<1> QED
  BY <1>1, LoopInvariant, PTL

(* The end of a thread, once in the file, is final.                        *)
THEOREM EndsAreDurable == Safety => EndIsDurable
<1>1. LoopIInv /\ [Next]_vars =>
        [\A t \in Threads : thread_file[t].status \in Ended => thread_file'[t].status \in Ended]_vars
  BY StepPlan DEF LoopIInv, KeepsEnds
<1> QED
  BY <1>1, LoopInvariant, PTL DEF Safety, EndIsDurable

-----------------------------------------------------------------------------
(* The refinement of the ledger: resolve, with all its steps, failures and *)
(* partial effects, settles like one atomic step at its end.               *)

LEMMA LedgerInit == Init => Ledger!Init
<1> SUFFICES ASSUME Init PROVE Ledger!Init
  OBVIOUS
<1>1. Len(forecasts) = 0 /\ \A id \in Ids : ~(id <= 0)
  BY DEF Init, Ids
<1> QED
  BY <1>1 DEF Init, Ledger!Init

LEMMA LedgerStep ==
  ASSUME LoopIInv, [Next]_vars
  PROVE  [Ledger!Next]_(Ledger!vars)
<1> DEFINE clock == IF pc = "idle" THEN cycle ELSE cycle - 1
<1> DEFINE dueAt(id) == forecasts[id].registered_cycle + Distance[forecasts[id].horizon]
<1>1. /\ LoopTypes /\ Phases
      /\ Len(forecasts) \in Nat /\ pending \subseteq 1..Len(forecasts) /\ pending \subseteq Ids
      /\ cycle \in Nat
  BY PendingAreIds DEF LoopIInv, LoopTypes
<1>2. ASSUME NEW h \in Horizons, NEW predictions \in [Fields -> Predicted], Register(h, predictions)
      PROVE  Ledger!Next
  <2>1. PICK new : new = Len(forecasts) + 1
    OBVIOUS
  <2> DEFINE F == {new}
  <2> DEFINE distance == [id \in F |-> Distance[h]]
  <2>2. /\ new \in Ids /\ new \notin pending /\ Distance[h] \in Nat
        /\ distance \in [F -> {Distance[g] : g \in Horizons}]
    BY <1>1, <1>2, <2>1, RegisterAppends, FeedbackAssumption DEF Ids
  <2>3. \A id \in Ids :
          (IF id <= Len(forecasts') THEN dueAt(id)' ELSE 0) =
          (IF id \in F THEN cycle + distance[id] ELSE IF id <= Len(forecasts) THEN dueAt(id) ELSE 0)
    BY <1>1, <1>2, <2>1, <2>2, RegisterAppends DEF Ids
  <2>4. pending' = pending \union F /\ pc = "idle" /\ pc' = "idle" /\ cycle' = cycle
    BY <1>1, <1>2, <2>1, RegisterAppends
  <2>5. Ledger!Register(F, distance)
    BY <2>2, <2>3, <2>4 DEF Ledger!Register
  <2>6. F \in SUBSET Ids
    BY <2>2
  <2> QED
    BY <2>2, <2>5, <2>6 DEF Ledger!Next
<1>3. ASSUME UNCHANGED <<pending, forecasts>>, clock' = clock
      PROVE  UNCHANGED Ledger!vars
  BY <1>3 DEF Ledger!vars
<1>4. CASE EndResolve
  <2>1. /\ pc = "scan" /\ pc' = "idle" /\ UNCHANGED <<forecasts, cycle>>
        /\ pending' = pending \ resolved /\ resolved = Due
    BY <1>1, <1>4 DEF EndResolve, Phases
  <2>2. \A id \in pending : MatureAt(id, cycle) <=> dueAt(id) <= (cycle - 1) + 1
    BY <1>1, ForecastTyped, FeedbackAssumption DEF MatureAt
  <2>3. Due = Ledger!Mature
    <3>1. \A id \in pending : id \in Ids /\ id <= Len(forecasts)
      BY <1>1
    <3>2. Ledger!Mature = {id \in pending : dueAt(id) <= (cycle - 1) + 1}
      BY <2>1, <3>1 DEF Ledger!Mature
    <3> QED
      BY <2>2, <3>2 DEF Due
  <2>4. Ledger!Settle
    BY <1>1, <2>1, <2>3 DEF Ledger!Settle
  <2> QED
    BY <2>4 DEF Ledger!Next
<1>5. ASSUME NEW t \in unrefreshed, AbortResolve(t)
      PROVE  Ledger!Next
  <2>1. Ledger!Postpone
    BY <1>1, <1>5 DEF AbortResolve, ledger, Ledger!Postpone
  <2> QED
    BY <2>1 DEF Ledger!Next
<1>6. CASE Restart
  <2>1. Ledger!Restart
    BY <1>6 DEF Restart, Ledger!Restart
  <2> QED
    BY <2>1 DEF Ledger!Next
<1>7. ASSUME NEW observed, BeginResolve(observed)
      PROVE  UNCHANGED Ledger!vars
  BY <1>1, <1>3, <1>7 DEF BeginResolve
<1>8. CASE Call
  BY <1>2, <1>3, <1>8 DEF Call, CallAddThread, CallUpdateConfidence, CallComplete, ledger
<1>9. CASE Resolve
  <2>1. CASE \E id \in todo : Visit(id)
    BY <1>3, <2>1 DEF Visit, ledger
  <2>2. CASE \E f \in unscored, written \in BOOLEAN : ScoreField(f, written)
    BY <1>3, <2>2 DEF ScoreField, ledger
  <2>3. CASE \E t \in unrefreshed : RefreshThread(t)
    BY <1>3, <2>3 DEF RefreshThread, ledger
  <2>4. CASE CollectLinked \/ Leave
    BY <1>3, <2>4 DEF CollectLinked, Leave, ledger
  <2> QED
    BY <1>4, <1>5, <1>7, <1>9, <2>1, <2>2, <2>3, <2>4 DEF Resolve
<1>10. CASE UNCHANGED vars
  BY <1>3, <1>10 DEF vars, ledger
<1> QED
  BY <1>6, <1>8, <1>9, <1>10 DEF Next

(* The feedback loop implements the ledger of open forecasts.              *)
THEOREM LoopImplementsLedger == Safety => ImplementsLedger
<1>1. LoopIInv /\ [Next]_vars => [Ledger!Next]_(Ledger!vars)
  BY LedgerStep
<1> QED
  BY <1>1, LedgerInit, LoopInvariant, PTL DEF Safety, ImplementsLedger, Ledger!Spec

-----------------------------------------------------------------------------
(* The gate.                                                               *)

GateOf(thread) ==
  /\ thread.status = "active" /\ thread.gated => thread.confidence >= AbandonThreshold
  /\ thread.status = "abandoned" => thread.gated

LEMMA GatesAre == GateHolds <=> \A t \in Threads : GateOf(threads[t]) /\ GateOf(thread_file[t])
BY DEF GateHolds, GateOf

LEMMA GatesWillBe == GateHolds' <=> \A t \in Threads : GateOf(threads'[t]) /\ GateOf(thread_file'[t])
BY DEF GateHolds, GateOf

\* The file gets what memory holds, or stays.
LEMMA PersistGate ==
  ASSUME GateHolds, NEW written \in BOOLEAN, PersistThreads(written), \A t \in Threads : GateOf(threads'[t])
  PROVE  GateHolds'
BY GatesAre, GatesWillBe DEF PersistThreads

LEMMA AddGate ==
  ASSUME PlanIInv, GateHolds, NEW t \in Threads, NEW c, NEW ids, NEW written \in BOOLEAN,
         AddThread(t, c, ids, written)
  PROVE  GateHolds'
<1> DEFINE new == [status |-> "active", confidence |-> c, forecast_ids |-> ids, gated |-> FALSE]
<1>1. GateOf(new)
  BY DEF GateOf
<1>2. threads' = [threads EXCEPT ![t] = new] /\ DOMAIN threads = Threads /\ PersistThreads(written)
  BY DEF AddThread, PlanIInv, PlanTypeOK, Table
<1> HIDE DEF new
<1>3. \A u \in Threads : GateOf(threads'[u])
  BY <1>1, <1>2, GatesAre
<1> QED
  BY <1>2, <1>3, PersistGate

\* A thread is re-rated: what is not below the threshold is stored at or above it.
LEMMA UpdateGate ==
  ASSUME PlanIInv, GateHolds, NEW t \in Threads, NEW c, NEW below \in BOOLEAN, NEW written \in BOOLEAN,
         UpdateConfidence(t, c, below, written), ~below => c >= AbandonThreshold
  PROVE  GateHolds'
<1> DEFINE status == IF below THEN "abandoned" ELSE threads[t].status
<1> DEFINE new == [[[threads[t] EXCEPT !.confidence = c] EXCEPT !.status = status] EXCEPT !.gated = TRUE]
<1>1. /\ DOMAIN threads = Threads
      /\ DOMAIN threads[t] = {"status", "confidence", "forecast_ids", "gated"}
  BY DEF PlanIInv, PlanTypeOK, Table
<1>2. threads' = [threads EXCEPT ![t] = new]
  BY <1>1 DEF UpdateConfidence
<1>3. new.status = status /\ new.gated = TRUE /\ new.confidence = c
  BY <1>1
<1> HIDE DEF new
<1>4. GateOf(new)
  BY <1>3 DEF GateOf
<1>5. \A u \in Threads : GateOf(threads'[u])
  BY <1>1, <1>2, <1>4, GatesAre
<1> QED
  BY <1>5, PersistGate DEF UpdateConfidence

LEMMA CompleteGate ==
  ASSUME PlanIInv, GateHolds, NEW t \in Threads, NEW written \in BOOLEAN, Complete(t, written)
  PROVE  GateHolds'
<1> DEFINE new == [threads[t] EXCEPT !.status = "completed"]
<1>1. /\ DOMAIN threads = Threads
      /\ DOMAIN threads[t] = {"status", "confidence", "forecast_ids", "gated"}
  BY DEF PlanIInv, PlanTypeOK, Table
<1>2. threads' = [threads EXCEPT ![t] = new]
  BY <1>1 DEF Complete
<1>3. new.status = "completed"
  BY <1>1
<1> HIDE DEF new
<1>4. \A u \in Threads : GateOf(threads'[u])
  BY <1>1, <1>2, <1>3, GatesAre DEF GateOf
<1> QED
  BY <1>4, PersistGate DEF Complete

\* A mean that is not below the threshold is not rounded below it.
LEMMA RefreshIsGated ==
  ASSUME LoopTypes, Phases, StoreIInv, pc = "refresh"
  PROVE  ~FallsBelow => RefreshedConfidence >= AbandonThreshold
<1> DEFINE h == forecasts[current].horizon
<1> DEFINE f == [x \in Recorded |-> Unit - records[<<x, h>>].mae]
<1>1. AbandonThreshold \in Int /\ Unit \in Nat \ {0} /\ IsFiniteSet(Recorded)
  BY PlanTreeAssumption, CalibrationAssumption, FeedbackAssumption, FS_Subset DEF Recorded
<1>2. h \in Horizons
  BY ForecastTyped DEF LoopTypes, Phases
<1>3. \A x \in Recorded : f[x] \in Int
  <2>1. ASSUME NEW x \in Recorded PROVE Unit - records[<<x, h>>].mae \in Int
    <3>1. <<x, h>> \in Keys
      BY <1>2 DEF Keys, Recorded
    <3>2. records[<<x, h>>].mae \in Nat
      BY <3>1 DEF StoreIInv, Sound, Record
    <3> QED
      BY <1>1, <3>2
  <2> QED
    BY <2>1
<1>4. Trust = SumFunctionOnSet(f, Recorded)
  BY DEF Trust, SumFunction
<1> HIDE DEF f, h
<1>5. Trust \in Int
  BY <1>1, <1>3, <1>4, SumType
<1>6. CASE Recorded = {}
  BY <1>1, <1>6 DEF FallsBelow, RefreshedConfidence
<1>7. CASE Recorded # {}
  <2> DEFINE c == Cardinality(Recorded)
  <2>1. c \in Nat \ {0}
    BY <1>1, <1>7, FS_CardinalityType, FS_EmptySet
  <2>2. SUFFICES ASSUME ~(Trust < AbandonThreshold * c) PROVE RoundedDiv(Trust, c) >= AbandonThreshold
    BY <1>7 DEF FallsBelow, RefreshedConfidence
  <2> HIDE DEF c
  <2>3. c * AbandonThreshold \in Int /\ c * AbandonThreshold <= Trust
    BY <1>1, <1>5, <2>1, <2>2
  <2>4. RoundedDiv(c * AbandonThreshold, c) <= RoundedDiv(Trust, c)
    BY <1>5, <2>1, <2>3, RoundingMonotone
  <2>5. RoundedDiv(c * AbandonThreshold, c) = AbandonThreshold
    BY <1>1, <2>1, RoundingExact
  <2>6. RoundedDiv(Trust, c) \in Int
    BY <1>5, <2>1, RoundingError
  <2> QED
    BY <1>1, <2>4, <2>5, <2>6
<1> QED
  BY <1>6, <1>7

LEMMA StepGate ==
  ASSUME LoopIInv, GateHolds, [Next]_vars
  PROVE  GateHolds'
<1>1. LoopTypes /\ Phases /\ StoreIInv /\ PlanIInv
  BY DEF LoopIInv
<1>2. CASE Call
  <2>1. ASSUME NEW t \in Threads, NEW c \in Confidences, NEW written \in BOOLEAN,
               CallUpdateConfidence(t, c, written)
        PROVE  GateHolds'
    <3> DEFINE below == c < AbandonThreshold
    <3>1. below \in BOOLEAN /\ (~below => c >= AbandonThreshold)
      BY PlanTreeAssumption, FeedbackAssumption
    <3>2. UpdateConfidence(t, c, below, written)
      BY <2>1 DEF CallUpdateConfidence
    <3> HIDE DEF below
    <3> QED
      BY <1>1, <3>1, <3>2, UpdateGate
  <2>2. CASE UNCHANGED planVars
    BY <2>2, GatesAre, GatesWillBe DEF planVars
  <2> QED
    BY <1>1, <1>2, <2>1, <2>2, AddGate, CompleteGate DEF Call, Register, CallAddThread, CallComplete
<1>3. CASE Resolve
  <2>1. ASSUME NEW t \in unrefreshed, RefreshThread(t) \/ AbortResolve(t) PROVE GateHolds'
    <3> DEFINE c == RefreshedConfidence
    <3> DEFINE below == FallsBelow
    <3>1. t \in Threads /\ below \in BOOLEAN /\ (~below => c >= AbandonThreshold)
      <4>1. pc = "refresh"
        BY <2>1 DEF RefreshThread, AbortResolve
      <4> QED
        BY <1>1, <4>1, RefreshIsGated, FallsBelowTyped DEF LoopTypes
    <3>2. PICK written \in BOOLEAN : UpdateConfidence(t, c, below, written)
      BY <2>1 DEF RefreshThread, AbortResolve
    <3> HIDE DEF c, below
    <3> QED
      BY <1>1, <3>1, <3>2, UpdateGate
  <2>2. CASE UNCHANGED planVars
    BY <2>2, GatesAre, GatesWillBe DEF planVars
  <2> QED
    BY <1>3, <2>1, <2>2 DEF Resolve, BeginResolve, Visit, ScoreField, CollectLinked, Leave, EndResolve
<1>4. CASE Restart
  BY <1>4, GatesAre, GatesWillBe DEF Restart, LoadThreads
<1>5. CASE UNCHANGED vars
  BY <1>5, GatesAre, GatesWillBe DEF vars, planVars
<1> QED
  BY <1>2, <1>3, <1>4, <1>5 DEF Next

(* An active thread that was ever re-rated is at or above the threshold,   *)
(* in memory and in the file, although its confidence is stored rounded;   *)
(* and only re-rating abandons a thread: for any threshold, confidences,   *)
(* errors, failures and restarts (update_confidence, plan_tree.py:71-81).  *)
THEOREM GateAlwaysHolds == Safety => []GateHolds
<1>1. Init => GateHolds
  <2>1. Init => \A t \in Threads : threads[t] = NoThread /\ thread_file[t] = NoThread
    BY DEF Init, PlanInit
  <2>2. GateOf(NoThread)
    BY DEF GateOf, NoThread
  <2> QED
    BY <2>1, <2>2, GatesAre
<1>2. LoopIInv /\ GateHolds /\ [Next]_vars => GateHolds'
  BY StepGate
<1> QED
  BY <1>1, <1>2, LoopInvariant, PTL DEF Safety
=============================================================================
