---------------------------- MODULE AnomalyDetector ----------------------------
(***************************************************************************)
(* AnomalyDetector (core/self_model/anomaly_detector.py): whether the last *)
(* value of a rolling window is an anomaly, measured in deviations of the  *)
(* values before it.  Roots and quotients are avoided: squares are         *)
(* compared, multiplied by what would divide them.                         *)
(***************************************************************************)
EXTENDS Integers, SequencesExt, Functions

CONSTANTS
  MinSamples,  \* min_samples
  Window,      \* window: the length of a full one
  Warn,        \* warn_threshold, in tenths
  Critical     \* critical_threshold, in tenths

ASSUME DetectorAssumption ==
  /\ {MinSamples, Window} \subseteq Nat \ {0}
  /\ {Warn, Critical} \subseteq Nat

\* A window takes a value, and drops its oldest one when it is full.
Fed(window, value) ==
  IF Len(window) < Window THEN Append(window, value) ELSE Tail(Append(window, value))

SumOf(values) == SumFunction(values)
SumOfSquares(values) == SumFunction([i \in DOMAIN values |-> values[i] * values[i]])

\* n (n - 1) times the variance of n values, a sample variance
Spread(values) == Len(values) * SumOfSquares(values) - SumOf(values) * SumOf(values)

\* |value - mean| > tenths / 10 * stdev
Beyond(prior, value, tenths) ==
  LET n == Len(prior)
      off == n * value - SumOf(prior)
  IN  100 * off * off * (n - 1) > tenths * tenths * n * Spread(prior)

\* mistake: the baseline leaves out one value too many
SeverityOfOlder(window) ==
  LET prior == SubSeq(window, 1, Len(window) - 2)
  IN  IF Len(window) < MinSamples \/ Len(prior) < 2 \/ Spread(prior) = 0 THEN "none"
      ELSE IF Beyond(prior, Last(window), Critical) THEN "critical"
      ELSE IF Beyond(prior, Last(window), Warn) THEN "warn" ELSE "none"

\* The baseline is what the window holds besides the value; one that has
\* never varied is no baseline.
Severity(window) ==
  LET prior == Front(window)
  IN  IF Len(window) < MinSamples \/ Len(prior) < 2 \/ Spread(prior) = 0 THEN "none"
      ELSE IF Beyond(prior, Last(window), Critical) THEN "critical"
      ELSE IF Beyond(prior, Last(window), Warn) THEN "warn" ELSE "none"

Anomalous(window) == Severity(window) # "none"
=============================================================================
