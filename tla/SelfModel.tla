------------------------------- MODULE SelfModel -------------------------------
(***************************************************************************)
(* SelfModel (core/self_model/model.py) with its telemetry aggregator,     *)
(* health scorer and snapshot writer.  One tick reads every registered     *)
(* source, scores the sources one after another, counts and appends the    *)
(* anomalies of each to the memory store, and at the end writes            *)
(* world_snapshot.json and then world_trends.json.  The append and the two *)
(* writes may raise, which ends the tick where it stands; the scores and   *)
(* the counter keep what the tick had done by then.                        *)
(*                                                                         *)
(* A metric that never varies has no anomaly, so the one that stands for   *)
(* failed reads needs no window.  Trends are left out but for the file     *)
(* they are written to.                                                    *)
(***************************************************************************)
EXTENDS FixedPoint, AnomalyDetector

CONSTANTS
  Sources,      \* telemetry source ids
  Readings,     \* what the read() of a source may return: metric -> value
  Unit,         \* the fixed-point representation of 1.0 (10^4 in the code)
  HasStore,     \* a memory store was given to the constructor
  Rehearsed,    \* windows tried besides those that come about
  MaxTicks,     \* cap on the ticks of one process
  MaxRestarts   \* cap on the process's restarts

\* The metrics that stand for a source whose read() raised or returned no
\* dictionary.
ErrorMetrics == [error |-> Unit]

AllReadings == UNION {Readings[s] : s \in Sources}
Metrics == UNION {DOMAIN r : r \in AllReadings}

ASSUME SelfModelAssumption ==
  /\ IsFiniteSet(Sources)
  /\ Unit \in Nat \ {0}
  /\ HasStore \in BOOLEAN
  /\ "error" \notin Metrics /\ IsFiniteSet(Metrics)
  /\ \A r \in AllReadings : \A m \in DOMAIN r : r[m] \in Int
  /\ Rehearsed \subseteq Seq(Int)
  /\ {MaxTicks, MaxRestarts} \subseteq Nat

Unscored == -1

VARIABLES
  sources,        \* registered sources
  scores,         \* HealthScorer._health: the last score of each source
  windows,        \* the detector's window of each metric of each source
  anomaly_count,  \* _anomaly_count
  pc,             \* "idle" between ticks
  collected,      \* inside a tick: the metrics of each source
  todo,           \* inside a tick: sources not scored yet
  node_health,    \* inside a tick: the scores given so far
  found,          \* inside a tick: the anomalies of a source still to append
  snapshot_file,  \* world_snapshot.json
  trends_file,    \* world_trends.json: the ratio it holds
  (* history *)
  failing,        \* sources whose last read failed
  detected,       \* anomalies the detector has returned to this process
  logged,         \* anomaly events this process has appended
  ticks,          \* ticks begun by this process
  failed_ticks,   \* ticks of this process that raised
  restarts

registry == <<sources, scores, windows, anomaly_count>>
local    == <<collected, todo, node_health, found>>
files    == <<snapshot_file, trends_file>>
history  == <<failing, detected, logged, ticks, failed_ticks, restarts>>
vars == <<registry, pc, local, files, history>>

Empty == [s \in {} |-> 0]
NoSnapshot == [node_health |-> Empty, ratio |-> 0, anomaly_count |-> 0]

Init ==
  /\ sources = {}
  /\ scores = [s \in Sources |-> Unscored]
  /\ windows = [s \in Sources |-> [m \in Metrics |-> <<>>]]
  /\ anomaly_count = 0
  /\ pc = "idle"
  /\ collected = Empty /\ todo = {} /\ node_health = Empty /\ found = {}
  /\ snapshot_file = NoSnapshot
  /\ trends_file = 0
  /\ failing = {} /\ detected = 0 /\ logged = 0
  /\ ticks = 0 /\ failed_ticks = 0 /\ restarts = 0

-----------------------------------------------------------------------------
RegisterSource(s) ==
  /\ pc = "idle"
  /\ sources' = sources \union {s}
  /\ UNCHANGED <<scores, windows, anomaly_count, pc, local, files, history>>

\* The aggregator forgets the source; the scorer and the detector do not.
UnregisterSource(s) ==
  /\ pc = "idle"
  /\ sources' = sources \ {s}
  /\ UNCHANGED <<scores, windows, anomaly_count, pc, local, files, history>>

\* collect: a source that fails is read as ErrorMetrics.
BeginTick(readings, fails) ==
  /\ pc = "idle"
  /\ ticks < MaxTicks
  /\ \A s \in sources : readings[s] \in Readings[s]
  /\ collected' = [s \in sources |-> IF s \in fails THEN ErrorMetrics ELSE readings[s]]
  /\ failing' = (failing \ sources) \union fails
  /\ todo' = sources
  /\ node_health' = Empty
  /\ pc' = "score"
  /\ ticks' = ticks + 1
  /\ UNCHANGED <<registry, found, files, detected, logged, failed_ticks, restarts>>

\* HealthScorer.update: the mean of the clipped values, 0 without any.
Score(metrics) ==
  IF DOMAIN metrics = {} THEN 0
  ELSE RoundedDiv(SumFunction([m \in DOMAIN metrics |-> Clipped(metrics[m], Unit)]),
                  Cardinality(DOMAIN metrics))

\* AnomalyDetector.update
WindowsAfter(s) ==
  [m \in Metrics |-> IF m \in DOMAIN collected[s] THEN Fed(windows[s][m], collected[s][m])
                                                  ELSE windows[s][m]]
AnomaliesOf(s) == {m \in DOMAIN collected[s] \intersect Metrics : Anomalous(WindowsAfter(s)[m])}

\* The source is scored and its anomalies are looked for; without a store
\* to append them to they are dropped, uncounted.
ScoreSource(s) ==
  /\ pc = "score"
  /\ s \in todo
  /\ todo' = todo \ {s}
  /\ scores' = [scores EXCEPT ![s] = Score(collected[s])]
  /\ node_health' = [u \in DOMAIN node_health \union {s} |->
                      IF u = s THEN Score(collected[u]) ELSE node_health[u]]
  /\ windows' = [windows EXCEPT ![s] = WindowsAfter(s)]
  /\ detected' = detected + Cardinality(AnomaliesOf(s))
  /\ found' = IF HasStore THEN {<<s, m>> : m \in AnomaliesOf(s)} ELSE {}
  /\ pc' = IF found' # {} THEN "log" ELSE "score"
  /\ UNCHANGED <<sources, anomaly_count, collected, files,
                 failing, logged, ticks, failed_ticks, restarts>>

\* tick raises, or the process that called it does not come back to it.
GiveUp ==
  /\ pc' = "idle"
  /\ collected' = Empty /\ todo' = {} /\ node_health' = Empty /\ found' = {}

\* The anomaly is counted before it is appended.
LogAnomaly(a) ==
  /\ pc = "log"
  /\ a \in found
  /\ anomaly_count' = anomaly_count + 1
  /\ logged' = logged + 1
  /\ found' = found \ {a}
  /\ pc' = IF found' = {} THEN "score" ELSE "log"
  /\ UNCHANGED <<sources, scores, windows, collected, todo, node_health, files,
                 failing, detected, ticks, failed_ticks, restarts>>

\* mistake: the source's anomalies are counted together, before the appends
LogFailsCountingAll ==
  /\ pc = "log"
  /\ anomaly_count' = anomaly_count + Cardinality(found)
  /\ failed_ticks' = failed_ticks + 1
  /\ GiveUp
  /\ UNCHANGED <<sources, scores, windows, files, failing, detected, logged, ticks, restarts>>

LogFails ==
  /\ pc = "log"
  /\ anomaly_count' = anomaly_count + 1
  /\ failed_ticks' = failed_ticks + 1
  /\ GiveUp
  /\ UNCHANGED <<sources, scores, windows, files, failing, detected, logged, ticks, restarts>>

Mean(f) ==
  IF DOMAIN f = {} THEN 0
  ELSE RoundedDiv(SumFunction(f), Cardinality(DOMAIN f))

\* The sources this process has scored, registered still or not.
Scored == {s \in Sources : scores[s] # Unscored}

\* mistake: their scores are divided by the number of those registered
RatioPerRegistered ==
  IF sources = {} THEN 0
  ELSE RoundedDiv(SumFunction([s \in Scored |-> scores[s]]), Cardinality(sources))

\* system_health_ratio
Ratio == Mean([s \in Scored |-> scores[s]])

\* mistake: every score the scorer knows is written
WriteSnapshotOfAll ==
  /\ pc = "score"
  /\ todo = {}
  /\ snapshot_file' = [node_health |-> [s \in Scored |-> scores[s]], ratio |-> Ratio,
                       anomaly_count |-> anomaly_count]
  /\ pc' = "trends"
  /\ UNCHANGED <<registry, local, trends_file, history>>

WriteSnapshot ==
  /\ pc = "score"
  /\ todo = {}
  /\ snapshot_file' = [node_health |-> node_health, ratio |-> Ratio, anomaly_count |-> anomaly_count]
  /\ pc' = "trends"
  /\ UNCHANGED <<registry, local, trends_file, history>>

WriteTrends ==
  /\ pc = "trends"
  /\ trends_file' = snapshot_file.ratio
  /\ GiveUp
  /\ UNCHANGED <<registry, snapshot_file, history>>

\* One of the two writes raises.
WriteFails ==
  /\ pc = "trends" \/ (pc = "score" /\ todo = {})
  /\ failed_ticks' = failed_ticks + 1
  /\ GiveUp
  /\ UNCHANGED <<registry, files, failing, detected, logged, ticks, restarts>>

\* A new process: nothing but the files is left.
Restart ==
  /\ restarts < MaxRestarts
  /\ restarts' = restarts + 1
  /\ sources' = {}
  /\ scores' = [s \in Sources |-> Unscored]
  /\ windows' = [s \in Sources |-> [m \in Metrics |-> <<>>]]
  /\ anomaly_count' = 0
  /\ GiveUp
  /\ failing' = {} /\ detected' = 0 /\ logged' = 0 /\ ticks' = 0 /\ failed_ticks' = 0
  /\ UNCHANGED files

Tick ==
  \/ \E readings \in [sources -> AllReadings], fails \in SUBSET sources : BeginTick(readings, fails)
  \/ \E s \in todo : ScoreSource(s)
  \/ \E a \in found : LogAnomaly(a)
  \/ LogFails \/ WriteSnapshot \/ WriteTrends \/ WriteFails

Next ==
  \/ \E s \in Sources : RegisterSource(s) \/ UnregisterSource(s)
  \/ Tick
  \/ Restart

Safety == Init /\ [][Next]_vars

-----------------------------------------------------------------------------
\* A source is scored once a tick at most, and anomalies are found only to be
\* logged.
TypeOK ==
  /\ sources \subseteq Sources /\ todo \subseteq sources /\ failing \subseteq Sources
  /\ DOMAIN scores = Sources
  /\ windows \in [Sources -> [Metrics -> Seq(Int)]]
  /\ \A s \in todo : \A m \in DOMAIN collected[s] : collected[s][m] \in Int
  /\ pc \in {"idle", "score", "log", "trends"}
  /\ DOMAIN node_health \subseteq sources
  /\ found \subseteq sources \X Metrics /\ IsFiniteSet(found) /\ (found # {} <=> pc = "log")
  /\ ticks \in 0..MaxTicks /\ restarts \in 0..MaxRestarts
  /\ {anomaly_count, detected, logged, failed_ticks} \subseteq Nat

(* Every event this process appended is counted, and what the counter says *)
(* beyond that is one anomaly for each tick that failed appending it.  An  *)
(* anomaly found is dropped only by a tick that failed.                    *)
AnomaliesAccounted ==
  /\ logged <= anomaly_count /\ anomaly_count <= logged + failed_ticks
  /\ HasStore /\ failed_ticks = 0 => detected = anomaly_count + Cardinality(found)

(* No anomaly is reported before its metric has been read often enough to  *)
(* have a baseline, and a restart forgets the readings.                    *)
ColdStart == detected > 0 => ticks >= MinSamples

\* What exceeds the lower threshold is reported, whichever of the two that is.
Lower == IF Warn <= Critical THEN Warn ELSE Critical

\* At a threshold of t deviations a value is familiar once it makes up one
\* part in 1 + t^2 of its baseline.
Familiar(window) ==
  LET same == {i \in 1..Len(window) - 1 : window[i] = Last(window)}
  IN  Cardinality(same) * (100 + Lower * Lower) >= 100 * (Len(window) - 1)

\* Windows longer than those a run reaches behave alike.
RehearsedAreQuiet == \A window \in Rehearsed : Familiar(window) => ~Anomalous(window)

(* What a metric has been lately is no anomaly, however large it is and    *)
(* whatever else the window holds: at a threshold of 2.0 a new level is    *)
(* reported until it makes up a fifth of the window, and none before a     *)
(* baseline has been read (AnomalyDetector.update,                         *)
(* anomaly_detector.py:50-104).                                            *)
FamiliarIsQuiet ==
  /\ ColdStart
  /\ \A a \in found : ~Familiar(windows[a[1]][a[2]])
  /\ RehearsedAreQuiet

(* The snapshot just written is of one tick and of all of it: it has every *)
(* registered source, scored as read by that tick; and when no other       *)
(* source was ever scored, the ratio beside them is their mean.            *)
SnapshotIsOneTick ==
  pc = "trends" =>
    /\ snapshot_file.node_health = [s \in sources |-> Score(collected[s])]
    /\ Scored = sources => snapshot_file.ratio = Mean(snapshot_file.node_health)

(* The ratio published beside the scores of a tick weighs every source     *)
(* this process ever scored, by whatever tick, one that failed included:   *)
(* those unregistered since then, of which the snapshot has no score, pull *)
(* it off the mean of the scores it has, by no more than their share of    *)
(* the sources and what rounding adds (system_health_ratio,                *)
(* health_scorer.py:77-81, and unregister_source, model.py:84-86).         *)
DroppedPullTheirShare ==
  pc = "trends" =>
    LET dropped == Cardinality(Scored \ sources)
        total == Cardinality(sources) + dropped
        pull == total * snapshot_file.ratio - SumFunction(snapshot_file.node_health)
    IN  -total <= 2 * pull /\ 2 * pull <= 2 * Unit * dropped + total

(* "Missing/error keys are treated as 0.0" (health_scorer.py:46).  It does *)
(* not hold: the metrics of a failed source, {"error": 1.0}, score 1.0.    *)
FailedSourceScoresZero ==
  \A s \in failing \intersect DOMAIN node_health : node_health[s] = 0

=============================================================================
