---------------------------- MODULE SelfModelProofs ----------------------------
(***************************************************************************)
(* Theorems of SelfModel, for any sources and readings, any thresholds of  *)
(* the detector, and any number of ticks, failures and restarts.           *)
(***************************************************************************)
EXTENDS SelfModel, ArithmeticProofs, SequenceTheorems

-----------------------------------------------------------------------------
(* The inductive invariant, in parts.                                      *)

\* Outside a tick its locals are empty.
Idle == pc = "idle" => todo = {} /\ node_health = Empty

\* A source that is still to be scored has been read before this tick only.
Seen == \A s \in Sources, m \in Metrics : Len(windows[s][m]) + (IF s \in todo THEN 1 ELSE 0) <= ticks

\* The scores of the tick so far are those of what it has collected.
ScoredSoFar ==
  pc \in {"score", "log"} =>
    /\ node_health = [s \in sources \ todo |-> Score(collected[s])]
    /\ \A s \in sources \ todo : scores[s] = Score(collected[s])

TickInv == Idle /\ Seen /\ ScoredSoFar

Accounts == AnomaliesAccounted /\ ColdStart

IInv == TypeOK /\ TickInv /\ Accounts /\ SnapshotIsOneTick

LEMMA WindowTyped ==
  ASSUME TypeOK, NEW s \in Sources, NEW m \in Metrics
  PROVE  windows[s][m] \in Seq(Int) /\ Len(windows[s][m]) \in Nat
<1>1. windows[s] \in [Metrics -> Seq(Int)]
  BY DEF TypeOK
<1>2. windows[s][m] \in Seq(Int)
  BY <1>1
<1> QED
  BY <1>2, LenProperties

LEMMA InitIInv == Init => IInv
<1> SUFFICES ASSUME Init PROVE IInv
  OBVIOUS
<1> USE SelfModelAssumption DEF Init
<1>1. TypeOK
  <2>1. windows \in [Sources -> [Metrics -> Seq(Int)]]
    <3>1. <<>> \in Seq(Int)
      BY EmptySeq
    <3>2. [m \in Metrics |-> <<>>] \in [Metrics -> Seq(Int)]
      BY <3>1
    <3> QED
      BY <3>2
  <2>2. IsFiniteSet(found)
    BY FS_EmptySet
  <2> QED
    BY <2>1, <2>2 DEF TypeOK, Empty
<1>2. TickInv
  <2>1. Seen
    <3>1. \A s \in Sources, m \in Metrics : windows[s][m] = <<>>
      OBVIOUS
    <3> QED
      BY <3>1 DEF Seen
  <2> QED
    BY <2>1 DEF TickInv, Idle, ScoredSoFar
<1>3. Accounts
  <2>1. Cardinality(found) = 0
    BY FS_EmptySet
  <2> QED
    BY <2>1, DetectorAssumption DEF Accounts, AnomaliesAccounted, ColdStart
<1>4. SnapshotIsOneTick
  BY DEF SnapshotIsOneTick, NoSnapshot
<1> QED
  BY <1>1, <1>2, <1>3, <1>4 DEF IInv

-----------------------------------------------------------------------------
LEMMA RegistryKeeps ==
  ASSUME IInv, NEW s \in Sources, RegisterSource(s) \/ UnregisterSource(s)
  PROVE  IInv'
<1> USE DEF RegisterSource, UnregisterSource, local, files, history
<1>1. /\ pc = "idle" /\ pc' = "idle" /\ sources' \subseteq Sources
      /\ UNCHANGED <<scores, windows, anomaly_count, local, files, history>>
  BY DEF IInv, TypeOK
<1>2. todo = {} /\ node_health = Empty
  BY <1>1 DEF IInv, TickInv, Idle
<1>3. TypeOK'
  BY <1>1, <1>2 DEF IInv, TypeOK, Empty
<1>4. TickInv'
  BY <1>1, <1>2 DEF IInv, TickInv, Idle, Seen, ScoredSoFar
<1>5. Accounts' /\ SnapshotIsOneTick'
  BY <1>1 DEF IInv, Accounts, AnomaliesAccounted, ColdStart, SnapshotIsOneTick
<1> QED
  BY <1>3, <1>4, <1>5 DEF IInv

LEMMA BeginTickKeeps ==
  ASSUME IInv, NEW readings \in [sources -> AllReadings], NEW fails \in SUBSET sources,
         BeginTick(readings, fails)
  PROVE  IInv'
<1> USE DEF BeginTick, registry, files
<1>1. ticks \in Nat /\ ticks' = ticks + 1 /\ MaxTicks \in Nat /\ ticks' \in 0..MaxTicks
  BY SelfModelAssumption DEF IInv, TypeOK
<1>2. \A s \in Sources, m \in Metrics : Len(windows[s][m]) \in Nat /\ Len(windows[s][m]) <= ticks
  <2>1. \A s \in Sources, m \in Metrics : Len(windows[s][m]) \in Nat
    BY WindowTyped DEF IInv
  <2>2. pc = "idle" /\ todo = {}
    BY DEF IInv, TickInv, Idle
  <2> QED
    BY <1>1, <2>1, <2>2 DEF IInv, TickInv, Seen
<1>3. TypeOK'
  <2>1. \A s \in sources : \A m \in DOMAIN collected'[s] : collected'[s][m] \in Int
    <3>1. \A s \in sources : collected'[s] = ErrorMetrics \/ collected'[s] \in AllReadings
      OBVIOUS
    <3>2. \A m \in DOMAIN ErrorMetrics : ErrorMetrics[m] \in Int
      BY SelfModelAssumption DEF ErrorMetrics
    <3> QED
      BY <3>1, <3>2, SelfModelAssumption
  <2>2. todo' = sources /\ sources' = sources
    OBVIOUS
  <2> QED
    BY <1>1, <2>1, <2>2 DEF IInv, TypeOK, Empty
<1>4. TickInv'
  <2>1. Seen'
    <3>1. \A s \in Sources, m \in Metrics : Len(windows'[s][m]) \in Nat /\ Len(windows'[s][m]) <= ticks
      BY <1>2
    <3>2. ASSUME NEW s \in Sources, NEW m \in Metrics
          PROVE  Len(windows'[s][m]) + (IF s \in todo' THEN 1 ELSE 0) <= ticks'
      <4> DEFINE n == Len(windows'[s][m])
      <4>1. n \in Nat /\ n <= ticks
        BY <3>1
      <4> HIDE DEF BeginTick, registry, files, n
      <4>2. n + (IF s \in todo' THEN 1 ELSE 0) <= ticks'
        BY <1>1, <4>1
      <4> QED
        BY <4>2 DEF n
    <3> QED
      BY <3>2 DEF Seen
  <2>2. Idle' /\ ScoredSoFar'
    BY DEF Idle, ScoredSoFar, Empty
  <2> QED
    BY <2>1, <2>2 DEF TickInv
<1>5. Accounts' /\ SnapshotIsOneTick'
  BY <1>1, DetectorAssumption
  DEF IInv, TypeOK, Accounts, AnomaliesAccounted, ColdStart, SnapshotIsOneTick
<1> QED
  BY <1>3, <1>4, <1>5 DEF IInv

\* A window that takes a value stays a window and grows by one at most.
LEMMA FedTyped ==
  ASSUME NEW w \in Seq(Int), NEW x \in Int
  PROVE  Fed(w, x) \in Seq(Int) /\ Len(Fed(w, x)) <= Len(w) + 1
<1>1. /\ Append(w, x) \in Seq(Int) /\ Len(Append(w, x)) = Len(w) + 1
      /\ Append(w, x) # <<>> /\ Len(w) \in Nat
  BY AppendProperties, LenProperties
<1>2. Tail(Append(w, x)) \in Seq(Int) /\ Len(Tail(Append(w, x))) = Len(w)
  BY <1>1, HeadTailProperties
<1> QED
  BY <1>1, <1>2 DEF Fed

\* What the detector makes of a source: a window for each metric, no longer
\* than the ticks, and anomalies only in windows that are long enough.
LEMMA DetectorTyped ==
  ASSUME IInv, NEW s \in todo
  PROVE  /\ WindowsAfter(s) \in [Metrics -> Seq(Int)]
         /\ \A m \in Metrics : Len(WindowsAfter(s)[m]) <= ticks
         /\ AnomaliesOf(s) \subseteq Metrics
         /\ IsFiniteSet(AnomaliesOf(s)) /\ Cardinality(AnomaliesOf(s)) \in Nat
         /\ AnomaliesOf(s) # {} => ticks >= MinSamples
<1>1. /\ s \in Sources /\ ticks \in Nat
      /\ \A m \in Metrics : windows[s][m] \in Seq(Int)
      /\ \A m \in DOMAIN collected[s] : collected[s][m] \in Int
  BY SelfModelAssumption DEF IInv, TypeOK
<1>2. \A m \in Metrics : Len(windows[s][m]) \in Nat /\ Len(windows[s][m]) + 1 <= ticks
  <2>1. \A m \in Metrics : Len(windows[s][m]) \in Nat
    BY <1>1, WindowTyped DEF IInv
  <2>2. \A m \in Metrics : Len(windows[s][m]) + (IF s \in todo THEN 1 ELSE 0) <= ticks
    BY <1>1 DEF IInv, TickInv, Seen
  <2> QED
    BY <2>1, <2>2
<1>3. \A m \in Metrics : WindowsAfter(s)[m] \in Seq(Int) /\ Len(WindowsAfter(s)[m]) <= ticks
  <2> SUFFICES ASSUME NEW m \in Metrics
               PROVE  WindowsAfter(s)[m] \in Seq(Int) /\ Len(WindowsAfter(s)[m]) <= ticks
    OBVIOUS
  <2>1. WindowsAfter(s)[m] = IF m \in DOMAIN collected[s] THEN Fed(windows[s][m], collected[s][m])
                                                        ELSE windows[s][m]
    BY DEF WindowsAfter
  <2>2. CASE m \in DOMAIN collected[s]
    <3>1. /\ Fed(windows[s][m], collected[s][m]) \in Seq(Int)
          /\ Len(Fed(windows[s][m], collected[s][m])) <= Len(windows[s][m]) + 1
      BY <1>1, <2>2, FedTyped
    <3>2. Len(Fed(windows[s][m], collected[s][m])) \in Nat
      BY <3>1
    <3> QED
      BY <1>1, <1>2, <2>1, <2>2, <3>1, <3>2
  <2>3. CASE m \notin DOMAIN collected[s]
    BY <1>1, <1>2, <2>1, <2>3
  <2> QED
    BY <2>2, <2>3
<1>4. AnomaliesOf(s) \subseteq Metrics
  BY DEF AnomaliesOf
<1>5. IsFiniteSet(AnomaliesOf(s))
  BY <1>4, SelfModelAssumption, FS_Subset
<1>6. Cardinality(AnomaliesOf(s)) \in Nat
  BY <1>5, FS_CardinalityType
<1>7. ASSUME NEW m \in AnomaliesOf(s) PROVE ticks >= MinSamples
  <2>1. ~(Len(WindowsAfter(s)[m]) < MinSamples)
    BY <1>7 DEF AnomaliesOf, Anomalous, Severity
  <2>2. Len(WindowsAfter(s)[m]) \in Nat /\ MinSamples \in Nat
    BY <1>3, <1>4, DetectorAssumption
  <2> QED
    BY <1>1, <1>3, <1>4, <2>1, <2>2
<1>8. WindowsAfter(s) \in [Metrics -> Seq(Int)]
  BY <1>3 DEF WindowsAfter
<1> QED
  BY <1>3, <1>4, <1>5, <1>6, <1>7, <1>8

LEMMA ScoreSourceKeeps ==
  ASSUME IInv, NEW s \in todo, ScoreSource(s)
  PROVE  IInv'
<1> DEFINE score == Score(collected[s])
<1> DEFINE after == WindowsAfter(s)
<1> DEFINE anomalies == AnomaliesOf(s)
<1>1. /\ pc = "score" /\ todo' = todo \ {s}
      /\ scores' = [scores EXCEPT ![s] = score]
      /\ node_health' = [u \in DOMAIN node_health \union {s} |-> IF u = s THEN score ELSE node_health[u]]
      /\ windows' = [windows EXCEPT ![s] = after]
      /\ detected' = detected + Cardinality(anomalies)
      /\ found' = IF HasStore THEN {<<s, m>> : m \in anomalies} ELSE {}
      /\ pc' = (IF found' # {} THEN "log" ELSE "score")
      /\ UNCHANGED <<sources, anomaly_count, collected, snapshot_file, trends_file,
                     failing, logged, ticks, failed_ticks, restarts>>
  BY DEF ScoreSource, files, IInv, TypeOK
<1>2. /\ s \in Sources /\ s \in sources /\ ticks \in Nat /\ found = {}
      /\ DOMAIN scores = Sources /\ windows \in [Sources -> [Metrics -> Seq(Int)]]
  BY <1>1, SelfModelAssumption DEF IInv, TypeOK
<1>3. /\ after \in [Metrics -> Seq(Int)] /\ \A m \in Metrics : Len(after[m]) <= ticks
      /\ anomalies \subseteq Metrics /\ IsFiniteSet(anomalies) /\ Cardinality(anomalies) \in Nat
      /\ anomalies # {} => ticks >= MinSamples
  BY DetectorTyped
<1> HIDE DEF score, after, anomalies
<1>4. /\ windows' \in [Sources -> [Metrics -> Seq(Int)]]
      /\ \A u \in Sources : windows'[u] = IF u = s THEN after ELSE windows[u]
  BY <1>1, <1>2, <1>3
<1>5. /\ found' \subseteq {s} \X anomalies
      /\ IsFiniteSet(found')
      /\ HasStore => Cardinality(found') = Cardinality(anomalies)
  <2>1. found' \subseteq {s} \X anomalies
    BY <1>1
  <2>2. ASSUME HasStore PROVE Cardinality(found') = Cardinality(anomalies)
    <3> DEFINE pair == [m \in anomalies |-> <<s, m>>]
    <3>1. found' = {<<s, m>> : m \in anomalies}
      BY <1>1, <2>2
    <3>2. pair \in Bijection(anomalies, found')
      BY <3>1 DEF Bijection, Injection, Surjection, IsInjective
    <3>3. ExistsBijection(anomalies, found')
      BY <3>2 DEF ExistsBijection
    <3> QED
      BY <1>3, <3>3, FS_Bijection
  <2>3. IsFiniteSet(found')
    <3>1. IsFiniteSet({s} \X anomalies)
      BY <1>3, FS_Singleton, FS_Product
    <3> QED
      BY <2>1, <3>1, FS_Subset
  <2> QED
    BY <2>1, <2>2, <2>3
<1>6. node_health' = [u \in sources \ todo' |-> Score(collected[u])]
      /\ \A u \in sources \ todo' : scores'[u] = Score(collected[u])
  <2>1. sources \ todo' = (sources \ todo) \union {s}
    BY <1>1, <1>2
  <2>2. /\ node_health = [u \in sources \ todo |-> Score(collected[u])]
        /\ \A u \in sources \ todo : scores[u] = Score(collected[u])
    BY <1>1 DEF IInv, TickInv, ScoredSoFar
  <2>3. node_health' = [u \in {s} \union DOMAIN node_health |-> IF u = s THEN score ELSE node_health[u]]
    BY <1>1
  <2>4. \A u \in sources : scores'[u] = IF u = s THEN score ELSE scores[u]
    BY <1>1, <1>2 DEF IInv, TypeOK
  <2> QED
    BY <2>1, <2>2, <2>3, <2>4 DEF score
<1>7. TypeOK'
  <2>1. DOMAIN node_health' \subseteq sources'
    BY <1>1, <1>6
  <2>2. found' \subseteq sources' \X Metrics /\ IsFiniteSet(found') /\ (found' # {} <=> pc' = "log") /\ pc' \in {"score", "log"}
    BY <1>1, <1>2, <1>3, <1>5
  <2>3. DOMAIN scores' = Sources /\ todo' \subseteq sources' /\ detected' \in Nat
    BY <1>1, <1>2, <1>3 DEF IInv, TypeOK
  <2>4. \A u \in todo' : \A m \in DOMAIN collected'[u] : collected'[u][m] \in Int
    BY <1>1 DEF IInv, TypeOK
  <2> QED
    BY <1>1, <1>4, <2>1, <2>2, <2>3, <2>4 DEF IInv, TypeOK
<1>8. TickInv'
  <2>1. Seen'
    <3>1. \A u \in Sources, m \in Metrics :
            Len(windows'[u][m]) \in Nat /\ (u = s => Len(windows'[u][m]) <= ticks)
      BY <1>3, <1>4
    <3>2. \A u \in Sources, m \in Metrics :
            Len(windows[u][m]) + (IF u \in todo THEN 1 ELSE 0) <= ticks
      BY DEF IInv, TickInv, Seen
    <3>3. ASSUME NEW u \in Sources, NEW m \in Metrics
          PROVE  Len(windows'[u][m]) + (IF u \in todo' THEN 1 ELSE 0) <= ticks
      <4>1. CASE u = s
        BY <1>1, <1>2, <3>1, <4>1
      <4>2. CASE u # s
        <5>1. windows'[u] = windows[u] /\ (u \in todo' <=> u \in todo)
          BY <1>1, <1>4, <4>2
        <5> QED
          BY <3>2, <5>1
      <4> QED
        BY <4>1, <4>2
    <3> QED
      BY <1>1, <3>3 DEF Seen
  <2>2. Idle' /\ ScoredSoFar'
    BY <1>1, <1>6 DEF Idle, ScoredSoFar
  <2> QED
    BY <2>1, <2>2 DEF TickInv
<1>9. Accounts'
  <2>1. AnomaliesAccounted'
    <3>1. Cardinality(found) = 0
      BY <1>2, FS_EmptySet
    <3> QED
      BY <1>1, <1>3, <1>5, <3>1 DEF IInv, TypeOK, Accounts, AnomaliesAccounted
  <2>2. anomalies = {} => Cardinality(anomalies) = 0
    BY FS_EmptySet
  <2>3. ColdStart'
    BY <1>1, <1>3, <2>2 DEF IInv, TypeOK, Accounts, ColdStart
  <2> QED
    BY <2>1, <2>3 DEF Accounts
<1>10. SnapshotIsOneTick'
  BY <1>1 DEF IInv, SnapshotIsOneTick
<1> QED
  BY <1>7, <1>8, <1>9, <1>10 DEF IInv

\* A tick that ends, or is given up, with nothing scored left to lose.
LEMMA GivenUp ==
  ASSUME IInv, GiveUp, UNCHANGED <<sources, scores, windows, failing, ticks, restarts>>,
         {anomaly_count', detected', logged', failed_ticks'} \subseteq Nat
  PROVE  TypeOK' /\ TickInv' /\ SnapshotIsOneTick'
<1> USE DEF GiveUp
<1>1. TypeOK'
  BY FS_EmptySet DEF IInv, TypeOK, Empty
<1>2. Seen'
  <2>1. ticks \in Nat /\ \A s \in Sources, m \in Metrics : Len(windows[s][m]) \in Nat
    BY SelfModelAssumption, WindowTyped DEF IInv, TypeOK
  <2>2. \A s \in Sources, m \in Metrics : Len(windows[s][m]) + (IF s \in todo THEN 1 ELSE 0) <= ticks
    BY DEF IInv, TickInv, Seen
  <2>3. ASSUME NEW s \in Sources, NEW m \in Metrics
        PROVE  Len(windows'[s][m]) + (IF s \in todo' THEN 1 ELSE 0) <= ticks'
    <3> DEFINE n == Len(windows[s][m])
    <3>1. n \in Nat /\ ticks \in Nat /\ n + (IF s \in todo THEN 1 ELSE 0) <= ticks
      BY <2>1, <2>2
    <3> HIDE DEF n
    <3>2. n + 0 <= ticks
      BY <3>1
    <3>3. s \notin todo' /\ ticks' = ticks /\ Len(windows'[s][m]) = n
      BY DEF n
    <3> QED
      BY <3>2, <3>3
  <2> QED
    BY <2>3 DEF Seen
<1>3. TickInv'
  BY <1>2 DEF TickInv, Idle, ScoredSoFar
<1>4. SnapshotIsOneTick'
  BY DEF SnapshotIsOneTick
<1> QED
  BY <1>1, <1>3, <1>4

LEMMA LogKeeps == IInv /\ ((\E a \in found : LogAnomaly(a)) \/ LogFails) => IInv'
<1> SUFFICES ASSUME IInv, (\E a \in found : LogAnomaly(a)) \/ LogFails PROVE IInv'
  OBVIOUS
<1>1. pc = "log" /\ {anomaly_count, detected, logged, failed_ticks} \subseteq Nat
  BY DEF IInv, TypeOK, LogAnomaly, LogFails
<1>2. ASSUME NEW a \in found, LogAnomaly(a) PROVE IInv'
  <2> USE <1>2 DEF LogAnomaly, files
  <2>1. TypeOK'
    <3>1. IsFiniteSet(found \ {a})
      BY FS_Subset DEF IInv, TypeOK
    <3>2. found' \subseteq sources' \X Metrics /\ IsFiniteSet(found') /\ (found' # {} <=> pc' = "log")
      BY <3>1 DEF IInv, TypeOK
    <3>3. {anomaly_count', logged'} \subseteq Nat /\ pc' \in {"score", "log"}
      BY <1>1
    <3> QED
      BY <1>1, <3>2, <3>3 DEF IInv, TypeOK
  <2>2. TickInv'
    BY <1>1 DEF IInv, TickInv, Idle, Seen, ScoredSoFar
  <2>3. Accounts'
    <3>1. IsFiniteSet(found)
      BY DEF IInv, TypeOK
    <3>2. Cardinality(found') = Cardinality(found) - 1 /\ Cardinality(found) \in Nat
      BY <3>1, FS_RemoveElement, FS_CardinalityType
    <3> QED
      BY <1>1, <3>2 DEF IInv, Accounts, AnomaliesAccounted, ColdStart
  <2>4. SnapshotIsOneTick'
    BY <1>1 DEF IInv, SnapshotIsOneTick
  <2> QED
    BY <2>1, <2>2, <2>3, <2>4 DEF IInv
<1>3. CASE LogFails
  <2> USE <1>3 DEF LogFails, files
  <2>1. TypeOK' /\ TickInv' /\ SnapshotIsOneTick'
    BY <1>1, GivenUp
  <2>2. Accounts'
    BY <1>1 DEF IInv, Accounts, AnomaliesAccounted, ColdStart
  <2> QED
    BY <2>1, <2>2 DEF IInv
<1> QED
  BY <1>2, <1>3

LEMMA WriteSnapshotKeeps == IInv /\ WriteSnapshot => IInv'
<1> SUFFICES ASSUME IInv, WriteSnapshot PROVE IInv'
  OBVIOUS
<1> USE DEF WriteSnapshot, registry, local, history
<1>1. TypeOK'
  BY DEF IInv, TypeOK
<1>2. TickInv'
  BY DEF IInv, TickInv, Idle, Seen, ScoredSoFar
<1>3. Accounts'
  BY DEF IInv, Accounts, AnomaliesAccounted, ColdStart
<1>4. SnapshotIsOneTick'
  <2>1. /\ snapshot_file'.node_health = node_health /\ snapshot_file'.ratio = Ratio
        /\ UNCHANGED <<sources, scores, collected>>
    OBVIOUS
  <2>2. /\ node_health = [s \in sources |-> Score(collected[s])]
        /\ \A s \in sources : scores[s] = Score(collected[s])
    <3>1. pc = "score" /\ sources \ todo = sources
      BY DEF WriteSnapshot
    <3> QED
      BY <3>1 DEF IInv, TickInv, ScoredSoFar
  <2>3. Scored = sources => Ratio = Mean(node_health)
    <3>1. Scored = sources => [s \in Scored |-> scores[s]] = node_health
      BY <2>2
    <3> QED
      BY <3>1 DEF Ratio
  <2> QED
    BY <2>1, <2>2, <2>3 DEF SnapshotIsOneTick, Scored
<1> QED
  BY <1>1, <1>2, <1>3, <1>4 DEF IInv

LEMMA EndTickKeeps == IInv /\ (WriteTrends \/ WriteFails \/ Restart) => IInv'
<1> SUFFICES ASSUME IInv, WriteTrends \/ WriteFails \/ Restart PROVE IInv'
  OBVIOUS
<1>1. {anomaly_count, detected, logged, failed_ticks} \subseteq Nat
      /\ (pc # "log" => found = {}) /\ Cardinality({}) = 0 /\ restarts \in Nat /\ MaxRestarts \in Nat
  BY SelfModelAssumption, FS_EmptySet DEF IInv, TypeOK
<1>2. CASE WriteTrends
  <2> USE <1>2 DEF WriteTrends, registry, history
  <2>1. TypeOK' /\ TickInv' /\ SnapshotIsOneTick'
    BY <1>1, GivenUp
  <2>2. Accounts'
    BY <1>1 DEF IInv, GiveUp, Accounts, AnomaliesAccounted, ColdStart
  <2> QED
    BY <2>1, <2>2 DEF IInv
<1>3. CASE WriteFails
  <2> USE <1>3 DEF WriteFails, registry, files
  <2>1. TypeOK' /\ TickInv' /\ SnapshotIsOneTick'
    BY <1>1, GivenUp
  <2>2. Accounts'
    BY <1>1 DEF IInv, GiveUp, Accounts, AnomaliesAccounted, ColdStart
  <2> QED
    BY <2>1, <2>2 DEF IInv
<1>4. CASE Restart
  <2> USE <1>4 DEF Restart, GiveUp
  <2>1. TypeOK'
    <3>1. <<>> \in Seq(Int)
      BY EmptySeq
    <3>2. windows' \in [Sources -> [Metrics -> Seq(Int)]]
      BY <3>1
    <3> QED
      BY <1>1, <3>2, SelfModelAssumption, FS_EmptySet DEF TypeOK, Empty, IInv
  <2>2. TickInv'
    <3>1. \A s \in Sources, m \in Metrics : windows'[s][m] = <<>>
      OBVIOUS
    <3> QED
      BY <3>1 DEF TickInv, Idle, Seen, ScoredSoFar
  <2>3. Accounts' /\ SnapshotIsOneTick'
    BY <1>1, DetectorAssumption
    DEF Accounts, AnomaliesAccounted, ColdStart, SnapshotIsOneTick
  <2> QED
    BY <2>1, <2>2, <2>3 DEF IInv
<1> QED
  BY <1>2, <1>3, <1>4

LEMMA StepIInv == IInv /\ [Next]_vars => IInv'
<1> SUFFICES ASSUME IInv, [Next]_vars PROVE IInv'
  OBVIOUS
<1>1. CASE UNCHANGED vars
  <2> USE <1>1 DEF vars, registry, local, files, history
  <2>1. TypeOK' /\ TickInv'
    BY DEF IInv, TypeOK, TickInv, Idle, Seen, ScoredSoFar
  <2>2. Accounts'
    BY DEF IInv, Accounts, AnomaliesAccounted, ColdStart
  <2>3. SnapshotIsOneTick'
    BY DEF IInv, SnapshotIsOneTick, Scored
  <2> QED
    BY <2>1, <2>2, <2>3 DEF IInv
<1> QED
  BY <1>1, RegistryKeeps, BeginTickKeeps, ScoreSourceKeeps, LogKeeps, WriteSnapshotKeeps, EndTickKeeps
  DEF Next, Tick

LEMMA InvariantHolds == Safety => []IInv
BY InitIInv, StepIInv, PTL DEF Safety

-----------------------------------------------------------------------------
(* The types; each source is scored once a tick at most, and what is found *)
(* is logged before anything else happens (tick, model.py:88-129).         *)
THEOREM SelfModelTyped == Safety => []TypeOK
<1>1. IInv => TypeOK
  BY DEF IInv
<1> QED
  BY <1>1, InvariantHolds, PTL

(* The counter is off by one anomaly per failed tick at most, and without  *)
(* failed ticks every anomaly is in it (tick, model.py:103-115).           *)
THEOREM AnomaliesAreAccounted == Safety => []AnomaliesAccounted
<1>1. IInv => AnomaliesAccounted
  BY DEF IInv, Accounts
<1> QED
  BY <1>1, InvariantHolds, PTL

(* A process has no anomaly before it has ticked as often as a baseline    *)
(* takes (AnomalyDetector.update, anomaly_detector.py:50-104).             *)
THEOREM ColdStartIsQuiet == Safety => []ColdStart
<1>1. IInv => ColdStart
  BY DEF IInv, Accounts
<1> QED
  BY <1>1, InvariantHolds, PTL

(* A snapshot has the scores of its own tick for all registered sources,   *)
(* and their mean when no other source was ever scored (tick,              *)
(* model.py:117-128).                                                      *)
THEOREM SnapshotsAreOfOneTick == Safety => []SnapshotIsOneTick
<1>1. IInv => SnapshotIsOneTick
  BY DEF IInv
<1> QED
  BY <1>1, InvariantHolds, PTL

-----------------------------------------------------------------------------
(* What the detector finds familiar.                                       *)

\* Of n values m are the last one and k are not; D and E sum up their
\* distances from it and the squares of these.
LEMMA FamiliarArithmetic ==
  ASSUME NEW k \in Nat, NEW m \in Nat, NEW D \in Int, NEW E \in Nat, NEW t \in Nat,
         D * D <= k * E, m * (100 + t * t) >= 100 * (k + m), k + m > 0
  PROVE  100 * D * D * (k + m - 1) <= t * t * (k + m) * ((k + m) * E - D * D)
<1>1. PICK X \in Nat : X = D * D
  <2>1. D * D >= 0 /\ D * D \in Int
    OBVIOUS
  <2> QED
    BY <2>1
<1>2. PICK T \in Nat : T = t * t
  OBVIOUS
<1>3. PICK n \in Nat : n = k + m
  OBVIOUS
<1>4. PICK Y \in Int : Y = n * E - X
  OBVIOUS
<1>5. X <= k * E /\ 100 * k <= T * m /\ n > 0
  <2>1. m * (100 + T) >= 100 * (k + m)
    BY <1>2
  <2>2. m * (100 + T) = 100 * m + T * m
    OBVIOUS
  <2> QED
    BY <1>1, <1>3, <2>1, <2>2
<1>6. 100 * X <= T * Y
  <2>1. CASE k = 0
    <3>1. X = 0 /\ Y = n * E
      BY <1>4, <1>5, <2>1
    <3>2. n * E >= 0
      OBVIOUS
    <3>3. T * Y >= 0
      BY <3>1, <3>2
    <3> QED
      BY <3>1, <3>3
  <2>2. CASE k > 0
    <3>1. k * Y = n * (k * E) - k * X
      BY <1>4
    <3>2. n * X <= n * (k * E)
      <4>1. PICK z \in Int : z = k * E
        OBVIOUS
      <4>2. X * n <= z * n
        BY <1>5, <4>1, OrderedProducts
      <4> QED
        BY <4>1, <4>2
    <3>3. n * X = k * X + m * X
      BY <1>3
    <3>4. m * X <= k * Y
      BY <3>1, <3>2, <3>3
    <3>5. T * (m * X) <= T * (k * Y)
      <4>1. PICK y \in Int, z \in Int : y = m * X /\ z = k * Y
        OBVIOUS
      <4>2. y * T <= z * T
        BY <3>4, <4>1, OrderedProducts
      <4> QED
        BY <4>1, <4>2
    <3>6. (100 * k) * X <= (T * m) * X
      <4>1. PICK y \in Int, z \in Int : y = 100 * k /\ z = T * m
        OBVIOUS
      <4>2. y * X <= z * X
        BY <1>5, <4>1, OrderedProducts
      <4> QED
        BY <4>1, <4>2
    <3>7. k * (100 * X) <= k * (T * Y)
      <4>1. /\ (T * m) * X = T * (m * X) /\ T * (k * Y) = k * (T * Y) /\ (100 * k) * X = k * (100 * X)
            /\ T * (m * X) \in Int /\ k * (T * Y) \in Int /\ k * (100 * X) \in Int
        OBVIOUS
      <4> QED
        BY <3>5, <3>6, <4>1
    <3>8. PICK a \in Int, b \in Int : a = 100 * X /\ b = T * Y
      OBVIOUS
    <3>9. ASSUME b < a PROVE FALSE
      <4>1. k * b + k <= k * a
        BY <2>2, <3>9, ProductGap
      <4> QED
        BY <2>2, <3>7, <3>8, <4>1
    <3> QED
      BY <3>8, <3>9
  <2> QED
    BY <2>1, <2>2
<1>7. 100 * X * (n - 1) <= n * (T * Y)
  <2>1. PICK a \in Int, b \in Int : a = 100 * X /\ b = T * Y
    OBVIOUS
  <2>2. a >= 0 /\ a <= b
    BY <1>6, <2>1
  <2>3. a * n <= b * n
    BY <2>2, OrderedProducts
  <2>4. a * (n - 1) = a * n - a
    OBVIOUS
  <2>5. a * (n - 1) <= b * n
    BY <2>2, <2>3, <2>4
  <2> QED
    BY <2>1, <2>5
<1>8. /\ 100 * X * (n - 1) = 100 * D * D * (k + m - 1)
      /\ n * (T * Y) = t * t * (k + m) * ((k + m) * E - D * D)
  BY <1>1, <1>2, <1>3, <1>4
<1> QED
  BY <1>7, <1>8

\* A value that is frequent among others is not beyond any of them.
LEMMA FamiliarNotBeyond ==
  ASSUME NEW prior \in Seq(Int), NEW v \in Int, NEW t \in Nat, Len(prior) > 0,
         Cardinality({i \in 1..Len(prior) : prior[i] = v}) * (100 + t * t) >= 100 * Len(prior)
  PROVE  ~Beyond(prior, v, t)
<1> DEFINE S == 1..Len(prior)
<1> DEFINE same == {i \in S : prior[i] = v}
<1> DEFINE other == S \ same
<1> DEFINE Sum(f, u) == SumFunctionOnSet(f, u)
<1> DEFINE one == [i \in S |-> v]
<1> DEFINE sq == [i \in S |-> prior[i] * prior[i]]
<1> DEFINE d == [i \in S |-> 1 * one[i] + (-1) * prior[i]]
<1> DEFINE w == [i \in S |-> v * one[i] + (-(2 * v)) * prior[i]]
<1> DEFINE e == [i \in S |-> 1 * w[i] + 1 * sq[i]]
<1>1. IsFiniteSet(S) /\ S = DOMAIN prior /\ Len(prior) \in Nat
  <2>1. Len(prior) \in Int /\ 1 \in Int
    OBVIOUS
  <2> QED
    BY <2>1, FS_Interval
<1>2. SumOf(prior) = Sum(prior, S) /\ SumOfSquares(prior) = Sum(sq, S)
  BY <1>1 DEF SumOf, SumOfSquares, SumFunction
<1>3. \A i \in S : /\ prior[i] \in Int /\ one[i] \in Int /\ one[i] = v
                  /\ sq[i] \in Int /\ sq[i] = prior[i] * prior[i]
                  /\ d[i] \in Int /\ d[i] = 1 * one[i] + (-1) * prior[i]
                  /\ w[i] \in Int /\ w[i] = v * one[i] + (-(2 * v)) * prior[i]
                  /\ e[i] \in Int /\ e[i] = 1 * w[i] + 1 * sq[i]
  <2> SUFFICES ASSUME NEW i \in S
               PROVE  /\ prior[i] \in Int /\ one[i] \in Int /\ one[i] = v
                      /\ sq[i] \in Int /\ sq[i] = prior[i] * prior[i]
                      /\ d[i] \in Int /\ d[i] = 1 * one[i] + (-1) * prior[i]
                      /\ w[i] \in Int /\ w[i] = v * one[i] + (-(2 * v)) * prior[i]
                      /\ e[i] \in Int /\ e[i] = 1 * w[i] + 1 * sq[i]
    OBVIOUS
  <2>1. prior[i] \in Int /\ one[i] = v
    OBVIOUS
  <2>2. sq[i] = prior[i] * prior[i] /\ d[i] = 1 * one[i] + (-1) * prior[i]
    OBVIOUS
  <2>3. w[i] = v * one[i] + (-(2 * v)) * prior[i]
    OBVIOUS
  <2>4. e[i] = 1 * w[i] + 1 * sq[i]
    OBVIOUS
  <2> HIDE DEF one, sq, d, w, e
  <2>5. sq[i] \in Int /\ d[i] \in Int /\ w[i] \in Int
    <3>1. PICK p \in Int : p = prior[i]
      BY <2>1
    <3>2. p * p \in Int /\ 1 * v + (-1) * p \in Int
      OBVIOUS
    <3>3. v * v + (-(2 * v)) * p \in Int
      OBVIOUS
    <3> QED
      BY <2>1, <2>2, <2>3, <3>1, <3>2, <3>3
  <2>6. one[i] \in Int /\ e[i] \in Int
    BY <2>1, <2>4, <2>5
  <2> QED
    BY <2>1, <2>2, <2>3, <2>4, <2>5, <2>6
<1>4. \A i \in S : d[i] = v - prior[i] /\ e[i] = d[i] * d[i]
  <2>1. ASSUME NEW p \in Int PROVE 1 * (v * v + (-(2 * v)) * p) + 1 * (p * p) = (v - p) * (v - p)
    OBVIOUS
  <2>2. ASSUME NEW i \in S PROVE d[i] = v - prior[i] /\ e[i] = d[i] * d[i]
    <3>1. PICK p \in Int : p = prior[i]
      OBVIOUS
    <3>2. d[i] = v - p /\ e[i] = 1 * (v * v + (-(2 * v)) * p) + 1 * (p * p)
      BY <3>1
    <3> QED
      BY <2>1, <3>1, <3>2
  <2> QED
    BY <2>2
<1>5. IsFiniteSet(same) /\ IsFiniteSet(other) /\ other \subseteq S /\ same \subseteq S /\ other = S \ same
  BY <1>1, FS_Subset
<1>6. \A i \in same : d[i] = 0 /\ e[i] = 0
  <2>1. \A i \in same : i \in S /\ prior[i] = v
    OBVIOUS
  <2>2. \A i \in same : d[i] = v - v
    BY <1>4, <2>1
  <2>3. v - v = 0 /\ 0 * 0 = 0
    OBVIOUS
  <2> HIDE DEF d, e, same, S
  <2> QED
    BY <1>4, <2>1, <2>2, <2>3
<1> HIDE DEF S, same, other, one, sq, d, w, e
<1>7. PICK P \in Int : P = Sum(prior, S)
  BY <1>1, <1>3, SumType
<1>8. PICK Q \in Int : Q = Sum(sq, S)
  BY <1>1, <1>3, SumType
<1>9. PICK n \in Nat : n = Len(prior) /\ n = Cardinality(S)
  <2>1. Cardinality(1..Len(prior)) = Len(prior)
    <3>1. Len(prior) \in Int /\ 1 \in Int /\ ~(1 > Len(prior))
      BY <1>1
    <3>2. Cardinality(1..Len(prior)) = IF 1 > Len(prior) THEN 0 ELSE Len(prior) - 1 + 1
      BY <3>1, FS_Interval
    <3> QED
      BY <1>1, <3>1, <3>2
  <2> QED
    BY <1>1, <2>1 DEF S
<1>10. Sum(one, S) = v * n
  <2>1. \A i \in S : one[i] = v
    BY <1>3
  <2>2. Sum(one, S) = v * Cardinality(S)
    BY <1>1, <2>1, SumConstant
  <2> QED
    BY <1>9, <2>2
<1>11. Sum(d, S) = n * v - P
  <2>1. Sum(d, S) = 1 * Sum(one, S) + (-1) * Sum(prior, S)
    BY <1>1, <1>3, SumLinear
  <2> QED
    BY <1>7, <1>10, <2>1
<1>12. Sum(e, S) = v * (v * n) - 2 * v * P + Q
  <2>1. Sum(w, S) = v * Sum(one, S) + (-(2 * v)) * Sum(prior, S)
    <3>1. v \in Int /\ -(2 * v) \in Int
      OBVIOUS
    <3>2. \A i \in S : one[i] \in Int /\ prior[i] \in Int /\ w[i] = v * one[i] + (-(2 * v)) * prior[i]
      BY <1>3
    <3> QED
      BY <1>1, <3>1, <3>2, SumLinear
  <2>2. Sum(e, S) = 1 * Sum(w, S) + 1 * Sum(sq, S)
    BY <1>1, <1>3, SumLinear
  <2> QED
    BY <1>7, <1>8, <1>10, <2>1, <2>2
<1>13. Sum(d, S) = Sum(d, other) /\ Sum(e, S) = Sum(e, other)
  <2>1. Sum(d, S) = Sum(d, same) + Sum(d, other) /\ Sum(e, S) = Sum(e, same) + Sum(e, other)
    <3>1. /\ \A i \in S : d[i] \in Int
          /\ \A i \in S : e[i] \in Int
      BY <1>3
    <3>2. same \in SUBSET S /\ other = S \ same
      BY <1>5
    <3>3. Sum(d, S) = Sum(d, same) + Sum(d, S \ same)
      BY <1>1, <3>1, <3>2, SumParts
    <3>4. Sum(e, S) = Sum(e, same) + Sum(e, S \ same)
      BY <1>1, <3>1, <3>2, SumParts
    <3> QED
      BY <3>2, <3>3, <3>4
  <2>2. Sum(d, same) = 0 * Cardinality(same) /\ Sum(e, same) = 0 * Cardinality(same)
    <3>1. PICK zero \in Int : zero = 0
      OBVIOUS
    <3>2. \A i \in same : d[i] = zero /\ e[i] = zero
      BY <1>6, <3>1
    <3>3. Sum(d, same) = zero * Cardinality(same)
      BY <1>5, <3>2, SumConstant
    <3>4. Sum(e, same) = zero * Cardinality(same)
      BY <1>5, <3>2, SumConstant
    <3> QED
      BY <3>1, <3>3, <3>4
  <2>3. Cardinality(same) \in Nat
    BY <1>5, FS_CardinalityType
  <2>4. Sum(d, other) \in Int /\ Sum(e, other) \in Int
    BY <1>3, <1>5, SumType
  <2> QED
    BY <2>1, <2>2, <2>3, <2>4
<1>14. PICK D \in Int : D = Sum(d, other)
  BY <1>3, <1>5, SumType
<1>15. /\ Sum(e, other) \in Nat /\ Cardinality(other) \in Nat
       /\ D * D <= Cardinality(other) * Sum(e, other)
  <2>1. \A i \in other : d[i] \in Int /\ e[i] = d[i] * d[i]
    BY <1>3, <1>4, <1>5
  <2> QED
    BY <1>5, <1>14, <2>1, SquareOfSum
<1>16. PICK E \in Nat, k \in Nat, m \in Nat : E = Sum(e, other) /\ k = Cardinality(other) /\ m = Cardinality(same)
  BY <1>5, <1>15, FS_CardinalityType
<1>17. n = k + m
  <2>1. same \union other = S /\ same \intersect other = {}
    BY <1>5
  <2>2. Cardinality(same \union other) = Cardinality(same) + Cardinality(other) - Cardinality(same \intersect other)
    BY <1>5, FS_Union
  <2>3. Cardinality({}) = 0
    BY FS_EmptySet
  <2>4. Cardinality(S) = Cardinality(same) + Cardinality(other) - Cardinality({})
    BY <2>1, <2>2
  <2> QED
    BY <1>9, <1>16, <2>3, <2>4
<1>18. 100 * D * D * (k + m - 1) <= t * t * (k + m) * ((k + m) * E - D * D)
  <2>1. D * D <= k * E
    BY <1>15, <1>16
  <2>2. m * (100 + t * t) >= 100 * (k + m)
    BY <1>9, <1>16, <1>17 DEF same, S
  <2>3. k + m > 0
    BY <1>9, <1>17
  <2> QED
    BY <2>1, <2>2, <2>3, FamiliarArithmetic
<1>19. D = n * v - P /\ E = v * (v * n) - 2 * v * P + Q
  BY <1>11, <1>12, <1>13, <1>14, <1>16
<1>20. n * E - D * D = n * Q - P * P
  BY <1>19
<1>21. Beyond(prior, v, t) <=> 100 * D * D * (n - 1) > t * t * n * (n * Q - P * P)
  BY <1>2, <1>7, <1>8, <1>9, <1>19 DEF Beyond, Spread
<1>22. 100 * D * D * (n - 1) <= t * t * n * (n * Q - P * P)
  BY <1>17, <1>18, <1>20
<1>23. 100 * D * D * (n - 1) \in Int /\ t * t * n * (n * Q - P * P) \in Int
  OBVIOUS
<1> QED
  BY <1>21, <1>22, <1>23

LEMMA FamiliarNotAnomalous ==
  ASSUME NEW window \in Seq(Int), Familiar(window)
  PROVE  ~Anomalous(window)
<1> SUFFICES ASSUME Len(window) >= 2, Len(Front(window)) >= 2 PROVE ~Anomalous(window)
  <2>1. CASE Len(window) = 0
    <3>1. window = <<>>
      BY <2>1
    <3>2. Front(window) = <<>>
      BY <3>1 DEF Front
    <3> QED
      BY <3>2 DEF Anomalous, Severity
  <2>2. CASE Len(window) > 0
    <3>1. Len(Front(window)) = Len(window) - 1
      <4>1. Front(window) = SubSeq(window, 1, Len(window) - 1) /\ Len(window) \in Nat
        BY DEF Front
      <4>2. Len(SubSeq(window, 1, Len(window) - 1)) = IF 1 <= Len(window) - 1 THEN Len(window) - 1 - 1 + 1 ELSE 0
        BY <2>2, <4>1, SubSeqProperties
      <4>3. PICK n \in Nat : n = Len(window) - 1
        BY <2>2, <4>1
      <4>4. (IF 1 <= n THEN n - 1 + 1 ELSE 0) = n
        OBVIOUS
      <4> QED
        BY <4>1, <4>2, <4>3, <4>4
    <3> QED
      BY <2>2, <3>1 DEF Anomalous, Severity
  <2> QED
    BY <2>1, <2>2
<1> DEFINE prior == Front(window)
<1> DEFINE n == Len(window) - 1
<1> DEFINE v == Last(window)
<1>1. /\ prior \in Seq(Int) /\ Len(prior) = n /\ n \in Nat /\ n > 0 /\ v \in Int
      /\ \A i \in 1..n : prior[i] = window[i]
  <2>1. prior = SubSeq(window, 1, n)
    BY DEF Front
  <2>2. n \in 1..Len(window)
    OBVIOUS
  <2>3. v = window[Len(window)] /\ Len(window) \in 1..Len(window)
    BY DEF Last
  <2> QED
    BY <2>1, <2>2, <2>3
<1>2. {i \in 1..n : window[i] = v} = {i \in 1..Len(prior) : prior[i] = v}
  BY <1>1
<1>3. PICK least : least = Lower
  OBVIOUS
<1>4. Cardinality({i \in 1..n : window[i] = v}) * (100 + least * least) >= 100 * n
  BY <1>3 DEF Familiar
<1>5. {Warn, Critical, least} \subseteq Nat /\ least <= Warn /\ least <= Critical
  BY <1>3, DetectorAssumption DEF Lower
<1> HIDE DEF prior, n, v
<1> DEFINE same == {i \in 1..Len(prior) : prior[i] = v}
<1>6. Cardinality(same) * (100 + least * least) >= 100 * Len(prior)
  BY <1>1, <1>2, <1>4
<1>7. ASSUME NEW t \in {Warn, Critical} PROVE ~Beyond(prior, v, t)
  <2>1. t \in Nat /\ least \in Nat /\ least <= t
    BY <1>5
  <2>2. IsFiniteSet(same)
    <3>1. Len(prior) \in Int /\ 1 \in Int
      BY <1>1
    <3>2. IsFiniteSet(1..Len(prior))
      BY <3>1, FS_Interval
    <3> QED
      BY <3>2, FS_Subset
  <2>3. PICK m \in Nat : m = Cardinality(same)
    BY <2>2, FS_CardinalityType
  <2>4. least * least <= t * t
    <3>1. least * least <= t * least /\ least * t <= t * t
      BY <2>1, OrderedProducts
    <3> QED
      BY <2>1, <3>1
  <2>5. PICK x \in Int, y \in Int : x = 100 + least * least /\ y = 100 + t * t
    BY <2>1
  <2>6. x * m <= y * m
    BY <2>1, <2>4, <2>5, OrderedProducts
  <2>7. m * x >= 100 * Len(prior)
    BY <1>6, <2>3, <2>5
  <2>8. m * y >= 100 * Len(prior)
    <3>1. PICK a \in Int, b \in Int, c \in Int : a = m * x /\ b = m * y /\ c = 100 * Len(prior)
      BY <1>1
    <3>2. a <= b
      BY <2>6, <3>1
    <3>3. c <= a
      BY <2>7, <3>1
    <3>4. c <= b
      BY <3>2, <3>3
    <3> QED
      BY <3>1, <3>4
  <2> QED
    BY <1>1, <2>1, <2>3, <2>5, <2>8, FamiliarNotBeyond
<1> QED
  BY <1>7 DEF Anomalous, Severity, prior, v

\* What has been found and not logged is anomalous in its window.
FoundAreAnomalous ==
  \A a \in found : windows[a[1]][a[2]] \in Seq(Int) /\ Anomalous(windows[a[1]][a[2]])

LEMMA StepFound == IInv /\ FoundAreAnomalous /\ [Next]_vars => FoundAreAnomalous'
<1> SUFFICES ASSUME IInv, FoundAreAnomalous, [Next]_vars PROVE FoundAreAnomalous'
  OBVIOUS
<1>1. ASSUME NEW s \in todo, ScoreSource(s) PROVE FoundAreAnomalous'
  <2>1. /\ s \in Sources /\ AnomaliesOf(s) \subseteq Metrics
        /\ WindowsAfter(s) \in [Metrics -> Seq(Int)]
    BY <1>1, DetectorTyped DEF IInv, TypeOK
  <2>2. windows' = [windows EXCEPT ![s] = WindowsAfter(s)] /\ DOMAIN windows = Sources
    BY <1>1 DEF ScoreSource, IInv, TypeOK
  <2>3. windows'[s] = WindowsAfter(s)
    BY <2>1, <2>2
  <2>4. ASSUME NEW a \in found'
        PROVE  a[1] = s /\ a[2] \in AnomaliesOf(s)
    BY <1>1, <2>4 DEF ScoreSource
  <2>5. \A m \in AnomaliesOf(s) : Anomalous(WindowsAfter(s)[m]) /\ WindowsAfter(s)[m] \in Seq(Int)
    BY <2>1 DEF AnomaliesOf
  <2>6. ASSUME NEW a \in found'
        PROVE  windows'[a[1]][a[2]] \in Seq(Int) /\ Anomalous(windows'[a[1]][a[2]])
    BY <2>3, <2>4, <2>5
  <2>7. ASSUME NEW a \in found' PROVE Anomalous(windows[a[1]][a[2]])'
    BY <2>6 DEF Anomalous, Severity, Beyond, Spread, SumOf, SumOfSquares
  <2> QED
    BY <2>6, <2>7 DEF FoundAreAnomalous
<1>2. CASE UNCHANGED windows /\ found' \subseteq found
  BY <1>2 DEF FoundAreAnomalous
<1>3. CASE found' = {}
  BY <1>3 DEF FoundAreAnomalous
<1>4. ASSUME NEW s \in Sources, RegisterSource(s) \/ UnregisterSource(s)
      PROVE  UNCHANGED windows /\ found' \subseteq found
  BY <1>4 DEF RegisterSource, UnregisterSource, local
<1>5. ASSUME NEW readings, NEW fails, BeginTick(readings, fails)
      PROVE  UNCHANGED windows /\ found' \subseteq found
  BY <1>5 DEF BeginTick, registry
<1>6. ASSUME NEW a, LogAnomaly(a) PROVE UNCHANGED windows /\ found' \subseteq found
  BY <1>6 DEF LogAnomaly
<1>7. LogFails \/ WriteTrends \/ WriteFails \/ Restart => found' = {}
  BY DEF LogFails, WriteTrends, WriteFails, Restart, GiveUp
<1>8. WriteSnapshot \/ UNCHANGED vars => UNCHANGED windows /\ found' \subseteq found
  BY DEF WriteSnapshot, registry, local, vars
<1> QED
  BY <1>1, <1>2, <1>3, <1>4, <1>5, <1>6, <1>7, <1>8 DEF Next, Tick

(* What a metric has been lately is no anomaly, for any thresholds, any    *)
(* windows and any readings (AnomalyDetector.update,                       *)
(* anomaly_detector.py:50-104).                                            *)
THEOREM FamiliarStaysQuiet == Safety => []FamiliarIsQuiet
<1>1. Init => FoundAreAnomalous
  BY DEF Init, FoundAreAnomalous
<1>2. Safety => []FoundAreAnomalous
  BY <1>1, InvariantHolds, StepFound, PTL DEF Safety
<1>3. RehearsedAreQuiet
  <2>1. \A window \in Rehearsed : window \in Seq(Int)
    BY SelfModelAssumption
  <2> QED
    BY <2>1, FamiliarNotAnomalous DEF RehearsedAreQuiet
<1>4. IInv /\ FoundAreAnomalous => FamiliarIsQuiet
  BY <1>3, FamiliarNotAnomalous DEF IInv, Accounts, FoundAreAnomalous, FamiliarIsQuiet
<1> QED
  BY <1>2, <1>4, InvariantHolds, PTL
-----------------------------------------------------------------------------
(* What the dropped sources weigh.                                         *)

\* What is still to be scored has been read, and a score is in the unit
\* interval.
Weighed ==
  /\ \A s \in todo : collected[s] = ErrorMetrics \/ collected[s] \in AllReadings
  /\ \A s \in Scored : scores[s] \in 0..Unit
  /\ pc \in {"score", "log"} => sources \ todo \subseteq Scored

LEMMA ScoreInUnit ==
  ASSUME NEW r, r = ErrorMetrics \/ r \in AllReadings
  PROVE  Score(r) \in 0..Unit
<1> DEFINE D == DOMAIN r
<1> DEFINE f == [m \in D |-> Clipped(r[m], Unit)]
<1>1. Unit \in Nat \ {0}
  BY SelfModelAssumption
<1>2. IsFiniteSet(D) /\ \A m \in D : r[m] \in Int
  <2>1. CASE r = ErrorMetrics
    <3>1. D = {"error"} /\ \A m \in D : r[m] = Unit
      BY <2>1 DEF ErrorMetrics
    <3> QED
      BY <1>1, <3>1, FS_Singleton
  <2>2. CASE r \in AllReadings
    <3>1. D \subseteq Metrics
      BY <2>2 DEF Metrics
    <3> QED
      BY <2>2, <3>1, SelfModelAssumption, FS_Subset
  <2> QED
    BY <2>1, <2>2
<1> HIDE DEF D
<1>3. \A m \in D : f[m] \in Int /\ 0 <= f[m] /\ f[m] <= Unit
  BY <1>1, <1>2 DEF Clipped
<1>4. Score(r) = IF D = {} THEN 0 ELSE RoundedDiv(SumFunctionOnSet(f, D), Cardinality(D))
  BY DEF Score, D, SumFunction, FoldFunction, SumFunctionOnSet
<1>5. CASE D # {}
  <2>1. PICK n \in Nat \ {0} : n = Cardinality(D)
    BY <1>2, <1>5, FS_CardinalityType, FS_EmptySet
  <2>2. PICK sum \in Int : sum = SumFunctionOnSet(f, D)
    BY <1>2, <1>3, SumType
  <2>3. 0 * n <= sum /\ sum <= Unit * n
    BY <1>1, <1>2, <1>3, <2>1, <2>2, SumBetween
  <2>4. n * 0 <= sum /\ sum <= n * Unit
    BY <1>1, <2>3
  <2>5. 0 <= RoundedDiv(sum, n) /\ RoundedDiv(sum, n) <= Unit /\ RoundedDiv(sum, n) \in Int
    BY <1>1, <2>4, RoundingBounds, RoundingError
  <2> QED
    BY <1>1, <1>4, <1>5, <2>1, <2>2, <2>5
<1> QED
  BY <1>1, <1>4, <1>5

LEMMA StepWeighed == IInv /\ Weighed /\ [Next]_vars => Weighed'
<1> SUFFICES ASSUME IInv, Weighed, [Next]_vars PROVE Weighed'
  OBVIOUS
<1>1. ASSUME NEW s \in todo, ScoreSource(s) PROVE Weighed'
  <2>1. s \in Sources /\ DOMAIN scores = Sources /\ Unit \in Nat /\ todo \subseteq sources /\ sources \subseteq Sources
    BY SelfModelAssumption DEF IInv, TypeOK
  <2>2. Score(collected[s]) \in 0..Unit
    BY ScoreInUnit DEF Weighed
  <2>3. /\ todo' = todo \ {s} /\ scores' = [scores EXCEPT ![s] = Score(collected[s])]
        /\ UNCHANGED <<sources, collected>> /\ pc = "score"
    BY <1>1 DEF ScoreSource
  <2>4. /\ scores'[s] = Score(collected[s])
        /\ \A u \in Sources \ {s} : scores'[u] = scores[u]
    BY <2>1, <2>3
  <2>5. Scored' = Scored \union {s}
    BY <2>1, <2>2, <2>4 DEF Scored, Unscored
  <2>6. \A u \in Scored' : scores'[u] \in 0..Unit
    BY <2>2, <2>4, <2>5 DEF Weighed, Scored
  <2>7. sources' \ todo' \subseteq Scored'
    BY <2>3, <2>5 DEF Weighed
  <2>8. \A u \in todo' : collected'[u] = ErrorMetrics \/ collected'[u] \in AllReadings
    BY <2>3 DEF Weighed
  <2> QED
    BY <2>6, <2>7, <2>8 DEF Weighed
<1>2. ASSUME NEW s \in Sources, RegisterSource(s) \/ UnregisterSource(s) PROVE Weighed'
  BY <1>2 DEF RegisterSource, UnregisterSource, local, Weighed, Scored
<1>3. ASSUME NEW readings \in [sources -> AllReadings], NEW fails \in SUBSET sources,
             BeginTick(readings, fails)
      PROVE  Weighed'
  <2>1. /\ todo' = sources /\ UNCHANGED <<sources, scores>>
        /\ collected' = [s \in sources |-> IF s \in fails THEN ErrorMetrics ELSE readings[s]]
    BY <1>3 DEF BeginTick, registry
  <2>2. \A s \in todo' : collected'[s] = ErrorMetrics \/ collected'[s] \in AllReadings
    BY <2>1
  <2> QED
    BY <2>1, <2>2 DEF Weighed, Scored
<1>4. CASE UNCHANGED <<todo, collected, scores, sources>> /\ (pc' \in {"score", "log"} => pc \in {"score", "log"})
  BY <1>4 DEF Weighed, Scored
<1>5. CASE GiveUp /\ UNCHANGED scores
  BY <1>5 DEF GiveUp, Weighed, Scored
<1>6. CASE Restart
  <2>1. Scored' = {} /\ todo' = {} /\ pc' = "idle"
    BY <1>6 DEF Restart, GiveUp, Scored
  <2> QED
    BY <2>1 DEF Weighed
<1>7. ASSUME NEW a, LogAnomaly(a)
      PROVE  UNCHANGED <<todo, collected, scores, sources>> /\ pc \in {"score", "log"}
  BY <1>7 DEF LogAnomaly
<1>8. LogFails \/ WriteTrends \/ WriteFails => GiveUp /\ UNCHANGED scores
  BY DEF LogFails, WriteTrends, WriteFails, registry
<1>9. WriteSnapshot \/ UNCHANGED vars =>
        UNCHANGED <<todo, collected, scores, sources>> /\ (pc' \in {"score", "log"} => pc \in {"score", "log"})
  BY DEF WriteSnapshot, registry, local, vars
<1> QED
  BY <1>1, <1>2, <1>3, <1>4, <1>5, <1>6, <1>7, <1>8, <1>9 DEF Next, Tick

\* The ratio of the scores in the unit interval of two disjoint sets of
\* sources, of which the first has the sum own.
LEMMA RatioArithmetic ==
  ASSUME NEW n \in Nat, NEW d \in Nat, NEW own \in Int, NEW rest \in Int, NEW unit \in Nat,
         0 <= rest, rest <= unit * d, n + d # 0
  PROVE  LET ratio == RoundedDiv(own + rest, n + d)
             pull == (n + d) * ratio - own
         IN  -(n + d) <= 2 * pull /\ 2 * pull <= 2 * unit * d + (n + d)
<1> DEFINE ratio == RoundedDiv(own + rest, n + d)
<1>1. /\ ratio \in Int /\ 2 * ((n + d) * ratio - (own + rest)) <= n + d
      /\ -(n + d) <= 2 * ((n + d) * ratio - (own + rest))
  BY RoundingError
<1> HIDE DEF ratio
<1>2. PICK p \in Int : p = (n + d) * ratio
  BY <1>1
<1>3. PICK u \in Int : u = unit * d
  OBVIOUS
<1>4. 2 * unit * d = 2 * u
  BY <1>3
<1>5. -(n + d) <= 2 * (p - own) /\ 2 * (p - own) <= 2 * u + (n + d)
  BY <1>1, <1>2, <1>3
<1> QED
  BY <1>2, <1>4, <1>5 DEF ratio

LEMMA WriteSnapshotWeighs == IInv /\ Weighed /\ WriteSnapshot => DroppedPullTheirShare'
<1> SUFFICES ASSUME IInv, Weighed, WriteSnapshot PROVE DroppedPullTheirShare'
  OBVIOUS
<1> DEFINE f == [s \in Scored |-> scores[s]]
<1> DEFINE rest == Scored \ sources
<1>1. /\ pc = "score" /\ todo = {} /\ UNCHANGED <<sources, scores>>
      /\ snapshot_file'.node_health = node_health /\ snapshot_file'.ratio = Ratio
  BY DEF WriteSnapshot, registry
<1>2. /\ sources \subseteq Scored /\ \A s \in Scored : f[s] \in 0..Unit
      /\ Unit \in Nat /\ IsFiniteSet(Scored)
  <2>1. Scored \subseteq Sources
    BY DEF Scored
  <2> QED
    BY <1>1, <2>1, SelfModelAssumption, FS_Subset DEF Weighed
<1>3. node_health = [s \in sources |-> f[s]]
  <2>1. sources \ todo = sources
    BY <1>1
  <2>2. node_health = [s \in sources |-> Score(collected[s])] /\ \A s \in sources : scores[s] = Score(collected[s])
    BY <1>1, <2>1 DEF IInv, TickInv, ScoredSoFar
  <2> QED
    BY <1>2, <2>2
<1>4. IsFiniteSet(sources) /\ IsFiniteSet(rest) /\ Scored \ sources = rest
  BY <1>2, FS_Subset
<1>5. /\ Ratio = IF Scored = {} THEN 0 ELSE RoundedDiv(SumFunctionOnSet(f, Scored), Cardinality(Scored))
      /\ SumFunction(node_health) = SumFunctionOnSet(node_health, sources)
  <2>1. DOMAIN f = Scored /\ DOMAIN node_health = sources
    BY <1>3
  <2>2. Ratio = Mean(f)
    BY DEF Ratio
  <2> HIDE DEF f
  <2> QED
    BY <2>1, <2>2 DEF Mean, SumFunction, FoldFunction, SumFunctionOnSet
<1> HIDE DEF f
<1>6. SumFunctionOnSet(node_health, sources) = SumFunctionOnSet(f, sources)
  <2>1. \A s \in sources : node_health[s] \in Int /\ node_health[s] = f[s]
    BY <1>2, <1>3
  <2> QED
    BY <1>4, <2>1, SumOnlyValues
<1>7. \A s \in Scored : f[s] \in Int /\ 0 <= f[s] /\ f[s] <= Unit
  BY <1>2
<1>8. SumFunctionOnSet(f, Scored) = SumFunctionOnSet(f, sources) + SumFunctionOnSet(f, rest)
  BY <1>2, <1>7, SumParts
<1>9. Cardinality(Scored) = Cardinality(sources) + Cardinality(rest)
  <2>1. sources \union rest = Scored /\ sources \intersect rest = {}
    BY <1>2
  <2>2. Cardinality({}) = 0
    BY FS_EmptySet
  <2> HIDE DEF rest
  <2>3. Cardinality(sources \union rest) = Cardinality(sources) + Cardinality(rest) - Cardinality(sources \intersect rest)
    BY <1>4, FS_Union
  <2>4. PICK i \in Nat, j \in Nat : i = Cardinality(sources) /\ j = Cardinality(rest)
    BY <1>4, FS_CardinalityType
  <2>5. Cardinality(Scored) = i + j - 0
    BY <2>1, <2>2, <2>3, <2>4
  <2> QED
    BY <2>4, <2>5
<1>10. PICK n \in Nat, d \in Nat : n = Cardinality(sources) /\ d = Cardinality(rest)
  BY <1>4, FS_CardinalityType
<1>11. PICK own \in Int : own = SumFunctionOnSet(f, sources)
  BY <1>2, <1>4, <1>7, SumType
<1>12. PICK r \in Int : r = SumFunctionOnSet(f, rest)
  BY <1>4, <1>7, SumType
<1>13. 0 <= r /\ r <= Unit * d
  <2>1. 0 * Cardinality(rest) <= SumFunctionOnSet(f, rest) /\ SumFunctionOnSet(f, rest) <= Unit * Cardinality(rest)
    BY <1>2, <1>4, <1>7, SumBetween
  <2> QED
    BY <1>10, <1>12, <2>1
<1>14. (n + d) * Ratio - own \in Int
       /\ -(n + d) <= 2 * ((n + d) * Ratio - own)
       /\ 2 * ((n + d) * Ratio - own) <= 2 * Unit * d + (n + d)
  <2>1. CASE Scored = {}
    <3>1. n + d = 0 /\ n = 0 /\ d = 0 /\ Ratio = 0 /\ sources = {} /\ rest = {}
      BY <1>2, <1>5, <1>9, <1>10, <2>1, FS_EmptySet
    <3>2. own = 0
      BY <1>11, <3>1, SumEmpty
    <3> QED
      BY <1>2, <3>1, <3>2
  <2>2. CASE Scored # {}
    <3>1. n + d # 0
      BY <1>2, <1>9, <1>10, <2>2, FS_EmptySet, FS_CardinalityType
    <3>2. Ratio = RoundedDiv(own + r, n + d)
      BY <1>5, <1>8, <1>9, <1>10, <1>11, <1>12, <2>2
    <3>3. n + d \in Nat \ {0} /\ own + r \in Int
      BY <3>1
    <3>4. Ratio \in Int
      BY <3>2, <3>3, RoundingError
    <3>5. -(n + d) <= 2 * ((n + d) * Ratio - own) /\ 2 * ((n + d) * Ratio - own) <= 2 * Unit * d + (n + d)
      BY <1>2, <1>13, <3>1, <3>2, RatioArithmetic
    <3> QED
      BY <3>4, <3>5
  <2> QED
    BY <2>1, <2>2
<1>15. Cardinality((Scored \ sources)') = d /\ Cardinality(sources') = n
  BY <1>1, <1>4, <1>10 DEF Scored
<1>16. snapshot_file'.ratio = Ratio /\ SumFunction(snapshot_file'.node_health) = own
  BY <1>1, <1>5, <1>6, <1>11
<1> QED
  BY <1>14, <1>15, <1>16 DEF DroppedPullTheirShare

LEMMA StepShare == IInv /\ Weighed /\ DroppedPullTheirShare /\ [Next]_vars => DroppedPullTheirShare'
<1> SUFFICES ASSUME IInv, Weighed, DroppedPullTheirShare, [Next]_vars, pc' = "trends"
             PROVE  DroppedPullTheirShare'
  BY DEF DroppedPullTheirShare
<1>1. CASE UNCHANGED vars
  BY <1>1 DEF vars, registry, files, DroppedPullTheirShare, Scored
<1>2. WriteSnapshot \/ UNCHANGED vars
  <2>1. \A s \in Sources : ~RegisterSource(s) /\ ~UnregisterSource(s)
    BY DEF RegisterSource, UnregisterSource
  <2>2. \A readings, fails : ~BeginTick(readings, fails)
    BY DEF BeginTick
  <2>3. \A s \in todo : ~ScoreSource(s)
    BY DEF ScoreSource
  <2>4. \A a : ~LogAnomaly(a)
    BY DEF LogAnomaly
  <2>5. ~LogFails /\ ~WriteTrends /\ ~WriteFails /\ ~Restart
    BY DEF LogFails, WriteTrends, WriteFails, Restart, GiveUp
  <2> QED
    BY <2>1, <2>2, <2>3, <2>4, <2>5 DEF Next, Tick
<1> QED
  BY <1>1, <1>2, WriteSnapshotWeighs

(* The published ratio is off the mean of the scores published with it by  *)
(* no more than the share of the sources that were unregistered after they *)
(* had been scored, and rounding, for any sources, readings, failed ticks  *)
(* and restarts (system_health_ratio, health_scorer.py:77-81).             *)
THEOREM DroppedPullNoMore == Safety => []DroppedPullTheirShare
<1>1. Init => Weighed /\ DroppedPullTheirShare
  BY DEF Init, Weighed, DroppedPullTheirShare, Scored
<1> QED
  BY <1>1, InvariantHolds, StepWeighed, StepShare, PTL DEF Safety
=============================================================================
