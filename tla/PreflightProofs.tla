---------------------------- MODULE PreflightProofs ----------------------------
(***************************************************************************)
(* Theorems of Preflight, for any snapshots, interventions and graphs, and *)
(* any number of preflights and of writes between their steps.             *)
(***************************************************************************)
EXTENDS Preflight, ArithmeticProofs

\* A snapshot has node scores and the numbers of every top-level key.
Shape(s) == DOMAIN s = {"scalar", "node_health"} /\ DOMAIN s.scalar = Scalars

Own == Applied(origin, call.intervention.target, call.intervention.value)

\* What the graph reports for one of the snapshots seen since the fork.
FromGraph(s) ==
  \E f \in since : LET h == IF f = NoFile THEN [n \in {} |-> 0] ELSE f.node_health
                   IN  s.node_health = Spread(h) /\ s.scalar["coherence_index"] = Index(h)

Types ==
  /\ TypeOK
  /\ pc # "idle" => /\ fork \in 1..MaxForks /\ fork \notin aborted
                    /\ call.original \in Decisions
  /\ pc \notin {"idle", "done"} => cycle < fork

\* What the file held last is among what it has held since the fork.
Files ==
  /\ file # NoFile => Shape(file)
  /\ pc # "idle" => file \in since

\* Where the twin stands: as proposed until the graph has its turn.
Twin ==
  /\ pc = "propagate" => twin = Own /\ Shape(twin)
  /\ TwinIsIsolated

IInv == Types /\ Files /\ Twin

LEMMA AppliedShape ==
  ASSUME NEW s, NEW path, NEW v, Shape(s), Found(path)
  PROVE  Shape(Applied(s, path, v))
BY DEF Shape, Applied, Found

LEMMA InitIInv == Init => IInv
BY PreflightAssumption DEF Init, IInv, Types, TypeOK, Files, Twin, TwinIsIsolated, NoVerdict, Decisions

-----------------------------------------------------------------------------
LEMMA ReplaceKeeps ==
  ASSUME IInv, NEW f, Replace(f), f # NoFile => Shape(f)
  PROVE  IInv'
<1>1. Types'
  BY PreflightAssumption DEF Replace, IInv, Types, TypeOK, inner
<1>2. Files'
  BY DEF Replace, IInv, Files, inner
<1>3. Twin'
  BY DEF Replace, IInv, Twin, TwinIsIsolated, Own, inner
<1> QED
  BY <1>1, <1>2, <1>3 DEF IInv

LEMMA WriterKeeps == IInv /\ (PublishTick \/ PublishIndex \/ Remove) => IInv'
<1> SUFFICES ASSUME IInv, PublishTick \/ PublishIndex \/ Remove PROVE IInv'
  OBVIOUS
<1>1. CASE PublishTick
  <2>1. \A t, h, n : Shape(Snapshot(t, h, n))
    BY DEF Snapshot, Shape, Scalars
  <2> QED
    BY <1>1, <2>1, ReplaceKeeps DEF PublishTick
<1>2. CASE PublishIndex
  <2>1. Shape([file EXCEPT !.scalar["coherence_index"] = Index(file.node_health)])
    BY <1>2 DEF PublishIndex, IInv, Files, Shape
  <2> QED
    BY <1>2, <2>1, ReplaceKeeps DEF PublishIndex
<1>3. CASE Remove
  BY <1>3, ReplaceKeeps DEF Remove
<1> QED
  BY <1>1, <1>2, <1>3

LEMMA ForkKeeps ==
  ASSUME IInv, NEW i \in Interventions, NEW d \in Decisions, Fork(i, d)
  PROVE  IInv'
<1>1. Types'
  <2>1. /\ fork \in Nat /\ MaxForks \in Nat /\ fork < MaxForks /\ fork' = fork + 1
        /\ pc \in {"idle", "done"} /\ pc' \in {"idle", "propagate"} /\ call'.original \in Decisions
        /\ pc' = "propagate" => aborted' = aborted
        /\ pc' = "idle" => aborted' = aborted \union {fork'}
        /\ UNCHANGED <<wiring, samples, cycle, verdict, writes>>
    BY PreflightAssumption DEF Fork, IInv, Types, TypeOK, real
  <2>2. /\ cycle \in 0..fork /\ aborted \subseteq 1..fork /\ DOMAIN samples \subseteq aborted
        /\ wiring \in [graph : Graphs, cycles : Cycles] /\ writes \in 0..MaxWrites
        /\ verdict.final \in Decisions
    BY <2>1 DEF IInv, Types, TypeOK
  <2>3. /\ fork' \in 1..MaxForks /\ fork' \notin aborted /\ cycle \in 0..fork' /\ cycle < fork'
        /\ aborted' \subseteq 1..fork'
    <3>1. fork' \in 1..MaxForks /\ fork' \in 1..fork' /\ fork' \notin 1..fork
      BY <2>1
    <3>2. 1..fork \subseteq 1..fork' /\ cycle \in 0..fork' /\ cycle < fork'
      BY <2>1, <2>2
    <3> QED
      BY <2>1, <2>2, <3>1, <3>2
  <2>4. DOMAIN samples' \subseteq aborted' \union (IF pc' = "sample" THEN {fork'} ELSE {})
    BY <2>1, <2>2
  <2>5. TypeOK'
    BY <2>1, <2>2, <2>3, <2>4 DEF TypeOK
  <2> QED
    BY <2>1, <2>3, <2>5 DEF Types
<1>2. Files'
  BY DEF Fork, IInv, Files, real
<1>3. CASE Found(i.target)
  <2>1. twin' = Applied(file, i.target, i.value) /\ pc' = "propagate" /\ origin' = file
        /\ call' = [intervention |-> i, original |-> d]
    BY <1>3 DEF Fork
  <2>2. Shape(twin')
    BY <1>3, <2>1, AppliedShape DEF Fork, IInv, Files
  <2> QED
    BY <1>1, <1>2, <2>1, <2>2 DEF IInv, Twin, TwinIsIsolated, Own
<1>4. CASE ~Found(i.target)
  <2>1. pc' = "idle"
    BY <1>4 DEF Fork
  <2> QED
    BY <1>1, <1>2, <2>1 DEF IInv, Twin, TwinIsIsolated
<1> QED
  BY <1>3, <1>4

LEMMA PropagateKeeps == IInv /\ Propagate => IInv'
<1> SUFFICES ASSUME IInv, Propagate PROVE IInv'
  OBVIOUS
<1>1. Types' /\ Files'
  BY DEF Propagate, IInv, Types, TypeOK, Files, real
<1>2. Twin'
  <2> DEFINE h == IF file = NoFile THEN [n \in {} |-> 0] ELSE file.node_health
  <2>1. /\ twin' = [twin EXCEPT !.node_health = Spread(h), !.scalar["coherence_index"] = Index(h)]
        /\ UNCHANGED <<since, origin, call>> /\ pc' = "sample"
        /\ file \in since /\ twin = Own /\ Shape(twin)
    BY DEF Propagate, IInv, Files, Twin
  <2>2. twin'.node_health = Spread(h) /\ twin'.scalar = [twin.scalar EXCEPT !["coherence_index"] = Index(h)]
    BY <2>1 DEF Shape
  <2>3. /\ twin'.scalar["coherence_index"] = Index(h)
        /\ \A k \in Scalars \ {"coherence_index"} : twin'.scalar[k] = Own.scalar[k]
    BY <2>1, <2>2 DEF Shape, Scalars
  <2> HIDE DEF h
  <2>4. FromGraph(twin)'
    BY <2>1, <2>2, <2>3 DEF FromGraph, h
  <2> QED
    BY <2>1, <2>3, <2>4 DEF Twin, TwinIsIsolated, Own, FromGraph
<1> QED
  BY <1>1, <1>2 DEF IInv

LEMMA StepIInv == IInv /\ [Next]_vars => IInv'
<1> SUFFICES ASSUME IInv, [Next]_vars PROVE IInv'
  OBVIOUS
<1>1. CASE SkipPropagate
  BY <1>1 DEF SkipPropagate, real, inner, IInv, Types, TypeOK, Files, Twin, TwinIsIsolated, Own
<1>2. CASE Sample
  <2>1. Types'
    BY <1>2 DEF Sample, real, inner, history, IInv, Types, TypeOK
  <2> QED
    BY <1>2, <2>1 DEF Sample, real, inner, history, IInv, Files, Twin, TwinIsIsolated, Own
<1>3. CASE SampleFails
  <2>1. /\ pc = "sample" /\ pc' = "idle" /\ aborted' = aborted \union {fork}
        /\ UNCHANGED <<wiring, fork, cycle, writes, verdict, samples>>
    BY <1>3 DEF SampleFails, real, inner
  <2>2. Types'
    <3>1. /\ fork \in 1..MaxForks /\ aborted \subseteq 1..fork /\ DOMAIN samples \subseteq aborted \union {fork}
          /\ fork \in 1..fork /\ cycle \in 0..fork
          /\ wiring \in [graph : Graphs, cycles : Cycles] /\ writes \in 0..MaxWrites
          /\ verdict.final \in Decisions
      BY <2>1, PreflightAssumption DEF IInv, Types, TypeOK
    <3>2. TypeOK'
      BY <2>1, <3>1 DEF TypeOK
    <3> QED
      BY <2>1, <3>2 DEF Types
  <2> QED
    BY <1>3, <2>2 DEF SampleFails, real, inner, IInv, Files, Twin, TwinIsIsolated, Own
<1>4. CASE Decide
  <2>1. /\ pc = "sample" /\ pc' = "done" /\ cycle' = cycle + 1
        /\ DOMAIN samples' = DOMAIN samples \ {fork}
        /\ verdict'.final \in {"hold", call.original}
        /\ UNCHANGED <<wiring, call, fork, aborted, writes>>
    BY <1>4 DEF Decide, Final, real, inner, history
  <2>2. Types'
    <3>1. /\ fork \in 1..MaxForks /\ fork \notin aborted /\ call.original \in Decisions
          /\ cycle \in 0..fork /\ cycle < fork /\ DOMAIN samples \subseteq aborted \union {fork}
      BY <2>1 DEF IInv, Types, TypeOK
    <3>2. cycle' \in 0..fork' /\ verdict'.final \in Decisions /\ DOMAIN samples' \subseteq aborted'
      BY <2>1, <3>1, PreflightAssumption DEF Decisions
    <3>3. TypeOK'
      BY <2>1, <3>1, <3>2 DEF IInv, Types, TypeOK
    <3> QED
      BY <2>1, <3>1, <3>3 DEF Types
  <2> QED
    BY <1>4, <2>2 DEF Decide, real, inner, history, IInv, Files, Twin, TwinIsIsolated, Own
<1>5. CASE UNCHANGED vars
  BY <1>5 DEF vars, real, inner, history, IInv, Types, TypeOK, Files, Twin, TwinIsIsolated, Own
<1> QED
  BY <1>1, <1>2, <1>3, <1>4, <1>5, WriterKeeps, ForkKeeps, PropagateKeeps DEF Next, Evaluate

LEMMA InvariantHolds == Spec => []IInv
BY InitIInv, StepIInv, PTL DEF Spec

-----------------------------------------------------------------------------
(* The types, and that the calculator forgets the samples of a preflight   *)
(* that decided (evaluate, safety_preflight.py:80-113; clear, divergence.py:132-134).         *)
THEOREM PreflightTyped == Spec => []TypeOK
<1>1. IInv => TypeOK
  BY DEF IInv, Types
<1> QED
  BY <1>1, InvariantHolds, PTL

(* However the file is replaced during a preflight, nothing of it reaches  *)
(* the twin but the values and the index the graph computed from its node  *)
(* scores, and both of one snapshot (evaluate, safety_preflight.py:80-105; *)
(* propagate, propagation.py:49-86).                                       *)
THEOREM TwinStaysIsolated == Spec => []TwinIsIsolated
<1>1. IInv => TwinIsIsolated
  BY DEF IInv, Twin
<1> QED
  BY <1>1, InvariantHolds, PTL

-----------------------------------------------------------------------------
(* The calculator.                                                         *)

\* A snapshot whose top-level keys hold numbers, or what no number is
\* compared with.
Numeric(s) == Shape(s) /\ \A k \in Scalars : s.scalar[k] \in Int \union {Other}

LEMMA ScalarsFinite ==
  ASSUME NEW S \in SUBSET Scalars
  PROVE  /\ IsFiniteSet(S) /\ Cardinality(S) \in Nat
         /\ S # {} => Cardinality(S) \in Nat \ {0}
<1>1. IsFiniteSet({"timestamp"})
  BY FS_Singleton
<1>2. IsFiniteSet({"timestamp"} \union {"system_health_ratio"})
  BY <1>1, FS_AddElement
<1>3. IsFiniteSet({"timestamp"} \union {"system_health_ratio"} \union {"anomaly_count"})
  BY <1>2, FS_AddElement
<1>4. IsFiniteSet({"timestamp"} \union {"system_health_ratio"} \union {"anomaly_count"} \union {"coherence_index"})
  BY <1>3, FS_AddElement
<1>5. Scalars = {"timestamp"} \union {"system_health_ratio"} \union {"anomaly_count"} \union {"coherence_index"}
  BY DEF Scalars
<1>6. IsFiniteSet(S)
  BY <1>4, <1>5, FS_Subset
<1> QED
  BY <1>6, FS_CardinalityType, FS_EmptySet

\* What the differences of the shared numbers add up to.
Differences(actual, t) == [k \in Shared(actual, t) |-> Magnitude(actual.scalar[k] - t.scalar[k])]

LEMMA DifferencesTyped ==
  ASSUME NEW actual, NEW t, Numeric(actual), Numeric(t)
  PROVE  \A k \in Shared(actual, t) :
           /\ actual.scalar[k] \in Int /\ t.scalar[k] \in Int
           /\ Differences(actual, t)[k] = Magnitude(actual.scalar[k] - t.scalar[k])
           /\ Differences(actual, t)[k] \in Nat
<1>1. ASSUME NEW k \in Shared(actual, t) PROVE actual.scalar[k] \in Int /\ t.scalar[k] \in Int
  BY DEF Shared, Numeric
<1>2. ASSUME NEW k \in Shared(actual, t)
      PROVE  Differences(actual, t)[k] = Magnitude(actual.scalar[k] - t.scalar[k])
  BY DEF Differences
<1>3. ASSUME NEW x \in Int, NEW y \in Int PROVE Magnitude(x - y) \in Nat
  BY DEF Magnitude
<1> QED
  BY <1>1, <1>2, <1>3

LEMMA PointTyped ==
  ASSUME NEW actual, NEW t, actual # NoFile => Numeric(actual), Numeric(t)
  PROVE  PointDivergence(actual, t) \in Int
<1>1. CASE actual = NoFile \/ Shared(actual, t) = {}
  BY <1>1 DEF PointDivergence
<1>2. CASE actual # NoFile /\ Shared(actual, t) # {}
  <2> DEFINE S == Shared(actual, t)
  <2> DEFINE f == Differences(actual, t)
  <2>1. IsFiniteSet(S) /\ Cardinality(S) \in Nat \ {0}
    BY <1>2, ScalarsFinite DEF Shared
  <2>2. \A k \in S : f[k] \in Int
    BY <1>2, DifferencesTyped
  <2>3. SumFunctionOnSet(f, S) \in Int
    <3> HIDE DEF f, S
    <3> QED
      BY <2>1, <2>2, SumType
  <2>4. PointDivergence(actual, t) = RoundedDiv(SumFunctionOnSet(f, S), Cardinality(S))
    BY <1>2 DEF PointDivergence, SumFunction, Differences
  <2> HIDE DEF f, S
  <2> QED
    BY <2>1, <2>3, <2>4, RoundingError
<1> QED
  BY <1>1, <1>2

\* The sums whose quotient the weighted mean of some samples is.
LEMMA SumsOfMean ==
  ASSUME NEW ds \in Seq(Int), Len(ds) \in 1..MaxSamples, NEW low \in Int, NEW high \in Int,
         \A k \in DOMAIN ds : low <= ds[k] /\ ds[k] <= high
  PROVE  LET W == SumFunctionOnSet(Weights(ds), DOMAIN ds)
             P == SumFunctionOnSet(Weighted(ds), DOMAIN ds)
         IN  W \in Nat \ {0} /\ P \in Int /\ W * low <= P /\ P <= W * high /\ MeanOf(ds) = RoundedDiv(P, W)
<1> DEFINE S == DOMAIN ds
<1> DEFINE w == Weights(ds)
<1> DEFINE p == Weighted(ds)
<1> DEFINE W == SumFunctionOnSet(w, S)
<1> DEFINE P == SumFunctionOnSet(p, S)
<1>1. /\ S = 1..Len(ds) /\ Len(ds) \in Nat \ {0} /\ Len(ds) \in S /\ MaxSamples \in Nat \ {0}
      /\ Decay \in [0..(MaxSamples - 1) -> Nat] /\ Decay[0] > 0 /\ IsFiniteSet(S) /\ ds # <<>>
  <2>1. MaxSamples \in Nat \ {0} /\ Decay \in [0..(MaxSamples - 1) -> Nat] /\ Decay[0] > 0
    BY PreflightAssumption
  <2>2. S = 1..Len(ds) /\ Len(ds) \in Nat \ {0} /\ Len(ds) \in S /\ ds # <<>>
    BY <2>1
  <2>3. IsFiniteSet(1..Len(ds))
    BY <2>2, FS_Interval
  <2> QED
    BY <2>1, <2>2, <2>3
<1>2. \A k \in S : w[k] = Decay[Len(ds) - k] /\ w[k] \in Nat /\ ds[k] \in Int
  <2>1. \A k \in S : Len(ds) - k \in 0..(MaxSamples - 1)
    BY <1>1
  <2> QED
    BY <1>1, <2>1 DEF Weights
<1>3. \A k \in S : p[k] = ds[k] * w[k] /\ w[k] \in Nat /\ ds[k] \in Int /\ low <= ds[k] /\ ds[k] <= high
  BY <1>2 DEF Weighted
<1>4. w[Len(ds)] > 0
  <2>1. Len(ds) - Len(ds) = 0
    BY <1>1
  <2>2. w[Len(ds)] = Decay[Len(ds) - Len(ds)]
    BY <1>1, <1>2
  <2> HIDE DEF w
  <2> QED
    BY <1>1, <2>1, <2>2
<1>5. MeanOf(ds) = RoundedDiv(P, W)
  BY <1>1 DEF MeanOf, SumFunction, Weights, Weighted
<1> HIDE DEF S, w, p
<1>6. W \in Nat /\ P \in Int /\ low * W <= P /\ P <= high * W
  <2>1. IsFiniteSet(S)
    BY <1>1
  <2> QED
    BY <1>3, <2>1, WeightedBetween
<1>7. W \in Nat \ {0}
  BY <1>1, <1>2, <1>4, SumPositive
<1> HIDE DEF W, P
<1>8. W * low <= P /\ P <= W * high
  BY <1>6, <1>7
<1> QED
  BY <1>5, <1>6, <1>7, <1>8 DEF W, P, S, w, p

\* The mean is between any bounds of the samples.
LEMMA MeanBetween ==
  ASSUME NEW ds \in Seq(Int), Len(ds) \in 1..MaxSamples, NEW low \in Int, NEW high \in Int,
         \A k \in DOMAIN ds : low <= ds[k] /\ ds[k] <= high
  PROVE  MeanOf(ds) \in Int /\ low <= MeanOf(ds) /\ MeanOf(ds) <= high
<1> DEFINE W == SumFunctionOnSet(Weights(ds), DOMAIN ds)
<1> DEFINE P == SumFunctionOnSet(Weighted(ds), DOMAIN ds)
<1>1. W \in Nat \ {0} /\ P \in Int /\ W * low <= P /\ P <= W * high /\ MeanOf(ds) = RoundedDiv(P, W)
  BY SumsOfMean
<1> HIDE DEF W, P
<1> QED
  BY <1>1, RoundingBounds, RoundingError

\* What the deque keeps are some of the samples.
LEMMA RetainedAre ==
  ASSUME NEW ds \in Seq(Int), Len(ds) > 0
  PROVE  /\ Retained(ds) \in Seq(Int) /\ Len(Retained(ds)) \in 1..MaxSamples
         /\ \A k \in DOMAIN Retained(ds) : \E l \in DOMAIN ds : Retained(ds)[k] = ds[l]
<1>1. MaxSamples \in Nat \ {0} /\ Len(ds) \in Nat
  BY PreflightAssumption
<1>2. CASE Len(ds) <= MaxSamples
  BY <1>1, <1>2 DEF Retained
<1>3. CASE Len(ds) > MaxSamples
  <2> DEFINE m == Len(ds) - MaxSamples + 1
  <2>1. m \in 1..Len(ds) /\ Retained(ds) = SubSeq(ds, m, Len(ds)) /\ Len(ds) - m + 1 = MaxSamples
    BY <1>1, <1>3 DEF Retained
  <2> HIDE DEF m
  <2>2. /\ Retained(ds) \in Seq(Int) /\ Len(Retained(ds)) = MaxSamples
        /\ \A k \in 1..MaxSamples : Retained(ds)[k] = ds[m + k - 1]
    BY <1>1, <2>1
  <2>3. \A k \in 1..MaxSamples : m + k - 1 \in DOMAIN ds
    BY <1>1, <2>1
  <2> QED
    BY <1>1, <2>2, <2>3
<1> QED
  BY <1>1, <1>2, <1>3

-----------------------------------------------------------------------------
(* What the snapshots hold.                                                *)

NodesOf(f) == IF f = NoFile THEN [n \in {} |-> 0] ELSE f.node_health

\* A snapshot as the two ticks write it: an index is that of its own scores.
Published(f) ==
  /\ Numeric(f) /\ f.node_health \in [Nodes -> Scores]
  /\ f.scalar["coherence_index"] \in {Other, Index(f.node_health)}

\* The twin after the graph has computed what follows from f.
Computed(s, f) ==
  [s EXCEPT !.node_health = Spread(NodesOf(f)), !.scalar["coherence_index"] = Index(NodesOf(f))]

Snapshots ==
  /\ file # NoFile => Published(file)
  /\ pc # "idle" =>
       /\ \A f \in since : f # NoFile => Published(f)
       /\ origin # NoFile /\ origin \in since
       /\ call.intervention \in Interventions /\ Found(call.intervention.target)
       /\ Numeric(twin)
  /\ pc = "propagate" => ~propagated
  /\ pc \in {"sample", "done"} => IF propagated THEN \E f \in since : twin = Computed(Own, f) ELSE twin = Own

LEMMA AppliedNumeric ==
  ASSUME NEW s, NEW i \in Interventions, Numeric(s), Found(i.target)
  PROVE  Numeric(Applied(s, i.target, i.value))
<1>1. Shape(Applied(s, i.target, i.value))
  BY AppliedShape DEF Numeric
<1>2. i.value \in Int \union {Other}
  BY PreflightAssumption
<1>3. CASE Len(i.target) = 2 \/ i.target[1] = "node_health"
  <2>1. Applied(s, i.target, i.value).scalar = s.scalar
    BY <1>3 DEF Applied, Numeric, Shape
  <2> QED
    BY <1>1, <2>1 DEF Numeric
<1>4. CASE Len(i.target) # 2 /\ i.target[1] # "node_health"
  <2>1. Applied(s, i.target, i.value).scalar = [s.scalar EXCEPT ![i.target[1]] = i.value]
    BY <1>4 DEF Applied, Numeric, Shape
  <2> QED
    BY <1>1, <1>2, <2>1 DEF Numeric, Shape
<1> QED
  BY <1>3, <1>4

LEMMA ComputedNumeric ==
  ASSUME NEW s, NEW f, Numeric(s), f # NoFile => Published(f)
  PROVE  Numeric(Computed(s, f))
<1>1. Index(NodesOf(f)) \in Int
  BY PreflightAssumption DEF NodesOf, Published
<1> DEFINE h == NodesOf(f)
<1> DEFINE t == Computed(s, f)
<1>2. /\ DOMAIN t = {"scalar", "node_health"}
      /\ t.scalar = [s.scalar EXCEPT !["coherence_index"] = Index(h)]
  BY DEF Computed, Numeric, Shape
<1> HIDE DEF h, t
<1>3. DOMAIN t.scalar = Scalars /\ \A k \in Scalars : t.scalar[k] \in {s.scalar[k], Index(h)}
  BY <1>2 DEF Numeric, Shape
<1>4. Numeric(t)
  BY <1>1, <1>2, <1>3 DEF Numeric, Shape, h
<1> QED
  BY <1>4 DEF t

LEMMA ReplaceSnapshots ==
  ASSUME Snapshots, NEW f, Replace(f), f # NoFile => Published(f)
  PROVE  Snapshots'
<1>1. /\ file' = f /\ since' = since \union {f}
      /\ UNCHANGED <<pc, call, twin, origin, propagated>>
  BY DEF Replace, inner
<1>2. Own' = Own
  BY <1>1 DEF Own
<1> QED
  BY <1>1, <1>2 DEF Snapshots

LEMMA WriterSnapshots ==
  ASSUME Snapshots, TypeOK, PublishTick \/ PublishIndex \/ Remove
  PROVE  Snapshots'
<1>1. CASE PublishTick
  <2>1. PICK h \in [Nodes -> Scores] :
          Replace(Snapshot(writes * Period, h, IF file = NoFile THEN 0 ELSE file.scalar["anomaly_count"]))
    BY <1>1 DEF PublishTick
  <2> DEFINE n == IF file = NoFile THEN 0 ELSE file.scalar["anomaly_count"]
  <2> DEFINE t == writes * Period
  <2> DEFINE r == RoundedDiv(SumFunction(h), Cardinality(Nodes))
  <2>2. n \in Int \union {Other}
    BY DEF Snapshots, Published, Numeric, Scalars
  <2>3. t \in Int
    BY PreflightAssumption DEF TypeOK
  <2>4. r \in Int
    <3>1. Cardinality(Nodes) \in Nat \ {0}
      BY PreflightAssumption, FS_CardinalityType, FS_EmptySet
    <3>2. \A x \in Nodes : h[x] \in Int
      <4>1. \A v \in Scores : v \in Int
        BY PreflightAssumption
      <4>2. \A x \in Nodes : h[x] \in Scores
        BY <2>1
      <4> QED
        BY <4>1, <4>2
    <3>3. SumFunctionOnSet(h, Nodes) \in Int
      BY <3>2, PreflightAssumption, SumType
    <3> QED
      BY <3>1, <3>3, RoundingError DEF SumFunction
  <2>5. Snapshot(t, h, n) = [scalar |-> [timestamp |-> t, anomaly_count |-> n, coherence_index |-> Other,
                                          system_health_ratio |-> r], node_health |-> h]
    BY DEF Snapshot
  <2> HIDE DEF n, t, r
  <2>6. Published(Snapshot(t, h, n))
    BY <2>2, <2>3, <2>4, <2>5 DEF Published, Numeric, Shape, Scalars
  <2> QED
    BY <2>1, <2>6, ReplaceSnapshots DEF n, t
<1>2. CASE PublishIndex
  <2> DEFINE f == [file EXCEPT !.scalar["coherence_index"] = Index(file.node_health)]
  <2>1. file # NoFile /\ Replace(f)
    BY <1>2 DEF PublishIndex
  <2>2. Published(file)
    BY <2>1 DEF Snapshots
  <2>3. /\ DOMAIN f = {"scalar", "node_health"} /\ f.node_health = file.node_health
        /\ f.scalar = [file.scalar EXCEPT !["coherence_index"] = Index(file.node_health)]
    BY <2>2 DEF Published, Numeric, Shape
  <2>4. Index(file.node_health) \in Int
    BY <2>2, PreflightAssumption DEF Published
  <2> HIDE DEF f
  <2>5. Published(f)
    BY <2>2, <2>3, <2>4 DEF Published, Numeric, Shape, Scalars
  <2> QED
    BY <2>1, <2>5, ReplaceSnapshots
<1>3. CASE Remove
  BY <1>3, ReplaceSnapshots DEF Remove
<1> QED
  BY <1>1, <1>2, <1>3

LEMMA StepSnapshots == IInv /\ Snapshots /\ [Next]_vars => Snapshots'
<1> SUFFICES ASSUME IInv, Snapshots, [Next]_vars PROVE Snapshots'
  OBVIOUS
<1>1. CASE PublishTick \/ PublishIndex \/ Remove
  BY <1>1, WriterSnapshots DEF IInv, Types
<1>2. ASSUME NEW i \in Interventions, NEW d \in Decisions, Fork(i, d) PROVE Snapshots'
  <2>1. /\ file # NoFile /\ origin' = file /\ since' = {file} /\ ~propagated'
        /\ call' = [intervention |-> i, original |-> d] /\ file' = file
    BY <1>2 DEF Fork, real
  <2>2. CASE Found(i.target)
    <3>1. twin' = Applied(file, i.target, i.value) /\ pc' = "propagate"
      BY <1>2, <2>2 DEF Fork
    <3>2. Published(file) /\ Numeric(twin')
      BY <2>1, <2>2, <3>1, AppliedNumeric DEF Snapshots, Published
    <3> QED
      BY <2>1, <2>2, <3>1, <3>2 DEF Snapshots
  <2>3. CASE ~Found(i.target)
    <3>1. pc' = "idle"
      BY <1>2, <2>3 DEF Fork
    <3> QED
      BY <2>1, <3>1 DEF Snapshots
  <2> QED
    BY <2>2, <2>3
<1>3. CASE Propagate
  <2> DEFINE h == IF file = NoFile THEN [n \in {} |-> 0] ELSE file.node_health
  <2>1. /\ twin' = [twin EXCEPT !.node_health = Spread(h), !.scalar["coherence_index"] = Index(h)]
        /\ pc = "propagate" /\ pc' = "sample" /\ propagated'
        /\ UNCHANGED <<file, since, origin, call>>
        /\ file \in since /\ twin = Own /\ Numeric(twin)
    BY <1>3 DEF Propagate, real, IInv, Files, Twin, Snapshots
  <2>2. h = NodesOf(file)
    BY DEF NodesOf
  <2>3. twin' = Computed(Own, file) /\ Own' = Own
    BY <2>1, <2>2 DEF Computed, Own
  <2>4. Numeric(Computed(Own, file))
    BY <2>1, ComputedNumeric DEF Snapshots
  <2>5. Numeric(twin') /\ \E f \in since' : twin' = Computed(Own', f)
    BY <2>1, <2>3, <2>4
  <2>6. Numeric(twin)' /\ \E f \in since' : (twin = Computed(Own, f))'
    BY <2>5 DEF Numeric, Shape, Computed, NodesOf
  <2> QED
    BY <2>1, <2>6 DEF Snapshots
<1>4. CASE SkipPropagate
  <2>1. /\ pc = "propagate" /\ pc' = "sample" /\ UNCHANGED <<file, since, origin, call, twin, propagated>>
        /\ twin = Own
    BY <1>4 DEF SkipPropagate, real, inner, IInv, Twin
  <2>2. Own' = Own
    BY <2>1 DEF Own
  <2> QED
    BY <2>1, <2>2 DEF Snapshots
<1>5. CASE Sample \/ Decide
  <2>1. /\ pc = "sample" /\ pc' \in {"sample", "done"}
        /\ UNCHANGED <<file, since, origin, call, twin, propagated>>
    BY <1>5 DEF Sample, Decide, real, inner, history
  <2>2. Own' = Own
    BY <2>1 DEF Own
  <2> QED
    BY <2>1, <2>2 DEF Snapshots
<1>6. CASE SampleFails
  BY <1>6 DEF SampleFails, real, inner, Snapshots
<1>7. CASE UNCHANGED vars
  <2>1. UNCHANGED <<pc, file, since, origin, call, twin, propagated>>
    BY <1>7 DEF vars, real, inner, history
  <2>2. Own' = Own
    BY <2>1 DEF Own
  <2> QED
    BY <2>1, <2>2 DEF Snapshots
<1> QED
  BY <1>1, <1>2, <1>3, <1>4, <1>5, <1>6, <1>7 DEF Next, Evaluate

LEMMA InitSnapshots == Init => Snapshots
BY DEF Init, Snapshots

-----------------------------------------------------------------------------
(* The verdict.                                                            *)

Measured(f) == PointDivergence(f, twin)

\* Every sample was taken against something the file held meanwhile, and the
\* verdict is between two of them.
Sampled ==
  /\ pc \in {"sample", "done"} => seen \subseteq since
  /\ pc = "sample" => /\ file \in seen
                      /\ Taken(fork) \in Seq(Int) /\ Len(Taken(fork)) <= wiring.cycles
                      /\ \A k \in DOMAIN Taken(fork) : \E f \in seen : Taken(fork)[k] = Measured(f)
  /\ pc = "done" => /\ verdict.divergence \in Int
                    /\ verdict.final = Final(verdict.divergence, call.original)
                    /\ wiring.cycles > 0 =>
                         \E f, g \in seen : /\ Measured(f) <= verdict.divergence
                                            /\ verdict.divergence <= Measured(g)

LEMMA MeasuredTyped ==
  ASSUME Snapshots, Sampled, pc \in {"sample", "done"}
  PROVE  \A f \in seen : Measured(f) \in Int
<1>1. ASSUME NEW f \in seen PROVE Measured(f) \in Int
  <2>1. (f # NoFile => Numeric(f)) /\ Numeric(twin)
    BY DEF Snapshots, Sampled, Published
  <2> QED
    BY <2>1, PointTyped DEF Measured
<1> QED
  BY <1>1

\* What the verdict is made of.
LEMMA MeanOfTaken ==
  ASSUME IInv, Snapshots, Sampled, pc = "sample", Len(Taken(fork)) = wiring.cycles
  PROVE  /\ MeanOf(Retained(Taken(fork))) \in Int
         /\ wiring.cycles > 0 =>
              \E f, g \in seen : /\ Measured(f) <= MeanOf(Retained(Taken(fork)))
                                 /\ MeanOf(Retained(Taken(fork))) <= Measured(g)
<1> DEFINE ds == Retained(Taken(fork))
<1>1. Taken(fork) \in Seq(Int) /\ wiring.cycles \in Nat
  BY PreflightAssumption DEF Sampled, IInv, Types, TypeOK
<1>2. CASE wiring.cycles = 0
  <2>1. Taken(fork) = <<>> /\ MaxSamples \in Nat \ {0}
    BY <1>1, <1>2, PreflightAssumption
  <2>2. ds = <<>>
    BY <2>1 DEF Retained
  <2>3. MeanOf(ds) = 0
    BY <2>2 DEF MeanOf
  <2> QED
    BY <1>2, <2>3
<1>3. CASE wiring.cycles > 0
  <2>1. /\ ds \in Seq(Int) /\ Len(ds) \in 1..MaxSamples
        /\ \A k \in DOMAIN ds : \E l \in DOMAIN Taken(fork) : ds[k] = Taken(fork)[l]
    BY <1>1, <1>3, RetainedAre
  <2> HIDE DEF ds
  <2>2. DOMAIN ds = 1..Len(ds) /\ Len(ds) \in Nat /\ Len(ds) > 0 /\ \A k \in DOMAIN ds : ds[k] \in Int
    BY <2>1, PreflightAssumption
  <2>3. IsFiniteSet(DOMAIN ds) /\ DOMAIN ds # {}
    <3>1. 1 \in DOMAIN ds /\ Len(ds) \in Int /\ 1 \in Int
      BY <2>2
    <3>2. IsFiniteSet(1..Len(ds))
      BY <3>1, FS_Interval
    <3> QED
      BY <2>2, <3>1, <3>2
  <2>4. PICK l \in DOMAIN ds : \A k \in DOMAIN ds : ds[l] <= ds[k]
    BY <2>2, <2>3, LeastExists
  <2>5. PICK h \in DOMAIN ds : \A k \in DOMAIN ds : ds[k] <= ds[h]
    BY <2>2, <2>3, GreatestExists
  <2>6. MeanOf(ds) \in Int /\ ds[l] <= MeanOf(ds) /\ MeanOf(ds) <= ds[h]
    BY <2>1, <2>2, <2>4, <2>5, MeanBetween
  <2>7. PICK f \in seen : ds[l] = Measured(f)
    BY <2>1 DEF Sampled
  <2>8. PICK g \in seen : ds[h] = Measured(g)
    BY <2>1 DEF Sampled
  <2>9. Measured(f) <= MeanOf(ds) /\ MeanOf(ds) <= Measured(g)
    BY <2>6, <2>7, <2>8
  <2> QED
    BY <2>6, <2>9 DEF ds
<1> QED
  BY <1>1, <1>2, <1>3

LEMMA BeginSampled ==
  ASSUME IInv, Propagate \/ SkipPropagate
  PROVE  Sampled'
<1>1. /\ pc = "propagate" /\ pc' = "sample" /\ seen' = {file} /\ file \in since
      /\ UNCHANGED <<file, since, fork, samples, wiring>>
  BY DEF Propagate, SkipPropagate, real, inner, IInv, Files
<1>2. fork \notin DOMAIN samples
  BY <1>1 DEF IInv, Types, TypeOK
<1>3. Taken(fork)' = <<>>
  BY <1>1, <1>2 DEF Taken
<1>4. wiring.cycles \in Nat
  BY PreflightAssumption DEF IInv, Types, TypeOK
<1> QED
  BY <1>1, <1>3, <1>4 DEF Sampled

LEMMA SampleSampled ==
  ASSUME IInv, Snapshots, Sampled, Sample
  PROVE  Sampled'
<1> DEFINE ds == Taken(fork)
<1> DEFINE d == Measured(file)
<1>1. /\ pc = "sample" /\ pc' = "sample" /\ Len(ds) < wiring.cycles
      /\ UNCHANGED <<file, seen, since, fork, twin, wiring>>
      /\ samples' = [f \in DOMAIN samples \union {fork} |-> IF f = fork THEN Append(ds, d) ELSE samples[f]]
  BY DEF Sample, real, inner, history, Measured
<1>2. Taken(fork)' = Append(ds, d)
  BY <1>1 DEF Taken
<1>3. file \in seen /\ ds \in Seq(Int) /\ \A k \in DOMAIN ds : \E f \in seen : ds[k] = Measured(f)
  BY <1>1 DEF Sampled
<1>4. d \in Int
  BY <1>1, <1>3, MeasuredTyped
<1>5. wiring.cycles \in Nat
  BY PreflightAssumption DEF IInv, Types, TypeOK
<1>6. \A f : Measured(f)' = Measured(f)
  BY <1>1 DEF Measured
<1> HIDE DEF ds, d
<1>7. Append(ds, d) \in Seq(Int) /\ Len(Append(ds, d)) <= wiring.cycles
  BY <1>1, <1>3, <1>4, <1>5
<1>8. ASSUME NEW k \in DOMAIN Append(ds, d) PROVE \E f \in seen : Append(ds, d)[k] = Measured(f)
  <2>1. CASE k \in DOMAIN ds
    <3>1. Append(ds, d)[k] = ds[k]
      BY <1>3, <1>4, <2>1
    <3> QED
      BY <1>3, <2>1, <3>1
  <2>2. CASE k \notin DOMAIN ds
    <3>1. Append(ds, d)[k] = d
      BY <1>3, <1>4, <2>2
    <3> QED
      BY <1>3, <3>1 DEF d
  <2> QED
    BY <2>1, <2>2
<1> QED
  BY <1>1, <1>2, <1>3, <1>6, <1>7, <1>8 DEF Sampled

LEMMA DecideSampled ==
  ASSUME IInv, Snapshots, Sampled, Decide
  PROVE  Sampled'
<1> DEFINE d == MeanOf(Retained(Taken(fork)))
<1>1. /\ pc = "sample" /\ pc' = "done" /\ Len(Taken(fork)) = wiring.cycles
      /\ verdict' = [divergence |-> d, final |-> Final(d, call.original)]
      /\ UNCHANGED <<seen, since, twin, wiring, call>>
  BY DEF Decide, real, inner, history
<1>2. /\ d \in Int
      /\ wiring.cycles > 0 => \E f, g \in seen : Measured(f) <= d /\ d <= Measured(g)
  BY <1>1, MeanOfTaken
<1> HIDE DEF d
<1>3. verdict'.divergence = d /\ verdict'.final = Final(d, call.original)
  BY <1>1
<1>4. \A f : Measured(f)' = Measured(f)
  BY <1>1 DEF Measured
<1>5. seen \subseteq since
  BY <1>1 DEF Sampled
<1>6. (verdict.final = Final(verdict.divergence, call.original))'
  BY <1>1, <1>3 DEF Final
<1> QED
  BY <1>1, <1>2, <1>3, <1>4, <1>5, <1>6 DEF Sampled

LEMMA InitSampled == Init => Sampled
BY DEF Init, Sampled

LEMMA StepSampled == IInv /\ Snapshots /\ Sampled /\ [Next]_vars => Sampled'
<1> SUFFICES ASSUME IInv, Snapshots, Sampled, [Next]_vars PROVE Sampled'
  OBVIOUS
<1>1. CASE PublishTick \/ PublishIndex \/ Remove
  <2>1. PICK f : Replace(f)
    BY <1>1 DEF PublishTick, PublishIndex, Remove
  <2>2. /\ file' = f /\ since' = since \union {f} /\ seen' = seen \union {f}
        /\ UNCHANGED <<pc, wiring, call, twin, fork, samples, verdict>>
    BY <2>1 DEF Replace, inner
  <2>3. Taken(fork)' = Taken(fork) /\ \A g : Measured(g)' = Measured(g)
    BY <2>2 DEF Taken, Measured
  <2>4. Final(verdict.divergence, call.original)' = Final(verdict.divergence, call.original)
    BY <2>2 DEF Final
  <2> QED
    BY <2>2, <2>3, <2>4 DEF Sampled
<1>2. ASSUME NEW i \in Interventions, NEW e \in Decisions, Fork(i, e) PROVE Sampled'
  <2>1. pc' \in {"idle", "propagate"}
    BY <1>2 DEF Fork
  <2> QED
    BY <2>1 DEF Sampled
<1>3. CASE SampleFails
  BY <1>3 DEF SampleFails, Sampled
<1>4. CASE UNCHANGED vars
  <2>1. UNCHANGED <<pc, file, since, seen, wiring, call, twin, fork, samples, verdict>>
    BY <1>4 DEF vars, real, inner, history
  <2>2. Taken(fork)' = Taken(fork) /\ \A g : Measured(g)' = Measured(g)
    BY <2>1 DEF Taken, Measured
  <2>3. Final(verdict.divergence, call.original)' = Final(verdict.divergence, call.original)
    BY <2>1 DEF Final
  <2> QED
    BY <2>1, <2>2, <2>3 DEF Sampled
<1> QED
  BY <1>1, <1>2, <1>3, <1>4, BeginSampled, SampleSampled, DecideSampled DEF Next, Evaluate

LEMMA SamplesHold == Spec => [](IInv /\ Snapshots /\ Sampled)
<1>1. Init => IInv /\ Snapshots /\ Sampled
  BY InitIInv, InitSnapshots, InitSampled
<1>2. (IInv /\ Snapshots /\ Sampled) /\ [Next]_vars => (IInv /\ Snapshots /\ Sampled)'
  BY StepIInv, StepSnapshots, StepSampled
<1> QED
  BY <1>1, <1>2, PTL DEF Spec

(* However the file is replaced while a preflight samples it, the verdict  *)
(* lies between two divergences the twin had from what the file held, and  *)
(* only an allowed action beyond the threshold is held                     *)
(* (safety_preflight.py:80-113, divergence.py).                            *)
THEOREM VerdictsFollowFiles == Spec => []VerdictFollowsFiles
<1>1. ASSUME IInv, Snapshots, Sampled PROVE VerdictFollowsFiles
  <2> SUFFICES ASSUME pc = "done", wiring.cycles > 0
               PROVE  LET ds == {PointDivergence(f, twin) : f \in seen}
                      IN  /\ \E least, most \in ds : least <= verdict.divergence /\ verdict.divergence <= most
                          /\ verdict.final # call.original => call.original = "allow" /\ \E d \in ds : d > Threshold
                          /\ call.original = "allow" /\ (\A d \in ds : d > Threshold) => verdict.final = "hold"
    BY DEF VerdictFollowsFiles
  <2> DEFINE ds == {PointDivergence(f, twin) : f \in seen}
  <2>1. /\ verdict.divergence \in Int /\ Threshold \in Nat
        /\ verdict.final = IF verdict.divergence > Threshold /\ call.original = "allow" THEN "hold" ELSE call.original
    BY <1>1, PreflightAssumption DEF Sampled, Final
  <2>2. PICK f \in seen, g \in seen : Measured(f) <= verdict.divergence /\ verdict.divergence <= Measured(g)
    BY <1>1 DEF Sampled
  <2>3. Measured(f) \in ds /\ Measured(g) \in ds /\ Measured(f) \in Int /\ Measured(g) \in Int
    BY <1>1, MeasuredTyped DEF Measured
  <2> HIDE DEF ds
  <2>4. \E least, most \in ds : least <= verdict.divergence /\ verdict.divergence <= most
    BY <2>2, <2>3
  <2>5. verdict.final # call.original => call.original = "allow" /\ \E d \in ds : d > Threshold
    <3>1. verdict.divergence > Threshold => Measured(g) > Threshold
      BY <2>1, <2>2, <2>3
    <3> QED
      BY <2>1, <2>3, <3>1
  <2>6. call.original = "allow" /\ (\A d \in ds : d > Threshold) => verdict.final = "hold"
    <3>1. Measured(f) > Threshold => verdict.divergence > Threshold
      BY <2>1, <2>2, <2>3
    <3> QED
      BY <2>1, <2>3, <3>1
  <2> QED
    BY <2>4, <2>5, <2>6 DEF ds
<1> QED
  BY <1>1, SamplesHold, PTL
-----------------------------------------------------------------------------
(* What a preflight measures while nothing else writes the file.           *)

Expected(k) ==
  IF k = "coherence_index" /\ propagated THEN Index(origin.node_health)
  ELSE IF call.intervention.target[1] = k THEN call.intervention.value ELSE origin.scalar[k]

LEMMA AppliedScalars ==
  ASSUME NEW s, NEW path, NEW v, Shape(s), Found(path), NEW k \in Scalars
  PROVE  Applied(s, path, v).scalar[k] = IF path[1] = k THEN v ELSE s.scalar[k]
<1>1. k # "node_health"
  BY DEF Scalars
<1>2. CASE Len(path) = 2
  BY <1>1, <1>2 DEF Applied, Found, Shape, Scalars
<1>3. CASE Len(path) # 2 /\ path[1] = "node_health"
  BY <1>1, <1>3 DEF Applied, Found, Shape
<1>4. CASE Len(path) # 2 /\ path[1] # "node_health"
  <2>1. Applied(s, path, v).scalar = [s.scalar EXCEPT ![path[1]] = v]
    BY <1>4 DEF Applied, Shape
  <2> QED
    BY <2>1 DEF Shape
<1> QED
  BY <1>2, <1>3, <1>4

LEMMA TwinScalars ==
  ASSUME Snapshots, pc \in {"sample", "done"}, since = {origin}
  PROVE  \A k \in Scalars : twin.scalar[k] = Expected(k)
<1> SUFFICES ASSUME NEW k \in Scalars PROVE twin.scalar[k] = Expected(k)
  OBVIOUS
<1> DEFINE path == call.intervention.target
<1> DEFINE v == call.intervention.value
<1>1. /\ Shape(origin) /\ Found(path) /\ Own = Applied(origin, path, v)
      /\ origin # NoFile
  BY DEF Snapshots, Published, Numeric, Own
<1>2. Own.scalar[k] = (IF path[1] = k THEN v ELSE origin.scalar[k]) /\ Shape(Own)
  BY <1>1, AppliedScalars, AppliedShape
<1>3. CASE ~propagated
  <2>1. twin = Own
    BY <1>3 DEF Snapshots
  <2> QED
    BY <1>2, <1>3, <2>1 DEF Expected
<1>4. CASE propagated
  <2>1. twin = Computed(Own, origin) /\ NodesOf(origin) = origin.node_health
    BY <1>1, <1>4 DEF Snapshots, NodesOf
  <2>2. Computed(Own, origin).scalar = [Own.scalar EXCEPT !["coherence_index"] = Index(NodesOf(origin))]
    BY <1>2 DEF Computed, Shape
  <2>3. twin.scalar[k] = IF k = "coherence_index" THEN Index(origin.node_health) ELSE Own.scalar[k]
    BY <1>2, <2>1, <2>2 DEF Shape
  <2> QED
    BY <1>2, <1>4, <2>3 DEF Expected
<1> QED
  BY <1>3, <1>4

\* What two snapshots with the same shared numbers are apart.
LEMMA NothingApart ==
  ASSUME NEW actual, NEW t, Numeric(actual), Numeric(t),
         \A k \in Shared(actual, t) : actual.scalar[k] = t.scalar[k]
  PROVE  PointDivergence(actual, t) = 0
<1> DEFINE S == Shared(actual, t)
<1> DEFINE f == Differences(actual, t)
<1>1. CASE actual = NoFile \/ S = {}
  BY <1>1 DEF PointDivergence
<1>2. CASE actual # NoFile /\ S # {}
  <2>1. IsFiniteSet(S) /\ Cardinality(S) \in Nat \ {0}
    BY <1>2, ScalarsFinite DEF Shared
  <2>2. \A k \in S : f[k] = 0
    <3>1. \A k \in S : f[k] = Magnitude(actual.scalar[k] - t.scalar[k]) /\ actual.scalar[k] \in Int
      BY DifferencesTyped
    <3>2. \A x \in Int : Magnitude(x - x) = 0
      BY DEF Magnitude
    <3> QED
      BY <3>1, <3>2
  <2>3. PointDivergence(actual, t) = RoundedDiv(SumFunctionOnSet(f, S), Cardinality(S))
    BY <1>2 DEF PointDivergence, SumFunction, Differences
  <2> HIDE DEF f, S
  <2>4. SumFunctionOnSet(f, S) = 0 * Cardinality(S)
    BY <2>1, <2>2, SumConstant
  <2>5. SumFunctionOnSet(f, S) = Cardinality(S) * 0
    BY <2>1, <2>4
  <2> QED
    BY <2>1, <2>3, <2>5, RoundingExact
<1> QED
  BY <1>1, <1>2

\* What two snapshots are apart that differ in one shared number.
LEMMA OneApart ==
  ASSUME NEW actual, NEW t, Numeric(actual), Numeric(t), actual # NoFile,
         NEW key \in Shared(actual, t),
         \A k \in Shared(actual, t) \ {key} : actual.scalar[k] = t.scalar[k]
  PROVE  PointDivergence(actual, t) =
           RoundedDiv(Magnitude(t.scalar[key] - actual.scalar[key]), Cardinality(Shared(actual, t)))
<1> DEFINE S == Shared(actual, t)
<1> DEFINE f == Differences(actual, t)
<1>1. IsFiniteSet(S) /\ IsFiniteSet(S \ {key})
  <2>1. IsFiniteSet(S)
    BY ScalarsFinite DEF Shared
  <2> QED
    BY <2>1, FS_Subset
<1>2. /\ \A k \in S : f[k] \in Int
      /\ f[key] = Magnitude(actual.scalar[key] - t.scalar[key])
      /\ actual.scalar[key] \in Int /\ t.scalar[key] \in Int
  BY DifferencesTyped
<1>3. \A k \in S \ {key} : f[k] = 0
  <2>1. \A k \in S : f[k] = Magnitude(actual.scalar[k] - t.scalar[k]) /\ actual.scalar[k] \in Int
    BY DifferencesTyped
  <2>2. \A x \in Int : Magnitude(x - x) = 0
    BY DEF Magnitude
  <2> QED
    BY <2>1, <2>2
<1>4. PointDivergence(actual, t) = RoundedDiv(SumFunctionOnSet(f, S), Cardinality(S))
  BY DEF PointDivergence, SumFunction, Differences
<1>5. \A x, y \in Int : Magnitude(x - y) = Magnitude(y - x)
  BY DEF Magnitude
<1>6. key \in S
  OBVIOUS
<1>7. f[key] = Magnitude(t.scalar[key] - actual.scalar[key]) /\ f[key] \in Int
  BY <1>2, <1>5
<1> HIDE DEF f, S
<1>8. SumFunctionOnSet(f, S \ {key}) = 0
  <2>1. SumFunctionOnSet(f, S \ {key}) = 0 * Cardinality(S \ {key}) /\ Cardinality(S \ {key}) \in Nat
    BY <1>1, <1>3, SumConstant, FS_CardinalityType
  <2> QED
    BY <2>1
<1>9. SumFunctionOnSet(f, S) = f[key] + SumFunctionOnSet(f, S \ {key})
  BY <1>1, <1>2, <1>6, SumRemove
<1>10. SumFunctionOnSet(f, S) = f[key]
  BY <1>7, <1>8, <1>9
<1> QED
  BY <1>4, <1>7, <1>10 DEF S

\* What the twin is apart from the snapshot it was forked from.
LEMMA ProposalMeasured ==
  ASSUME Snapshots, pc \in {"sample", "done"}, since = {origin}
  PROVE  Measured(origin) = Proposed
<1> DEFINE path == call.intervention.target
<1> DEFINE v == call.intervention.value
<1> DEFINE Numbers == {k \in Scalars : origin.scalar[k] # Other}
<1> DEFINE Counts == path[1] \in Numbers /\ v # Other /\ (path[1] = "coherence_index" => ~propagated)
<1>1. Numeric(origin) /\ Numeric(twin) /\ origin # NoFile
  BY DEF Snapshots, Published
<1>2. \A k \in Scalars : twin.scalar[k] = Expected(k)
  BY TwinScalars
<1>3. origin.scalar["coherence_index"] \in {Other, Index(origin.node_health)}
      /\ Index(origin.node_health) # Other /\ Index(origin.node_health) \in Int
  <2>1. Published(origin)
    BY DEF Snapshots
  <2>2. origin.node_health \in [Nodes -> Scores]
    BY <2>1 DEF Published
  <2>3. Index(origin.node_health) \in Int
    BY <2>2, PreflightAssumption
  <2>4. Other \notin Int
    BY PreflightAssumption
  <2> QED
    BY <2>1, <2>3, <2>4 DEF Published
<1>4. Proposed = IF Counts THEN RoundedDiv(Magnitude(v - origin.scalar[path[1]]), Cardinality(Numbers)) ELSE 0
  BY DEF Proposed
<1>5. \A k \in Numbers : ~(Counts /\ path[1] = k) /\ k \in Shared(origin, twin) =>
        twin.scalar[k] = origin.scalar[k]
  BY <1>2, <1>3 DEF Expected, Shared
<1>6. CASE Counts
  <2>1. twin.scalar[path[1]] = v
    BY <1>2, <1>6 DEF Expected
  <2>2. \A k \in Numbers : k # path[1] => twin.scalar[k] # Other
    BY <1>2, <1>3 DEF Expected
  <2>3. Shared(origin, twin) = Numbers
    BY <1>6, <2>1, <2>2 DEF Shared
  <2>4. path[1] \in Shared(origin, twin)
    BY <1>6, <2>3
  <2>5. \A k \in Shared(origin, twin) \ {path[1]} : origin.scalar[k] = twin.scalar[k]
    BY <1>5, <2>3
  <2>6. PointDivergence(origin, twin) =
          RoundedDiv(Magnitude(twin.scalar[path[1]] - origin.scalar[path[1]]), Cardinality(Shared(origin, twin)))
    BY <1>1, <2>4, <2>5, OneApart
  <2> QED
    BY <1>4, <1>6, <2>1, <2>3, <2>6 DEF Measured
<1>7. CASE ~Counts
  <2>1. \A k \in Shared(origin, twin) : k \in Numbers
    BY DEF Shared
  <2>2. \A k \in Shared(origin, twin) : origin.scalar[k] = twin.scalar[k]
    BY <1>5, <1>7, <2>1
  <2>3. PointDivergence(origin, twin) = 0
    BY <1>1, <2>2, NothingApart
  <2> QED
    BY <1>4, <1>7, <2>3 DEF Measured
<1> QED
  BY <1>6, <1>7

(* A preflight during which nothing else writes the file measures exactly  *)
(* what was proposed, whatever the cycles, the decay and the samples kept  *)
(* (divergence.py, safety_preflight.py:80-113).                            *)
THEOREM QuietVerdictsMeasure == Spec => []QuietVerdictIsProposal
<1>1. ASSUME IInv, Snapshots, Sampled PROVE QuietVerdictIsProposal
  <2> SUFFICES ASSUME pc = "done", since = {origin}, wiring.cycles > 0
               PROVE  verdict.divergence = Proposed
    BY DEF QuietVerdictIsProposal
  <2>1. PICK f \in seen, g \in seen : Measured(f) <= verdict.divergence /\ verdict.divergence <= Measured(g)
    BY <1>1 DEF Sampled
  <2>2. f = origin /\ g = origin
    BY <1>1 DEF Sampled
  <2>3. Measured(f) \in Int /\ verdict.divergence \in Int
    BY <1>1, MeasuredTyped DEF Sampled
  <2>4. verdict.divergence = Measured(origin)
    BY <2>1, <2>2, <2>3
  <2>5. Measured(origin) = Proposed
    BY <1>1, ProposalMeasured
  <2> QED
    BY <2>4, <2>5
<1> QED
  BY <1>1, SamplesHold, PTL
=============================================================================
