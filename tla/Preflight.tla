------------------------------ MODULE Preflight ------------------------------
(***************************************************************************)
(* SafetyPreflight (core/simulation/safety_preflight.py) with the buffer   *)
(* that forks the world snapshot, the applicator of interventions and the  *)
(* divergence calculator.  A preflight reads world_snapshot.json once to   *)
(* fork it, once more when a coherence graph simulates, and once for every *)
(* sample; another process replaces the file meanwhile.                    *)
(*                                                                         *)
(* A snapshot has the four top-level keys that can hold a number, and the  *)
(* node scores.  Other stands for what a number is not compared with: a    *)
(* null, a string, a dictionary.  Numbers are integers, a unit of them     *)
(* what the code rounds to.  What the graph computes is in Coherence, which *)
(* shows that it depends on the scores it starts from and on nothing else. *)
(***************************************************************************)
EXTENDS FixedPoint, Sequences, FiniteSets, Functions

CONSTANTS
  Nodes, Scores,       \* telemetry sources and the scores they can have
  Interventions,       \* what is proposed: [target |-> key path, value |-> ...]
  Other, NoFile,
  Threshold,           \* divergence_threshold, in units
  Cycles,              \* the values simulation_cycles is tried with
  MaxSamples,          \* max_samples of the calculator
  LambdaNum, LambdaDen,\* the decay is LambdaNum / LambdaDen
  Decay,               \* its powers by the age of a sample, as integers over a common denominator
  Graphs,              \* whether a coherence graph is configured
  GraphNodes,          \* the nodes of that graph, with and without telemetry
  Spread(_), Index(_), \* what it reports for the node scores of a snapshot: the values
                       \* propagated to its nodes, and the index of these
  Period,              \* units of time between two snapshots
  MaxWrites,           \* cap on what happens to the file
  MaxForks             \* cap on preflights

ASSUME PreflightAssumption ==
  /\ Scores \subseteq Nat
  /\ \A h \in [Nodes -> Scores] \union {[n \in {} |-> 0]} :
       Spread(h) \in [GraphNodes -> Nat] /\ Index(h) \in Nat
  /\ \A i \in Interventions : i.value \in Int \union {Other}
  /\ Nodes # {} /\ IsFiniteSet(Nodes)
  /\ Cycles \subseteq Nat /\ {Threshold, Period, MaxWrites, MaxForks} \subseteq Nat
  /\ {MaxSamples, LambdaNum, LambdaDen} \subseteq Nat \ {0}
  /\ Decay \in [0..(MaxSamples - 1) -> Nat] /\ Decay[0] > 0
  /\ \A age \in 1..(MaxSamples - 1) : Decay[age] * LambdaDen = Decay[age - 1] * LambdaNum
  /\ Graphs \subseteq BOOLEAN
  /\ Other \notin Int

Scalars == {"timestamp", "system_health_ratio", "anomaly_count", "coherence_index"}
Decisions == {"allow", "hold", "deny"}

VARIABLES
  file,      \* world_snapshot.json
  writes,    \* what has happened to it
  pc,        \* where evaluate() stands
  wiring,    \* [graph, cycles]: how the preflight was constructed
  call,      \* its two arguments
  twin,      \* twin.snapshot
  fork,      \* fork_id: forks made so far
  samples,   \* the calculator's _samples: fork -> point divergences
  cycle,     \* TwinBuffer._cycle
  verdict,   \* [divergence, final_decision]
  (* history *)
  origin,    \* the snapshot that was forked
  since,     \* what the file has held since the fork
  seen,      \* what it has held since the samples began
  propagated,\* the graph's result is in the twin
  aborted    \* forks whose preflight raised

real == <<file, writes>>
inner == <<wiring, call, twin, fork, origin>>
history == <<since, seen, propagated, aborted>>
vars == <<real, pc, inner, samples, cycle, verdict, history>>

NoVerdict == [divergence |-> 0, final |-> "deny"]

Init ==
  /\ file = NoFile /\ writes = 0
  /\ wiring \in [graph : Graphs, cycles : Cycles]
  /\ pc = "idle" /\ call = Other /\ twin = NoFile /\ origin = NoFile
  /\ fork = 0 /\ samples = [f \in {} |-> <<>>] /\ cycle = 0
  /\ verdict = NoVerdict /\ since = {} /\ seen = {}
  /\ propagated = FALSE /\ aborted = {}
-----------------------------------------------------------------------------
(* The other process: a tick of the self-model, then one of the coherence  *)
(* graph; the file may also be removed.                                    *)

Replace(f) ==
  /\ writes < MaxWrites /\ writes' = writes + 1
  /\ file' = f /\ since' = since \union {f} /\ seen' = seen \union {f}
  /\ UNCHANGED <<pc, inner, samples, cycle, verdict, propagated, aborted>>

Snapshot(t, h, n) ==
  [scalar |-> [timestamp |-> t, anomaly_count |-> n, coherence_index |-> Other,
               system_health_ratio |-> RoundedDiv(SumFunction(h), Cardinality(Nodes))],
   node_health |-> h]

PublishTick ==
  \E h \in [Nodes -> Scores] :
    Replace(Snapshot(writes * Period, h,
                     IF file = NoFile THEN 0 ELSE file.scalar["anomaly_count"]))

PublishIndex ==
  /\ file # NoFile
  /\ Replace([file EXCEPT !.scalar["coherence_index"] = Index(file.node_health)])

Remove == file # NoFile /\ Replace(NoFile)
-----------------------------------------------------------------------------
(* InterventionApplicator.apply: the value replaces what is at the end of  *)
(* the path, which must exist; only node_health can be descended into.     *)

Found(path) == \/ Len(path) = 1 /\ path[1] \in Scalars \union {"node_health"}
               \/ Len(path) = 2 /\ path[1] = "node_health" /\ path[2] \in Nodes

Applied(s, path, v) ==
  IF Len(path) = 2 THEN [s EXCEPT !.node_health[path[2]] = v]
  ELSE IF path[1] = "node_health" THEN [s EXCEPT !.node_health = [n \in Nodes |-> v]]
  ELSE [s EXCEPT !.scalar[path[1]] = v]

\* fork() and apply().  Without a file, or with a path that is not there,
\* evaluate raises and leaves nothing behind.
Fork(i, d) ==
  /\ pc \in {"idle", "done"} /\ file # NoFile /\ fork < MaxForks
  /\ fork' = fork + 1 /\ origin' = file /\ since' = {file} /\ seen' = {}
  /\ propagated' = FALSE
  /\ call' = [intervention |-> i, original |-> d]
  /\ IF Found(i.target)
     THEN twin' = Applied(file, i.target, i.value) /\ pc' = "propagate" /\ UNCHANGED aborted
     ELSE twin' = file /\ pc' = "idle" /\ aborted' = aborted \union {fork'}
  /\ UNCHANGED <<real, wiring, samples, cycle, verdict>>

\* mistake: the graph's result is put in a fork of the file as it is now
PropagateAnew ==
  /\ pc = "propagate" /\ wiring.graph /\ file # NoFile
  /\ twin' = [Applied(file, call.intervention.target, call.intervention.value)
               EXCEPT !.scalar["coherence_index"] = Index(file.node_health)]
  /\ pc' = "sample" /\ seen' = {file} /\ propagated' = TRUE
  /\ UNCHANGED <<real, wiring, call, fork, origin, samples, cycle, verdict, since, aborted>>

\* No key of a snapshot is a node of the graph, so the simulation fixes a
\* node nobody reads and its report is the baseline: what the scores in the
\* file, or none, are propagated to.
Propagate ==
  /\ pc = "propagate" /\ wiring.graph
  /\ LET h == IF file = NoFile THEN [n \in {} |-> 0] ELSE file.node_health
     IN  twin' = [twin EXCEPT !.node_health = Spread(h), !.scalar["coherence_index"] = Index(h)]
  /\ pc' = "sample" /\ seen' = {file} /\ propagated' = TRUE
  /\ UNCHANGED <<real, wiring, call, fork, origin, samples, cycle, verdict, since, aborted>>

\* There is no graph, or the simulation raised.
SkipPropagate ==
  /\ pc = "propagate" /\ pc' = "sample" /\ seen' = {file}
  /\ UNCHANGED <<real, inner, samples, cycle, verdict, since, propagated, aborted>>
-----------------------------------------------------------------------------
(* DivergenceCalculator *)

Shared(actual, t) == {k \in Scalars : actual.scalar[k] # Other /\ t.scalar[k] # Other}

\* mistake: differences of opposite signs cancel out
PointDivergenceSigned(actual, t) ==
  IF actual = NoFile \/ Shared(actual, t) = {} THEN 0
  ELSE RoundedDiv(SumFunction([k \in Shared(actual, t) |-> t.scalar[k] - actual.scalar[k]]),
                  Cardinality(Shared(actual, t)))

PointDivergence(actual, t) ==
  IF actual = NoFile \/ Shared(actual, t) = {} THEN 0
  ELSE RoundedDiv(SumFunction([k \in Shared(actual, t) |-> Magnitude(actual.scalar[k] - t.scalar[k])]),
                  Cardinality(Shared(actual, t)))

\* The samples, oldest first, each times the power of lambda that its age gives.
Weights(ds) == [k \in DOMAIN ds |-> Decay[Len(ds) - k]]
Weighted(ds) == [k \in DOMAIN ds |-> ds[k] * Weights(ds)[k]]

\* mistake: divided by the number of samples, as if they weighed alike
MeanOfAlike(ds) ==
  IF ds = <<>> THEN 0 ELSE RoundedDiv(SumFunction(Weighted(ds)), Len(ds) * Decay[0])

MeanOf(ds) == IF ds = <<>> THEN 0 ELSE RoundedDiv(SumFunction(Weighted(ds)), SumFunction(Weights(ds)))

Taken(f) == IF f \in DOMAIN samples THEN samples[f] ELSE <<>>

Sample ==
  /\ pc = "sample" /\ Len(Taken(fork)) < wiring.cycles
  /\ LET ds == Append(Taken(fork), PointDivergence(file, twin))
     IN  samples' = [f \in DOMAIN samples \union {fork} |-> IF f = fork THEN ds ELSE samples[f]]
  /\ UNCHANGED <<real, pc, inner, cycle, verdict, history>>

\* The file could not be read: the exception leaves the samples where they are.
SampleFails ==
  /\ pc = "sample" /\ Len(Taken(fork)) < wiring.cycles
  /\ pc' = "idle" /\ aborted' = aborted \union {fork}
  /\ UNCHANGED <<real, inner, samples, cycle, verdict, since, seen, propagated>>

\* The deque keeps the last MaxSamples.
Retained(ds) == IF Len(ds) > MaxSamples THEN SubSeq(ds, Len(ds) - MaxSamples + 1, Len(ds)) ELSE ds

Final(divergence, original) ==
  IF divergence > Threshold /\ original = "allow" THEN "hold" ELSE original

\* compute, clear, tick and the decision
Decide ==
  /\ pc = "sample" /\ Len(Taken(fork)) = wiring.cycles
  /\ LET d == MeanOf(Retained(Taken(fork)))
     IN  verdict' = [divergence |-> d, final |-> Final(d, call.original)]
  /\ samples' = [f \in DOMAIN samples \ {fork} |-> samples[f]]
  /\ cycle' = cycle + 1 /\ pc' = "done"
  /\ UNCHANGED <<real, inner, history>>

Evaluate ==
  \/ \E i \in Interventions, d \in Decisions : Fork(i, d)
  \/ Propagate \/ SkipPropagate \/ Sample \/ SampleFails \/ Decide

Next == PublishTick \/ PublishIndex \/ Remove \/ Evaluate

Spec == Init /\ [][Next]_vars
-----------------------------------------------------------------------------
\* Only a preflight that is sampling, or that raised while it was, has samples
\* in the calculator.
TypeOK ==
  /\ pc \in {"idle", "propagate", "sample", "done"}
  /\ wiring \in [graph : Graphs, cycles : Cycles]
  /\ fork \in 0..MaxForks /\ cycle \in 0..fork /\ writes \in 0..MaxWrites
  /\ verdict.final \in Decisions
  /\ aborted \subseteq 1..fork
  /\ DOMAIN samples \subseteq aborted \union (IF pc = "sample" THEN {fork} ELSE {})

\* A verdict speaks of the file as it was while samples were taken, however
\* it changed: the divergence, which is their weighted mean, lies between two
\* that the twin had from what the file held, so an action far from all of it
\* is held and one close to all of it is not, and no other decision changes
\* (compute, divergence.py:104-115, whose docstring has a sum for the mean,
\* see DivergenceIsDecayedSum; evaluate, safety_preflight.py:103-126).
VerdictFollowsFiles ==
  pc = "done" /\ wiring.cycles > 0 =>
    LET ds == {PointDivergence(f, twin) : f \in seen}
    IN  /\ \E least, most \in ds : least <= verdict.divergence /\ verdict.divergence <= most
        /\ verdict.final # call.original => call.original = "allow" /\ \E d \in ds : d > Threshold
        /\ call.original = "allow" /\ (\A d \in ds : d > Threshold) => verdict.final = "hold"

\* While nothing else writes the file, a preflight measures what was
\* proposed: the change of a top-level number, shared out among all the
\* numbers of the snapshot, whatever the number of cycles and the decay.  Any
\* other proposal measures nothing, nor does an index when a graph computes it.
Proposed ==
  LET i == call.intervention
      Numbers == {k \in Scalars : origin.scalar[k] # Other}
  IN  IF i.target[1] \in Numbers /\ i.value # Other
         /\ (i.target[1] = "coherence_index" => ~propagated)
      THEN RoundedDiv(Magnitude(i.value - origin.scalar[i.target[1]]), Cardinality(Numbers))
      ELSE 0

QuietVerdictIsProposal ==
  pc = "done" /\ since = {origin} /\ wiring.cycles > 0 =>
    verdict.divergence = Proposed

\* What is written after the fork reaches the twin through the graph alone:
\* besides what was proposed, the twin differs from the snapshot it was forked
\* from in the node scores and the index at most, and these two are together
\* what the graph reports for one snapshot that the file has held since, or
\* for no file.
TwinIsIsolated ==
  pc \in {"sample", "done"} =>
    LET own == Applied(origin, call.intervention.target, call.intervention.value)
        Ours(s) == [k \in Scalars \ {"coherence_index"} |-> s.scalar[k]]
        FromGraph(h) == twin.node_health = Spread(h) /\ twin.scalar["coherence_index"] = Index(h)
    IN  /\ Ours(twin) = Ours(own)
        /\ \/ twin = own
           \/ \E f \in since : FromGraph(IF f = NoFile THEN [n \in {} |-> 0] ELSE f.node_health)

\* "D(t) = sum of lambda^(n-k) * d_k" (divergence.py:3, :33 and :91;
\* docs/WHITEPAPER.md:116).  It does not hold: the code divides that sum by
\* the sum of the weights.  It is stated of preflights during which the file
\* did not change, where every sample is that of the file as it is.
DecayedSum(ds) == IF ds = <<>> THEN 0 ELSE RoundedDiv(SumFunction(Weighted(ds)), Decay[0])

DivergenceIsDecayedSum ==
  pc = "done" /\ seen = {file} =>
    LET ds == [k \in 1..wiring.cycles |-> PointDivergence(file, twin)]
    IN  verdict.divergence = DecayedSum(Retained(ds))
=============================================================================
