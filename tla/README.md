# A TLA+ verification of the Centroid cognitive architecture

This directory holds a formal model of the Python program in `core/`, TLC configurations that
check it on small instances, and proofs of its main theorems that TLAPS checks for every instance.
It is written from the source; where the source and its documentation differ, the model follows
the source and a run shows the difference.

Run a check with `tlc -config Scheduler.cfg MCScheduler`, the proofs with
`tlapm DaemonProofs.tla`. `PROJECT.json` lists the runs, the source lines of every definition,
the mutants, the hazards, the findings and the theorems.

## 1. The system

Two programs that share a library. The *daemon* (`core/daemon`) runs one cycle after another; the
*configured agent* (`core/runtime`) is started for one turn and ends. Each is a synchronous Python
process. Nothing runs in threads; signal handlers are the only code that interleaves with the rest of
a process, and other processes with the same files. What makes the system hard is failure and time:
every cycle makes up to six calls, each isolated by its own `try`, each with file writes at which it
can fail or the process can die; forecasts, calibration and snapshots relate one cycle to earlier
ones; and a safety preflight reads, again and again, a snapshot that the daemon replaces meanwhile.

State on disk: `world_snapshot.json`, `world_trends.json`, `calibration.json`, `plan_tree.json`
(each replaced as a whole, through a temporary file and `os.replace`) and `memory.jsonl` (appended),
and for the configured agent one such appended file per scenario.

| Component | Source | State | Operations | What must hold |
|---|---|---|---|---|
| Scheduler | `daemon/scheduler.py` | stop flag, completed cycles, cycle number | `start`, `stop`, signal handlers | a stop is prompt and never lost; the limit is kept; cycles are numbered 0, 1, 2, … |
| Cycle runner | `daemon/cycle.py` | none between cycles | `run` | a failing call takes no other with it; the memory file tells of every cycle or the errors say why not; a report is of the cycle's own snapshot |
| Daemon wiring | `daemon/daemon.py` | configuration | `from_config`, `run`, `run_cycles` | which modules are wired |
| Feedback loop | `planner/feedback_loop.py` | cycle clock, pending forecasts | `register`, `resolve` | a forecast is scored when it matures, once, and is then forgotten |
| Calibration store | `planner/calibration.py` | records, `calibration.json` | `update`, `get`, `load` | means stay in range and near the exact ones; samples survive |
| Plan tree | `planner/plan_tree.py` | threads, `plan_tree.json` | `add_thread`, `update_confidence`, `complete` | no active thread is below the gate once gated; an end is for good |
| Forecast generator | `planner/forecast.py` | history windows | `generate` | predictions and confidence stay in range |
| Self-model | `self_model/*.py` | sources, scores, windows, counter, two files | `register_source`, `unregister_source`, `tick` | a snapshot is of one tick; its ratio is near the mean of its scores; anomalies are counted |
| Coherence graph | `coherence/*.py` | graph; writes the snapshot's index | `tick`, `simulate`, `reload_config` | the index belongs to the snapshot it is written into; the order of nodes does not matter |
| Memory store | `memory/store.py`, `tfidf_index.py` | `memory.jsonl`, index | `append`, `tail`, `search`, `compact` | file and index agree after a restart |
| Memory pyramid | `memory/memory_pyramid.py` | none | `classify`, `compact` | tiers keep their capacity; no entry is both kept and evicted |
| Retrieval, embedding cache | `memory/retrieval.py`, `embedding_cache.py` | cache | `cached_embed`, ranking | a cached vector is the provider's (not so after the provider is replaced) |
| Simulation | `simulation/*.py` | the samples of the calculator | `evaluate`: `fork`, `apply`, `sample`, `compute` | the live state is never touched; a decision is only tightened, and by what was proposed |
| Configured runtime | `runtime/*.py` | one file per scenario | a turn: persist, decide, audit, ask a provider | nothing unapproved is done; what is stored is what the settings allow; no event of another turn is lost |
| Agent configuration | `agent_config.py`, `resources.py` | files | `load_agent_config`: chain of `extends`, merge, parse | a circle is refused; the nearest file wins, leaf by leaf |
| Model providers | `models/*.py` | none | `generate` | a call is made only when asked for and possible; proposals say no less than the reply |
| Stand-alone policies | `safety/policy.py`, `router/`, `priority/`, `identity/`, `temporal/` | none | pure functions | – |
| Fusion | `fusion/*.py` | none | concepts shared by modules, bridges between modules, synthesis | – |
| Sensory pipeline | `nodes/` | concepts | startup scan | – |

How they interact: `CycleScheduler.start` calls `CycleRunner.run`, which calls, in this order, the
sensory scan (cycle 0 only), `SelfModel.tick` (reads the sources, appends anomalies to the memory
store, writes both snapshot files), `CoherenceGraph.tick` (reads the snapshot *file*, writes it back
with an index), `ForecastGenerator.generate` (reads the calibration), `ForecastFeedbackLoop.register`
and `resolve` (writes calibration and plan tree) and `MemoryStore.append`. `SafetyPreflight.evaluate`
reads the snapshot file of the daemon, from another place and at any time. `run_agent_scenario` loads
its configuration, appends the retained events through a `MemoryStore` of its own, judges the action
of the scenario, and may ask a model provider, whose proposals it judges as well.

## 2. The modules

| Module | What it is |
|---|---|
| `BoundedService` | abstract: a service that runs a job a limited number of times and can be stopped |
| `Scheduler` | `CycleScheduler`, with signals between any two steps; implements `BoundedService` |
| `FixedPoint` | Python's rounding half to even, on integers that stand for decimals |
| `Calibration` | `CalibrationStore`, memory and file |
| `PlanTree` | `PlanTree`, memory and file |
| `ForecastLedger` | abstract: a forecast is open from its registration until the first cycle it is due |
| `FeedbackLoop` | `ForecastFeedbackLoop` driving `Calibration` and `PlanTree`, write by write; implements `ForecastLedger` |
| `CycleRunner` | `CycleRunner.run`, call by call and write by write, the memory file line by line, on top of `ForecastLedger` |
| `AnomalyDetector` | the detector's window, baseline and thresholds, as operators on a window |
| `SelfModel` | `SelfModel` with aggregator, scorer, detector and snapshot writer; extends `AnomalyDetector` |
| `MemoryStore` | `MemoryStore`: the JSONL file shared by processes, the index and provenance of each |
| `MemoryPyramid` | `MemoryPyramid`: tiers and compaction, as operators on a list of entries; `MemoryStore` extends it |
| `Coherence` | a coherence graph: its sort, its propagation, its index and counterfactuals on it |
| `Preflight` | `SafetyPreflight` with buffer, applicator and calculator, read by read, beside the daemon |
| `AgentConfig` | `load_agent_config`: the walk along `extends`, the merge on the way back, the parser |
| `ConfiguredPolicies` | retention, safety decision, score and route of a configured agent, as operators |
| `ModelProviders` | what a provider needs, how its call ends and the proposals read from a reply |
| `ConfiguredAgent` | `run_agent_scenario`: turns of several processes on shared files; composes the three |
| `MC*` | the instances TLC checks |
| `ArithmeticProofs` | lemmas about rounded division, finite sums, least and greatest elements, and induction |
| `DaemonProofs` | the theorems of `Scheduler` and `CycleRunner` |
| `FeedbackLoopProofs` | those of `Calibration`, `PlanTree` and `FeedbackLoop` |
| `SelfModelProofs`, `MemoryStoreProofs`, `CoherenceProofs`, `PreflightProofs`, `ConfiguredAgentProofs` | those of the module named |

Composition: `FeedbackLoop` extends the two stores it drives and shows that it implements
`ForecastLedger`; `CycleRunner` composes that abstract ledger with the snapshot files, so that the
detail of `resolve` need not be repeated inside a cycle. `ConfiguredAgent` extends `AgentConfig`,
`ConfiguredPolicies` and `ModelProviders`: one behaviour first loads a configuration, in all the ways
the files on the disk allow, and then runs turns under the policy that came of it.

### How state and actions correspond to the code

A step is the code between two points at which something else can happen: a file write that may
fail, a call that may raise, a signal, the death of the process. Variables bear the names of the
attributes they stand for (`completed` for `_completed_cycles`, `records` for `_records`, and so on),
with a second variable for the file; the locals of a long-running call are variables too, reset when
it returns. Variables marked *history* in a module record what the properties speak about and
are never read by an action's guard.

- **A failed write.** All state files but `memory.jsonl` are written to a temporary file that then
  replaces the old one, so a write has happened or has not. `written = FALSE` is a write that raised.
- **A restart.** `Restart` may be taken at any step. It resets what lives in memory and loads the
  files as the constructors do. Where a start can fail, it is two actions (`Die` and `StartAgain` of
  `CycleRunner`, `Close` and `Open` of `MemoryStore`).
- **Numbers.** Fractions are integers: `Unit` stands for 1.0, and rounding is half to even, as
  `round` does it. What a float would lose before it is rounded is left out.
- **Choices of the environment** (what is observed, what a source reads, which write fails, when a
  signal arrives) are existentially quantified.
- **Mistakes.** A definition introduced by a comment "mistake" is a wrong version of the one after
  it. No action uses it; it is there to confirm that the properties notice it (section 3).

### Abstractions worth knowing

- `Scheduler`: durations are left out; a cycle always returns, as `CycleRunner` catches every
  `Exception`. An unlimited daemon starts no cycle numbered `CycleBound` or more unless it has been
  asked to stop.
- `FeedbackLoop`: thread goals and steps are left out; the caller links new threads to forecasts
  that are still pending; one abandonment threshold holds for all processes (the code reads the
  one in the file back at start). `Register` stops early enough for the cap on cycles to let each
  forecast mature and be retried.
- `CycleRunner`: a snapshot is the number of the tick that took it. The memory file is a sequence of
  lines, each the event of a cycle, an anomaly, or text that does not parse, and how the last of them
  ends; an append that raises, or in which the process dies, leaves none, a part, all but the newline,
  or all of its line, and what is appended next is glued to a line without an end, as in `MemoryStore`.
  A daemon with a memory store does not start while a line it rereads does not parse. `run` first calls `resolve` with
  two arguments, which the class does not take, and then with one; the first call changes nothing and
  is left out.
- `MemoryStore`: an event is one append, told apart by the order of the appends; a line of the file
  is an event or does not parse. A search returns any `top_k` events, as every event scores above 0;
  which ones rank highest is left out. Provenance counts are the set of events retrieved so far. An
  append that raises may have written none, a part, all but the newline, or all of its line; a process
  that dies in an append is such a failure and a `Close`. Each event is appended once; the configured
  runtime can persist one twice, and its id is then indexed twice and may come back from `compact` as
  both kept and evicted.
- `MemoryPyramid`: salience is a number of thousandths, and an age one of fiftieths of an hour; the
  tests of the tiers look at the age as it is, the sort at the age rounded to tenths, and the index
  comes in the order of the appends, which decides where ages round alike. An event whose timestamp does
  not parse counts as 999 hours old: all events of the daemon and of the self-model are such, as they
  carry a number of seconds where a date is read (`cycle.py:118`, `model.py:182`). Compaction changes nothing, so its result is an operator of the state and the
  invariants speak of a call at any moment.
- `Coherence`: the seven edge types fall into four groups that compute alike; a weight, a seed and a
  fixed value are integers out of `Unit`, and what a product loses to rounding is left out. One edge is
  one step; the list of edges a propagator works on, all or those a counterfactual leaves, is the set of
  their places in the loaded graph. The properties say "no cycle" as: no set of nodes in which each waits
  for another one, and "reached" as: in every set that has the node and that no edge leaves. The queue of the sort is a set from which any ready node is taken: its order in the code is
  that of a set of strings, which differs between processes.
- `AnomalyDetector`: values are integers and thresholds tenths; a deviation is compared by its square,
  multiplied by what would divide it, so no root is taken and what a float loses is left out.
- `SelfModel`: a metric is a value of a small set; the one that stands for a failed read never varies,
  so it has no window. The trend of the scores is left out; the trends file is its ratio.
- `Preflight`: a snapshot is the four top-level keys that can hold a number, and the node scores; a
  null, a text or a map is `Other`, which no comparison counts. The timestamp is a number like the
  others, `Period` apart from one snapshot to the next. The decay is a fraction `LambdaNum/LambdaDen`,
  whose powers `Decay` are given as integers over a common denominator, and a divergence a rounded quotient
  of integers; the trend of the samples is left out. What the coherence graph makes of the node scores in
  the file, or of none, is a function of them: `Spread` gives the values propagated to the nodes of the
  graph, which replace the twin's node scores (`safety_preflight.py:97`), and `Index` their index.
- `AgentConfig`: a path is a sequence of names and a file a map from the path of a leaf to its value,
  so an object without leaves is not told from one that is absent. `Wrong` stands for any value the
  type and range checks refuse, and a number that is none (`NaN`, which Python's parser reads and which
  passes the range checks) is left out. So are paths that name a directory: one can be read by no load. `MaxDepth` is the interpreter's recursion limit.
- `ConfiguredAgent`: the settings do not change between turns, so they are loaded once for all; an
  event is its type, its kind and what its metadata says of provenance and customer; a request for an
  action carries a flag for a secret in place of the text with the patterns. Texts, the identity, the
  telemetry and `comparison_case`, which keeps nothing, are left out.
- `ModelProviders`: a reply is a sequence of texts and tool calls, whatever the protocol; the four
  adapters differ in what they need before a call and in the forms of arguments they read.

## 3. The runs

Every passing run has, for each of its properties, a mutant: a definition of the model replaced by
the mistake named in `PROJECT.json`, under which TLC finds that very property violated.

| Run | Instance | Shows |
|---|---|---|
| `scheduler` | no limit, -1, 0, 1, 2, 3; cycles 0–3 | prompt stop, termination, `BoundedService` (which keeps the limit) implemented |
| `calibration` | one record, `Unit` 6, 4 samples | means in range, drift bounded, no sample ever taken back from the file |
| `feedback_loop` | 2 forecasts, 1 field, 2 horizons, 1 thread, 3 cycles, 1 aborted resolve, 1 restart | scoring time and count, files, gate, `ForecastLedger` implemented, every forecast settles or a restart forgets it |
| `cycle_runner` | 7 wirings, 2 horizons, 1 anomaly per tick, 2 cycles, 1 restart, up to 3 failed appends, 3 lines reread | snapshot files, reports, fault isolation, scoring time, which cycles the memory file tells of |
| `self_model` | 2 sources, 2 metrics, 4 ticks, windows of 3 (8 rehearsed), 1 restart | counter, no familiar value is an anomaly, snapshots of one tick, the ratio beside the scores |
| `memory_store` | 2 processes, 3 events, 1 failed append, 2 openings, 2 lines reread, 3 saliences, one of them with and without a date, 3 times; tiers for none, one and two | events lost, opening, index and file, what compaction keeps |
| `coherence` | 3 nodes, every graph of 2 edges, two paths in every order with feedback or a cycle | the sort, what an edge reads, what a counterfactual touches, the index |
| `preflight` | 1 node in the file, 2 in the graph, 9 proposals, 0, 1 or 3 samples, with and without graph, 3 changes of the file, 2 preflights | a verdict follows what the file held; undisturbed it measures the proposal; the twin is isolated |
| `configured_agent` | 6192 systems of up to 4 files, 8 calls, 3 replies and an outage, 2 turns | circles refused, nearest file wins, no event lost but to a failure, what is stored, nothing unapproved, score |
| `cycles_ahead` | – | *violated*: a short forecast is scored in the cycle that made it |
| `self_model_failed_source` | – | *violated*: a source that fails scores 1.0 |
| `decayed_sum` | as `preflight` | *violated*: a divergence is the sum of the decayed samples |

Why the bounds are enough. *Scheduler*: the loop has no memory beyond flag, counter and limit; the
limits sit below, at and above the one cycle that always runs, and three cycles let a stop fall in
the first, a middle and the last. *Calibration*: records do not influence one another, so one is
enough; errors of every size and sign occur and six units give ties in both directions. *Feedback
loop*: two forecasts of different distance are pending together, one mature and one not, and one
abort leaves the second resolve to repeat the first; the thread is linked to none, either or both.
*Cycle runner*: two cycles show what one leaves to the next, a restart what a process leaves to the
next. Where only self-model and memory are wired, three appends may fail, of an anomaly or of an event, in
one cycle or in neighbouring ones, before a death or after it; where more is wired, one may, so that the
snapshot files and the events are wrong together, or none, where two horizons of forecasts and their
failures fill the run. Three lines reread are fewer than a file can hold, so a broken line can pass out
of reach. *Self-model*: four ticks fill the windows and push a value out of them; the three values
make steady, drifting and spiking series, and all windows of up to 8 of them are rehearsed, which
holds a value that is one in five of its baseline. Two sources let one fail, go or be scored while
the other is not yet. *Memory store*: a failed append can be followed by
one of either process or by an opening that reads what it left, two processes write in any order,
and the index rereads fewer lines than the file can hold; three entries fill a tier, overflow it and
leave one in another; the saliences and times lie on both sides of the classifier's limits, and two of the times round to the same tenth of an hour.
*Coherence*: two edges make every self-loop, pair of parallel edges and cycle of two; two paths of
different length between the same nodes are the smallest graph in which taking a node too early
reads a value that still changes; a fourth edge closes a cycle of three or feeds back. *Preflight*:
three changes of the file are a snapshot, its index and either of them again or its removal, so that
fork, graph and each sample can read four different files; three samples are more than the two the
calculator keeps; a second preflight finds what one that raised has left; among the proposals is
each kind of key path and of value, and a change below and one above the threshold. The graph has a node
with telemetry and one without, so its scores are never those of the file. *Configured
agent*: two files in one directory, one above it and a packaged one, each extending any of the others
by each of the ways to write a path, make chains and circles of every shape; `MaxDepth` is 4,
the number of files, so that whatever goes deeper has come back to one. The other systems are one file over the packaged one with every retention
mode, both sides of each switch, a cap of 0 and of 1, and safety lists that contradict one another.
One system has a null that hides a cap further up the chain, one forbids under older names what a
farther file allows under the current ones, and one has older names only.
Two turns share a file, so that one is glued to what the other left; the calls cover all six
scenarios and five providers, with and without what the provider needs. The two turns are
interchangeable, and no invariant names one, so their symmetry is sound. Deadlock is
not checked where the system comes to an end (a scheduler that has stopped) or a cap ends the
behaviour.

Some properties deserve a word. `ScoredInTimeAndOnce` says "once, or once more for each aborted
resolve": a plan-tree write that fails leaves all forecasts pending although some were scored, and the
next cycle scores them again. `SettledRefreshesLinked` holds for a process whose plan-tree writes all
succeeded, or before any restart: an abandonment that never reached the file is undone by a restart
and nothing repeats it. `FailureCostsOneLine` names what a failed append costs: its half line takes at
most one later event with it, but no store can be opened on the file while that line is among the ones
that are reread. `UpstreamIsFinal` and `InterventionIsLocal` are claimed for graphs without a cycle
besides feedback; with one, the propagator uses the order of declaration and a counterfactual may be
sorted differently from its baseline. `VerdictFollowsFiles` bounds the divergence by what the samples
can have seen, as the file may be replaced between any two of them, and it says that the divergence is a mean, which the code computes and its
comments do not say (section 5); only `QuietVerdictIsProposal`,
where nothing else is written, says that a verdict measures the proposal. `MemoryTellsOfCycles` lets
the event of a cycle be missing for four reasons, each in the results: its own append failed; one of the
anomalies of the same cycle did, or the event of the cycle before, and left a line without an end, to
which this event was glued; or it is the first of a process that another one died before. In the last
three its own append returned. Conversely an event that is in the file can come with a memory error.
`CompactionKeepsBest` lets an entry be evicted for one that is older by less than a tenth of an hour, as
ages are rounded before they are compared. `DroppedPullTheirShare` does not say that the ratio is the
mean of the scores beside it, since sources that are gone stay in it, but bounds what they do to it.
`StoredObeysConfiguration` takes settings as the code does: a current name in a far file comes before
the older name in a near one, and the cap is one of each turn. `LinesAccounted` allows a
turn to lose an event to a failed append of *another* turn, one for each. `UnapprovedNeverActs` lets
a provider's own statement that its proposal mutates nothing decide the mode it is judged in, as the
code does. `FamiliarIsQuiet` rests on the arithmetic of a baseline: a value that makes up one part in
1 + t² of it lies within t deviations of its mean, whatever the other values are. The windows of the
run have baselines of two values, far from that proportion, so every sequence of 3 to 8 values is
rehearsed besides. All of these are what the code does; where a comment or a document can be read otherwise, section 5 says so.

### Fairness

`Scheduler`: weak fairness of the loop: the process is scheduled, cycles return, sleeps end. Nobody
has to send a signal. `FeedbackLoop`: weak fairness of `Resolve`: the daemon calls it each cycle and
it takes its steps; neither new forecasts nor restarts are assumed. No write is ever assumed to succeed; the number of failures that abort a resolve is bounded
in `feedback_loop`, as otherwise every write could fail forever. The other modules state no
liveness: their operations are calls that return or raise, made whenever a caller likes, and nothing
in the code promises that a caller comes.

## 4. The theorems

TLAPS proves the following for every value of the constants that satisfies the named assumptions
(`SchedulerAssumption`, `CalibrationAssumption`, …), which TLC evaluates in the runs. The assumptions
say what kind of value a constant is: sets that the code keeps in memory or on disk are finite, numbers
are integers, a graph's edges join its nodes, a file's settings are of the type the parser accepts or
`Wrong`. Every invariant and every action property of the passing runs is among the theorems.

- **`ArithmeticProofs`.** Rounded division is at most half a unit off (`RoundingError`), keeps order,
  is symmetric in the sign (which half-to-even is and rounding down is not) and exact on multiples. A sum over a finite set
  is what one gets by adding its elements one by one (`SumAdd`, `SumRemove`), so it is monotone,
  linear, divides into parts, and a weighted mean of values lies between the least and the greatest of them
  (`WeightedBetween`, `QuotientBetween`). The square of a sum is at most as many times the sum of the
  squares as there are terms (`SquareOfSum`). What a recursive function computes is the only sequence of
  values that starts and goes on as it does (`StepsExist`). All of these go by induction, stated with a
  set where a principle of induction has a predicate (`InductionUpTo`, `SmallestSubset`): a set is a
  value, so that the principle is an ordinary fact to cite.
- **`DaemonProofs`, the scheduler.** The inductive invariant adds to the type invariant where the loop
  is when `stop` was raised (`completed` is at most one past `at_stop`, and equal to it wherever one
  more cycle may still come) and that the limit has not been reached wherever a cycle may begin. From
  it: `SchedulerTyped`, `CyclesAreNumberedInOrder`, `StopIsPrompt`, `LimitIsRespected`, and
  `SchedulerImplementsService`, in which each action of the loop is a `Run`, an `End`, a `RequestStop`
  or a stutter of `BoundedService`.
- **`DaemonProofs`, the cycle runner.** `IInv` says, for each place in a cycle, which modules have been
  called (`Calls`), what the two files hold and what the coherence step has read of them (`Files`), what
  the cycle holds of the snapshot and the report (`Results`), and how open forecasts and scores stand to
  the clock (`Scores`: an open forecast is due at the cycle that made it plus its distance, and after
  the clock), and what the memory file holds (`Journal`: the event of a completed cycle is in the file
  and no longer its unfinished last line, or the results excuse it; and where the file ends in the
  middle of a line, the cycle whose event would be glued to it is excused already). Every safety property of the run follows: `StaleReportsAreFlagged` and
  `GoodCyclesArePublished` need all of `Calls`, `Files` and `Results`; `FilesStayInAgreement`,
  `FaultsAreIsolated`, `FeedbackStaysInTime` and `MemoryTellsEveryCycle` one part each.
- **`FeedbackLoopProofs`, the calibration store.** One sample keeps a record *sound*
  (`SampleKeepsSound`): the mean stays in the unit interval by order and exactness, the bias below it by
  order and symmetry, and the accumulated drift grows by at most half a unit times the count. A record
  must be sound in the file too, since a restart takes it back, hence the inductive invariant
  `StoreIInv`. From it: `RecordsTyped`, `ErrorsStayBounded`, `DriftStaysBounded`, `FileStaysBehind`,
  `FileKeepsSamples`.
- **`FeedbackLoopProofs`, the loop.** `LoopIInv` joins the two stores' invariants with four of the
  loop's own: `Phases` (a resolve divides the mature forecasts into those done and those to do),
  `Counts` (a pending forecast has been scored once per aborted resolve at most, plus once if this
  resolve has scored the field: what makes "scored once" inductive), `Links` (a thread linked to what
  is settled or about to be is gated, unless a restart may have undone it) and `Promises`, the
  properties themselves. From it: `ForecastsScoredInTime`, `FilesLagAfterFailureOnly`,
  `LinkedAreRefreshed`, `EndsAreDurable`, and `LoopImplementsLedger`: the end of a resolve is the
  ledger's `Settle`, an abort its `Postpone`, every other step of it a stutter. `GateAlwaysHolds` rests
  on rounding as well: the mean trust is compared exactly and stored rounded, and a mean that is not
  below the threshold, a whole number of units, does not round to below it.
- **`SelfModelProofs`.** `IInv` relates, for each place in a tick, the counter to what was found and
  logged (`Accounts`), the length of a window to the ticks of this process (`Seen`: a source still to
  be scored has been read in earlier ticks only), and the scores so far to what the tick has collected.
  From it: `SelfModelTyped`, `AnomaliesAreAccounted`, `ColdStartIsQuiet`, `SnapshotsAreOfOneTick`,
  `DroppedPullNoMore`: the published ratio is the rounded mean over all that were scored, of which the
  registered are a part with the published scores and each of the others adds at most one unit. `FamiliarStaysQuiet` is the arithmetic of a baseline: where k of n values
  equal v, the deviations of the other n - k add up to n times that of the mean, and by `SquareOfSum`
  their squares to no less than their own share, which is what bounds the deviation of v by t standard
  deviations when k is one part in 1 + t² of n.
- **`MemoryStoreProofs`.** Three parts. `Typed` adds to the types that a file ending in the middle
  of a line has a last line (`Unfinished`) and that a closed store holds no index (`Closed`). `Owed`
  counts: the events lost and, if the file ends in the middle of a line, the one that is lost next are
  together at most the failures, and so are the lines that do not parse; without the debt of the
  unfinished line the bound is not inductive, as the loss happens one append after the failure.
  `Ordered` says that lines and indexes hold events in the order of their appends and that an index
  nobody has written past is the end of the file. From them: `StoreTyped`, `FailuresCostOneLineEach`,
  `IndexesFollowTheFile`; and `AgeingOnlyDemotes`, from the arithmetic of the tiers alone. For
  `CompactionKeepsTheBest` the entries of a tier are ranked: by how many others come before an entry, a
  total order by salience, rounded age and place; entries of different rank are different, so the first `c`
  ranks are the `c` best (`FirstAreBest`).
- **`CoherenceProofs`.** `Sorting` is Kahn's invariant: a node waits for its inbound edges from nodes not
  sorted yet, and is queued or sorted when there are none. If the queue runs dry before all nodes are
  sorted, each of those left waits for another of them, which is a cycle; if it does not, the order is
  one of the edges, and in the other case it is the declared one: `SortsRightly`. `Passing` says that what the edges of the forward pass have read has
  not changed since, as a node is only written while it is visited and every edge out of it comes later
  (`UpstreamFirst`). `ReportsAreBounded` is a weighted mean. `InterventionsAreLocal` compares two
  propagations that may be sorted differently: `Tracking` says that the values reached so far solve the
  equations of the edges applied so far (each node is its seed with its inbound edges applied in
  their order), solutions agree on every node that is not reached from the fixed one, by
  induction along the order, and so does what the feedback edges make of them.
- **`PreflightProofs`.** `IInv` says what the twin may differ in from the file it was forked
  from: the key path of the proposal, and the scores and index that the graph reports for one later
  snapshot or for none. From it:
  `PreflightTyped`, `TwinStaysIsolated`, for any snapshots, proposals and graph. `Snapshots` adds that
  all of them are numeric and what has been published since the fork, and `Sampled` that each sample is
  the divergence from a file that was there. A mean of samples with positive weights lies
  between two of them (`VerdictsFollowFiles`), and when nothing is written each of them is the
  proposal's own share (`QuietVerdictsMeasure`).
- **`ConfiguredAgentProofs`, the load.** `LoadInv` says what the walk keeps for the way back: the k-th
  payload waiting is that of the k-th file read, and the merge so far has, of each file already merged,
  the leaves that no nearer one hides (`Resolved`). At the end that is `NearestFileWins`, for chains of
  any length. `CirclesAreRefused` needs `ChainInv` (each file extends the next, none is spelled
  twice) and what a path leads to: the place of an extended file depends on the place of the file
  that extends it and not on its spelling (`SamePlaceSameParent`), although the code tries the
  neighbour first. So if two files of a chain were at one place, the next two were as well, and so on
  to the last file, which extends nothing while the earlier one did. A chain that comes back to a place
  therefore never ends: it is refused by the spelling, or by the interpreter's limit.
- **`ConfiguredAgentProofs`, the turns.** The lemma `AllowedMeans` says, for every policy and request,
  what a decision to allow implies; `IInv` carries it from the decision to the end of the turn, beside
  the answer of the provider that may come in between, and with it what a turn retained (`Kept`: the
  retention rules applied to a scenario's events) and what it was audited with. From it:
  `UnapprovedTurnsNeverAct`, and `PriorityIsAMean`, a weighted mean again. `FilesInv` is about every
  file and turn: which of its own retained events each line holds, in order (`PlacedIn`), whose the last
  line is that the next append may be glued to (`LastLine`), and `Counts`: the events a turn misses,
  added over all turns, are no more than the lines broken, of which each is one failed turn's. A step of
  one turn changes its own places and at most the last line of another's, and only the sum over all
  turns is inductive. From it: `LinesAreAccounted`; and with `LoadInv` and `Kept`: `StoredIsAllowed`.

The type invariants are proved and need no run (`SchedulerTyped`, `RunnerTyped`, `LoopTyped`,
`RecordsTyped`, `StoreTyped`, `SelfModelTyped`, `CoherenceTyped`, `PreflightTyped`).

Only model-checked: the liveness properties (`Ends`, `EveryForecastSettles`), as the
prover has no rules for fairness, and the three runs that refute a document. What `SelectSeq` or a fold
over a sequence computes cannot be proved about, as the definitions of the library take an operator as
argument and recurse; the modules use recursive functions and sums over functions in their place.

## 5. Findings

A run of the project refutes what the documentation says in three places:

1. `cycle.py:82-98` registers and then resolves in the same cycle, and `resolve` counts the cycle
   first, so a forecast is scored one cycle earlier than `forecast.py:33` says (`cycles_ahead`).
2. `telemetry_aggregator.py:56` reads a failed source as `{"error": 1.0}`, a full score;
   `health_scorer.py:46` says errors count as 0.0 (`self_model_failed_source`).
3. `divergence.py:115` divides the decayed sum of the samples by the sum of their weights;
   `divergence.py:3`, `:33` and `:91`, `docs/WHITEPAPER.md:116` and `release_notes_v0.7.0.md:10` give the
   sum (`decayed_sum`). So the number of cycles does not add to a divergence, and the threshold is one of
   a mean.

Seen while modelling, and in the models as the code has it, without a run of their own.

*Daemon and planner.*

- `scheduler.py:48` tests the limit after a cycle, so a limit of 0 runs one; `docs/DAEMON.md:22`
  promises to stop after that many (`LimitRespected` says what holds).
- `feedback_loop.py:93` scores a field that was not observed as predicted exactly, which pulls the
  mean error down.

*Self-model.*

- `health_scorer.py:77-81` keeps the scores of unregistered sources in the ratio; `model.py:133-136`
  says registered ones (`DroppedPullTheirShare` bounds the difference).
- `model.py:110-112` counts anomalies only with a memory store; `model.py:155` says all of them.
- `anomaly_detector.py:79-80` skips a baseline that has never varied, so the first value that departs
  from a constant series is not reported, however far it departs, and after it the baseline is wide.
  Conversely there is no floor on the scale: the least jitter after a nearly constant series is.

*Memory.*

- `store.py:85` slices with `[-limit:]`, which for 0 is everything; `store.py:82` says up to `limit`.
- `store.py:139` returns ids, and an event persisted twice can be in both lists;
  `docs/WHITEPAPER.md:78` rules that out.
- `memory_pyramid.py:126` sorts by ages rounded to a tenth of an hour, and keeps the older of two that
  round alike; `memory_pyramid.py:108-109` and `:123` say newer first.
- `cycle.py:118` and `model.py:182` put a number of seconds over the timestamp that is indexed
  (`store.py:77`), and `memory_pyramid.py:179` reads dates: the daemon's own events count as 999 hours
  old and are never in the two upper tiers.
- `docs/DAEMON.md:5` has one event for each cycle; a failed append may take the next event with it
  (`MemoryTellsOfCycles` says when), and a daemon does not start again on a memory file with a half line
  among the last 5000.
- `memory_pyramid.py:135` evicts from a full tier at once; `memory_pyramid.py:109` says from a full
  pyramid.

*Coherence and simulation.*

- `propagation.py:121` says that every edge's output is clamped at the call site; the values are
  clamped once, at the end of the propagation, so an intermediate one can leave the unit interval.
- The timestamp of a snapshot is one of the numbers compared, so one that is published between fork
  and sample adds its age, divided by the number of keys, to the divergence: an allowed action is held
  because the daemon ticked.
- `divergence.py:59-65` compares the top-level numbers only, so a proposal for a node's score, which
  `intervention.py:42-43` supports, changes the twin and diverges by 0, and is allowed.
- With a graph the twin's node scores become those of the graph's report, of all its nodes and of no
  others (`safety_preflight.py:97`), which for the same reason no divergence counts.
- With a graph, an intervention on `coherence_index` is overwritten by what the graph computes; one
  whose value is no number is never measured; with `simulation_cycles` 0 the divergence is 0.
- A sample that raises leaves the samples of its fork in the calculator, under an id nobody asks for
  again.

*Agent configuration.*

- A circle through `../d/a`, spelled one step longer each time, is not recognised: it is walked until
  the interpreter refuses (`CircleIsRefused` says that it ends without a configuration all the same).
- A child that uses an older name (`default_retention`, `store_sensitive_data`, `require_provenance`,
  a `*_weight`) is ignored when any parent gives the current name, also where it forbids what the parent allows
  (`StoredObeysConfiguration`); `weights` must give all four; a list
  replaces the parent's list as a whole.

*Configured runtime.*

- `max_session_events` caps what one call appends, with 0 for no cap, and not the file, which grows; `docs/MEMORY_MODEL.md:40` and `:44`
  can be read otherwise.
- A provider that fails after the events were persisted ends the turn with a state change on file and
  no audit shown; `docs/SAFETY_MODEL.md:17` wants each one audited.
- What a provider says of its own proposal decides whether it is judged as a change, and
  `make_support_promise` is not a change, so it is allowed unless it is listed.
- Under `audit_only` and `summary_only` no contradiction is ever detected: the constraint is not among
  what is retained. `memory_events_restored` counts the events of this turn.
- Started from the command line, every scenario has a directory of its own; callers of the library
  may share one, and then `safety-gate` and `operations-observer` write one file.

## 6. Not modelled yet, and the plan

In this order:

1. The forecast generator's smoothing and confidence, and the trend of the scores.
2. `Fusion`: concepts, their filter, bridges and the synthesis.
3. `Coherence`: `reload_config`; `PlanTree`: a threshold in the file that differs from the configured
   one.
4. The refinement of `ForecastLedger` inside `CycleRunner`; an abstract specification of a turn that
   `ConfiguredAgent` implements.
5. Memory retrieval (ranking and its weights), the stand-alone policies and `comparison_case`.

Left out for good: the planner (it builds a fixed list and keeps nothing), the embedding cache
(nothing calls it but its tests), parsing and formats of external model services, the evaluation
harness and examples (tests of the rest), the sensory scan (file I/O and parsing), argument parsing.
