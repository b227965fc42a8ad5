------------------------------ MODULE CycleRunner ------------------------------
(***************************************************************************)
(* CycleRunner.run (core/daemon/cycle.py): one daemon cycle after another, *)
(* each made of up to six module calls in a fixed order, every one of them *)
(* inside its own try/except.  A call that raises is recorded by name and  *)
(* the next one is made all the same, so a cycle goes on with whatever the *)
(* failed call left behind: half of the two snapshot files, a snapshot of  *)
(* an earlier cycle, forecasts nobody resolved.  The process may also die  *)
(* between any two file writes, or inside an append to the memory file, and *)
(* a new daemon starts only if its MemoryStore can read that file.         *)
(*                                                                         *)
(* What the calls compute is left out; what is kept is which snapshot each *)
(* of them worked on.  A snapshot is named by the number of the self-model *)
(* tick that took it, and 0 stands for none.  The feedback loop is its     *)
(* abstract specification, ForecastLedger, which FeedbackLoop implements.  *)
(* Of the memory file it keeps the lines and how the last one ends, as     *)
(* MemoryStore does; the self-model appends its anomalies to the same file. *)
(***************************************************************************)
EXTENDS Integers, Sequences, FiniteSets

CONSTANTS
  Wirings,      \* the sets of modules a daemon may be wired with
  Horizons,     \* forecast horizons
  Distance,     \* horizon -> cycle_distance
  ReindexLimit, \* how many lines of the memory file a new store reads: 5000
  MaxAnomalies, \* cap on the anomalies of one tick
  MaxFailures,  \* wiring -> cap on the appends that fail
  MaxCycles,    \* cap on the cycles of one process
  MaxRestarts   \* cap on the processes that die

Modules == {"sensory", "self_model", "coherence", "forecast", "feedback", "memory"}

ASSUME RunnerAssumption ==
  /\ Wirings \subseteq SUBSET Modules
  /\ Distance \in [Horizons -> Nat \ {0}]
  /\ ReindexLimit \in Nat \ {0}
  /\ MaxFailures \in [Wirings -> Nat]
  /\ {MaxAnomalies, MaxCycles, MaxRestarts} \subseteq Nat

VARIABLES
  wired,          \* the modules this daemon has
  process,        \* the number of this process: how many have died before it
  pc,             \* the call being made; "idle" between cycles, "down" when
                  \* the process is dead and no other has been started
  cycle_number,   \* the number given to run, or to the next run
  (* the locals of run *)
  errors,         \* names of the calls that raised
  snapshot,       \* the snapshot SelfModel.tick returned, 0 if none
  report,         \* the snapshot the coherence report was computed from; 0 if
                  \* it was computed without one, -1 if there is no report
  seeds,          \* inside CoherenceGraph.tick: the snapshot its seeds come from
  anomalies,      \* inside SelfModel.tick: the anomalies appended so far
  (* kept by the modules, in memory or on disk *)
  ticks,          \* snapshots taken so far, by every process
  snapshot_file,  \* world_snapshot.json: its snapshot, and the snapshot its
                  \* coherence_index was computed from, 0 if it has none
  trends_file,    \* world_trends.json: the snapshot it belongs to
  clock,          \* ForecastFeedbackLoop._cycle
  open,           \* pending forecasts
  due,            \* the clock each forecast is due at
  lines,          \* the memory file: what each line parses to
  ending,         \* its last line ends with a newline, is whole without one, or is torn
  (* history *)
  attempted,      \* calls made in this cycle
  scored,         \* forecasts scored by this process, with the cycle they were scored in
  resolves_failed,\* this process had a resolve that raised
  failures,       \* appends that raised, or in which the process died
  results         \* of the completed cycles: which one, and which of the
                  \* writers of the memory file are among its errors

locals  == <<errors, snapshot, report, seeds, anomalies, attempted>>
files   == <<ticks, snapshot_file, trends_file>>
ledger  == <<clock, open, due>>
scoring == <<scored, resolves_failed>>
memory  == <<lines, ending>>
vars == <<wired, process, pc, cycle_number, locals, files, ledger, scoring, memory, failures, results>>

\* A forecast is named by its horizon and the cycle that made it.
Forecasts == [horizon: Horizons, made_in: 0..(MaxCycles - 1)]

Feedbacks == INSTANCE ForecastLedger WITH
  Ids <- Forecasts,
  Distances <- {Distance[h] : h \in Horizons}

\* A line of the memory file: the cycle_complete event of a cycle of some
\* process, an anomaly of some tick, or text that does not parse.
CycleEvent(p, n) == [kind |-> "cycle", process |-> p, cycle |-> n]
Anomaly == [kind |-> "anomaly", process |-> 0, cycle |-> 0]
Broken == [kind |-> "broken", process |-> 0, cycle |-> 0]

ClearLocals ==
  /\ errors' = {} /\ snapshot' = 0 /\ report' = -1 /\ seeds' = 0
  /\ anomalies' = 0 /\ attempted' = {}

Init ==
  /\ wired \in Wirings
  /\ process = 0
  /\ pc = "idle"
  /\ cycle_number = 0
  /\ errors = {} /\ snapshot = 0 /\ report = -1 /\ seeds = 0 /\ anomalies = 0 /\ attempted = {}
  /\ ticks = 0
  /\ snapshot_file = [tick |-> 0, index |-> 0]
  /\ trends_file = 0
  /\ clock = 0 /\ open = {} /\ due = [f \in Forecasts |-> 0]
  /\ scored = {} /\ resolves_failed = FALSE
  /\ lines = <<>> /\ ending = "newline"
  /\ failures = 0 /\ results = {}

-----------------------------------------------------------------------------
\* The module's call is made and returns, or raises; next is where run goes on.
Returns(module, next) ==
  /\ attempted' = attempted \union {module}
  /\ pc' = next
  /\ UNCHANGED errors

Raises(module, next) ==
  /\ attempted' = attempted \union {module}
  /\ errors' = errors \union {module}
  /\ pc' = next

\* The module is not wired, or not called in this cycle.
Skips(next) ==
  /\ pc' = next
  /\ UNCHANGED <<errors, attempted>>

BeginCycle ==
  /\ pc = "idle"
  /\ cycle_number < MaxCycles
  /\ pc' = "sensory"
  /\ ClearLocals
  /\ UNCHANGED <<wired, process, cycle_number, files, ledger, scoring, memory, failures, results>>

(* The startup scan changes nothing this model keeps.                      *)
Sensory ==
  /\ pc = "sensory"
  /\ IF "sensory" \in wired /\ cycle_number = 0
     THEN Returns("sensory", "self_model") \/ Raises("sensory", "self_model")
     ELSE Skips("self_model")
  /\ UNCHANGED <<wired, process, cycle_number, snapshot, report, seeds, anomalies, files, ledger, scoring, memory, failures, results>>

SkipSelfModel ==
  /\ pc = "self_model"
  /\ "self_model" \notin wired
  /\ Skips("coherence")
  /\ UNCHANGED <<wired, process, cycle_number, snapshot, report, seeds, anomalies, files, ledger, scoring, memory, failures, results>>

\* mistake: the failure is swallowed
SelfModelFailsSilently ==
  /\ pc = "self_model"
  /\ "self_model" \in wired
  /\ Returns("self_model", "coherence")
  /\ UNCHANGED <<wired, process, cycle_number, snapshot, report, seeds, anomalies, files, ledger, scoring, memory, failures, results>>

\* SelfModel.tick raises before it has written anything.
SelfModelFails ==
  /\ pc = "self_model"
  /\ "self_model" \in wired
  /\ Raises("self_model", "coherence")
  /\ UNCHANGED <<wired, process, cycle_number, snapshot, report, seeds, anomalies, files, ledger, scoring, memory, failures, results>>

-----------------------------------------------------------------------------
\* What is written goes on a line of its own, or spoils the line that was
\* left without an end.
Extend(line) ==
  lines' = IF ending = "newline" THEN Append(lines, line)
                                 ELSE [lines EXCEPT ![Len(lines)] = Broken]

\* append writes the line and its newline.
Written(line) == Extend(line) /\ ending' = "newline" /\ UNCHANGED failures

\* What an append leaves that raises, or in which the process dies: nothing,
\* a part of the line, all but its newline, or all of it.
Left(line) ==
  /\ failures < MaxFailures[wired]
  /\ failures' = failures + 1
  /\ \/ UNCHANGED memory
     \/ Extend(Broken) /\ ending' = "torn"
     \/ Extend(line) /\ ending' = IF ending = "newline" THEN "whole" ELSE "torn"
     \/ Extend(line) /\ ending' = "newline"

-----------------------------------------------------------------------------
\* SelfModel.tick appends an anomaly; when that raises, so does the tick.
AppendAnomaly ==
  /\ pc = "self_model"
  /\ {"self_model", "memory"} \subseteq wired
  /\ anomalies < MaxAnomalies
  /\ \/ /\ Written(Anomaly)
        /\ anomalies' = anomalies + 1
        /\ UNCHANGED <<pc, errors, attempted>>
     \/ /\ Left(Anomaly)
        /\ Raises("self_model", "coherence")
        /\ UNCHANGED anomalies
  /\ UNCHANGED <<wired, process, cycle_number, snapshot, report, seeds, files, ledger, scoring, results>>

\* mistake: the index of the snapshot before is carried over
WriteSnapshotKeepingIndex ==
  /\ pc = "self_model"
  /\ "self_model" \in wired
  /\ ticks' = ticks + 1
  /\ snapshot_file' = [snapshot_file EXCEPT !.tick = ticks']
  /\ pc' = "trends"
  /\ UNCHANGED <<wired, process, cycle_number, locals, trends_file, ledger, scoring, memory, failures, results>>

\* SelfModel.tick writes world_snapshot.json, without a coherence index.
WriteSnapshot ==
  /\ pc = "self_model"
  /\ "self_model" \in wired
  /\ ticks' = ticks + 1
  /\ snapshot_file' = [tick |-> ticks', index |-> 0]
  /\ pc' = "trends"
  /\ UNCHANGED <<wired, process, cycle_number, locals, trends_file, ledger, scoring, memory, failures, results>>

\* mistake: a failed self-model takes the coherence step with it
WriteTrendsOrSkip ==
  /\ pc = "trends"
  /\ \/ /\ trends_file' = snapshot_file.tick
        /\ snapshot' = snapshot_file.tick
        /\ Returns("self_model", "coherence")
     \/ /\ Raises("self_model", "forecast")
        /\ UNCHANGED <<trends_file, snapshot>>
  /\ UNCHANGED <<wired, process, cycle_number, report, seeds, anomalies, ticks, snapshot_file, ledger, scoring, memory, failures, results>>

\* ... and then world_trends.json, which may fail on its own.
WriteTrends ==
  /\ pc = "trends"
  /\ \/ /\ trends_file' = snapshot_file.tick
        /\ snapshot' = snapshot_file.tick
        /\ Returns("self_model", "coherence")
     \/ /\ Raises("self_model", "coherence")
        /\ UNCHANGED <<trends_file, snapshot>>
  /\ UNCHANGED <<wired, process, cycle_number, report, seeds, anomalies, ticks, snapshot_file, ledger, scoring, memory, failures, results>>

SkipCoherence ==
  /\ pc = "coherence"
  /\ "coherence" \notin wired
  /\ Skips("forecast")
  /\ UNCHANGED <<wired, process, cycle_number, snapshot, report, seeds, anomalies, files, ledger, scoring, memory, failures, results>>

\* CoherenceGraph.tick takes its seeds from the file, whoever wrote it, and
\* has nothing to write back to when there is none.
ReadSeeds ==
  /\ pc = "coherence"
  /\ "coherence" \in wired
  /\ \/ /\ snapshot_file.tick # 0
        /\ seeds' = snapshot_file.tick
        /\ pc' = "index"
        /\ UNCHANGED <<errors, attempted, report>>
     \/ /\ snapshot_file.tick = 0
        /\ report' = 0
        /\ Returns("coherence", "forecast")
        /\ UNCHANGED seeds
     \/ /\ Raises("coherence", "forecast")
        /\ UNCHANGED <<seeds, report>>
  /\ UNCHANGED <<wired, process, cycle_number, snapshot, anomalies, files, ledger, scoring, memory, failures, results>>

\* mistake: the index is not written back
WriteIndexNowhere ==
  /\ pc = "index"
  /\ pc' = "retrends"
  /\ UNCHANGED <<wired, process, cycle_number, locals, files, ledger, scoring, memory, failures, results>>

\* It reads the snapshot again, sets the index and writes both files anew.
WriteIndex ==
  /\ pc = "index"
  /\ \/ /\ snapshot_file' = [snapshot_file EXCEPT !.index = seeds]
        /\ pc' = "retrends"
        /\ UNCHANGED <<errors, attempted>>
     \/ /\ Raises("coherence", "forecast")
        /\ UNCHANGED snapshot_file
  /\ UNCHANGED <<wired, process, cycle_number, snapshot, report, seeds, anomalies, ticks, trends_file, ledger, scoring, memory, failures, results>>

RewriteTrends ==
  /\ pc = "retrends"
  /\ \/ /\ trends_file' = snapshot_file.tick
        /\ report' = seeds
        /\ Returns("coherence", "forecast")
     \/ /\ Raises("coherence", "forecast")
        /\ UNCHANGED <<trends_file, report>>
  /\ UNCHANGED <<wired, process, cycle_number, snapshot, seeds, anomalies, ticks, snapshot_file, ledger, scoring, memory, failures, results>>

\* One forecast per horizon is generated and, with a feedback loop, registered.
Generated == {[horizon |-> h, made_in |-> cycle_number] : h \in Horizons}

\* mistake: a forecast is registered one cycle further ahead
ForecastFurther ==
  /\ pc = "forecast"
  /\ IF "forecast" \notin wired
     THEN Skips("feedback") /\ UNCHANGED ledger
     ELSE /\ Returns("forecast", "feedback")
          /\ IF "feedback" \in wired
             THEN Feedbacks!Register(Generated, [f \in Generated |-> Distance[f.horizon] + 1])
             ELSE UNCHANGED ledger
  /\ UNCHANGED <<wired, process, cycle_number, snapshot, report, seeds, anomalies, files, scoring, memory, failures, results>>

Forecast ==
  /\ pc = "forecast"
  /\ IF "forecast" \notin wired
     THEN Skips("feedback") /\ UNCHANGED ledger
     ELSE \/ /\ Returns("forecast", "feedback")
             /\ IF "feedback" \in wired
                THEN Feedbacks!Register(Generated, [f \in Generated |-> Distance[f.horizon]])
                ELSE UNCHANGED ledger
          \/ /\ Raises("forecast", "feedback")
             /\ UNCHANGED ledger
  /\ UNCHANGED <<wired, process, cycle_number, snapshot, report, seeds, anomalies, files, scoring, memory, failures, results>>

ScoresOf(F) == {[forecast |-> f, scored_in |-> cycle_number] : f \in F}

SkipFeedback ==
  /\ pc = "feedback"
  /\ "feedback" \notin wired
  /\ Skips("memory")
  /\ UNCHANGED <<wired, process, cycle_number, snapshot, report, seeds, anomalies, files, ledger, scoring, memory, failures, results>>

\* resolve; when it raises, at a write of the plan tree, the clock has moved,
\* some of the mature forecasts have been scored and all of them stay open.
Feedback ==
  /\ pc = "feedback"
  /\ "feedback" \in wired
  /\ \/ /\ Feedbacks!Settle
        /\ scored' = scored \union ScoresOf(Feedbacks!Mature)
        /\ Returns("feedback", "memory")
        /\ UNCHANGED resolves_failed
     \/ /\ Feedbacks!Postpone
        /\ \E F \in SUBSET Feedbacks!Mature \ {{}} : scored' = scored \union ScoresOf(F)
        /\ resolves_failed' = TRUE
        /\ Raises("feedback", "memory")
  /\ UNCHANGED <<wired, process, cycle_number, snapshot, report, seeds, anomalies, files, memory, failures, results>>

\* run returns the result of this cycle.
Completes ==
  /\ results' = results \union
       {[process |-> process, cycle |-> cycle_number,
         errors |-> errors' \intersect {"self_model", "memory"}]}
  /\ cycle_number' = cycle_number + 1

\* mistake: a cycle with errors is not recorded
MemoryIfClean ==
  /\ pc = "memory"
  /\ IF "memory" \in wired /\ errors = {}
     THEN \/ Returns("memory", "idle") /\ Written(CycleEvent(process, cycle_number))
          \/ Raises("memory", "idle") /\ Left(CycleEvent(process, cycle_number))
     ELSE Skips("idle") /\ UNCHANGED <<memory, failures>>
  /\ Completes
  /\ UNCHANGED <<wired, process, snapshot, report, seeds, anomalies, files, ledger, scoring>>

\* One cycle_complete event is appended and run returns.
Memory ==
  /\ pc = "memory"
  /\ IF "memory" \notin wired
     THEN Skips("idle") /\ UNCHANGED <<memory, failures>>
     ELSE \/ Returns("memory", "idle") /\ Written(CycleEvent(process, cycle_number))
          \/ Raises("memory", "idle") /\ Left(CycleEvent(process, cycle_number))
  /\ Completes
  /\ UNCHANGED <<wired, process, snapshot, report, seeds, anomalies, files, ledger, scoring>>

-----------------------------------------------------------------------------
\* The process dies, and with it all that it kept in memory; an append it was
\* in leaves what a failed one may leave.
Die ==
  /\ pc # "down"
  /\ process < MaxRestarts
  /\ \/ UNCHANGED <<memory, failures>>
     \/ /\ pc = "self_model" /\ {"self_model", "memory"} \subseteq wired /\ anomalies < MaxAnomalies
        /\ Left(Anomaly)
     \/ /\ pc = "memory" /\ "memory" \in wired
        /\ Left(CycleEvent(process, cycle_number))
  /\ process' = process + 1
  /\ pc' = "down"
  /\ cycle_number' = 0
  /\ ClearLocals
  /\ Feedbacks!Restart
  /\ scored' = {} /\ resolves_failed' = FALSE
  /\ UNCHANGED <<wired, files, results>>

\* The lines _rebuild_index reads.
Reindexed == {i \in DOMAIN lines : i > Len(lines) - ReindexLimit}

\* A new daemon starts on the same files; with a memory store only if every
\* line that store reads parses.
StartAgain ==
  /\ pc = "down"
  /\ "memory" \in wired => \A i \in Reindexed : lines[i] # Broken
  /\ pc' = "idle"
  /\ UNCHANGED <<wired, process, cycle_number, locals, files, ledger, scoring, memory, failures, results>>

Next ==
  \/ BeginCycle \/ Sensory
  \/ SkipSelfModel \/ SelfModelFails \/ AppendAnomaly \/ WriteSnapshot \/ WriteTrends
  \/ SkipCoherence \/ ReadSeeds \/ WriteIndex \/ RewriteTrends
  \/ Forecast \/ SkipFeedback \/ Feedback \/ Memory
  \/ Die \/ StartAgain

Spec == Init /\ [][Next]_vars

-----------------------------------------------------------------------------
Places == {"down", "idle", "sensory", "self_model", "trends", "coherence", "index", "retrends",
           "forecast", "feedback", "memory"}

\* What a line may parse to.
Line == [kind: {"cycle", "anomaly", "broken"}, process: Nat, cycle: Nat]

TypeOK ==
  /\ wired \in Wirings
  /\ process \in 0..MaxRestarts /\ pc \in Places
  /\ cycle_number \in 0..MaxCycles
  /\ errors \subseteq attempted /\ attempted \subseteq wired
  /\ snapshot \in Nat /\ report \in Nat \union {-1} /\ seeds \in Nat /\ anomalies \in Nat
  /\ ticks \in Nat
  /\ snapshot_file \in [tick: Nat, index: Nat]
  /\ trends_file \in Nat
  /\ clock \in Nat
  /\ open \subseteq Forecasts
  /\ due \in [Forecasts -> Nat]
  /\ scored \subseteq [forecast: Forecasts, scored_in: Nat]
  /\ resolves_failed \in BOOLEAN
  /\ lines \in Seq(Line) /\ ending \in {"newline", "whole", "torn"}
  /\ failures \in Nat
  /\ results \subseteq [process: Nat, cycle: Nat, errors: SUBSET {"self_model", "memory"}]

\* A cycle of this process has just ended and its locals are its result.
CycleOver == pc = "idle" /\ cycle_number > 0

(* The index in world_snapshot.json was computed from the node health in   *)
(* the same file, whoever wrote the file and wherever a writer was stopped. *)
IndexMatchesSnapshot == snapshot_file.index \in {0, snapshot_file.tick}

(* world_trends.json is never newer than world_snapshot.json, and a cycle  *)
(* with a coherence report leaves the two files in step, even one in which *)
(* the self-model failed between the two.                                  *)
TrendsFollowSnapshot ==
  /\ trends_file <= snapshot_file.tick
  /\ CycleOver /\ report > 0 => trends_file = snapshot_file.tick

(* The two snapshot files and the index agree, as far as they can.         *)
SnapshotFilesAgree == IndexMatchesSnapshot /\ TrendsFollowSnapshot

(* A report is computed from the snapshot of its own cycle; one computed   *)
(* from an earlier cycle's, or an earlier process's, or from none, comes   *)
(* with a self_model error in the same CycleResult.                        *)
StaleReportIsFlagged ==
  CycleOver /\ "self_model" \in wired \ errors /\ report >= 0 =>
    report > 0 /\ report = snapshot /\ report = ticks

(* The snapshot a fault-free cycle leaves on disk is its own, with an index. *)
GoodCycleIsPublished ==
  CycleOver /\ {"self_model", "coherence"} \subseteq wired \ errors =>
    snapshot_file = [tick |-> snapshot, index |-> snapshot] /\ snapshot = ticks

(* "A module failure is recorded ... and the remaining steps continue"     *)
(* (docs/DAEMON.md:45): by the end of a cycle every wired module has been  *)
(* called, the sensory scan in cycle 0 only.                               *)
EveryModuleIsCalled ==
  CycleOver => attempted = IF cycle_number = 1 THEN wired ELSE wired \ {"sensory"}

(* The feedback loop's own clock, which decides what is mature, stays with *)
(* the cycle number through every failure.                                 *)
ClockInStep ==
  "feedback" \in wired =>
    clock = IF pc = "memory" THEN cycle_number + 1 ELSE cycle_number

(* A forecast is scored in the cycle Distance - 1 after the one that made  *)
(* it (resolve counts the cycle that generated the forecast), and later or *)
(* more than once only after a resolve that raised.                        *)
ScoredOnTime ==
  \A s \in scored :
    /\ s.scored_in >= s.forecast.made_in + Distance[s.forecast.horizon] - 1
    /\ ~resolves_failed =>
         /\ s.scored_in = s.forecast.made_in + Distance[s.forecast.horizon] - 1
         /\ s.forecast \notin open

(* core/planner/forecast.py:33 calls cycle_distance "number of cycles      *)
(* ahead": a forecast is scored against a cycle that many after its own.   *)
ScoredCyclesAhead ==
  \A s \in scored : s.scored_in >= s.forecast.made_in + Distance[s.forecast.horizon]

(* Between cycles no forecast waits that a resolve should have taken.      *)
NothingOverdue ==
  pc = "idle" /\ ~resolves_failed =>
    \A f \in open : clock < due[f]

(* The clock that decides what is mature stays with the cycle number, so   *)
(* forecasts are scored in the very cycle they are due in, and none waits. *)
FeedbackInTime == ClockInStep /\ ScoredOnTime /\ NothingOverdue

OnFile == {lines[i] : i \in DOMAIN lines}

\* Cycles in the order they are run in, by one process after another.
Earlier(a, b) == a.process < b.process \/ (a.process = b.process /\ a.cycle < b.cycle)

(* The cycle_complete events in the memory file are in the order of their  *)
(* cycles and each is there once; one without a CycleResult is the last    *)
(* its process wrote before it died.                                       *)
EventsTellOfCycles ==
  /\ \A i, j \in DOMAIN lines :
       i < j /\ lines[i].kind = "cycle" /\ lines[j].kind = "cycle" => Earlier(lines[i], lines[j])
  /\ \A e \in OnFile : e.kind = "cycle" =>
       \/ \E r \in results : e = CycleEvent(r.process, r.cycle)
       \/ e.process < process /\ \A r \in results : r.process = e.process => r.cycle < e.cycle

(* "Appends one cycle_complete event" per cycle (docs/DAEMON.md:5): one that *)
(* the file lacks is a memory error in the result of its cycle; or it was   *)
(* glued to what a failed append left just before it, which is a self_model *)
(* error of the same cycle, a memory error of the cycle before, or what the *)
(* process before this one left.                                            *)
MissingEventsAreExplained ==
  "memory" \in wired =>
    \A r \in results :
      \/ CycleEvent(r.process, r.cycle) \in OnFile
      \/ "memory" \in r.errors
      \/ "self_model" \in r.errors
      \/ r.cycle = 0 /\ r.process > 0
      \/ \E q \in results :
           q.process = r.process /\ q.cycle = r.cycle - 1 /\ "memory" \in q.errors

(* The memory file and the results of the cycles tell the same story.      *)
MemoryTellsOfCycles == EventsTellOfCycles /\ MissingEventsAreExplained
=============================================================================
