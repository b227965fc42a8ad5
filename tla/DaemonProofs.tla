----------------------------- MODULE DaemonProofs -----------------------------
(***************************************************************************)
(* Theorems of the two loops of the daemon: of Scheduler, for every set of *)
(* configurations and every cap, and of CycleRunner, for any wiring, any   *)
(* horizons and distances and any number of cycles and restarts.           *)
(***************************************************************************)
EXTENDS Scheduler, CycleRunner, TLAPS

(***************************************************************************)
(*                              Scheduler                                  *)
(***************************************************************************)

-----------------------------------------------------------------------------
(* The inductive invariant.  LimitRespected and AtMostOneMoreCycle do not   *)
(* say where the loop is, so they are not inductive: outside the places     *)
(* that follow a cycle there must still be room for one.                    *)

AfterCycle == {"check", "stopped"}

\* Away from the test of the limit, the limit leaves room for one more cycle.
RoomUnderLimit ==
  EffectiveLimit # Unlimited =>
    IF place \in AfterCycle THEN completed_cycles <= EffectiveLimit ELSE completed_cycles < EffectiveLimit

\* The one cycle a stop request lets finish has not finished before the loop
\* is at the test that ends it.
RoomAfterStop ==
  stop => /\ at_stop <= completed_cycles
          /\ IF place \in AfterCycle THEN completed_cycles <= at_stop + 1 ELSE completed_cycles = at_stop

SchedulerIInv == SchedulerTypeOK /\ NumbersInStep /\ RoomUnderLimit /\ RoomAfterStop

LEMMA SchedulerInitIInv == SchedulerInit => SchedulerIInv
<1> SUFFICES ASSUME SchedulerInit PROVE SchedulerIInv
  OBVIOUS
<1>1. SchedulerTypeOK /\ NumbersInStep /\ RoomAfterStop
  BY DEF SchedulerInit, SchedulerTypeOK, SchedulerPlaces, NumbersInStep, RoomAfterStop, AfterCycle
<1>2. max_cycles = Unlimited \/ max_cycles \in Int
  BY SchedulerAssumption DEF SchedulerInit
<1>3. RoomUnderLimit
  BY <1>2, SchedulerAssumption DEF SchedulerInit, RoomUnderLimit, AfterCycle, EffectiveLimit
<1> QED
  BY <1>1, <1>3 DEF SchedulerIInv

LEMMA SchedulerStepIInv == SchedulerIInv /\ [SchedulerNext]_schedulerVars => SchedulerIInv'
<1> SUFFICES ASSUME SchedulerIInv, [SchedulerNext]_schedulerVars PROVE SchedulerIInv'
  OBVIOUS
<1> USE SchedulerAssumption
    DEF SchedulerIInv, SchedulerTypeOK, SchedulerPlaces, NumbersInStep, RoomUnderLimit, RoomAfterStop,
        AfterCycle, EffectiveLimit, schedulerConfig
<1>1. CASE Start
  BY <1>1 DEF Start
<1>2. CASE EndDelay
  BY <1>2 DEF EndDelay
<1>3. CASE EnterCycle
  BY <1>3 DEF EnterCycle
<1>4. CASE EndCycle
  BY <1>4 DEF EndCycle
<1>5. CASE LeaveLoop
  BY <1>5 DEF LeaveLoop, LimitReached
<1>6. CASE StayInLoop
  BY <1>6 DEF StayInLoop, LimitReached
<1>7. CASE Rest
  BY <1>7 DEF Rest
<1>8. CASE RequestStop
  BY <1>8 DEF RequestStop
<1>9. CASE UNCHANGED schedulerVars
  BY <1>9 DEF schedulerVars
<1> QED
  BY <1>1, <1>2, <1>3, <1>4, <1>5, <1>6, <1>7, <1>8, <1>9 DEF SchedulerNext, Loop

LEMMA SchedulerInvariant == SchedulerSafety => []SchedulerIInv
BY SchedulerInitIInv, SchedulerStepIInv, PTL DEF SchedulerSafety

-----------------------------------------------------------------------------
(* The counters, the flag and the place of start() keep their types.        *)
THEOREM SchedulerTyped == SchedulerSafety => []SchedulerTypeOK
<1>1. SchedulerIInv => SchedulerTypeOK
  BY DEF SchedulerIInv
<1> QED
  BY <1>1, SchedulerInvariant, PTL

(* The cycle number given to the runner counts the cycles run before it.    *)
THEOREM CyclesAreNumberedInOrder == SchedulerSafety => []NumbersInStep
<1>1. SchedulerIInv => NumbersInStep
  BY DEF SchedulerIInv
<1> QED
  BY <1>1, SchedulerInvariant, PTL

(* A stop request, whenever it arrives, lets at most one more cycle finish. *)
THEOREM StopIsPrompt == SchedulerSafety => []AtMostOneMoreCycle
<1>1. SchedulerIInv => AtMostOneMoreCycle
  BY DEF SchedulerIInv, SchedulerTypeOK, RoomAfterStop, AtMostOneMoreCycle
<1> QED
  BY <1>1, SchedulerInvariant, PTL

(* No daemon with a limit runs past it, but for the one cycle it always     *)
(* runs.                                                                    *)
THEOREM LimitIsRespected == SchedulerSafety => []LimitRespected
<1>1. SchedulerIInv => LimitRespected
  BY SchedulerAssumption
  DEF SchedulerIInv, SchedulerTypeOK, RoomUnderLimit, LimitRespected, EffectiveLimit
<1> QED
  BY <1>1, SchedulerInvariant, PTL

-----------------------------------------------------------------------------
(* The refinement.                                                          *)

LEMMA InitRefines == SchedulerInit => Service!Init
BY SchedulerAssumption DEF SchedulerInit, Service!Init, EffectiveLimit

LEMMA StepRefines == SchedulerIInv /\ [SchedulerNext]_schedulerVars => [Service!Next]_(Service!vars)
<1> SUFFICES ASSUME SchedulerIInv, [SchedulerNext]_schedulerVars PROVE [Service!Next]_(Service!vars)
  OBVIOUS
<1> USE SchedulerAssumption
    DEF SchedulerIInv, SchedulerTypeOK, SchedulerPlaces, EffectiveLimit, schedulerConfig, Service!vars
<1>1. CASE Start \/ EndDelay \/ EnterCycle \/ StayInLoop \/ Rest \/ UNCHANGED schedulerVars
  BY <1>1 DEF Start, EndDelay, EnterCycle, StayInLoop, Rest, schedulerVars
<1>2. CASE EndCycle
  <2>1. Service!Run
    BY <1>2 DEF EndCycle, Service!Run, RoomUnderLimit, RoomAfterStop, AfterCycle
  <2> QED
    BY <2>1 DEF Service!Next
<1>3. CASE LeaveLoop
  <2>1. Service!End
    BY <1>3 DEF LeaveLoop, LimitReached, Service!End, NumbersInStep, RoomUnderLimit, AfterCycle
  <2> QED
    BY <2>1 DEF Service!Next
<1>4. CASE RequestStop
  <2>1. Service!RequestStop
    BY <1>4 DEF RequestStop, Service!RequestStop, Service!Lowered, RoomUnderLimit
  <2> QED
    BY <2>1 DEF Service!Next
<1> QED
  BY <1>1, <1>2, <1>3, <1>4 DEF SchedulerNext, Loop

(* Every behaviour of the scheduler's loop is one of the bounded service:   *)
(* the loop's own steps are invisible to the operator, who sees runs being  *)
(* counted, the bound a stop request puts on them, and the end.             *)
THEOREM SchedulerImplementsService == SchedulerSafety => ImplementsService
BY InitRefines, StepRefines, SchedulerInvariant, PTL
DEF SchedulerSafety, ImplementsService, Service!Spec

(***************************************************************************)
(*                             CycleRunner                                 *)
(***************************************************************************)

-----------------------------------------------------------------------------
(* The invariant, part by part.                                            *)

Types == TypeOK /\ (pc \notin {"down", "idle"} => cycle_number < MaxCycles)

\* The modules whose turn is over when run is at p.
Passed(p) ==
  CASE p \in {"self_model", "trends"} -> {"sensory"}
    [] p \in {"coherence", "index", "retrends"} -> {"sensory", "self_model"}
    [] p = "forecast" -> {"sensory", "self_model", "coherence"}
    [] p = "feedback" -> {"sensory", "self_model", "coherence", "forecast"}
    [] p = "memory" -> Modules \ {"memory"}
    [] OTHER -> {}

Called(p) == (Passed(p) \intersect wired) \ (IF cycle_number = 0 THEN {} ELSE {"sensory"})

\* Every module whose turn is over and that is wired has been called.
Calls ==
  /\ pc \notin {"down", "idle"} => attempted = Called(pc)
  /\ EveryModuleIsCalled

\* The two files, and what the coherence step took from the first.
Files ==
  /\ snapshot_file.tick = ticks
  /\ IndexMatchesSnapshot
  /\ trends_file <= ticks
  /\ pc = "trends" => ticks > 0 /\ "self_model" \in wired
  /\ pc \in {"index", "retrends"} => seeds = ticks /\ ticks > 0 /\ "coherence" \in wired
  /\ pc = "retrends" => snapshot_file.index = ticks

\* What run holds of this cycle: the snapshot and the report.
Results ==
  /\ report # -1 => pc \in {"forecast", "feedback", "memory", "idle"}
  /\ report > 0 => report = ticks /\ trends_file = ticks /\ snapshot_file.index = ticks
  /\ report = 0 => ticks = 0
  /\ "coherence" \in attempted \ errors => report >= 0
  /\ "self_model" \in attempted \ errors => snapshot = ticks /\ ticks > 0

\* Open forecasts and scores, against the clock of the feedback loop.
Scores ==
  /\ ClockInStep
  /\ open # {} \/ scored # {} => "feedback" \in wired
  /\ \A f \in open : due[f] = f.made_in + Distance[f.horizon]
  /\ ~resolves_failed => \A f \in open : clock < due[f]
  /\ \A s \in scored : s.scored_in < cycle_number \/ (s.scored_in = cycle_number /\ pc = "memory")
  /\ ScoredOnTime

\* The cycle being run, or the next one.
Here == [process |-> process, cycle |-> cycle_number]

\* The event of a cycle is in the file, and out of reach of the next append.
Recorded(r) ==
  \E i \in DOMAIN lines :
    /\ lines[i] = CycleEvent(r.process, r.cycle)
    /\ i = Len(lines) => ending = "newline"

\* The results say why the event of a cycle may be missing.
Excused(r) ==
  \/ "memory" \in r.errors
  \/ "self_model" \in r.errors
  \/ r.cycle = 0 /\ r.process > 0
  \/ \E q \in results :
       q.process = r.process /\ q.cycle = r.cycle - 1 /\ "memory" \in q.errors

\* The event of this cycle would be excused whatever its append does.
ExcusedHere ==
  \/ pc # "idle" /\ "self_model" \in errors
  \/ cycle_number = 0 /\ process > 0
  \/ \E q \in results :
       q.process = process /\ q.cycle = cycle_number - 1 /\ "memory" \in q.errors

\* The memory file and the results of the cycles so far.
Journal ==
  /\ pc = "down" => cycle_number = 0 /\ process > 0
  /\ ending # "newline" => lines # <<>>
  /\ EventsTellOfCycles
  /\ \A i \in DOMAIN lines : lines[i].kind = "cycle" => Earlier(lines[i], Here)
  /\ \A r \in results : Earlier(r, Here)
  /\ "memory" \in wired => \A r \in results : Recorded(r) \/ Excused(r)
  /\ "memory" \in wired /\ pc # "down" /\ ending # "newline" => ExcusedHere

IInv == Types /\ Calls /\ Files /\ Results /\ Scores /\ Journal

-----------------------------------------------------------------------------
LEMMA ClearedLocals ==
  ASSUME ClearLocals
  PROVE  /\ errors' = {} /\ snapshot' = 0 /\ report' = -1 /\ seeds' = 0
         /\ anomalies' = 0 /\ attempted' = {}
BY DEF ClearLocals

MemoryTyped ==
  /\ lines \in Seq(Line) /\ ending \in {"newline", "whole", "torn"}
  /\ failures \in Nat
  /\ results \subseteq [process: Nat, cycle: Nat, errors: SUBSET {"self_model", "memory"}]

LEMMA InitIInv == Init => IInv
<1> SUFFICES ASSUME Init PROVE IInv
  OBVIOUS
<1>1. MaxRestarts \in Nat /\ MaxCycles \in Nat
  BY RunnerAssumption
<1>2. Types
  <2>1. snapshot_file \in [tick: Nat, index: Nat]
    BY DEF Init
  <2>2. due \in [Forecasts -> Nat]
    BY DEF Init
  <2>3. /\ pc = "idle" /\ cycle_number \in 0..MaxCycles /\ process \in 0..MaxRestarts
        /\ errors \subseteq attempted /\ attempted \subseteq wired /\ wired \in Wirings
        /\ open \subseteq Forecasts /\ scored \subseteq [forecast: Forecasts, scored_in: Nat]
    BY <1>1 DEF Init
  <2>4. /\ snapshot \in Nat /\ seeds \in Nat /\ ticks \in Nat /\ trends_file \in Nat
        /\ clock \in Nat /\ anomalies \in Nat
        /\ report \in Nat \union {-1} /\ resolves_failed \in BOOLEAN
    BY DEF Init
  <2>5. MemoryTyped
    BY DEF Init, MemoryTyped
  <2> QED
    BY <2>1, <2>2, <2>3, <2>4, <2>5 DEF Types, TypeOK, Places, MemoryTyped
<1>3. Calls
  BY DEF Init, Calls, EveryModuleIsCalled, CycleOver
<1>4. Files
  BY DEF Init, Files, IndexMatchesSnapshot
<1>5. Results
  BY DEF Init, Results
<1>6. Scores
  BY DEF Init, Scores, ClockInStep, ScoredOnTime
<1>7. Journal
  <2>1. lines = <<>> /\ results = {} /\ ending = "newline" /\ pc = "idle"
    BY DEF Init
  <2> QED
    BY <2>1 DEF Journal, EventsTellOfCycles, OnFile
<1> QED
  BY <1>2, <1>3, <1>4, <1>5, <1>6, <1>7 DEF IInv

\* Where the ledger of forecasts goes, its types go too.
LEMMA LedgerTyped ==
  ASSUME Types,
         \/ UNCHANGED ledger
         \/ /\ pc = "forecast"
            /\ Feedbacks!Register(Generated, [f \in Generated |-> Distance[f.horizon]])
         \/ Feedbacks!Settle \/ Feedbacks!Postpone \/ Feedbacks!Restart
  PROVE  clock' \in Nat /\ open' \subseteq Forecasts /\ due' \in [Forecasts -> Nat]
<1>1. clock \in Nat /\ open \subseteq Forecasts /\ due \in [Forecasts -> Nat]
  BY DEF Types, TypeOK
<1>2. CASE UNCHANGED ledger
  BY <1>1, <1>2 DEF ledger
<1>3. CASE pc = "forecast" /\ Feedbacks!Register(Generated, [f \in Generated |-> Distance[f.horizon]])
  <2> DEFINE distance == [f \in Generated |-> Distance[f.horizon]]
  <2>1. cycle_number \in 0..(MaxCycles - 1)
    BY <1>3, RunnerAssumption DEF Types, TypeOK
  <2>2. Generated \subseteq Forecasts
    BY <2>1 DEF Generated, Forecasts
  <2>3. \A f \in Generated : distance[f] \in Nat
    BY <2>2, RunnerAssumption DEF Forecasts
  <2> HIDE DEF distance
  <2>4. /\ due' = [id \in Forecasts |-> IF id \in Generated THEN clock + distance[id] ELSE due[id]]
        /\ open' = open \union Generated /\ clock' = clock
    BY <1>3 DEF Feedbacks!Register, distance
  <2>5. \A id \in Forecasts :
          (IF id \in Generated THEN clock + distance[id] ELSE due[id]) \in Nat
    BY <1>1, <2>3
  <2> QED
    BY <1>1, <2>2, <2>4, <2>5
<1>4. CASE Feedbacks!Settle
  BY <1>1, <1>4 DEF Feedbacks!Settle
<1>5. CASE Feedbacks!Postpone
  BY <1>1, <1>5 DEF Feedbacks!Postpone
<1>6. CASE Feedbacks!Restart
  BY <1>1, <1>6 DEF Feedbacks!Restart
<1> QED
  BY <1>2, <1>3, <1>4, <1>5, <1>6

\* What resolve adds to the scores is a score of this cycle.
LEMMA ScoresTyped ==
  ASSUME Types, NEW F, F \subseteq Feedbacks!Mature
  PROVE  ScoresOf(F) \subseteq [forecast: Forecasts, scored_in: Nat]
<1>1. F \subseteq Forecasts /\ cycle_number \in Nat
  BY RunnerAssumption DEF Types, TypeOK, Feedbacks!Mature
<1> QED
  BY <1>1 DEF ScoresOf

LEMMA ExtendTyped ==
  ASSUME lines \in Seq(Line), ending # "newline" => lines # <<>>, NEW line \in Line, Extend(line)
  PROVE  /\ lines' \in Seq(Line) /\ lines' # <<>>
         /\ ending = "newline" => /\ Len(lines') = Len(lines) + 1
                                  /\ lines'[Len(lines) + 1] = line
                                  /\ \A i \in 1..Len(lines) : lines'[i] = lines[i]
         /\ ending # "newline" => /\ Len(lines') = Len(lines)
                                  /\ lines'[Len(lines)] = Broken
                                  /\ \A i \in 1..(Len(lines) - 1) : lines'[i] = lines[i]
<1>1. Broken \in Line
  BY DEF Broken, Line
<1>2. CASE ending = "newline"
  BY <1>2 DEF Extend
<1>3. CASE ending # "newline"
  <2>1. lines' = [lines EXCEPT ![Len(lines)] = Broken] /\ Len(lines) > 0
    BY <1>3 DEF Extend
  <2> QED
    BY <1>1, <1>3, <2>1
<1> QED
  BY <1>2, <1>3

\* What an append does to the file: lines'[i] is a line that was there, the
\* new one, or broken; and only a line left without an end is ever lost.
Appended(line) ==
  /\ Len(lines') \in {Len(lines), Len(lines) + 1}
  /\ \A i \in 1..Len(lines') :
       \/ lines'[i] = Broken
       \/ i <= Len(lines) /\ lines'[i] = lines[i]
       \/ i = Len(lines) + 1 /\ lines'[i] = line
  /\ \A i \in 1..Len(lines) : i < Len(lines) \/ ending = "newline" => lines'[i] = lines[i]
  /\ Len(lines') = Len(lines) /\ ending = "newline" => ending' = "newline"
  /\ ending' # "newline" => lines' # <<>>

LEMMA AppendTyped ==
  ASSUME MemoryTyped, ending # "newline" => lines # <<>>, NEW line \in Line,
         Written(line) \/ Left(line) \/ UNCHANGED <<memory, failures>>
  PROVE  /\ lines' \in Seq(Line) /\ ending' \in {"newline", "whole", "torn"} /\ failures' \in Nat
         /\ Appended(line)
<1>1. Broken \in Line /\ lines \in Seq(Line) /\ failures \in Nat
      /\ ending \in {"newline", "whole", "torn"}
  BY DEF Broken, Line, MemoryTyped
<1>2. CASE UNCHANGED memory /\ failures' \in Nat
  <2>1. lines' = lines /\ ending' = ending
    BY <1>2 DEF memory
  <2> QED
    BY <1>1, <1>2, <2>1 DEF Appended
<1>3. CASE Extend(Broken) /\ ending' = "torn" /\ failures' \in Nat
  BY <1>1, <1>3, ExtendTyped DEF Appended
<1>4. CASE Extend(line) /\ ending' \in {"newline", "whole", "torn"} /\ failures' \in Nat
  BY <1>1, <1>4, ExtendTyped DEF Appended
<1>5. failures' \in Nat
  BY <1>1 DEF Written, Left
<1> QED
  BY <1>2, <1>3, <1>4, <1>5 DEF Written, Left

LEMMA LinesTyped ==
  ASSUME Types
  PROVE  /\ Anomaly \in Line /\ CycleEvent(process, cycle_number) \in Line
         /\ MemoryTyped
<1>1. process \in Nat /\ cycle_number \in Nat
  BY RunnerAssumption DEF Types, TypeOK
<1> QED
  BY <1>1 DEF Anomaly, CycleEvent, Line, Types, TypeOK, MemoryTyped

LEMMA StepMemoryTyped ==
  ASSUME Types, Journal, [Next]_vars
  PROVE  MemoryTyped'
<1>1. MemoryTyped /\ (ending # "newline" => lines # <<>>)
  BY LinesTyped DEF Journal
<1>2. CASE AppendAnomaly
  BY <1>1, <1>2, AppendTyped, LinesTyped DEF AppendAnomaly, MemoryTyped
<1>3. CASE Memory
  <2>1. lines' \in Seq(Line) /\ ending' \in {"newline", "whole", "torn"} /\ failures' \in Nat
    BY <1>1, <1>3, AppendTyped, LinesTyped DEF Memory
  <2>2. results' = results \union
          {[process |-> process, cycle |-> cycle_number,
            errors |-> errors' \intersect {"self_model", "memory"}]}
    BY <1>3 DEF Memory, Completes
  <2>3. process \in Nat /\ cycle_number \in Nat
    BY RunnerAssumption DEF Types, TypeOK
  <2> QED
    BY <1>1, <2>1, <2>2, <2>3 DEF MemoryTyped
<1>4. CASE Die
  BY <1>1, <1>4, AppendTyped, LinesTyped DEF Die, MemoryTyped
<1>5. CASE UNCHANGED <<memory, failures, results>>
  BY <1>1, <1>5 DEF MemoryTyped, memory
<1>6. CASE \/ BeginCycle \/ Sensory \/ SkipSelfModel \/ SelfModelFails \/ WriteSnapshot
           \/ WriteTrends \/ SkipCoherence
  BY <1>5, <1>6 DEF BeginCycle, Sensory, SkipSelfModel, SelfModelFails, WriteSnapshot, WriteTrends,
                    SkipCoherence
<1>7. CASE \/ ReadSeeds \/ WriteIndex \/ RewriteTrends \/ Forecast \/ SkipFeedback
           \/ Feedback \/ StartAgain
  BY <1>5, <1>7 DEF ReadSeeds, WriteIndex, RewriteTrends, Forecast, SkipFeedback, Feedback, StartAgain
<1>8. CASE UNCHANGED vars
  BY <1>5, <1>8 DEF vars
<1> QED
  BY <1>2, <1>3, <1>4, <1>6, <1>7, <1>8 DEF Next

LEMMA StepTypes ==
  ASSUME Types, Files, Journal, [Next]_vars
  PROVE  Types'
<1> MemoryTyped'
  BY StepMemoryTyped
<1> USE DEF Types, TypeOK, Places, Returns, Raises, Skips, files, ledger, scoring, MemoryTyped
<1>1. CASE BeginCycle
  BY <1>1, ClearedLocals DEF BeginCycle
<1>2. CASE Sensory
  BY <1>2 DEF Sensory
<1>3. CASE SkipSelfModel \/ SelfModelFails
  BY <1>3 DEF SkipSelfModel, SelfModelFails
<1>4. CASE WriteSnapshot
  BY <1>4 DEF WriteSnapshot, locals
<1>5. CASE WriteTrends /\ "self_model" \in wired
  <2>1. snapshot_file.tick \in Nat
    OBVIOUS
  <2> QED
    BY <1>5, <2>1 DEF WriteTrends
<1>6. CASE SkipCoherence
  BY <1>6 DEF SkipCoherence
<1>7. CASE ReadSeeds
  <2>1. snapshot_file.tick \in Nat
    OBVIOUS
  <2> QED
    BY <1>7, <2>1 DEF ReadSeeds
<1>8. CASE WriteIndex /\ "coherence" \in wired
  <2>1. [snapshot_file EXCEPT !.index = seeds] \in [tick: Nat, index: Nat]
    OBVIOUS
  <2> QED
    BY <1>8, <2>1 DEF WriteIndex
<1>9. CASE RewriteTrends /\ "coherence" \in wired
  <2>1. snapshot_file.tick \in Nat
    OBVIOUS
  <2> QED
    BY <1>9, <2>1 DEF RewriteTrends
<1>10. CASE Forecast
  <2>1. clock' \in Nat /\ open' \subseteq Forecasts /\ due' \in [Forecasts -> Nat]
    BY <1>10, LedgerTyped DEF Forecast
  <2> QED
    BY <1>10, <2>1 DEF Forecast
<1>11. CASE SkipFeedback
  BY <1>11 DEF SkipFeedback
<1>12. CASE Feedback
  <2>1. clock' \in Nat /\ open' \subseteq Forecasts /\ due' \in [Forecasts -> Nat]
    BY <1>12, LedgerTyped DEF Feedback
  <2>2. scored' \subseteq [forecast: Forecasts, scored_in: Nat]
    BY <1>12, ScoresTyped DEF Feedback
  <2> QED
    BY <1>12, <2>1, <2>2 DEF Feedback
<1>13. CASE Memory
  BY <1>13, RunnerAssumption DEF Memory, Completes
<1>14. CASE Die
  <2>1. clock' \in Nat /\ open' \subseteq Forecasts /\ due' \in [Forecasts -> Nat]
    BY <1>14, LedgerTyped DEF Die
  <2>2. cycle_number' \in 0..MaxCycles /\ process' \in 0..MaxRestarts
    BY <1>14, RunnerAssumption DEF Die
  <2>3. pc' = "down" /\ scored' = {} /\ resolves_failed' = FALSE
    BY <1>14 DEF Die
  <2>4. /\ errors' = {} /\ attempted' = {} /\ anomalies' \in Nat
        /\ snapshot' \in Nat /\ report' \in Nat \union {-1} /\ seeds' \in Nat
    BY <1>14, ClearedLocals DEF Die
  <2>5. UNCHANGED <<wired, ticks, snapshot_file, trends_file>>
    BY <1>14 DEF Die
  <2> QED
    BY <2>1, <2>2, <2>3, <2>4, <2>5
<1>15. CASE UNCHANGED vars
  BY <1>15 DEF vars, locals
<1>16. CASE WriteTrends \/ WriteIndex \/ RewriteTrends
  BY <1>5, <1>8, <1>9, <1>16 DEF Files, WriteTrends, WriteIndex, RewriteTrends
<1>17. CASE AppendAnomaly
  BY <1>17 DEF AppendAnomaly
<1>18. CASE StartAgain
  BY <1>18 DEF StartAgain, locals
<1> QED
  BY <1>1, <1>2, <1>3, <1>4, <1>6, <1>7, <1>10, <1>11, <1>12, <1>13, <1>14, <1>15, <1>16, <1>17,
     <1>18 DEF Next

LEMMA StepFiles ==
  ASSUME Types, Files, [Next]_vars
  PROVE  Files'
<1>1. /\ ticks \in Nat /\ trends_file \in Nat /\ seeds \in Nat
      /\ snapshot_file \in [tick: Nat, index: Nat]
  BY DEF Types, TypeOK
<1> USE DEF Files, IndexMatchesSnapshot, files
<1>2. CASE BeginCycle
  BY <1>2 DEF BeginCycle
<1>3. CASE Sensory
  BY <1>3 DEF Sensory, Returns, Raises, Skips
<1>4. CASE SkipSelfModel \/ SelfModelFails
  BY <1>4 DEF SkipSelfModel, SelfModelFails, Skips, Raises
<1>5. CASE WriteSnapshot
  BY <1>1, <1>5 DEF WriteSnapshot
<1>6. CASE WriteTrends
  BY <1>1, <1>6 DEF WriteTrends, Returns, Raises
<1>7. CASE SkipCoherence
  BY <1>7 DEF SkipCoherence, Skips
<1>8. CASE ReadSeeds
  BY <1>1, <1>8 DEF ReadSeeds, Returns, Raises
<1>9. CASE WriteIndex
  <2>1. CASE snapshot_file' = [snapshot_file EXCEPT !.index = seeds] /\ pc' = "retrends"
    <3>1. snapshot_file'.index = seeds /\ snapshot_file'.tick = snapshot_file.tick
      BY <1>1, <2>1
    <3> QED
      BY <1>1, <1>9, <2>1, <3>1 DEF WriteIndex
  <2>2. CASE Raises("coherence", "forecast") /\ UNCHANGED snapshot_file
    BY <1>9, <2>2 DEF WriteIndex, Raises
  <2> QED
    BY <1>9, <2>1, <2>2 DEF WriteIndex
<1>10. CASE RewriteTrends
  BY <1>1, <1>10 DEF RewriteTrends, Returns, Raises
<1>11. CASE Forecast \/ SkipFeedback \/ Feedback \/ Memory
  BY <1>11 DEF Forecast, SkipFeedback, Feedback, Memory, Skips, Returns, Raises
<1>12. CASE AppendAnomaly \/ Die
  BY <1>12 DEF AppendAnomaly, Die, Raises
<1>13. CASE StartAgain \/ UNCHANGED vars
  BY <1>13 DEF StartAgain, vars, locals
<1> QED
  BY <1>2, <1>3, <1>4, <1>5, <1>6, <1>7, <1>8, <1>9, <1>10, <1>11, <1>12, <1>13 DEF Next

LEMMA StepCalls ==
  ASSUME Types, Files, Calls, Journal, [Next]_vars
  PROVE  Calls'
<1>1. cycle_number \in Nat /\ attempted \subseteq wired /\ wired \subseteq Modules
  BY RunnerAssumption DEF Types, TypeOK
<1> USE DEF Calls, EveryModuleIsCalled, CycleOver, Called, Passed, Modules, Returns, Raises, Skips
<1>2. CASE BeginCycle
  BY <1>2, ClearedLocals DEF BeginCycle
<1>3. CASE Sensory
  BY <1>3 DEF Sensory
<1>4. CASE SkipSelfModel \/ SelfModelFails
  BY <1>4 DEF SkipSelfModel, SelfModelFails
<1>5. CASE WriteSnapshot
  BY <1>5 DEF WriteSnapshot, locals
<1>6. CASE WriteTrends
  BY <1>6 DEF WriteTrends, Files
<1>7. CASE SkipCoherence
  BY <1>7 DEF SkipCoherence
<1>8. CASE ReadSeeds
  BY <1>8 DEF ReadSeeds
<1>9. CASE WriteIndex
  BY <1>9 DEF WriteIndex, Files
<1>10. CASE RewriteTrends
  BY <1>10 DEF RewriteTrends, Files
<1>11. CASE Forecast
  BY <1>11 DEF Forecast
<1>12. CASE SkipFeedback
  BY <1>12 DEF SkipFeedback
<1>13. CASE Feedback
  BY <1>13 DEF Feedback
<1>14. CASE Memory
  <2>1. /\ pc = "memory" /\ pc' = "idle" /\ cycle_number' = cycle_number + 1 /\ wired' = wired
        /\ attempted' = IF "memory" \in wired THEN attempted \union {"memory"} ELSE attempted
    BY <1>14 DEF Memory, Completes
  <2>2. attempted = ((Modules \ {"memory"}) \intersect wired)
                      \ (IF cycle_number = 0 THEN {} ELSE {"sensory"})
    BY <2>1
  <2>3. cycle_number' = 1 <=> cycle_number = 0
    BY <1>1, <2>1
  <2>4. attempted' = IF cycle_number' = 1 THEN wired ELSE wired \ {"sensory"}
    BY <1>1, <2>1, <2>2, <2>3
  <2> QED
    BY <2>1, <2>4
<1>15. CASE AppendAnomaly \/ Die
  BY <1>15 DEF AppendAnomaly, Die
<1>16. CASE StartAgain \/ UNCHANGED vars
  BY <1>16 DEF StartAgain, vars, locals, Journal
<1> QED
  BY <1>2, <1>3, <1>4, <1>5, <1>6, <1>7, <1>8, <1>9, <1>10, <1>11, <1>12, <1>13, <1>14, <1>15, <1>16
  DEF Next

LEMMA StepResults ==
  ASSUME Types, Files, Calls, Results, [Next]_vars
  PROVE  Results'
<1>1. /\ ticks \in Nat /\ trends_file \in Nat /\ seeds \in Nat /\ report \in Nat \union {-1}
      /\ snapshot_file \in [tick: Nat, index: Nat]
  BY DEF Types, TypeOK
<1> USE DEF Results, files, Returns, Raises, Skips
<1>2. CASE BeginCycle
  BY <1>2, ClearedLocals DEF BeginCycle
<1>3. CASE Sensory
  BY <1>1, <1>3 DEF Sensory
<1>4. CASE SkipSelfModel \/ SelfModelFails
  BY <1>4 DEF SkipSelfModel, SelfModelFails
<1>5. CASE WriteSnapshot
  <2>1. attempted \intersect {"self_model", "coherence"} = {}
    BY <1>5 DEF WriteSnapshot, Calls, Called, Passed
  <2> QED
    BY <1>5, <2>1 DEF WriteSnapshot, locals
<1>6. CASE WriteTrends
  BY <1>1, <1>6 DEF WriteTrends, Files
<1>7. CASE SkipCoherence
  BY <1>7 DEF SkipCoherence
<1>8. CASE ReadSeeds
  BY <1>1, <1>8 DEF ReadSeeds, Files
<1>9. CASE WriteIndex
  BY <1>1, <1>9 DEF WriteIndex, Files
<1>10. CASE RewriteTrends
  BY <1>1, <1>10 DEF RewriteTrends, Files
<1>11. CASE Forecast
  BY <1>11 DEF Forecast
<1>12. CASE SkipFeedback
  BY <1>12 DEF SkipFeedback
<1>13. CASE Feedback
  BY <1>13 DEF Feedback
<1>14. CASE Memory
  BY <1>14 DEF Memory
<1>15. CASE Die
  BY <1>15, ClearedLocals DEF Die
<1>16. CASE StartAgain \/ UNCHANGED vars
  BY <1>16 DEF StartAgain, vars, locals
<1>17. CASE AppendAnomaly
  BY <1>1, <1>17 DEF AppendAnomaly
<1> QED
  BY <1>2, <1>3, <1>4, <1>5, <1>6, <1>7, <1>8, <1>9, <1>10, <1>11, <1>12, <1>13, <1>14, <1>15, <1>16,
     <1>17 DEF Next

LEMMA StepScores ==
  ASSUME Types, Scores, [Next]_vars
  PROVE  Scores'
<1>1. /\ clock \in Nat /\ cycle_number \in Nat /\ MaxCycles \in Nat
      /\ due \in [Forecasts -> Nat] /\ open \subseteq Forecasts
      /\ \A f \in Forecasts : f.made_in \in Nat /\ f.horizon \in Horizons
                              /\ Distance[f.horizon] \in Nat /\ Distance[f.horizon] > 0
      /\ scored \subseteq [forecast: Forecasts, scored_in: Nat]
  <2>1. /\ clock \in Nat /\ cycle_number \in Nat /\ MaxCycles \in Nat
        /\ due \in [Forecasts -> Nat] /\ open \subseteq Forecasts
        /\ scored \subseteq [forecast: Forecasts, scored_in: Nat]
    BY RunnerAssumption DEF Types, TypeOK
  <2>2. \A f \in Forecasts : f.made_in \in Nat /\ f.horizon \in Horizons
                            /\ Distance[f.horizon] \in Nat /\ Distance[f.horizon] > 0
    BY RunnerAssumption DEF Forecasts
  <2> QED
    BY <2>1, <2>2
<1>2. ASSUME UNCHANGED <<wired, cycle_number, ledger, scoring>>,
             pc # "memory", pc' # "memory"
      PROVE  Scores'
  BY <1>2 DEF Scores, ClockInStep, ScoredOnTime, ledger, scoring
<1>3. CASE Forecast
  <2>1. pc = "forecast" /\ pc' = "feedback" /\ UNCHANGED <<wired, cycle_number, scoring>>
    BY <1>3 DEF Forecast, Skips, Returns, Raises
  <2>2. CASE UNCHANGED ledger
    BY <1>2, <2>1, <2>2
  <2> DEFINE distance == [f \in Generated |-> Distance[f.horizon]]
  <2>3. CASE "feedback" \in wired /\ Feedbacks!Register(Generated, distance)
    <3>1. Generated \subseteq Forecasts
      BY <1>1, <2>1, RunnerAssumption DEF Generated, Forecasts, Types
    <3>2. \A f \in Generated : distance[f] = Distance[f.horizon] /\ f.made_in = cycle_number
      BY DEF Generated
    <3> HIDE DEF distance
    <3>3. clock = cycle_number
      BY <2>1, <2>3 DEF Scores, ClockInStep
    <3>4. /\ open' = open \union Generated /\ clock' = clock
          /\ due' = [f \in Forecasts |-> IF f \in Generated THEN clock + distance[f] ELSE due[f]]
      BY <2>3 DEF Feedbacks!Register
    <3>5. \A f \in open' : due'[f] = f.made_in + Distance[f.horizon]
      BY <1>1, <3>1, <3>2, <3>3, <3>4 DEF Scores
    <3>6. ~resolves_failed' => \A f \in open' : clock' < due'[f]
      <4>1. \A f \in Generated : due'[f] = clock + Distance[f.horizon]
        BY <3>1, <3>2, <3>4
      <4>2. \A f \in open \ Generated : due'[f] = due[f]
        BY <1>1, <3>4
      <4>3. \A f \in Generated : clock < due'[f]
        <5>1. \A f \in Generated : Distance[f.horizon] \in Nat /\ Distance[f.horizon] > 0
          BY <1>1, <3>1
        <5> QED
          BY <1>1, <4>1, <5>1
      <4>4. ~resolves_failed => \A f \in open : clock < due[f]
        BY DEF Scores
      <4>5. ASSUME ~resolves_failed', NEW f \in open' PROVE clock < due'[f]
        <5>1. CASE f \in Generated
          BY <4>3, <5>1
        <5>2. CASE f \in open \ Generated
          BY <2>1, <4>2, <4>4, <4>5, <5>2 DEF scoring
        <5> QED
          BY <3>4, <4>5, <5>1, <5>2
      <4> QED
        BY <3>4, <4>5
    <3>7. \A s \in scored : s.forecast \notin Generated
      <4>1. ASSUME NEW s \in scored PROVE s.forecast.made_in < cycle_number
        <5>1. s.scored_in \in Nat /\ s.forecast \in Forecasts /\ s.scored_in < cycle_number
          BY <1>1, <2>1, <4>1 DEF Scores
        <5>2. s.scored_in >= s.forecast.made_in + Distance[s.forecast.horizon] - 1
          BY <4>1 DEF Scores, ScoredOnTime
        <5> QED
          BY <1>1, <5>1, <5>2
      <4> QED
        BY <1>1, <3>2, <4>1
    <3>8. ScoredOnTime'
      BY <2>1, <3>4, <3>7 DEF Scores, ScoredOnTime, scoring
    <3>9. ClockInStep'
      BY <2>1, <3>4 DEF Scores, ClockInStep
    <3>10. \A s \in scored' : s.scored_in < cycle_number' \/ (s.scored_in = cycle_number' /\ pc' = "memory")
      BY <2>1 DEF Scores, scoring
    <3> QED
      BY <2>1, <2>3, <3>5, <3>6, <3>8, <3>9, <3>10 DEF Scores
  <2> QED
    BY <1>3, <2>2, <2>3 DEF Forecast
<1>4. CASE SkipFeedback
  BY <1>4 DEF SkipFeedback, Skips, Scores, ClockInStep, ScoredOnTime, ledger,
              scoring
<1>5. CASE Feedback
  <2>1. /\ pc = "feedback" /\ pc' = "memory" /\ "feedback" \in wired /\ clock = cycle_number
        /\ UNCHANGED <<wired, cycle_number>>
    BY <1>5 DEF Feedback, Returns, Raises, Scores, ClockInStep
  <2>2. PICK F \in SUBSET Feedbacks!Mature :
          /\ scored' = scored \union ScoresOf(F)
          /\ clock' = clock + 1 /\ due' = due
          /\ \/ /\ open' = open \ Feedbacks!Mature /\ F = Feedbacks!Mature
                /\ resolves_failed' = resolves_failed
             \/ open' = open /\ resolves_failed' = TRUE
    BY <1>5 DEF Feedback, Feedbacks!Settle, Feedbacks!Postpone
  <2>3. \A f \in Feedbacks!Mature : f \in open /\ due[f] <= clock + 1
    BY DEF Feedbacks!Mature
  <2>4. \A s \in ScoresOf(F) : s.forecast \in F /\ s.scored_in = cycle_number
    BY DEF ScoresOf
  <2>5. ClockInStep'
    BY <2>1, <2>2 DEF Scores, ClockInStep
  <2>6. \A s \in scored' : s.scored_in < cycle_number' \/ (s.scored_in = cycle_number' /\ pc' = "memory")
    BY <2>1, <2>2, <2>4 DEF Scores
  <2>7. ~resolves_failed' => \A f \in open' : clock' < due'[f]
    <3>1. ASSUME ~resolves_failed' PROVE \A f \in open' : clock' < due'[f]
      <4>1. \A f \in open' : f \in open /\ ~(due[f] <= clock + 1)
        BY <2>2, <3>1 DEF Feedbacks!Mature
      <4> QED
        BY <1>1, <2>2, <4>1
    <3> QED
      BY <3>1
  <2>8. ScoredOnTime'
    <3>1. ASSUME NEW s \in ScoresOf(F)
          PROVE  /\ s.scored_in >= s.forecast.made_in + Distance[s.forecast.horizon] - 1
                 /\ ~resolves_failed' =>
                      /\ s.scored_in = s.forecast.made_in + Distance[s.forecast.horizon] - 1
                      /\ s.forecast \notin open'
      <4>1. /\ s.forecast \in open /\ s.forecast \in Forecasts /\ s.scored_in = clock
            /\ due[s.forecast] <= clock + 1
            /\ due[s.forecast] = s.forecast.made_in + Distance[s.forecast.horizon]
        BY <1>1, <2>1, <2>3, <2>4 DEF Scores
      <4>2. ~resolves_failed' => clock < due[s.forecast] /\ s.forecast \notin open'
        BY <2>2, <2>4, <4>1 DEF Scores
      <4> QED
        BY <1>1, <4>1, <4>2
    <3>2. \A s \in scored : ~resolves_failed' => ~resolves_failed /\ open' \subseteq open
      BY <2>2
    <3> QED
      BY <2>2, <3>1, <3>2 DEF Scores, ScoredOnTime
  <2>9. \A f \in open' : due'[f] = f.made_in + Distance[f.horizon]
    BY <2>2 DEF Scores
  <2> QED
    BY <2>1, <2>5, <2>6, <2>7, <2>8, <2>9 DEF Scores
<1>6. CASE Memory
  <2>1. /\ pc = "memory" /\ pc' = "idle" /\ cycle_number' = cycle_number + 1
        /\ UNCHANGED <<wired, ledger, scoring>>
    BY <1>6 DEF Memory, Completes, Returns, Raises, Skips
  <2>2. ClockInStep'
    BY <2>1 DEF Scores, ClockInStep, ledger
  <2>4. \A s \in scored' : s.scored_in < cycle_number'
    BY <1>1, <2>1 DEF Scores, scoring
  <2>5. ScoredOnTime'
    BY <2>1 DEF Scores, ScoredOnTime, scoring, ledger
  <2> QED
    BY <2>1, <2>2, <2>4, <2>5 DEF Scores, ledger, scoring
<1>7. CASE Die
  BY <1>7 DEF Die, Feedbacks!Restart, Scores, ClockInStep, ScoredOnTime
<1>8. CASE UNCHANGED vars
  BY <1>8 DEF vars, Scores, ClockInStep, ScoredOnTime, ledger, scoring
<1>9. CASE BeginCycle \/ Sensory \/ SkipSelfModel \/ SelfModelFails \/ WriteSnapshot \/ WriteTrends
  BY <1>2, <1>9 DEF BeginCycle, Sensory, SkipSelfModel, SelfModelFails, WriteSnapshot, WriteTrends,
                    Skips, Returns, Raises
<1>10. CASE SkipCoherence \/ ReadSeeds \/ WriteIndex \/ RewriteTrends
  BY <1>2, <1>10 DEF SkipCoherence, ReadSeeds, WriteIndex, RewriteTrends, Skips, Returns, Raises
<1>11. CASE AppendAnomaly
  <2>1. UNCHANGED <<wired, cycle_number, ledger, scoring>> /\ pc # "memory" /\ pc' # "memory"
    BY <1>11 DEF AppendAnomaly, Raises
  <2> QED
    BY <1>2, <2>1
<1>12. CASE StartAgain
  <2>1. UNCHANGED <<wired, cycle_number, ledger, scoring>> /\ pc # "memory" /\ pc' # "memory"
    BY <1>12 DEF StartAgain
  <2> QED
    BY <1>2, <2>1
<1> QED
  BY <1>3, <1>4, <1>5, <1>6, <1>7, <1>8, <1>9, <1>10, <1>11, <1>12 DEF Next

-----------------------------------------------------------------------------
(* The journal.                                                            *)

LEMMA HereTyped ==
  ASSUME Types
  PROVE  /\ process \in Nat /\ cycle_number \in Nat
         /\ Here.process = process /\ Here.cycle = cycle_number
         /\ \A r \in results : r.process \in Nat /\ r.cycle \in Nat
         /\ \A i \in DOMAIN lines : lines[i].process \in Nat /\ lines[i].cycle \in Nat
         /\ lines \in Seq(Line)
<1>1. /\ process \in Nat /\ cycle_number \in Nat /\ lines \in Seq(Line)
      /\ results \subseteq [process: Nat, cycle: Nat, errors: SUBSET {"self_model", "memory"}]
  BY RunnerAssumption DEF Types, TypeOK
<1>2. \A i \in DOMAIN lines : lines[i] \in Line
  BY <1>1
<1> QED
  BY <1>1, <1>2 DEF Here, Line

\* What stands apart from the next append stays recorded.
LEMMA StaysRecorded ==
  ASSUME Types, NEW line, Appended(line), lines' \in Seq(Line), NEW r, Recorded(r)
  PROVE  Recorded(r)'
<1>1. PICK i \in DOMAIN lines :
        /\ lines[i] = CycleEvent(r.process, r.cycle)
        /\ i = Len(lines) => ending = "newline"
  BY DEF Recorded
<1>2. Len(lines) \in Nat /\ Len(lines') \in Nat /\ i \in 1..Len(lines)
      /\ DOMAIN lines' = 1..Len(lines')
  BY HereTyped
<1>6. /\ Len(lines') \in {Len(lines), Len(lines) + 1}
      /\ i < Len(lines) \/ ending = "newline" => lines'[i] = lines[i]
      /\ Len(lines') = Len(lines) /\ ending = "newline" => ending' = "newline"
  BY <1>2 DEF Appended
<1>7. PICK m \in Nat, n \in Nat : m = Len(lines) /\ n = Len(lines')
  BY <1>2
<1>8. i \in 1..m /\ n \in {m, m + 1} /\ (i < m \/ ending = "newline")
  <2>1. i \in 1..m /\ n \in {m, m + 1}
    BY <1>2, <1>6, <1>7
  <2>2. i = m => ending = "newline"
    BY <1>1, <1>7
  <2> QED
    BY <2>1, <2>2
<1>3. i \in 1..Len(lines') /\ lines'[i] = lines[i]
  BY <1>6, <1>7, <1>8
<1>4. i = Len(lines') => ending' = "newline"
  <2>1. i = n => n = m /\ ending = "newline"
    BY <1>8
  <2> QED
    BY <1>6, <1>7, <2>1
<1>5. lines'[i] = CycleEvent(r.process, r.cycle)'
  BY <1>1, <1>3 DEF CycleEvent
<1> QED
  BY <1>2, <1>3, <1>4, <1>5 DEF Recorded

\* A line that is not broken was there or is the new one, which is the last.
LEMMA LinesNow ==
  ASSUME Types, NEW line, Appended(line), lines' \in Seq(Line),
         NEW i \in DOMAIN lines', lines'[i] # Broken
  PROVE  \/ i \in DOMAIN lines /\ lines'[i] = lines[i]
         \/ i = Len(lines) + 1 /\ lines'[i] = line
BY HereTyped DEF Appended

\* The events stay in order when the event of this cycle is appended, or an
\* anomaly, whatever becomes of it.
LEMMA StaysOrdered ==
  ASSUME Types, Journal, NEW line, Appended(line), lines' \in Seq(Line),
         line.kind = "cycle" => line = CycleEvent(process, cycle_number)
  PROVE  /\ \A i, j \in DOMAIN lines' :
              i < j /\ lines'[i].kind = "cycle" /\ lines'[j].kind = "cycle"
                => Earlier(lines'[i], lines'[j])
         /\ \A i \in DOMAIN lines' : lines'[i].kind = "cycle" =>
              \/ i \in DOMAIN lines /\ lines'[i] = lines[i] /\ Earlier(lines'[i], Here)
              \/ lines'[i] = CycleEvent(process, cycle_number)
<1>1. \A i \in DOMAIN lines' : lines'[i].kind = "cycle" =>
        \/ i \in DOMAIN lines /\ lines'[i] = lines[i] /\ Earlier(lines'[i], Here)
        \/ i = Len(lines) + 1 /\ lines'[i] = CycleEvent(process, cycle_number)
  <2> SUFFICES ASSUME NEW i \in DOMAIN lines', lines'[i].kind = "cycle"
               PROVE  \/ i \in DOMAIN lines /\ lines'[i] = lines[i] /\ Earlier(lines'[i], Here)
                      \/ i = Len(lines) + 1 /\ lines'[i] = CycleEvent(process, cycle_number)
    OBVIOUS
  <2>1. lines'[i] # Broken
    BY DEF Broken
  <2>2. \/ i \in DOMAIN lines /\ lines'[i] = lines[i]
        \/ i = Len(lines) + 1 /\ lines'[i] = line
    BY <2>1, LinesNow
  <2> QED
    BY <2>2 DEF Journal
<1>2. ASSUME NEW i \in DOMAIN lines', NEW j \in DOMAIN lines',
             i < j, lines'[i].kind = "cycle", lines'[j].kind = "cycle"
      PROVE  Earlier(lines'[i], lines'[j])
  <2>1. Len(lines) \in Nat /\ DOMAIN lines = 1..Len(lines) /\ i \in Nat /\ j \in Nat
        /\ DOMAIN lines' = 1..Len(lines') /\ Len(lines') \in {Len(lines), Len(lines) + 1}
    BY HereTyped DEF Appended
  <2>5. i # Len(lines) + 1
    <3>1. PICK m \in Nat, n \in Nat : m = Len(lines) /\ n = Len(lines')
      BY HereTyped
    <3>2. i \in Nat /\ j \in 1..n /\ n \in {m, m + 1} /\ i < j
      BY <1>2, <2>1, <3>1
    <3>3. i # m + 1
      BY <3>2
    <3> QED
      BY <3>1, <3>3
  <2>2. i \in DOMAIN lines /\ lines'[i] = lines[i] /\ Earlier(lines'[i], Here)
    BY <1>1, <1>2, <2>5
  <2>3. CASE j \in DOMAIN lines /\ lines'[j] = lines[j]
    BY <1>2, <2>2, <2>3 DEF Journal, EventsTellOfCycles
  <2>4. CASE lines'[j] = CycleEvent(process, cycle_number)
    BY <2>2, <2>4 DEF Earlier, Here, CycleEvent
  <2> QED
    BY <1>1, <1>2, <2>3, <2>4
<1> QED
  BY <1>1, <1>2

\* Steps that leave the memory file and the results alone.
LEMMA JournalUntouched ==
  ASSUME Journal, UNCHANGED <<wired, process, cycle_number, memory, results>>,
         pc' = "down" => pc = "down",
         pc # "idle" /\ pc # "down" => pc' # "idle" /\ errors \subseteq errors'
  PROVE  Journal'
<1>1. lines' = lines /\ ending' = ending /\ results' = results /\ Here' = Here
      /\ process' = process /\ cycle_number' = cycle_number /\ wired' = wired
  BY DEF memory, Here
<1>2. EventsTellOfCycles'
  BY <1>1 DEF Journal, EventsTellOfCycles, OnFile
<1>3. \A r : Recorded(r)' = Recorded(r) /\ Excused(r)' = Excused(r)
  BY <1>1 DEF Recorded, Excused
<1>4. ASSUME pc' # "down", "memory" \in wired', ending' # "newline" PROVE ExcusedHere'
  <2>1. CASE pc = "down"
    BY <1>1, <2>1 DEF Journal, ExcusedHere
  <2>2. CASE pc # "down"
    BY <1>1, <1>4, <2>2 DEF Journal, ExcusedHere
  <2> QED
    BY <2>1, <2>2
<1> QED
  BY <1>1, <1>2, <1>3, <1>4 DEF Journal

LEMMA AnomalyJournal ==
  ASSUME Types, Journal, AppendAnomaly
  PROVE  Journal'
<1>1. /\ pc = "self_model" /\ pc' \notin {"idle", "down"}
      /\ process' = process /\ cycle_number' = cycle_number /\ results' = results /\ wired' = wired
      /\ Here' = Here
  BY DEF AppendAnomaly, Raises, Here
<1>2. lines' \in Seq(Line) /\ Appended(Anomaly)
  BY AppendTyped, LinesTyped DEF AppendAnomaly, Journal
<1>3. Anomaly.kind # "cycle"
  BY DEF Anomaly
<1>4. /\ \A i, j \in DOMAIN lines' :
           i < j /\ lines'[i].kind = "cycle" /\ lines'[j].kind = "cycle"
             => Earlier(lines'[i], lines'[j])
      /\ \A i \in DOMAIN lines' : lines'[i].kind = "cycle" =>
           i \in DOMAIN lines /\ lines'[i] = lines[i] /\ Earlier(lines'[i], Here)
  <2>1. \A i \in DOMAIN lines' : lines'[i].kind = "cycle" => i \in DOMAIN lines /\ lines'[i] = lines[i]
    <3> SUFFICES ASSUME NEW i \in DOMAIN lines', lines'[i].kind = "cycle"
                 PROVE  i \in DOMAIN lines /\ lines'[i] = lines[i]
      OBVIOUS
    <3>1. lines'[i] # Broken
      BY DEF Broken
    <3> QED
      BY <1>2, <1>3, <3>1, LinesNow
  <2>2. \A i \in DOMAIN lines' : lines'[i].kind = "cycle" => Earlier(lines'[i], Here)
    BY <2>1 DEF Journal
  <2> QED
    BY <1>2, <1>3, <2>1, <2>2, StaysOrdered
<1>5. EventsTellOfCycles'
  <2>1. ASSUME NEW e \in OnFile', e.kind = "cycle" PROVE e \in OnFile
    BY <1>4, <2>1 DEF OnFile
  <2> QED
    BY <1>1, <1>4, <2>1 DEF Journal, EventsTellOfCycles, CycleEvent
<1>6. ASSUME NEW r \in results', "memory" \in wired' PROVE Recorded(r)' \/ Excused(r)'
  <2>1. Recorded(r) => Recorded(r)'
    BY <1>2, StaysRecorded
  <2>2. Excused(r) => Excused(r)'
    BY <1>1 DEF Excused
  <2> QED
    BY <1>1, <1>6, <2>1, <2>2 DEF Journal
<1>7. ending' # "newline" => ExcusedHere'
  <2>1. ending' # "newline" => "self_model" \in errors'
    BY DEF AppendAnomaly, Written, Raises
  <2> QED
    BY <1>1, <2>1 DEF ExcusedHere
<1>8. ending' # "newline" => lines' # <<>>
  BY <1>2 DEF Appended
<1> QED
  BY <1>1, <1>4, <1>5, <1>6, <1>7, <1>8 DEF Journal

LEMMA MemoryJournal ==
  ASSUME Types, Calls, Journal, Memory
  PROVE  Journal'
<1> DEFINE event == CycleEvent(process, cycle_number)
<1>0. PICK result : result = [process |-> process, cycle |-> cycle_number,
                              errors |-> errors' \intersect {"self_model", "memory"}]
  OBVIOUS
<1>1. /\ pc = "memory" /\ pc' = "idle" /\ process' = process /\ wired' = wired
      /\ cycle_number' = cycle_number + 1 /\ results' = results \union {result}
      /\ errors \subseteq errors'
  BY <1>0 DEF Memory, Completes, Returns, Raises, Skips
<1>2. lines' \in Seq(Line) /\ Appended(event)
  BY AppendTyped, LinesTyped DEF Memory, Journal
<1>3. /\ event = [kind |-> "cycle", process |-> process, cycle |-> cycle_number]
      /\ result.process = process /\ result.cycle = cycle_number
      /\ result.errors = errors' \intersect {"self_model", "memory"}
      /\ Here = [process |-> process, cycle |-> cycle_number]
      /\ Here' = [process |-> process, cycle |-> cycle_number + 1]
  BY <1>0, <1>1 DEF CycleEvent, Here
<1>4. process \in Nat /\ cycle_number \in Nat
  BY HereTyped
<1>5. event = CycleEvent(result.process, result.cycle)
  BY <1>3
<1> HIDE DEF event
<1>6. /\ \A i, j \in DOMAIN lines' :
           i < j /\ lines'[i].kind = "cycle" /\ lines'[j].kind = "cycle"
             => Earlier(lines'[i], lines'[j])
      /\ \A i \in DOMAIN lines' : lines'[i].kind = "cycle" =>
           \/ i \in DOMAIN lines /\ lines'[i] = lines[i] /\ Earlier(lines'[i], Here)
           \/ lines'[i] = event
  BY <1>2, StaysOrdered DEF event
<1>7. ASSUME NEW a, a.process \in Nat, a.cycle \in Nat,
             Earlier(a, Here) \/ (a.process = process /\ a.cycle = cycle_number)
      PROVE  Earlier(a, Here')
  BY <1>3, <1>4, <1>7 DEF Earlier
<1>8. \A i \in DOMAIN lines' : lines'[i].kind = "cycle" => Earlier(lines'[i], Here')
  <2> SUFFICES ASSUME NEW i \in DOMAIN lines', lines'[i].kind = "cycle"
               PROVE  Earlier(lines'[i], Here')
    OBVIOUS
  <2>3. lines'[i] \in Line
    BY <1>2
  <2>1. lines'[i].process \in Nat /\ lines'[i].cycle \in Nat
    BY <2>3 DEF Line
  <2>2. Earlier(lines'[i], Here) \/ (lines'[i].process = process /\ lines'[i].cycle = cycle_number)
    BY <1>3, <1>6
  <2> QED
    BY <1>7, <2>1, <2>2
<1>9. \A r \in results' : Earlier(r, Here')
  <2> SUFFICES ASSUME NEW r \in results' PROVE Earlier(r, Here')
    OBVIOUS
  <2>1. CASE r \in results
    BY <1>7, <2>1, HereTyped DEF Journal
  <2>2. CASE r = result
    BY <1>3, <1>4, <1>7, <2>2
  <2> QED
    BY <1>1, <2>1, <2>2
<1>10. EventsTellOfCycles'
  <2>1. ASSUME NEW e \in OnFile', e.kind = "cycle"
        PROVE  \/ \E r \in results' : e = CycleEvent(r.process, r.cycle)'
               \/ e.process < process' /\ \A r \in results' : r.process = e.process => r.cycle < e.cycle
    <3>1. e \in OnFile \/ e = event
      BY <1>6, <2>1 DEF OnFile
    <3>2. CASE e = event
      BY <1>1, <1>5, <3>2 DEF CycleEvent
    <3>3. CASE e \in OnFile
      <4>1. CASE \E r \in results : e = CycleEvent(r.process, r.cycle)
        BY <1>1, <4>1 DEF CycleEvent
      <4>2. CASE e.process < process /\ \A r \in results : r.process = e.process => r.cycle < e.cycle
        <5>1. e.process # process
          BY <1>4, <4>2
        <5> QED
          BY <1>1, <1>3, <4>2, <5>1
      <4> QED
        BY <2>1, <3>3, <4>1, <4>2 DEF Journal, EventsTellOfCycles
    <3> QED
      BY <3>1, <3>2, <3>3
  <2> QED
    BY <1>6, <2>1 DEF EventsTellOfCycles
<1>11. ASSUME "memory" \in wired, errors' = errors PROVE Written(event)
  <2>1. Written(event) \/ "memory" \in errors'
    BY <1>11 DEF Memory, Raises, event
  <2>2. "memory" \notin errors
    BY <1>1 DEF Types, TypeOK, Calls, Called, Passed
  <2> QED
    BY <1>11, <2>1, <2>2
<1>12. ASSUME "memory" \in wired, "memory" \notin errors' PROVE Written(event) /\ errors' = errors
  BY <1>12 DEF Memory, Raises, Returns, event
<1>13. ASSUME NEW r, Excused(r) PROVE Excused(r)'
  BY <1>1, <1>13 DEF Excused
<1>14. ASSUME "memory" \in wired PROVE Recorded(result)' \/ Excused(result)'
  <2>1. CASE "memory" \in errors'
    BY <1>3, <2>1 DEF Excused
  <2>2. CASE "memory" \notin errors' /\ ending = "newline"
    <3>1. Extend(event) /\ ending' = "newline" /\ event \in Line
      BY <1>12, <1>14, <2>2, LinesTyped DEF Written, event
    <3>2. /\ Len(lines') = Len(lines) + 1 /\ lines'[Len(lines) + 1] = event
          /\ Len(lines) \in Nat
      BY <2>2, <3>1, ExtendTyped, HereTyped
    <3>3. Len(lines) + 1 \in DOMAIN lines'
      BY <1>2, <3>2
    <3>4. event = CycleEvent(result.process, result.cycle)'
      BY <1>5 DEF CycleEvent
    <3> QED
      BY <3>1, <3>2, <3>3, <3>4 DEF Recorded
  <2>3. CASE "memory" \notin errors' /\ ending # "newline"
    <3>1. ExcusedHere
      BY <1>1, <1>14, <2>3 DEF Journal
    <3>2. CASE "self_model" \in errors
      BY <1>1, <1>3, <3>2 DEF Excused
    <3>3. CASE cycle_number = 0 /\ process > 0
      BY <1>3, <3>3 DEF Excused
    <3>4. CASE \E q \in results :
                 q.process = process /\ q.cycle = cycle_number - 1 /\ "memory" \in q.errors
      BY <1>1, <1>3, <3>4 DEF Excused
    <3> QED
      BY <3>1, <3>2, <3>3, <3>4 DEF ExcusedHere
  <2> QED
    BY <2>1, <2>2, <2>3
<1>15. ASSUME "memory" \in wired PROVE \A r \in results' : Recorded(r)' \/ Excused(r)'
  <2>1. ASSUME NEW r \in results PROVE Recorded(r)' \/ Excused(r)'
    <3>1. Recorded(r) => Recorded(r)'
      BY <1>2, StaysRecorded
    <3> QED
      BY <1>13, <1>15, <3>1 DEF Journal
  <2> QED
    BY <1>1, <1>14, <1>15, <2>1
<1>16. ASSUME "memory" \in wired, ending' # "newline" PROVE ExcusedHere'
  <2>1. "memory" \in errors'
    BY <1>12, <1>16 DEF Written
  <2>2. "memory" \in result.errors /\ cycle_number' - 1 = cycle_number
    BY <1>1, <1>3, <1>4, <2>1
  <2> QED
    BY <1>1, <1>3, <2>2 DEF ExcusedHere
<1>17. ending' # "newline" => lines' # <<>>
  BY <1>2 DEF Appended
<1> QED
  BY <1>1, <1>8, <1>9, <1>10, <1>15, <1>16, <1>17 DEF Journal

LEMMA DeathJournal ==
  ASSUME Types, Journal, Die
  PROVE  Journal'
<1>1. /\ pc # "down" /\ pc' = "down" /\ process' = process + 1 /\ cycle_number' = 0
      /\ results' = results /\ wired' = wired
      /\ Here' = [process |-> process + 1, cycle |-> 0]
  BY DEF Die, Here
<1>2. PICK line \in Line :
        /\ line.kind = "cycle" => line = CycleEvent(process, cycle_number)
        /\ Written(line) \/ Left(line) \/ UNCHANGED <<memory, failures>>
  BY LinesTyped DEF Die, Anomaly
<1>3. lines' \in Seq(Line) /\ Appended(line)
  BY <1>2, AppendTyped, LinesTyped DEF Journal
<1>4. /\ \A i, j \in DOMAIN lines' :
           i < j /\ lines'[i].kind = "cycle" /\ lines'[j].kind = "cycle"
             => Earlier(lines'[i], lines'[j])
      /\ \A i \in DOMAIN lines' : lines'[i].kind = "cycle" =>
           \/ i \in DOMAIN lines /\ lines'[i] = lines[i] /\ Earlier(lines'[i], Here)
           \/ lines'[i] = CycleEvent(process, cycle_number)
  BY <1>2, <1>3, StaysOrdered
<1>5. process \in Nat /\ cycle_number \in Nat
  BY HereTyped
<1>6. ASSUME NEW a, a.process \in Nat, a.process <= process PROVE Earlier(a, Here')
  BY <1>1, <1>5, <1>6 DEF Earlier
<1>7. ASSUME NEW a, a.process \in Nat, Earlier(a, Here) PROVE a.process <= process
  BY <1>5, <1>7 DEF Earlier, Here
<1>8. \A i \in DOMAIN lines' : lines'[i].kind = "cycle" => Earlier(lines'[i], Here')
  <2> SUFFICES ASSUME NEW i \in DOMAIN lines', lines'[i].kind = "cycle"
               PROVE  Earlier(lines'[i], Here')
    OBVIOUS
  <2>3. lines'[i] \in Line
    BY <1>3
  <2>1. lines'[i].process \in Nat
    BY <2>3 DEF Line
  <2>2. lines'[i].process <= process
    BY <1>4, <1>5, <1>7, <2>1 DEF CycleEvent
  <2> QED
    BY <1>6, <2>1, <2>2
<1>9. \A r \in results' : Earlier(r, Here')
  BY <1>1, <1>6, <1>7, HereTyped DEF Journal
<1>10. EventsTellOfCycles'
  <2>1. ASSUME NEW e \in OnFile', e.kind = "cycle"
        PROVE  \/ \E r \in results' : e = CycleEvent(r.process, r.cycle)'
               \/ e.process < process' /\ \A r \in results' : r.process = e.process => r.cycle < e.cycle
    <3>1. e \in OnFile \/ e = CycleEvent(process, cycle_number)
      BY <1>4, <2>1 DEF OnFile
    <3>2. CASE e = CycleEvent(process, cycle_number)
      <4>1. e.process = process /\ e.cycle = cycle_number
        BY <3>2 DEF CycleEvent
      <4>2. \A r \in results : r.process = process => r.cycle < cycle_number
        BY <1>5, HereTyped DEF Journal, Earlier
      <4> QED
        BY <1>1, <1>5, <4>1, <4>2
    <3>3. CASE e \in OnFile
      <4>1. CASE \E r \in results : e = CycleEvent(r.process, r.cycle)
        BY <1>1, <4>1 DEF CycleEvent
      <4>2. CASE e.process < process /\ \A r \in results : r.process = e.process => r.cycle < e.cycle
        <5>1. e.process \in Nat
          BY <3>3, HereTyped DEF OnFile
        <5> QED
          BY <1>1, <1>5, <4>2, <5>1
      <4> QED
        BY <2>1, <3>3, <4>1, <4>2 DEF Journal, EventsTellOfCycles
    <3> QED
      BY <3>1, <3>2, <3>3
  <2> QED
    BY <1>4, <2>1 DEF EventsTellOfCycles
<1>11. ASSUME NEW r \in results', "memory" \in wired' PROVE Recorded(r)' \/ Excused(r)'
  <2>1. Recorded(r) => Recorded(r)'
    BY <1>3, StaysRecorded
  <2>2. Excused(r) => Excused(r)'
    BY <1>1 DEF Excused
  <2> QED
    BY <1>1, <1>11, <2>1, <2>2 DEF Journal
<1>12. ending' # "newline" => lines' # <<>>
  BY <1>3 DEF Appended
<1>13. process' > 0
  BY <1>1, <1>5
<1> QED
  BY <1>1, <1>8, <1>9, <1>10, <1>11, <1>12, <1>13 DEF Journal

LEMMA StepJournal ==
  ASSUME Types, Calls, Journal, [Next]_vars
  PROVE  Journal'
<1>1. CASE AppendAnomaly \/ Memory \/ Die
  BY <1>1, AnomalyJournal, MemoryJournal, DeathJournal
<1>2. CASE BeginCycle
  BY <1>2, JournalUntouched DEF BeginCycle
<1>3. CASE Sensory \/ SkipSelfModel \/ SelfModelFails \/ WriteSnapshot \/ WriteTrends \/ SkipCoherence
  BY <1>3, JournalUntouched DEF Sensory, SkipSelfModel, SelfModelFails, WriteSnapshot, WriteTrends,
     SkipCoherence, Skips, Returns, Raises, locals
<1>4. CASE ReadSeeds \/ WriteIndex \/ RewriteTrends \/ Forecast \/ SkipFeedback \/ Feedback
  BY <1>4, JournalUntouched DEF ReadSeeds, WriteIndex, RewriteTrends, Forecast, SkipFeedback,
     Feedback, Skips, Returns, Raises
<1>5. CASE StartAgain
  BY <1>5, JournalUntouched DEF StartAgain
<1>6. CASE UNCHANGED vars
  BY <1>6, JournalUntouched DEF vars, locals
<1> QED
  BY <1>1, <1>2, <1>3, <1>4, <1>5, <1>6 DEF Next


THEOREM RunnerInvariant == Spec => []IInv
<1>1. IInv /\ [Next]_vars => IInv'
  BY StepTypes, StepCalls, StepFiles, StepResults, StepScores, StepJournal DEF IInv
<1> QED
  BY <1>1, InitIInv, PTL DEF Spec

-----------------------------------------------------------------------------
(* What follows from it.                                                   *)

(* Every variable of the runner keeps its type.                            *)
THEOREM RunnerTyped == Spec => []TypeOK
<1>1. IInv => TypeOK
  BY DEF IInv, Types
<1> QED
  BY <1>1, RunnerInvariant, PTL

(* The index on disk is always that of the snapshot on disk; the trends    *)
(* are never ahead of it, and in step with it after a cycle with a report. *)
THEOREM FilesStayInAgreement == Spec => []SnapshotFilesAgree
<1>1. IInv => SnapshotFilesAgree
  BY DEF IInv, Files, Results, SnapshotFilesAgree, TrendsFollowSnapshot
<1> QED
  BY <1>1, RunnerInvariant, PTL

(* A report of another cycle's snapshot comes with a self-model error.     *)
THEOREM StaleReportsAreFlagged == Spec => []StaleReportIsFlagged
<1>1. ASSUME IInv, CycleOver, "self_model" \in wired \ errors, report >= 0
      PROVE  report > 0 /\ report = snapshot /\ report = ticks
  <2>1. "self_model" \in attempted
    BY <1>1 DEF IInv, Calls, EveryModuleIsCalled
  <2>2. report \in Nat \union {-1}
    BY <1>1 DEF IInv, Types, TypeOK
  <2> QED
    BY <1>1, <2>1, <2>2 DEF IInv, Results
<1>2. IInv => StaleReportIsFlagged
  BY <1>1 DEF StaleReportIsFlagged
<1> QED
  BY <1>2, RunnerInvariant, PTL

(* A cycle whose self-model and coherence steps succeed leaves its own     *)
(* snapshot on disk, with its index.                                       *)
THEOREM GoodCyclesArePublished == Spec => []GoodCycleIsPublished
<1>1. ASSUME IInv, CycleOver, {"self_model", "coherence"} \subseteq wired \ errors
      PROVE  snapshot_file = [tick |-> snapshot, index |-> snapshot] /\ snapshot = ticks
  <2>1. {"self_model", "coherence"} \subseteq attempted \ errors
    BY <1>1 DEF IInv, Calls, EveryModuleIsCalled
  <2>2. report >= 0 /\ snapshot = ticks /\ ticks > 0
    BY <1>1, <2>1 DEF IInv, Results
  <2>3. report \in Nat \union {-1} /\ snapshot_file \in [tick: Nat, index: Nat]
    BY <1>1 DEF IInv, Types, TypeOK
  <2>4. report = ticks /\ snapshot_file.index = ticks /\ snapshot_file.tick = ticks
    BY <1>1, <2>2, <2>3 DEF IInv, Results, Files
  <2> QED
    BY <2>2, <2>3, <2>4
<1>2. IInv => GoodCycleIsPublished
  BY <1>1 DEF GoodCycleIsPublished
<1> QED
  BY <1>2, RunnerInvariant, PTL

(* Whatever fails in a cycle, every wired module is called in it.          *)
THEOREM FaultsAreIsolated == Spec => []EveryModuleIsCalled
<1>1. IInv => EveryModuleIsCalled
  BY DEF IInv, Calls
<1> QED
  BY <1>1, RunnerInvariant, PTL

(* The clock of the feedback loop stays with the cycle number, every       *)
(* forecast is scored in the cycle it is due in and once, and none waits   *)
(* past it, unless a resolve raised: for all distances.                    *)
THEOREM FeedbackStaysInTime == Spec => []FeedbackInTime
<1>1. IInv => FeedbackInTime
  BY DEF IInv, Scores, FeedbackInTime, NothingOverdue
<1> QED
  BY <1>1, RunnerInvariant, PTL

(* The events in the memory file are those of the cycles, in their order   *)
(* and once each, and one that is missing is explained by the errors of    *)
(* its cycle or the one before it, or by the process before it; whatever   *)
(* appends fail, of the runner or of the self-model, and leave whatever    *)
(* part of their line, and wherever processes die.                         *)
THEOREM MemoryTellsEveryCycle == Spec => []MemoryTellsOfCycles
<1>1. ASSUME NEW r, Recorded(r) PROVE CycleEvent(r.process, r.cycle) \in OnFile
  BY <1>1 DEF Recorded, OnFile
<1>2. IInv => MemoryTellsOfCycles
  BY <1>1 DEF IInv, Journal, Excused, MemoryTellsOfCycles, MissingEventsAreExplained
<1> QED
  BY <1>2, RunnerInvariant, PTL
===============================================================================
