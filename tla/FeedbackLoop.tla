----------------------------- MODULE FeedbackLoop -----------------------------
(***************************************************************************)
(* ForecastFeedbackLoop (core/planner/feedback_loop.py) with the two       *)
(* stores it drives.  The caller registers forecasts, then once per cycle  *)
(* calls resolve, which scores every forecast that has matured against the *)
(* values just observed, refreshes the plan threads linked to it, and only *)
(* at the very end forgets the forecasts it resolved.                      *)
(*                                                                         *)
(* resolve is not atomic: it writes calibration.json once per field and    *)
(* plan_tree.json once per linked thread.  The process may die, and each   *)
(* write may fail, between any two of these steps.  A failed calibration   *)
(* write is swallowed (lines 96-100); a failed plan-tree write leaves      *)
(* resolve through its caller's handler (core/daemon/cycle.py:91-98).      *)
(***************************************************************************)
EXTENDS Calibration, PlanTree, Sequences, FiniteSets, Functions

CONSTANTS
  Distance,       \* horizon -> cycle_distance
  Confidences,    \* confidences a caller may give a thread
  Missing,        \* an observation without the field
  MaxForecasts,   \* cap on the forecasts registered
  MaxCycles,      \* cap on the resolutions of one process
  MaxAborts,      \* cap on the resolutions a failed plan-tree write aborts
  MaxRestarts     \* cap on the process's restarts

ASSUME FeedbackAssumption ==
  /\ Distance \in [Horizons -> Nat \ {0}]
  /\ Missing \notin Int
  /\ IsFiniteSet(Fields)
  /\ Confidences \subseteq Int
  /\ {MaxForecasts, MaxCycles, MaxAborts, MaxRestarts} \subseteq Nat

Ids == 1..MaxForecasts

VARIABLES
  cycle,        \* _cycle
  pending,      \* the keys of _pending
  forecasts,    \* what each id was registered with; ids are numbered in order
  (* the local state of a resolve in progress *)
  pc,           \* "idle" outside resolve
  actual,       \* actual_values
  todo,         \* mature forecasts not resolved yet
  current,      \* the one being visited
  unscored,     \* its fields not scored yet
  unrefreshed,  \* its linked active threads not refreshed yet
  resolved,     \* resolved_ids
  (* history *)
  scored,       \* how often each forecast has been scored, by field
  settled,      \* forecasts a resolve has removed from _pending
  lost,         \* forecasts forgotten by a restart
  aborts,       \* resolutions left through an exception
  aborted,      \* the last resolution of this process was left that way
  restarts

locals  == <<actual, todo, current, unscored, unrefreshed, resolved>>
ledger  == <<cycle, pending, forecasts>>
history == <<scored, settled, lost, aborts, aborted, restarts>>
vars == <<calibrationVars, planVars, ledger, pc, locals, history>>

ClearLocals ==
  /\ actual' = [f \in Fields |-> Missing]
  /\ todo' = {} /\ current' = 0 /\ unscored' = {} /\ unrefreshed' = {} /\ resolved' = {}

Init ==
  /\ CalibrationInit
  /\ PlanInit
  /\ cycle = 0
  /\ pending = {}
  /\ forecasts = <<>>
  /\ pc = "idle"
  /\ actual = [f \in Fields |-> Missing]
  /\ todo = {} /\ current = 0 /\ unscored = {} /\ unrefreshed = {} /\ resolved = {}
  /\ scored = [id \in Ids |-> [f \in Fields |-> 0]]
  /\ settled = {} /\ lost = {}
  /\ aborts = 0 /\ aborted = FALSE /\ restarts = 0

-----------------------------------------------------------------------------
(* Between resolutions.                                                    *)

\* register.  The cap on cycles leaves the forecast time to mature and to be
\* resolved again after every abort.
Register(h, predictions) ==
  /\ pc = "idle"
  /\ Len(forecasts) < MaxForecasts
  /\ cycle + Distance[h] + MaxAborts <= MaxCycles
  /\ forecasts' = Append(forecasts,
       [horizon |-> h, registered_cycle |-> cycle, predictions |-> predictions])
  /\ pending' = pending \union {Len(forecasts) + 1}
  /\ UNCHANGED <<calibrationVars, planVars, cycle, pc, locals, history>>

\* The caller starts a thread linked to forecasts that are still open, with
\* any confidence, or completes or re-rates one.
CallAddThread(t, confidence, ids, written) ==
  /\ pc = "idle"
  /\ AddThread(t, confidence, ids, written)
  /\ UNCHANGED <<calibrationVars, ledger, pc, locals, history>>

CallUpdateConfidence(t, confidence, written) ==
  /\ pc = "idle"
  /\ UpdateConfidence(t, confidence, confidence < AbandonThreshold, written)
  /\ UNCHANGED <<calibrationVars, ledger, pc, locals, history>>

CallComplete(t, written) ==
  /\ pc = "idle"
  /\ Complete(t, written)
  /\ UNCHANGED <<calibrationVars, ledger, pc, locals, history>>

-----------------------------------------------------------------------------
(* resolve, step by step.                                                  *)

\* mistake: a forecast is mature in one cycle only
MatureExactly(id, now) ==
  now - forecasts[id].registered_cycle = Distance[forecasts[id].horizon]

MatureAt(id, now) ==
  now - forecasts[id].registered_cycle >= Distance[forecasts[id].horizon]

\* mistake: maturity is tested before the cycle is counted
BeginResolveLate(observed) ==
  /\ pc = "idle" /\ cycle < MaxCycles
  /\ cycle' = cycle + 1
  /\ actual' = observed
  /\ todo' = {id \in pending : MatureAt(id, cycle)}
  /\ pc' = "scan"
  /\ UNCHANGED <<calibrationVars, planVars, pending, forecasts, current, unscored,
                 unrefreshed, resolved, history>>

BeginResolve(observed) ==
  /\ pc = "idle"
  /\ cycle < MaxCycles
  /\ cycle' = cycle + 1
  /\ actual' = observed
  /\ todo' = {id \in pending : MatureAt(id, cycle')}
  /\ pc' = "scan"
  /\ UNCHANGED <<calibrationVars, planVars, pending, forecasts, current, unscored,
                 unrefreshed, resolved, history>>

\* The dictionary is walked in the order of registration.
Visit(id) ==
  /\ pc = "scan"
  /\ id \in todo
  /\ \A other \in todo : id <= other
  /\ current' = id
  /\ unscored' = Fields
  /\ pc' = "score"
  /\ UNCHANGED <<calibrationVars, planVars, ledger, actual, todo, unrefreshed, resolved, history>>

\* A field that was not observed counts as predicted exactly (line 93).
ScoreField(f, written) ==
  LET h == forecasts[current].horizon
      predicted == forecasts[current].predictions[f]
      observed == IF actual[f] = Missing THEN predicted ELSE actual[f]
  IN  /\ pc = "score"
      /\ f \in unscored
      /\ UpdateRecord(f, h, predicted, observed, written)
      /\ scored' = [scored EXCEPT ![current][f] = @ + 1]
      /\ unscored' = unscored \ {f}
      /\ UNCHANGED <<planVars, ledger, pc, actual, todo, current, unrefreshed, resolved,
                     settled, lost, aborts, aborted, restarts>>

\* mistake: a thread linked to several forecasts is passed over
CollectLinkedOnly ==
  /\ pc = "score" /\ unscored = {}
  /\ unrefreshed' = {t \in ActiveThreads : threads[t].forecast_ids = {current}}
  /\ pc' = "refresh"
  /\ UNCHANGED <<calibrationVars, planVars, ledger, actual, todo, current, unscored, resolved, history>>

CollectLinked ==
  /\ pc = "score"
  /\ unscored = {}
  /\ unrefreshed' = {t \in ActiveThreads : current \in threads[t].forecast_ids}
  /\ pc' = "refresh"
  /\ UNCHANGED <<calibrationVars, planVars, ledger, actual, todo, current, unscored, resolved, history>>

\* The fields of the visited forecast that have a record, and the sum of
\* what is left to 1 of their mean absolute errors.
Recorded == {f \in Fields : HasRecord(f, forecasts[current].horizon)}
Trust == SumFunction([f \in Recorded |-> Unit - records[<<f, forecasts[current].horizon>>].mae])

\* The mean of Trust, or 0.5 when there is none, is compared as it is, and
\* stored rounded.
RefreshedConfidence == IF Recorded = {} THEN Unit \div 2 ELSE RoundedDiv(Trust, Cardinality(Recorded))
FallsBelow == IF Recorded = {} THEN Unit < 2 * AbandonThreshold
                               ELSE Trust < AbandonThreshold * Cardinality(Recorded)

RefreshThread(t) ==
  /\ pc = "refresh"
  /\ t \in unrefreshed
  /\ UpdateConfidence(t, RefreshedConfidence, FallsBelow, TRUE)
  /\ unrefreshed' = unrefreshed \ {t}
  /\ UNCHANGED <<calibrationVars, ledger, pc, actual, todo, current, unscored, resolved, history>>

\* The write of the refreshed thread fails: resolve ends there, with the
\* cycle counted, the samples kept and every forecast still pending.
AbortResolve(t) ==
  /\ pc = "refresh"
  /\ aborts < MaxAborts
  /\ t \in unrefreshed
  /\ UpdateConfidence(t, RefreshedConfidence, FallsBelow, FALSE)
  /\ pc' = "idle"
  /\ ClearLocals
  /\ aborts' = aborts + 1
  /\ aborted' = TRUE
  /\ UNCHANGED <<calibrationVars, ledger, scored, settled, lost, restarts>>

Leave ==
  /\ pc = "refresh"
  /\ unrefreshed = {}
  /\ resolved' = resolved \union {current}
  /\ todo' = todo \ {current}
  /\ pc' = "scan"
  /\ UNCHANGED <<calibrationVars, planVars, ledger, actual, current, unscored, unrefreshed, history>>

\* mistake: a forecast that matures next is forgotten as well
EndResolveSweeping ==
  /\ pc = "scan" /\ todo = {}
  /\ pending' = {id \in pending : ~MatureAt(id, cycle + 1)}
  /\ settled' = settled \union resolved
  /\ pc' = "idle" /\ aborted' = FALSE
  /\ ClearLocals
  /\ UNCHANGED <<calibrationVars, planVars, cycle, forecasts, scored, lost, aborts, restarts>>

EndResolve ==
  /\ pc = "scan"
  /\ todo = {}
  /\ pending' = pending \ resolved
  /\ settled' = settled \union resolved
  /\ pc' = "idle"
  /\ aborted' = FALSE
  /\ ClearLocals
  /\ UNCHANGED <<calibrationVars, planVars, cycle, forecasts, scored, lost, aborts, restarts>>

-----------------------------------------------------------------------------
\* The process dies, at any point, and a new one loads the two files; the
\* feedback loop itself keeps nothing on disk.
Restart ==
  /\ restarts < MaxRestarts
  /\ LoadRecords
  /\ LoadThreads
  /\ cycle' = 0
  /\ pending' = {}
  /\ pc' = "idle"
  /\ ClearLocals
  /\ lost' = lost \union pending
  /\ aborted' = FALSE
  /\ restarts' = restarts + 1
  /\ UNCHANGED <<forecasts, scored, settled, aborts>>

Call ==
  \/ \E h \in Horizons, predictions \in [Fields -> Predicted] : Register(h, predictions)
  \/ \E t \in Threads, c \in Confidences, ids \in SUBSET pending, written \in BOOLEAN :
       CallAddThread(t, c, ids, written)
  \/ \E t \in Threads, c \in Confidences, written \in BOOLEAN : CallUpdateConfidence(t, c, written)
  \/ \E t \in Threads, written \in BOOLEAN : CallComplete(t, written)

Resolve ==
  \/ \E observed \in [Fields -> Observed \union {Missing}] : BeginResolve(observed)
  \/ \E id \in todo : Visit(id)
  \/ \E f \in unscored, written \in BOOLEAN : ScoreField(f, written)
  \/ CollectLinked
  \/ \E t \in unrefreshed : RefreshThread(t) \/ AbortResolve(t)
  \/ Leave
  \/ EndResolve

Next == Call \/ Resolve \/ Restart

Safety == Init /\ [][Next]_vars

\* The daemon calls resolve every cycle, and resolve takes its steps.
Spec == Safety /\ WF_vars(Resolve)

-----------------------------------------------------------------------------
(* What a forecast is registered with.                                    *)
Forecast == [horizon: Horizons, registered_cycle: Nat, predictions: [Fields -> Predicted]]

(* A resolve works on open forecasts only, and what is open was registered. *)
LoopTypes ==
  /\ forecasts \in Seq(Forecast)
  /\ Len(forecasts) <= MaxForecasts
  /\ cycle \in Nat /\ aborts \in Nat /\ restarts \in Nat
  /\ pending \subseteq 1..Len(forecasts)
  /\ settled \subseteq 1..Len(forecasts)
  /\ pending \intersect settled = {}
  /\ pc \in {"idle", "scan", "score", "refresh"}
  /\ actual \in [Fields -> Observed \union {Missing}]
  /\ todo \subseteq pending /\ resolved \subseteq pending
  /\ unscored \subseteq Fields
  /\ unrefreshed \subseteq Threads
  /\ scored \in [Ids -> [Fields -> Nat]]

(* Every variable has its type, and a forecast is open or settled, not both. *)
TypeOK == CalibrationTypeOK /\ PlanTypeOK /\ LoopTypes

(* Between resolutions no mature forecast is waiting, unless the last      *)
(* resolution was aborted by a failed plan-tree write: "resolves them when *)
(* their cycle_distance has elapsed" (feedback_loop.py:4-5).               *)
NothingOverdue == pc = "idle" /\ ~aborted => \A id \in pending : ~MatureAt(id, cycle)

(* No forecast of this process is scored before its distance has elapsed.  *)
NeverScoredEarly ==
  \A id \in pending, f \in Fields : scored[id][f] > 0 => MatureAt(id, cycle)

(* A settled forecast has been scored on every field, and on each field    *)
(* once, or once more for every resolution that was aborted before it      *)
(* could be forgotten.                                                     *)
ScoredOnce ==
  \A id \in settled, f \in Fields : scored[id][f] >= 1 /\ scored[id][f] <= 1 + aborts

(* What is promised of a forecast: it is scored when its distance has      *)
(* elapsed, not before and not left waiting, and once.                     *)
ScoredInTimeAndOnce == NothingOverdue /\ NeverScoredEarly /\ ScoredOnce

(* The files differ from memory only after a failed write: the next        *)
(* successful one makes up for every failure before it.                    *)
FilesLagOnlyAfterFailure ==
  /\ ~records_lag => record_file = records
  /\ thread_writes # "lagging" => thread_file = threads

(* An active thread whose confidence was ever refreshed is at or above the *)
(* threshold, in memory and in the file; only a refresh abandons one.      *)
GateHolds ==
  \A t \in Threads : \A thread \in {threads[t], thread_file[t]} :
    /\ thread.status = "active" /\ thread.gated => thread.confidence >= AbandonThreshold
    /\ thread.status = "abandoned" => thread.gated

(* A thread still active when a forecast it is linked to has been settled  *)
(* has been refreshed; but a restart undoes a refresh that never reached   *)
(* the file, and nothing repeats it.                                       *)
SettledRefreshesLinked ==
  restarts = 0 \/ thread_writes = "ok" =>
    \A t \in ActiveThreads :
      threads[t].forecast_ids \intersect settled # {} => threads[t].gated

(* A thread whose end has reached the file never becomes active again.     *)
Ended == {"completed", "abandoned"}
EndIsDurable ==
  [][\A t \in Threads : thread_file[t].status \in Ended => thread_file'[t].status \in Ended]_vars

(* Every registered forecast is settled, or forgotten by a restart.        *)
EveryForecastSettles ==
  \A id \in Ids : (id \in pending) ~> (id \in settled \union lost)

(* The loop implements the ledger of open forecasts.                       *)
Ledger == INSTANCE ForecastLedger WITH
  Distances <- {Distance[h] : h \in Horizons},
  clock <- IF pc = "idle" THEN cycle ELSE cycle - 1,
  open <- pending,
  due <- [id \in Ids |->
            IF id <= Len(forecasts)
            THEN forecasts[id].registered_cycle + Distance[forecasts[id].horizon] ELSE 0]

ImplementsLedger == Ledger!Spec
=============================================================================
