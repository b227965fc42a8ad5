------------------------------- MODULE PlanTree -------------------------------
(***************************************************************************)
(* PlanTree (core/planner/plan_tree.py): plan threads with a confidence    *)
(* gate, rewritten as a whole to plan_tree.json after every change.  Every *)
(* operation changes memory first and writes afterwards, so a failed write *)
(* raises with the change kept in memory.  Confidences are in the units of *)
(* Calibration, a confidence c standing for c/Unit.                        *)
(***************************************************************************)
EXTENDS Integers

CONSTANTS
  Threads,           \* thread ids (uuids; each is used for one thread)
  AbandonThreshold   \* abandon_threshold

ASSUME PlanTreeAssumption == AbandonThreshold \in Int

VARIABLES
  threads,       \* _threads
  thread_file,   \* plan_tree.json
  thread_writes  \* history: "ok" if no write of the file has failed, "lagging"
                 \* if the last one has, "recovered" if only earlier ones have

planVars == <<threads, thread_file, thread_writes>>

\* gated is history: update_confidence has been applied to the thread.
NoThread == [status |-> "absent", confidence |-> 0, forecast_ids |-> {}, gated |-> FALSE]

PlanInit ==
  /\ threads = [t \in Threads |-> NoThread]
  /\ thread_file = threads
  /\ thread_writes = "ok"

\* How the history goes on when memory and file agree again.
Recovered == IF thread_writes = "lagging" THEN "recovered" ELSE thread_writes

\* mistake: the threads are written before the change
PersistBefore(written) ==
  /\ thread_file' = IF written THEN threads ELSE thread_file
  /\ thread_writes' = IF written THEN Recovered ELSE "lagging"

PersistThreads(written) ==
  /\ thread_file' = IF written THEN threads' ELSE thread_file
  /\ thread_writes' = IF written THEN Recovered ELSE "lagging"

\* add_thread does not compare the initial confidence with the threshold.
AddThread(t, confidence, ids, written) ==
  /\ threads[t].status = "absent"
  /\ threads' = [threads EXCEPT ![t] =
       [status |-> "active", confidence |-> confidence, forecast_ids |-> ids, gated |-> FALSE]]
  /\ PersistThreads(written)

\* mistakes: the gate is forgotten; a passed gate activates the thread
UpdateUngated(t, confidence, below, written) ==
  /\ threads[t].status # "absent"
  /\ threads' = [threads EXCEPT ![t].confidence = confidence, ![t].gated = TRUE]
  /\ PersistThreads(written)
UpdateActivating(t, confidence, below, written) ==
  /\ threads[t].status # "absent"
  /\ threads' = [threads EXCEPT ![t].confidence = confidence, ![t].gated = TRUE,
       ![t].status = IF below THEN "abandoned" ELSE "active"]
  /\ PersistThreads(written)

\* update_confidence: below is whether the new confidence, before it is
\* rounded to confidence, is below the threshold.  The status is not looked at.
UpdateConfidence(t, confidence, below, written) ==
  /\ threads[t].status # "absent"
  /\ threads' = [threads EXCEPT
       ![t].confidence = confidence,
       ![t].status = IF below THEN "abandoned" ELSE @,
       ![t].gated = TRUE]
  /\ PersistThreads(written)

\* complete does not look at the status either.
Complete(t, written) ==
  /\ threads[t].status # "absent"
  /\ threads' = [threads EXCEPT ![t].status = "completed"]
  /\ PersistThreads(written)

ActiveThreads == {t \in Threads : threads[t].status = "active"}

\* _load, in the constructor of a new process.
LoadThreads ==
  /\ threads' = thread_file
  /\ thread_writes' = Recovered
  /\ UNCHANGED thread_file

Statuses == {"absent", "active", "completed", "abandoned"}

\* A table of threads: every thread has its four fields, two of them typed.
Table(th) ==
  /\ DOMAIN th = Threads
  /\ \A t \in Threads : /\ DOMAIN th[t] = {"status", "confidence", "forecast_ids", "gated"}
                        /\ th[t].status \in Statuses
                        /\ th[t].gated \in BOOLEAN

PlanTypeOK ==
  /\ Table(threads)
  /\ Table(thread_file)
  /\ thread_writes \in {"ok", "lagging", "recovered"}
=============================================================================
