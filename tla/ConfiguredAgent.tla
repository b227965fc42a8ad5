---------------------------- MODULE ConfiguredAgent ----------------------------
(***************************************************************************)
(* A turn of a configured agent (run_agent_scenario,                       *)
(* core/runtime/configured_agent.py): the configuration is loaded          *)
(* (AgentConfig), the events of the scenario are retained and appended to  *)
(* its file one by one, then the action of the scenario is routed, judged  *)
(* and audited in memory, and then a model provider may be asked, whose    *)
(* tool proposals are judged like actions.                                 *)
(*                                                                         *)
(* Every turn is a process of its own; several may use one directory of    *)
(* files at once.  The settings do not change meanwhile, so they are       *)
(* loaded once for all of them.  A turn can fail, or its process die, at   *)
(* any step; see MemoryStore for what a failed append leaves in the file.  *)
(***************************************************************************)
EXTENDS AgentConfig, ConfiguredPolicies, ModelProviders

CONSTANTS
  Turns,         \* the processes
  Calls,         \* [scenario, approve, provider, ready]: how one may be started
  Nobody

\* An unknown scenario is refused.
AVAILABLE_SCENARIOS == {"project-companion", "support-continuity", "operations-observer",
                        "safety-gate", "temporal-layering", "persistent-identity"}

ASSUME AgentAssumption ==
  /\ Nobody \notin Turns
  /\ \A c \in Calls : c.scenario \in AVAILABLE_SCENARIOS
-----------------------------------------------------------------------------
(* The scenarios; a number stands for hundredths *)

Event(type, kind, customer) ==
  [type |-> type, kind |-> kind, provenance |-> TRUE, customer |-> customer]

Signal(urgency, risk, value, stability) ==
  [urgency |-> urgency, risk |-> risk, user_value |-> value, stability |-> stability]

Companion ==
  [file |-> "project_companion",
   events |-> <<Event("project_goal", "checkpoint", "none"),
                Event("project_decision", "checkpoint", "none"),
                Event("project_constraint", "checkpoint", "none")>>,
   signal |-> Signal(35, 20, 80, 85),
   action |-> "review_project_state", mode |-> "observe", mutates |-> FALSE]

Support ==
  [file |-> "support_continuity",
   events |-> <<Event("support_issue_opened", "session", "plain"),
                Event("support_handoff_note", "session", "plain")>>,
   signal |-> Signal(80, 70, 90, 40),
   action |-> "make_support_promise", mode |-> "act", mutates |-> FALSE]

Operations ==
  [file |-> "operations_observer",
   events |-> <<Event("synthetic_telemetry", "session", "none"),
                Event("audit_event", "audit", "none")>>,
   signal |-> Signal(90, 80, 70, 20),
   action |-> "restart_service", mode |-> "act", mutates |-> TRUE]

Temporal ==
  [file |-> "temporal_layering",
   events |-> <<Event("temporal_observation", "audit", "none")>>,
   signal |-> Signal(70, 70, 50, 30),
   action |-> "review_temporal_trace", mode |-> "observe", mutates |-> FALSE]

Identity ==
  [file |-> "persistent_identity",
   events |-> <<Event("identity_checkpoint", "checkpoint", "none")>>,
   signal |-> Signal(10, 10, 60, 90),
   action |-> "restore_identity_state", mode |-> "observe", mutates |-> FALSE]

Scenario(call) ==
  CASE call.scenario = "project-companion" -> Companion
    [] call.scenario = "support-continuity" -> Support
    [] call.scenario \in {"operations-observer", "safety-gate"} -> Operations
    [] call.scenario = "temporal-layering" -> Temporal
    [] call.scenario = "persistent-identity" -> Identity

\* The safety gate withholds the approval it is given.
Approved(call) == call.approve /\ call.scenario = "operations-observer"

ScenarioRequest(call) ==
  [action |-> Scenario(call).action, mode |-> Scenario(call).mode,
   mutates |-> Scenario(call).mutates, confirmed |-> Approved(call), secret |-> FALSE]

\* mistake: the approval of the turn holds for what the provider proposes
ProviderRequestApproved(call, p) ==
  [action |-> p.action, mode |-> IF p.mutates THEN "act" ELSE "plan",
   mutates |-> p.mutates, confirmed |-> Approved(call), secret |-> p.secret]

ProviderRequest(call, p) ==
  [action |-> p.action, mode |-> IF p.mutates THEN "act" ELSE "plan",
   mutates |-> p.mutates, confirmed |-> FALSE, secret |-> p.secret]

\* A constraint that was retained contradicts the change that is proposed.
Contradicted(events) == \E i \in DOMAIN events : events[i].type = "project_constraint"

Types(events) == [i \in DOMAIN events |-> events[i].type]
-----------------------------------------------------------------------------
VARIABLES
  files,     \* [lines, ending] of each: see MemoryStore
  turn       \* of each process

vars == <<loadVars, files, turn>>

Files == {"project_companion", "support_continuity", "operations_observer",
          "temporal_layering", "persistent_identity"}

\* "kept": the events to append, of which "done" have been; the audit is made
\* before the provider is asked, whose proposals are judged after that.
Idle == [at |-> "idle", kept |-> <<>>, done |-> 0]

Init ==
  /\ LoadInit
  /\ files = [f \in Files |-> [lines |-> <<>>, ending |-> "newline"]]
  /\ turn = [t \in Turns |-> Idle]

Broken == [by |-> Nobody]
Store(t) == Scenario(turn[t].call).file

Begin(t, call) ==
  /\ load = "done" /\ turn[t].at = "idle"
  /\ turn' = [turn EXCEPT ![t] = [at |-> "open", call |-> call, kept |-> <<>>, done |-> 0]]
  /\ UNCHANGED <<loadVars, files>>

\* persist: the events are filtered, which raises for a mode it does not know,
\* and the file is read, which raises for a line that does not parse.
Open(t) ==
  /\ turn[t].at = "open"
  /\ turn' = IF /\ policy.retention_mode \in Modes
                /\ \A i \in DOMAIN files[Store(t)].lines : files[Store(t)].lines[i] # Broken
             THEN [turn EXCEPT ![t].at = "write",
                               ![t].kept = Retain(policy, Scenario(turn[t].call).events)]
             ELSE [turn EXCEPT ![t].at = "failed"]
  /\ UNCHANGED <<loadVars, files>>

Line(t) == [by |-> t, event |-> turn[t].kept[turn[t].done + 1]]

\* On a line of its own, or at the end of one that was left unfinished
Extend(file, line) ==
  IF file.ending = "newline" THEN Append(file.lines, line)
                             ELSE [file.lines EXCEPT ![Len(file.lines)] = Broken]

Put(t, line, ending) ==
  /\ turn[t].at = "write" /\ turn[t].done < Len(turn[t].kept)
  /\ files' = [files EXCEPT ![Store(t)] = [lines |-> Extend(@, line), ending |-> ending]]
  /\ UNCHANGED loadVars

Write(t) ==
  /\ Put(t, Line(t), "newline")
  /\ turn' = [turn EXCEPT ![t].done = @ + 1]

\* mistake: the turn goes on after an append that failed
WriteFailsSilently(t) ==
  /\ \/ Put(t, Broken, "torn")
     \/ Put(t, Line(t), IF files[Store(t)].ending = "newline" THEN "whole" ELSE "torn")
     \/ Put(t, Line(t), "newline")
  /\ turn' = [turn EXCEPT ![t].done = @ + 1]

\* The append raises, or the process dies in it, with a part of the line
\* written, all of it but its newline, or all of it.
WriteFails(t) ==
  /\ \/ Put(t, Broken, "torn")
     \/ Put(t, Line(t), IF files[Store(t)].ending = "newline" THEN "whole" ELSE "torn")
     \/ Put(t, Line(t), "newline")
  /\ turn' = [turn EXCEPT ![t].at = "failed"]

\* Anything else raises, or the process dies between two writes.
Die(t) ==
  /\ turn[t].at \in {"open", "write", "provider"}
  /\ turn' = [turn EXCEPT ![t].at = "failed"]
  /\ UNCHANGED <<loadVars, files>>

\* The action is routed, judged and audited.  Only the operations scenario has
\* something to execute.
Decide(t) ==
  /\ turn[t].at = "write" /\ turn[t].done = Len(turn[t].kept)
  /\ LET call == turn[t].call
         score == Score(policy, Scenario(call).signal)
         safety == Evaluate(policy, ScenarioRequest(call))
         audit == [score |-> score, route |-> Route(policy, score, FALSE), safety |-> safety,
                   types |-> Types(turn[t].kept)]
     IN  turn' = [turn EXCEPT ![t] =
           [at |-> IF call.provider = "none" THEN "returned" ELSE "provider",
            call |-> call, kept |-> turn[t].kept, done |-> turn[t].done, audit |-> audit,
            contradicted |-> call.scenario = "project-companion" /\ Contradicted(turn[t].kept),
            executed |-> safety.decision = "allow" /\ Approved(call),
            proposals |-> <<>>, judged |-> <<>>]]
  /\ UNCHANGED <<loadVars, files>>

\* What the provider proposes is judged and not executed.
AskProvider(t, reply) ==
  /\ turn[t].at = "provider"
  /\ LET call == turn[t].call
         answer == Generate(call.provider, call.ready, call.scenario, reply)
     IN  turn' = [turn EXCEPT
           ![t].at = answer.end,
           ![t].proposals = answer.proposals,
           ![t].judged = [i \in DOMAIN answer.proposals |->
                            Evaluate(policy, ProviderRequest(call, answer.proposals[i]))]]
  /\ UNCHANGED <<loadVars, files>>

Persist(t) == Open(t) \/ Write(t) \/ WriteFails(t)

RunScenario(t) ==
  \/ \E call \in Calls : Begin(t, call)
  \/ Persist(t) \/ Decide(t) \/ Die(t)
  \/ \E reply \in Replies \union {Outage} : AskProvider(t, reply)

Next ==
  \/ LoadNext /\ UNCHANGED <<files, turn>>
  \/ \E t \in Turns : RunScenario(t)

Spec == Init /\ [][Next]_vars
-----------------------------------------------------------------------------
\* What a turn retained is in its file line by line and in order.  An event can
\* be missing only where the append of another turn failed and this one was
\* written at its end, one event for each such failure at most.  A turn that
\* was audited has written all that its audit names, also when the provider
\* fails it afterwards and nobody sees the audit.
Own(f, t) == {i \in DOMAIN files[f].lines : files[f].lines[i].by = t}
Users(f) == {t \in Turns : turn[t].at # "idle" /\ Store(t) = f}
Missing(f, t) == {i \in 1..turn[t].done :
                    \A j \in Own(f, t) : files[f].lines[j].event # turn[t].kept[i]}
BrokenLines(f) == {i \in DOMAIN files[f].lines : files[f].lines[i] = Broken}

LinesAccounted ==
  \A f \in Files :
    /\ \A t \in Users(f) :
         /\ \E place \in [Own(f, t) -> DOMAIN turn[t].kept] :
              /\ \A i, j \in Own(f, t) : i < j => place[i] < place[j]
              /\ \A i \in Own(f, t) : files[f].lines[i].event = turn[t].kept[place[i]]
         /\ turn[t].at \in {"provider", "returned", "refused"} =>
              turn[t].done = Len(turn[t].kept) /\ turn[t].audit.types = Types(turn[t].kept)
    /\ SumFunction([t \in Users(f) |-> Cardinality(Missing(f, t))]) <= Cardinality(BrokenLines(f))
    /\ Cardinality(BrokenLines(f)) <= Cardinality({t \in Users(f) : turn[t].at = "failed"})

\* What the files that were merged say of a setting: the nearest of those that
\* give its current name and, only if none does, the nearest of those that give
\* its older one.  A far file with the current name thus stands over a near one
\* with the older name, since the files are merged under the names they use and
\* only the outcome is read under both.
Said(f, default) ==
  LET own == <<"memory_policy", f>>
      old == <<"memory_policy", Alias[f]>>
  IN  IF Holds(own) THEN Nearest(own)[own]
      ELSE IF f \in DOMAIN Alias /\ Holds(old) THEN Nearest(old)[old] ELSE default

KindOf == [session_history |-> {"session", "checkpoint", "audit"},
           explicit_checkpoints |-> {"checkpoint"}, audit_only |-> {"audit"},
           summary_only |-> {"summary"}]

\* The files of memory hold nothing that the configuration, in this sense, has
\* not allowed: neither a customer's name, nor an origin, nor a kind of event,
\* nor more events of one turn than its cap.  The cap is no bound of a file,
\* which grows with every turn, and 0 is no cap.
StoredObeysConfiguration ==
  \A f \in Files :
    /\ \A i \in DOMAIN files[f].lines \ BrokenLines(f) :
         LET e == files[f].lines[i].event
         IN  /\ e.customer = "plain" => Said("retain_sensitive_data", FALSE)
             /\ e.provenance => Said("retain_provenance", FALSE)
             /\ e.kind \in KindOf[Said("retention_mode", "none")]
    /\ \A t \in Turns : Own(f, t) # {} =>
         LET cap == Said("max_session_events", 100)
         IN  cap > 0 => Cardinality(Own(f, t)) <= cap

\* Nothing is done unapproved.  What is denied stays denied with an approval;
\* an approval is for the turn's own action and not for what a provider
\* proposes in it, nor for the safety gate; a change that a provider proposes
\* is allowed only where changes need no approval and the action is not listed.
UnapprovedNeverActs ==
  \A t \in Turns : turn[t].at \in {"provider", "returned", "refused"} =>
    /\ turn[t].executed =>
         /\ turn[t].call.approve /\ turn[t].call.scenario = "operations-observer"
         /\ Operations.action \notin policy.deny_actions
         /\ policy.default_mutation_mode = "deny" => Operations.action \in policy.approval_required_for
    /\ \A i \in DOMAIN turn[t].judged :
         turn[t].judged[i].decision = "allow" /\ turn[t].proposals[i].mutates =>
           /\ policy.default_mutation_mode \notin {"deny", "require_approval"}
           /\ turn[t].proposals[i].action \notin policy.deny_actions \union policy.approval_required_for

\* Whatever the weights, the score lies between the least and the greatest of
\* what they weigh.
PriorityIsMean ==
  \A t \in Turns : turn[t].at \in {"provider", "returned", "refused"} =>
    LET c == Components(Scenario(turn[t].call).signal)
        weighed == {c[w] : w \in {v \in Weights : policy[v] # 0}}
    IN  turn[t].audit.score \in 100 * Min(weighed) .. 100 * Max(weighed)
=============================================================================
