-------------------------- MODULE ConfiguredPolicies --------------------------
(***************************************************************************)
(* What a configured agent's policies decide (core/runtime/configured_     *)
(* memory.py, configured_safety.py, configured_priority.py): which events  *)
(* of a turn are retained and what is left of them, what becomes of a      *)
(* requested action, how urgent a turn is and where it is routed.  A       *)
(* policy is a record of settings (AgentConfig!Policy); numbers between 0  *)
(* and 1 are in hundredths, a score in ten thousandths.                    *)
(*                                                                         *)
(* Of an event only its type, its kind, and what its metadata says of its  *)
(* provenance and of a customer are told apart.                            *)
(***************************************************************************)
EXTENDS FixedPoint, SequencesExt, FiniteSetsExt

Modes == {"session_history", "explicit_checkpoints", "audit_only", "summary_only"}

OfKind(events, kind) ==
  LET kept[n \in 0..Len(events)] ==
        IF n = 0 THEN <<>>
        ELSE IF events[n].kind = kind THEN Append(kept[n - 1], events[n]) ELSE kept[n - 1]
  IN  kept[Len(events)]

Summary(policy, event) ==
  [type |-> "task_summary", kind |-> "summary", customer |-> "none",
   provenance |-> policy.retain_provenance /\ event.provenance]

Filtered(policy, events) ==
  CASE policy.retention_mode = "session_history" -> events
    [] policy.retention_mode = "explicit_checkpoints" -> OfKind(events, "checkpoint")
    [] policy.retention_mode = "audit_only" -> OfKind(events, "audit")
    [] policy.retention_mode = "summary_only" ->
         IF events = <<>> THEN <<>> ELSE <<Summary(policy, Last(events))>>

\* mistake: only what is retained in full is redacted
SanitizedIfProven(policy, event) ==
  [event EXCEPT !.provenance = @ /\ policy.retain_provenance,
                !.customer = IF policy.retain_sensitive_data \/ @ = "none" \/ ~policy.retain_provenance
                             THEN @ ELSE "redacted"]

Sanitized(policy, event) ==
  [event EXCEPT !.provenance = @ /\ policy.retain_provenance,
                !.customer = IF policy.retain_sensitive_data \/ @ = "none" THEN @ ELSE "redacted"]

\* The last max_session_events of them, or all when that is 0.
Retain(policy, events) ==
  LET clean == [i \in DOMAIN Filtered(policy, events) |-> Sanitized(policy, Filtered(policy, events)[i])]
      cap == policy.max_session_events
  IN  IF cap = 0 \/ Len(clean) <= cap THEN clean
      ELSE SubSeq(clean, Len(clean) - cap + 1, Len(clean))
-----------------------------------------------------------------------------
Decision(decision, approval, rule) ==
  [decision |-> decision, approval_required |-> approval, matched_rule |-> rule]

\* The first rule that applies decides.
Evaluate(policy, request) ==
  LET denied == request.action \in policy.deny_actions
      listed == request.action \in policy.approval_required_for
      Default(mode) == request.mutates /\ policy.default_mutation_mode = mode
      rules == <<
        <<request.secret, Decision("deny", FALSE, "secret_pattern")>>,
        <<denied, Decision("deny", FALSE, "deny_actions")>>,
        <<listed /\ request.mode = "plan", Decision("propose", TRUE, "approval_required_for")>>,
        <<listed /\ request.confirmed, Decision("allow", TRUE, "approval_granted")>>,
        <<listed, Decision("require_approval", TRUE, "approval_required_for")>>,
        <<Default("deny"), Decision("deny", FALSE, "default_mutation_mode")>>,
        <<Default("require_approval") /\ request.confirmed,
          Decision("allow", TRUE, "default_mutation_mode")>>,
        <<Default("require_approval"), Decision("require_approval", TRUE, "default_mutation_mode")>>,
        <<TRUE, Decision("allow", FALSE, "allow_default")>> >>
  IN  rules[Min({i \in DOMAIN rules : rules[i][1]})][2]
-----------------------------------------------------------------------------
\* What is weighed, each between 0 and 100.
Components(signal) ==
  [urgency |-> Clipped(signal.urgency, 100), risk |-> Clipped(signal.risk, 100),
   user_value |-> Clipped(signal.user_value, 100),
   instability |-> 100 - Clipped(signal.stability, 100)]

Weighed(policy, of) == SumFunction([w \in DOMAIN of |-> policy[w] * of[w]])

\* mistake: the weights are taken to sum to 1
ScoreOfShares(policy, signal) == Weighed(policy, Components(signal))

Score(policy, signal) ==
  LET total == SumFunction([w \in DOMAIN Components(signal) |-> policy[w]])
  IN  IF total = 0 THEN 0 ELSE RoundedDiv(100 * Weighed(policy, Components(signal)), total)

Route(policy, score, mutates) ==
  IF mutates THEN "orchestration_node"
  ELSE IF score >= 100 * policy.reflex_threshold THEN "reflex_node"
  ELSE "deliberation_node"
=============================================================================
