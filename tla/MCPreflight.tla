------------------------------ MODULE MCPreflight ------------------------------
(* An instance of Preflight for TLC. *)
EXTENDS Preflight

CONSTANTS n, g

\* The graph has a node with telemetry and one without, at the default, that
\* the first reinforces; its index is their mean.
MCSpread(h) ==
  LET seed == IF n \in DOMAIN h THEN h[n] ELSE 5
  IN  [m \in {n, g} |-> IF m = n THEN seed ELSE Clipped(5 + (4 * seed) \div 10, 10)]

MCIndex(h) == SumFunction(MCSpread(h)) \div 2

\* 1 and 1/2, over 2.
MCDecay == [age \in 0..1 |-> 2 - age]

MCPropose(path, v) == [target |-> path, value |-> v]

\* Each kind of key path and of value; a change below and one above the threshold.
MCInterventions ==
  {MCPropose(<<"system_health_ratio">>, v) : v \in {0, 10, Other}}
  \union {MCPropose(<<"anomaly_count">>, 20), MCPropose(<<"coherence_index">>, 40),
          MCPropose(<<"node_health", n>>, 4), MCPropose(<<"node_health">>, Other),
          MCPropose(<<"timestamp", n>>, 4), MCPropose(<<"mood">>, 4)}
=============================================================================
