---------------------------- MODULE MCCycleRunner ----------------------------
(* CycleRunner with every module, and with each optional one left out.      *)
EXTENDS CycleRunner, TLC

CONSTANTS short, medium

MCDistance == (short :> 1) @@ (medium :> 2)

\* from_config always wires the self-model and the memory; a runner built by
\* hand may have neither.
MCWirings ==
  {Modules, Modules \ {"coherence"}, Modules \ {"forecast"}, Modules \ {"feedback"},
   Modules \ {"self_model", "sensory"}, Modules \ {"memory"}, {"self_model", "memory"}}

MCFullWiring == {Modules}

\* Appends fail where little else is wired, and once next to the rest.
MCMaxFailures == [w \in MCWirings |->
  IF w = {"self_model", "memory"} THEN 3 ELSE IF "feedback" \in w THEN 0 ELSE 1]

MCNoFailures == [w \in MCFullWiring |-> 0]
=============================================================================
