------------------------------- MODULE Coherence -------------------------------
(***************************************************************************)
(* A coherence graph, its propagation and a counterfactual on it           *)
(* (core/coherence): TopologicalPropagator sorts the nodes by Kahn's       *)
(* algorithm over all edges but feedback, applies these edges node by node *)
(* and the feedback edges after them, and clamps the outcome; DoOperator   *)
(* does the same on a graph of its own, in which one node is fixed and its *)
(* inbound edges are gone.                                                 *)
(*                                                                         *)
(* The queue of Kahn's algorithm starts in the order of a set of strings,  *)
(* which is another one in every process.  Any order is taken here.        *)
(***************************************************************************)
EXTENDS Integers, Sequences, FiniteSets, Functions

CONSTANTS
  Nodes,       \* the declared node ids
  Declared,    \* the same, in the order of their declaration
  Outside,     \* an id that is not declared
  Graphs,      \* the edge lists that may be loaded: from, to, type, weight
  Seedings,    \* the node health a snapshot may hold, NoSeed where it has none
  NoSeed,
  Unit,        \* what stands for 1.0
  FixedValues  \* the values an intervention may fix a node at

Types == {"scales", "adds", "suppresses", "feedback"}

ASSUME CoherenceAssumption ==
  /\ Outside \notin Nodes /\ IsFiniteSet(Nodes) /\ Nodes # {}
  /\ Unit \in Nat \ {0} /\ NoSeed \notin Int /\ FixedValues \subseteq Int
  /\ Declared \in Seq(Nodes) /\ Nodes = Range(Declared) /\ IsInjective(Declared)
  /\ Graphs \subseteq Seq([from : Nodes, to : Nodes, type : Types, weight : 0..Unit])
  /\ Seedings \subseteq [Nodes -> Int \union {NoSeed}]

VARIABLES
  edges,      \* the loaded graph
  seeds,      \* what _read_seed_values returned
  pc,         \* sort, forward, feedback, idle or compared
  do,         \* the intervention: its node and value, Outside if there is none yet
  used,       \* the edges of the propagator at work, by their places in the graph
  waiting,    \* for each node its inbound edges not yet counted off: in_degree is their number
  ready,      \* the queue
  order,      \* the nodes sorted so far, then _topo_order
  visited,    \* how many of them the forward pass has done with
  applied,    \* the edges applied so far, of the pass that is on
  values,
  baseline,   \* the propagated values without intervention
  (* history *)
  read        \* the upstream value that each edge of the forward pass has seen

vars == <<edges, seeds, pc, do, used, waiting, ready, order, visited, applied, values, baseline, read>>
sorting == <<waiting, ready, order>>
passing == <<visited, applied, values, read>>

-----------------------------------------------------------------------------
\* A list of edges is the set of their places in the loaded graph.
Forward(list) == {i \in list : edges[i].type # "feedback"}
Feedback(list) == {i \in list : edges[i].type = "feedback"}
Into(list, n) == {i \in Forward(list) : edges[i].to = n}

\* The seed of a node, or 0.5.
Seeded(s) == [n \in Nodes |-> IF s[n] = NoSeed THEN Unit \div 2 ELSE s[n]]

Product(a, b) == (a * b) \div Unit

\* _apply_edge and _apply_feedback; what a product loses to rounding does not matter to the properties.
Outcome(edge, upstream, downstream) ==
  CASE edge.type = "scales"     -> Product(upstream, edge.weight)
    [] edge.type = "adds"       -> downstream + Product(upstream, edge.weight)
    [] edge.type = "suppresses" -> Product(downstream, Unit - Product(upstream, edge.weight))
    [] edge.type = "feedback"   -> downstream + Product(upstream - Unit \div 2, edge.weight) \div 20

\* mistake: only the lower bound is kept
ClampedBelow(v) == IF v < 0 THEN 0 ELSE v

Clamped(v) == IF v < 0 THEN 0 ELSE IF v > Unit THEN Unit ELSE v

\* A new propagator on a list of edges, about to sort.
Prepare(list) ==
  /\ used' = list
  /\ waiting' = [n \in Nodes |-> Into(list, n)]
  /\ ready' = {n \in Nodes : Into(list, n) = {}}
  /\ order' = <<>>

Init ==
  /\ edges \in Graphs /\ seeds \in Seedings
  /\ pc = "sort" /\ do = [node |-> Outside, value |-> 0, on |-> FALSE]
  /\ used = DOMAIN edges
  /\ waiting = [n \in Nodes |-> Into(used, n)]
  /\ ready = {n \in Nodes : Into(used, n) = {}}
  /\ order = <<>>
  /\ visited = 0 /\ applied = {} /\ values = Seeded(seeds) /\ baseline = Seeded(seeds)
  /\ read = [i \in {} |-> 0]

\* mistake: a node is ready with its first inbound edge counted off
PopEarly(n) ==
  /\ pc = "sort" /\ n \in ready
  /\ order' = Append(order, n)
  /\ waiting' = [m \in Nodes |-> {i \in waiting[m] : edges[i].from # n}]
  /\ ready' = (ready \ {n}) \union {m \in Nodes : waiting[m] # {} /\ waiting'[m] # waiting[m] /\
                                      \A i \in DOMAIN order' : order'[i] # m}
  /\ UNCHANGED <<edges, seeds, pc, do, used, passing, baseline>>

\* One turn of Kahn's loop.
Pop(n) ==
  /\ pc = "sort"
  /\ n \in ready
  /\ order' = Append(order, n)
  /\ waiting' = [m \in Nodes |-> {i \in waiting[m] : edges[i].from # n}]
  /\ ready' = (ready \ {n}) \union {m \in Nodes : waiting[m] # {} /\ waiting'[m] = {}}
  /\ UNCHANGED <<edges, seeds, pc, do, used, passing, baseline>>

\* mistake: what could be sorted is taken for all
EndSortPartly ==
  /\ pc = "sort" /\ ready = {}
  /\ pc' = "forward"
  /\ UNCHANGED <<edges, seeds, do, used, sorting, passing, baseline>>

\* The end of it: when nodes are left, on a cycle or behind one, the order
\* is that of the declaration.
EndSort ==
  /\ pc = "sort"
  /\ ready = {}
  /\ order' = IF Len(order) = Cardinality(Nodes) THEN order ELSE Declared
  /\ pc' = "forward"
  /\ UNCHANGED <<edges, seeds, do, used, waiting, ready, passing, baseline>>

\* The node whose inbound edges are being applied, in the order of the graph.
Current == order[visited + 1]
Left == Into(used, Current) \ applied
NextOf(S) == CHOOSE i \in S : \A j \in S : i <= j

\* values[to] becomes what the edge i makes of it.
Apply(i) == values' = [values EXCEPT ![edges[i].to] = Outcome(edges[i], values[edges[i].from], @)]

ApplyForward ==
  /\ pc = "forward"
  /\ visited < Len(order)
  /\ Left # {}
  /\ LET i == NextOf(Left) IN
       /\ Apply(i)
       /\ applied' = applied \union {i}
       /\ read' = [j \in DOMAIN read \union {i} |-> IF j = i THEN values[edges[i].from] ELSE read[j]]
  /\ UNCHANGED <<edges, seeds, pc, do, used, sorting, visited, baseline>>

LeaveNode ==
  /\ pc = "forward"
  /\ visited < Len(order)
  /\ Left = {}
  /\ visited' = visited + 1
  /\ UNCHANGED <<edges, seeds, pc, do, used, sorting, applied, values, baseline, read>>

EndForward ==
  /\ pc = "forward"
  /\ visited = Len(order)
  /\ pc' = "feedback"
  /\ applied' = {}
  /\ UNCHANGED <<edges, seeds, do, used, sorting, visited, values, baseline, read>>

ApplyFeedback ==
  /\ pc = "feedback"
  /\ Feedback(used) \ applied # {}
  /\ LET i == NextOf(Feedback(used) \ applied) IN
       /\ Apply(i)
       /\ applied' = applied \union {i}
  /\ UNCHANGED <<edges, seeds, pc, do, used, sorting, visited, baseline, read>>

\* The values are clamped and returned.
EndPropagate ==
  /\ pc = "feedback"
  /\ Feedback(used) \subseteq applied
  /\ values' = [n \in Nodes |-> Clamped(values[n])]
  /\ baseline' = IF do.on THEN baseline ELSE values'
  /\ pc' = IF do.on THEN "compared" ELSE "idle"
  /\ UNCHANGED <<edges, seeds, do, used, sorting, visited, applied, read>>

\* mistake: feedback edges into the node are left in place
SeveredForward(n) == {i \in DOMAIN edges : edges[i].to # n \/ edges[i].type = "feedback"}

\* The edges that stay when a node is fixed.
Severed(n) == {i \in DOMAIN edges : edges[i].to # n}

\* The values a counterfactual starts from: the seeds, with one replaced or,
\* for an undeclared id, added and then ignored by propagate.
Fixed(n, value) == [m \in Nodes |-> IF m = n THEN value ELSE Seeded(seeds)[m]]

\* apply: propagation anew, with another propagator; an id that is not
\* declared changes no node.
Intervene(n, value) ==
  /\ pc = "idle"
  /\ do' = [node |-> n, value |-> value, on |-> TRUE]
  /\ Prepare(Severed(n))
  /\ values' = Fixed(n, value)
  /\ visited' = 0 /\ applied' = {} /\ read' = [i \in {} |-> 0]
  /\ pc' = "sort"
  /\ UNCHANGED <<edges, seeds, baseline>>

Propagate ==
  \/ \E n \in Nodes : Pop(n)
  \/ EndSort
  \/ ApplyForward \/ LeaveNode \/ EndForward
  \/ ApplyFeedback \/ EndPropagate

Next ==
  \/ Propagate
  \/ \E n \in Nodes \union {Outside}, v \in FixedValues : Intervene(n, v)

Spec == Init /\ [][Next]_vars

-----------------------------------------------------------------------------
TypeOK ==
  /\ edges \in Graphs /\ seeds \in Seedings
  /\ pc \in {"sort", "forward", "feedback", "idle", "compared"}
  /\ do \in [node : Nodes \union {Outside}, value : FixedValues \union {0}, on : BOOLEAN]
  /\ used \in SUBSET DOMAIN edges
  /\ waiting \in [Nodes -> SUBSET used] /\ ready \in SUBSET Nodes
  /\ order \in Seq(Nodes) /\ visited \in 0..Len(order) /\ applied \in SUBSET used
  /\ values \in [Nodes -> Int] /\ baseline \in [Nodes -> Int]
  /\ DOMAIN read \in SUBSET used /\ read \in [DOMAIN read -> Int]

\* The nodes that can be reached along the edges of the graph from n, which
\* is one of them if it is a node: those that are in every set that has n
\* and that no edge leaves.
Closed(S) == \A i \in DOMAIN edges : edges[i].from \in S => edges[i].to \in S
Reach(n) == {m \in Nodes : \A S \in SUBSET (Nodes \union {n}) : n \in S /\ Closed(S) => m \in S}

\* No cycle besides feedback: in no set of nodes does every one wait for
\* another one of the set.
Acyclic(list) ==
  \A S \in SUBSET Nodes : S # {} => \E n \in S : \A i \in Into(list, n) : edges[i].from \notin S

(* Kahn's algorithm, whatever the order of its queue: all nodes are sorted *)
(* exactly when the graph has no cycle besides feedback, and then every    *)
(* edge goes forward.  With one, all nodes come in the order of their      *)
(* declaration, those too that were sorted before the cycle was met.  So   *)
(* every node is in the order once (_kahn, propagation.py:88-112).         *)
SortIsRight ==
  pc # "sort" =>
    /\ Len(order) = Cardinality(Nodes) /\ Nodes = Range(order)
    /\ Acyclic(used) <=> \A n \in Nodes : waiting[n] = {}
    /\ Acyclic(used) => \A i \in Forward(used), k, l \in DOMAIN order :
         order[k] = edges[i].from /\ order[l] = edges[i].to => k < l
    /\ ~Acyclic(used) => order = Declared

(* Without such a cycle every edge sees the final value of its source: no  *)
(* node changes in the forward pass once another one has been computed     *)
(* from it (propagate, propagation.py:66-76).                              *)
UpstreamIsFinal ==
  pc \in {"forward", "feedback"} /\ (\A n \in Nodes : waiting[n] = {}) /\ applied \intersect Feedback(used) = {} =>
    \A i \in DOMAIN read : read[i] = values[edges[i].from]

(* A counterfactual on a graph without such a cycle holds the fixed node   *)
(* at its value and touches only what can be reached from it; in           *)
(* particular one on an undeclared id changes nothing, so the outcome does *)
(* not depend on the order of the queue (apply, do_operator.py:33-61).     *)
InterventionIsLocal ==
  pc = "compared" /\ Acyclic(DOMAIN edges) =>
    /\ do.node \in Nodes => values[do.node] = Clamped(do.value)
    /\ \A n \in Nodes \ Reach(do.node) : values[n] = baseline[n]

\* The weights of the index: those of all inbound edges, or 1.0 for none.
Weight(n) ==
  LET sum == SumFunctionOnSet([i \in DOMAIN edges |-> edges[i].weight], {i \in DOMAIN edges : edges[i].to = n})
  IN  IF sum > 0 THEN sum ELSE Unit

\* compute: the weighted mean of the node scores.
IndexOf(scores) ==
  SumFunction([n \in Nodes |-> scores[n] * Weight(n)]) \div SumFunction([n \in Nodes |-> Weight(n)])

(* Scores are clamped, and the index lies between the weakest and the      *)
(* strongest node, for a counterfactual too, which is weighted by the      *)
(* edges of the graph it has severed (compute, coherence_index.py:34-66).  *)
ReportIsBounded ==
  pc \in {"idle", "compared"} =>
    /\ values \in [Nodes -> 0..Unit]
    /\ \E weakest, strongest \in Nodes :
         /\ \A n \in Nodes : values[n] >= values[weakest] /\ values[n] <= values[strongest]
         /\ IndexOf(values) >= values[weakest] /\ IndexOf(values) <= values[strongest]
=============================================================================
