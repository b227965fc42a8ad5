------------------------------ MODULE MCCoherence ------------------------------
(* An instance of Coherence for TLC. *)
EXTENDS Coherence

CONSTANTS a, b, c

MCDeclared == <<c, a, b>>

\* Above and below the neutral value, and none.
MCSeedings == {[n \in Nodes |-> CASE n = a -> 40 [] n = b -> 10 [] n = c -> NoSeed]}

MCWeight == [scales |-> 20, adds |-> 40, suppresses |-> 30, feedback |-> 40]
Edge(from, to, type) == [from |-> from, to |-> to, type |-> type, weight |-> MCWeight[type]]
MCEdges == {Edge(from, to, type) : from \in Nodes, to \in Nodes, type \in Types}

\* Every graph of up to two edges, loops and parallel edges included.
MCSmall == {<<>>} \union {<<e>> : e \in MCEdges} \union {<<e, f>> : e \in MCEdges, f \in MCEdges}

\* Two paths from a to c, in every order of declaration, with and without
\* feedback or a cycle.
MCPaths == {<<e, f, g>> : e \in {Edge(a, b, t) : t \in Types \ {"feedback"}},
                          f \in {Edge(b, c, t) : t \in Types \ {"feedback"}},
                          g \in {Edge(a, c, t) : t \in Types \ {"feedback"}}}
MCBack == {Edge(c, a, "feedback"), Edge(b, a, "feedback"), Edge(c, b, "adds")}
MCOrders == {o \in [1..3 -> 1..3] : {o[1], o[2], o[3]} = 1..3}
MCLarge == {<<p[o[1]], p[o[2]], p[o[3]]>> : p \in MCPaths, o \in MCOrders}
             \union {p \o <<g>> : p \in MCPaths, g \in MCBack}
             \union {<<g>> \o p : p \in MCPaths, g \in MCBack}

MCGraphs == MCSmall \union MCLarge
=============================================================================
