---------------------------- MODULE CoherenceProofs ----------------------------
(***************************************************************************)
(* Theorems of Coherence, for any graphs, seeds and interventions.         *)
(***************************************************************************)
EXTENDS Coherence, ArithmeticProofs

-----------------------------------------------------------------------------
(* The invariant, part by part.                                            *)

AllSorted == \A n \in Nodes : waiting[n] = {}

\* Kahn's loop: a node waits for its inbound edges from nodes not yet sorted,
\* and is queued or sorted when there are none.
Sorting ==
  /\ IsInjective(order)
  /\ pc = "sort" =>
       /\ visited = 0 /\ applied = {} /\ DOMAIN read = {}
       /\ \A n \in Nodes : waiting[n] = {i \in Into(used, n) : edges[i].from \notin Range(order)}
       /\ ready = {n \in Nodes : waiting[n] = {}} \ Range(order)
       /\ \A n \in Range(order) : waiting[n] = {}
  /\ pc = "sort" \/ AllSorted =>
       \A i \in Forward(used), l \in DOMAIN order : order[l] = edges[i].to =>
         \E k \in 1..(l - 1) : order[k] = edges[i].from

\* The forward pass, when all nodes are sorted: the edges applied so far end
\* at nodes reached so far, and the values they have seen have not changed.
Passing ==
  AllSorted =>
    /\ pc = "forward" =>
         /\ applied = DOMAIN read /\ applied \subseteq Forward(used)
         /\ \A i \in applied : \E k \in 1..(visited + 1) : k <= Len(order) /\ order[k] = edges[i].to
    /\ UpstreamIsFinal

Clamping == pc \in {"idle", "compared"} => values \in [Nodes -> 0..Unit]

IInv == TypeOK /\ Sorting /\ SortIsRight /\ Passing /\ Clamping

-----------------------------------------------------------------------------
(* The data.                                                               *)

Edge == [from : Nodes, to : Nodes, type : Types, weight : 0..Unit]

LEMMA EdgesTyped ==
  ASSUME TypeOK
  PROVE  /\ edges \in Seq(Edge) /\ DOMAIN edges = 1..Len(edges) /\ Len(edges) \in Nat
         /\ \A i \in DOMAIN edges :
              /\ edges[i] \in Edge /\ edges[i].from \in Nodes /\ edges[i].to \in Nodes
              /\ edges[i].weight \in 0..Unit
<1>1. edges \in Seq(Edge)
  BY CoherenceAssumption DEF TypeOK, Edge
<1>2. DOMAIN edges = 1..Len(edges) /\ Len(edges) \in Nat /\ \A i \in DOMAIN edges : edges[i] \in Edge
  BY <1>1
<1> QED
  BY <1>1, <1>2 DEF Edge

LEMMA SeedsTyped ==
  ASSUME NEW s \in Seedings
  PROVE  Seeded(s) \in [Nodes -> Int]
<1>1. s \in [Nodes -> Int \union {NoSeed}] /\ Unit \div 2 \in Int
  BY CoherenceAssumption
<1> QED
  BY <1>1 DEF Seeded

LEMMA OutcomeTyped ==
  ASSUME NEW e \in Edge, NEW upstream \in Int, NEW downstream \in Int
  PROVE  Outcome(e, upstream, downstream) \in Int
<1>1. Unit \in Nat \ {0}
  BY CoherenceAssumption
<1>2. ASSUME NEW x \in Int, NEW y \in Int PROVE Product(x, y) \in Int
  <2>1. x * y \in Int
    OBVIOUS
  <2> QED
    BY <1>1, <2>1 DEF Product
<1>3. e.weight \in Int /\ e.type \in Types
  BY <1>1 DEF Edge
<1>4. Unit \div 2 \in Int
  BY <1>1
<1>5. CASE e.type = "scales"
  BY <1>2, <1>3, <1>5 DEF Outcome
<1>6. CASE e.type = "adds"
  <2>1. Product(upstream, e.weight) \in Int
    BY <1>2, <1>3
  <2> QED
    BY <1>6, <2>1 DEF Outcome
<1>7. CASE e.type = "suppresses"
  <2> DEFINE p == Product(upstream, e.weight)
  <2>1. p \in Int
    BY <1>2, <1>3
  <2>2. Unit - p \in Int
    <3> HIDE DEF p
    <3> QED
      BY <1>1, <2>1
  <2> QED
    BY <1>2, <1>7, <2>2 DEF Outcome
<1>8. CASE e.type = "feedback"
  <2>1. upstream - Unit \div 2 \in Int
    BY <1>4
  <2> DEFINE p == Product(upstream - Unit \div 2, e.weight)
  <2>2. p \in Int
    BY <1>2, <1>3, <2>1
  <2>3. p \div 20 \in Int
    <3> HIDE DEF p
    <3> QED
      BY <2>2
  <2> QED
    BY <1>8, <2>3 DEF Outcome
<1> QED
  BY <1>3, <1>5, <1>6, <1>7, <1>8 DEF Types

LEMMA ClampedTyped == ASSUME NEW v \in Int PROVE Clamped(v) \in 0..Unit
BY CoherenceAssumption DEF Clamped

LEMMA NextIsElement ==
  ASSUME NEW S \in SUBSET Nat, S # {}
  PROVE  NextOf(S) \in S /\ \A j \in S : NextOf(S) <= j
<1>1. \E i \in S : \A j \in S : i <= j
  BY LeastElement
<1> QED
  BY <1>1 DEF NextOf

\* A list of edges that are applied.
LEMMA ApplyTyped ==
  ASSUME TypeOK, NEW i \in used, Apply(i)
  PROVE  values' \in [Nodes -> Int] /\ \A n \in Nodes : n # edges[i].to => values'[n] = values[n]
<1>1. /\ edges[i] \in Edge /\ edges[i].from \in Nodes /\ edges[i].to \in Nodes
      /\ values \in [Nodes -> Int]
  BY EdgesTyped DEF TypeOK
<1>2. Outcome(edges[i], values[edges[i].from], values[edges[i].to]) \in Int
  BY <1>1, OutcomeTyped
<1> QED
  BY <1>1, <1>2 DEF Apply

LEMMA InjectiveLength ==
  ASSUME NEW S, NEW s \in Seq(S), IsInjective(s)
  PROVE  Range(s) \in SUBSET S /\ IsFiniteSet(Range(s)) /\ Cardinality(Range(s)) = Len(s)
<1>1. DOMAIN s = 1..Len(s) /\ Len(s) \in Nat
  OBVIOUS
<1>2. s \in Bijection(1..Len(s), Range(s))
  BY <1>1 DEF Bijection, Injection, Surjection, Range
<1>3. IsFiniteSet(1..Len(s)) /\ Cardinality(1..Len(s)) = Len(s)
  BY <1>1, FS_Interval
<1>4. ExistsBijection(1..Len(s), Range(s))
  BY <1>2, Zenon DEF ExistsBijection
<1>5. IsFiniteSet(Range(s)) /\ Cardinality(Range(s)) = Len(s)
  <2>1. PICK D, R : D = 1..Len(s) /\ R = Range(s)
    OBVIOUS
  <2>2. IsFiniteSet(D) /\ ExistsBijection(D, R) /\ Cardinality(D) = Len(s)
    BY <1>3, <1>4, <2>1
  <2>3. IsFiniteSet(R) /\ Cardinality(R) = Cardinality(D)
    BY <2>2, FS_Bijection
  <2> QED
    BY <2>1, <2>2, <2>3
<1>6. \A k \in DOMAIN s : s[k] \in S
  OBVIOUS
<1> QED
  BY <1>5, <1>6 DEF Range

LEMMA AppendedRange ==
  ASSUME NEW S, NEW s \in Seq(S), NEW x \in S
  PROVE  /\ DOMAIN Append(s, x) = 1..(Len(s) + 1) /\ DOMAIN s = 1..Len(s) /\ Len(s) \in Nat
         /\ \A k \in DOMAIN s : Append(s, x)[k] = s[k]
         /\ Append(s, x)[Len(s) + 1] = x
         /\ Range(Append(s, x)) = Range(s) \union {x}
         /\ IsInjective(s) /\ x \notin Range(s) => IsInjective(Append(s, x))
<1> DEFINE t == Append(s, x)
<1>1. /\ DOMAIN t = 1..(Len(s) + 1) /\ DOMAIN s = 1..Len(s) /\ Len(s) \in Nat
      /\ \A k \in DOMAIN s : t[k] = s[k]
      /\ t[Len(s) + 1] = x
  OBVIOUS
<1> HIDE DEF t
<1>2. \A k : k \in DOMAIN t <=> k \in DOMAIN s \/ k = Len(s) + 1
  BY <1>1
<1>3. Range(t) = Range(s) \union {x}
  BY <1>1, <1>2 DEF Range
<1>4. IsInjective(s) /\ x \notin Range(s) => IsInjective(t)
  BY <1>1, <1>2 DEF IsInjective, Range
<1> QED
  BY <1>1, <1>3, <1>4 DEF t

-----------------------------------------------------------------------------
(* Types.                                                                  *)

LEMMA InitTypes == Init => TypeOK
<1> SUFFICES ASSUME Init PROVE TypeOK
  OBVIOUS
<1>1. Seeded(seeds) \in [Nodes -> Int]
  BY SeedsTyped DEF Init
<1>2. <<>> \in Seq(Nodes) /\ Len(<<>>) = 0
  OBVIOUS
<1>3. \A n \in Nodes : Into(used, n) \subseteq used
  BY DEF Into, Forward
<1> QED
  BY <1>1, <1>2, <1>3 DEF Init, TypeOK

LEMMA InterveneTypes ==
  ASSUME IInv, NEW n \in Nodes \union {Outside}, NEW v \in FixedValues, Intervene(n, v)
  PROVE  TypeOK'
<1>1. Seeded(seeds) \in [Nodes -> Int] /\ v \in Int
  BY SeedsTyped, CoherenceAssumption DEF IInv, TypeOK
<1>2. Fixed(n, v) \in [Nodes -> Int]
  BY <1>1 DEF Fixed
<1>3. <<>> \in Seq(Nodes) /\ Len(<<>>) = 0
  OBVIOUS
<1>4. \A m \in Nodes : Into(Severed(n), m) \subseteq Severed(n)
  BY DEF Into, Forward
<1>5. /\ edges' = edges /\ seeds' = seeds /\ baseline' = baseline
      /\ used' = Severed(n) /\ Severed(n) \subseteq DOMAIN edges
  BY DEF Intervene, Prepare, Severed
<1>6. /\ waiting' \in [Nodes -> SUBSET used'] /\ ready' \in SUBSET Nodes /\ order' = <<>>
      /\ visited' = 0 /\ applied' = {} /\ read' = [i \in {} |-> 0] /\ values' = Fixed(n, v)
      /\ pc' = "sort"
  BY <1>4 DEF Intervene, Prepare
<1>7. do' \in [node : Nodes \union {Outside}, value : FixedValues \union {0}, on : BOOLEAN]
  BY DEF Intervene
<1> QED
  BY <1>2, <1>3, <1>5, <1>6, <1>7 DEF IInv, TypeOK

LEMMA StepTypes == IInv /\ [Next]_vars => TypeOK'
<1> SUFFICES ASSUME IInv, [Next]_vars PROVE TypeOK'
  OBVIOUS
<1> USE DEF IInv, TypeOK
<1>1. ASSUME NEW n \in Nodes, Pop(n) PROVE TypeOK'
  <2>1. order' \in Seq(Nodes) /\ Len(order') = Len(order) + 1
    BY <1>1 DEF Pop
  <2>2. waiting' \in [Nodes -> SUBSET used] /\ ready' \in SUBSET Nodes
    BY <1>1 DEF Pop
  <2> QED
    BY <1>1, <2>1, <2>2 DEF Pop, passing
<1>2. CASE EndSort
  <2>1. order' \in Seq(Nodes) /\ visited = 0
    BY <1>2, CoherenceAssumption DEF EndSort, Sorting
  <2> QED
    BY <1>2, <2>1 DEF EndSort, passing
<1>3. CASE ApplyForward
  <2>1. Left \in SUBSET used /\ Left \in SUBSET Nat /\ Left # {}
    BY <1>3, EdgesTyped DEF ApplyForward, Left, Into, Forward
  <2> DEFINE i == NextOf(Left)
  <2>2. i \in used
    BY <2>1, NextIsElement
  <2>3. Apply(i) /\ applied' = applied \union {i} /\ DOMAIN read' = DOMAIN read \union {i}
    BY <1>3 DEF ApplyForward
  <2>4. values' \in [Nodes -> Int]
    BY <2>2, <2>3, ApplyTyped
  <2>5. read' \in [DOMAIN read' -> Int]
    <3>1. values[edges[i].from] \in Int
      BY <2>2, EdgesTyped
    <3> QED
      BY <1>3, <3>1 DEF ApplyForward
  <2> HIDE DEF i
  <2> QED
    BY <1>3, <2>2, <2>3, <2>4, <2>5 DEF ApplyForward, sorting
<1>4. CASE LeaveNode
  BY <1>4 DEF LeaveNode, sorting
<1>5. CASE EndForward
  BY <1>5 DEF EndForward, sorting
<1>6. CASE ApplyFeedback
  <2> DEFINE S == Feedback(used) \ applied
  <2>1. S \in SUBSET used /\ S \in SUBSET Nat /\ S # {}
    BY <1>6, EdgesTyped DEF ApplyFeedback, Feedback
  <2> DEFINE i == NextOf(S)
  <2>2. i \in used
    BY <2>1, NextIsElement
  <2>3. Apply(i) /\ applied' = applied \union {i}
    BY <1>6 DEF ApplyFeedback
  <2>4. values' \in [Nodes -> Int]
    BY <2>2, <2>3, ApplyTyped
  <2> HIDE DEF i, S
  <2> QED
    BY <1>6, <2>2, <2>3, <2>4 DEF ApplyFeedback, sorting
<1>7. CASE EndPropagate
  <2>1. values' \in [Nodes -> Int]
    BY <1>7, ClampedTyped, CoherenceAssumption DEF EndPropagate
  <2> QED
    BY <1>7, <2>1 DEF EndPropagate, sorting
<1>8. ASSUME NEW n \in Nodes \union {Outside}, NEW v \in FixedValues, Intervene(n, v) PROVE TypeOK'
  BY <1>8, InterveneTypes
<1>9. CASE UNCHANGED vars
  BY <1>9 DEF vars, sorting, passing
<1> QED
  BY <1>1, <1>2, <1>3, <1>4, <1>5, <1>6, <1>7, <1>8, <1>9 DEF Next, Propagate

-----------------------------------------------------------------------------
(* The sort.                                                               *)

LEMMA InitSorting == Init => Sorting
<1> SUFFICES ASSUME Init PROVE Sorting
  OBVIOUS
<1>1. order = <<>> /\ DOMAIN order = {} /\ Range(order) = {}
  BY DEF Init, Range
<1>2. DOMAIN read = {}
  BY DEF Init
<1> QED
  BY <1>1, <1>2 DEF Init, Sorting, IsInjective

LEMMA PopSorting ==
  ASSUME IInv, NEW n \in Nodes, Pop(n)
  PROVE  Sorting'
<1> USE DEF IInv, TypeOK
<1>1. /\ pc = "sort" /\ n \in ready /\ order' = Append(order, n)
      /\ waiting' = [m \in Nodes |-> {i \in waiting[m] : edges[i].from # n}]
      /\ ready' = (ready \ {n}) \union {m \in Nodes : waiting[m] # {} /\ waiting'[m] = {}}
      /\ edges' = edges /\ used' = used /\ pc' = "sort"
      /\ visited' = visited /\ applied' = applied /\ read' = read
  BY DEF Pop, passing
<1>2. n \notin Range(order) /\ waiting[n] = {}
  BY <1>1 DEF Sorting
<1>3. DOMAIN order = 1..Len(order) /\ Len(order) \in Nat /\ \A k \in DOMAIN order : order[k] \in Nodes
  OBVIOUS
<1>4. /\ DOMAIN order' = 1..(Len(order) + 1)
      /\ \A k \in DOMAIN order : order'[k] = order[k]
      /\ order'[Len(order) + 1] = n
  BY <1>1, AppendedRange
<1>5. Range(order') = Range(order) \union {n} /\ Range(order) \subseteq Nodes
  BY <1>1, AppendedRange, InjectiveLength DEF Sorting
<1>6. IsInjective(order')
  BY <1>1, <1>2, AppendedRange DEF Sorting
<1>7. \A m \in Nodes : waiting'[m] = {i \in Into(used, m) : edges[i].from \notin Range(order')}
  BY <1>1, <1>5 DEF Sorting
<1>8. ready' = {m \in Nodes : waiting'[m] = {}} \ Range(order')
  <2>1. \A m \in Nodes : waiting[m] = {} => waiting'[m] = {}
    BY <1>1
  <2>2. ready = {m \in Nodes : waiting[m] = {}} \ Range(order) /\ \A m \in Range(order) : waiting[m] = {}
    BY <1>1 DEF Sorting
  <2> QED
    BY <1>1, <1>2, <1>5, <2>1, <2>2
<1>9. \A m \in Range(order') : waiting'[m] = {}
  <2>1. \A m \in Range(order) : m \in Nodes /\ waiting[m] = {}
    BY <1>1, <1>5 DEF Sorting
  <2> QED
    BY <1>1, <1>2, <1>5, <2>1
<1>10. ASSUME NEW i \in Forward(used), NEW l \in DOMAIN order', order'[l] = edges[i].to
       PROVE  \E k \in 1..(l - 1) : order'[k] = edges[i].from
  <2>1. CASE l \in DOMAIN order
    <3>1. PICK k \in 1..(l - 1) : order[k] = edges[i].from
      BY <1>1, <1>4, <1>10, <2>1 DEF Sorting
    <3>2. k \in DOMAIN order
      BY <1>3, <2>1
    <3> QED
      BY <1>4, <3>1, <3>2
  <2>2. CASE l = Len(order) + 1
    <3>1. i \in Into(used, n)
      BY <1>4, <1>10, <2>2 DEF Into
    <3>2. edges[i].from \in Range(order)
      BY <1>1, <1>2, <3>1 DEF Sorting
    <3>3. PICK k \in DOMAIN order : order[k] = edges[i].from
      BY <3>2 DEF Range
    <3> QED
      BY <1>3, <1>4, <2>2, <3>3
  <2> QED
    BY <1>3, <1>4, <2>1, <2>2
<1>11. Forward(used)' = Forward(used) /\ \A m \in Nodes : Into(used, m)' = Into(used, m)
  BY <1>1 DEF Into, Forward
<1>12. /\ visited' = 0 /\ applied' = {} /\ DOMAIN read' = {}
  BY <1>1 DEF Sorting
<1>13. \A i \in Forward(used)', l \in DOMAIN order' : order'[l] = edges'[i].to =>
         \E k \in 1..(l - 1) : order'[k] = edges'[i].from
  BY <1>1, <1>10, <1>11
<1>14. \A m \in Nodes : waiting'[m] = {i \in Into(used, m)' : edges'[i].from \notin Range(order')}
  BY <1>1, <1>7, <1>11
<1> QED
  BY <1>1, <1>6, <1>8, <1>9, <1>12, <1>13, <1>14 DEF Sorting

\* What is sorted at the end of Kahn's loop: all nodes exactly when there is
\* no cycle.
LEMMA SortEnds ==
  ASSUME IInv, pc = "sort", ready = {}
  PROVE  /\ Range(order) \in SUBSET Nodes
         /\ AllSorted <=> Range(order) = Nodes
         /\ Len(order) = Cardinality(Nodes) <=> Range(order) = Nodes
         /\ AllSorted <=> Acyclic(used)
<1> USE DEF IInv, TypeOK
<1>1. /\ Range(order) \in SUBSET Nodes /\ IsFiniteSet(Range(order))
      /\ Cardinality(Range(order)) = Len(order)
  BY InjectiveLength DEF Sorting
<1>2. AllSorted <=> Range(order) = Nodes
  BY <1>1 DEF Sorting, AllSorted
<1>3. Len(order) = Cardinality(Nodes) <=> Range(order) = Nodes
  BY <1>1, FS_Subset, CoherenceAssumption
<1>4. ASSUME ~AllSorted PROVE ~Acyclic(used)
  <2> DEFINE S == Nodes \ Range(order)
  <2>1. S \in SUBSET Nodes /\ S # {}
    BY <1>1, <1>2, <1>4
  <2>2. ASSUME NEW n \in S PROVE \E i \in Into(used, n) : edges[i].from \in S
    <3>1. waiting[n] # {}
      BY <2>2 DEF Sorting
    <3>2. PICK i \in Into(used, n) : edges[i].from \notin Range(order)
      BY <3>1 DEF Sorting
    <3>3. edges[i].from \in Nodes
      BY EdgesTyped DEF Into, Forward
    <3> QED
      BY <3>2, <3>3
  <2> QED
    BY <2>1, <2>2 DEF Acyclic
<1>5. ASSUME AllSorted PROVE Acyclic(used)
  <2> SUFFICES ASSUME NEW S \in SUBSET Nodes, S # {}
               PROVE  \E n \in S : \A i \in Into(used, n) : edges[i].from \notin S
    BY DEF Acyclic
  <2> DEFINE T == {k \in DOMAIN order : order[k] \in S}
  <2>1. DOMAIN order = 1..Len(order) /\ Len(order) \in Nat
    OBVIOUS
  <2>2. T \in SUBSET Nat /\ T # {}
    BY <1>2, <1>5, <2>1 DEF Range
  <2>3. PICK l \in T : \A k \in T : l <= k
    BY <2>2, LeastElement
  <2>4. ASSUME NEW i \in Into(used, order[l]) PROVE edges[i].from \notin S
    <3>1. PICK k \in 1..(l - 1) : order[k] = edges[i].from
      BY <1>5 DEF Sorting, Into
    <3>2. l \in 1..Len(order) /\ Len(order) \in Nat
      BY <2>1, <2>3
    <3>3. k \in 1..Len(order) /\ ~(l <= k)
      BY <3>1, <3>2, EarlierPlace, Zenon
    <3>4. k \in DOMAIN order /\ k \notin T
      BY <2>1, <2>3, <3>3
    <3> QED
      BY <3>1, <3>4
  <2> QED
    BY <2>4
<1> QED
  BY <1>1, <1>2, <1>3, <1>4, <1>5

LEMMA EndSortSorting ==
  ASSUME IInv, EndSort
  PROVE  Sorting' /\ SortIsRight'
<1> USE DEF IInv, TypeOK
<1>1. /\ pc = "sort" /\ ready = {} /\ pc' = "forward"
      /\ order' = IF Len(order) = Cardinality(Nodes) THEN order ELSE Declared
      /\ edges' = edges /\ used' = used /\ waiting' = waiting
  BY DEF EndSort
<1>2. /\ AllSorted <=> Range(order) = Nodes
      /\ Len(order) = Cardinality(Nodes) <=> Range(order) = Nodes
      /\ AllSorted <=> Acyclic(used)
  BY <1>1, SortEnds
<1>3. Declared \in Seq(Nodes) /\ IsInjective(Declared) /\ Range(Declared) = Nodes
  BY CoherenceAssumption
<1>4. Len(Declared) = Cardinality(Nodes)
  BY <1>3, InjectiveLength
<1>5. IsInjective(order') /\ Len(order') = Cardinality(Nodes) /\ Range(order') = Nodes
  BY <1>1, <1>2, <1>3, <1>4 DEF Sorting
<1>6. AllSorted => order' = order
  BY <1>1, <1>2
<1>7. ASSUME AllSorted, NEW i \in Forward(used), NEW l \in DOMAIN order, order[l] = edges[i].to
      PROVE  \E k \in 1..(l - 1) : order[k] = edges[i].from
  BY <1>1, <1>7 DEF Sorting
<1>8. Sorting'
  <2>1. AllSorted' = AllSorted /\ Forward(used)' = Forward(used)
    BY <1>1 DEF AllSorted, Forward
  <2> QED
    BY <1>1, <1>5, <1>6, <1>7, <2>1 DEF Sorting
<1>9. ASSUME AllSorted, NEW i \in Forward(used), NEW k \in DOMAIN order, NEW l \in DOMAIN order,
             order[k] = edges[i].from, order[l] = edges[i].to
      PROVE  k < l
  <2>1. PICK j \in 1..(l - 1) : order[j] = edges[i].from
    BY <1>7, <1>9
  <2>2. DOMAIN order = 1..Len(order) /\ Len(order) \in Nat
    OBVIOUS
  <2>3. j = k
    <3>1. j \in DOMAIN order /\ k \in DOMAIN order /\ order[j] = order[k]
      BY <1>9, <2>1, <2>2
    <3>2. IsInjective(order)
      BY DEF Sorting
    <3> QED
      BY <3>1, <3>2 DEF IsInjective
  <2> QED
    BY <2>1, <2>2, <2>3
<1>10. Acyclic(used)' = Acyclic(used) /\ Forward(used)' = Forward(used)
  BY <1>1 DEF Acyclic, Into, Forward
<1>11. ~Acyclic(used) => order' = Declared
  BY <1>1, <1>2
<1>12. SortIsRight'
  BY <1>1, <1>2, <1>5, <1>6, <1>9, <1>10, <1>11 DEF SortIsRight, AllSorted
<1> QED
  BY <1>8, <1>12

\* The steps that leave the sort alone.
LEMMA SortKept ==
  ASSUME IInv, pc # "sort", pc' # "sort", UNCHANGED <<edges, used, waiting, order>>
  PROVE  Sorting' /\ SortIsRight'
<1>1. Acyclic(used)' = Acyclic(used) /\ Forward(used)' = Forward(used) /\ AllSorted' = AllSorted
  BY DEF Acyclic, Into, Forward, AllSorted
<1> QED
  BY <1>1 DEF IInv, Sorting, SortIsRight

LEMMA StepSorting == IInv /\ [Next]_vars => Sorting' /\ SortIsRight'
<1> SUFFICES ASSUME IInv, [Next]_vars PROVE Sorting' /\ SortIsRight'
  OBVIOUS
<1>1. ASSUME NEW n \in Nodes, Pop(n) PROVE Sorting' /\ SortIsRight'
  <2>1. pc' = "sort"
    BY <1>1 DEF Pop
  <2> QED
    BY <1>1, <2>1, PopSorting DEF SortIsRight
<1>2. CASE EndSort
  BY <1>2, EndSortSorting
<1>3. CASE ApplyForward
  BY <1>3, SortKept DEF ApplyForward, sorting
<1>4. CASE LeaveNode
  BY <1>4, SortKept DEF LeaveNode, sorting
<1>5. CASE EndForward
  BY <1>5, SortKept DEF EndForward, sorting
<1>6. CASE ApplyFeedback
  BY <1>6, SortKept DEF ApplyFeedback, sorting
<1>7. CASE EndPropagate
  BY <1>7, SortKept DEF EndPropagate, sorting
<1>8. ASSUME NEW n \in Nodes \union {Outside}, NEW v \in FixedValues, Intervene(n, v)
      PROVE  Sorting' /\ SortIsRight'
  <2>1. /\ order' = <<>> /\ DOMAIN order' = {} /\ Range(order') = {} /\ pc' = "sort"
        /\ visited' = 0 /\ applied' = {} /\ DOMAIN read' = {}
    BY <1>8 DEF Intervene, Prepare, Range
  <2>2. /\ waiting' = [m \in Nodes |-> Into(used, m)']
        /\ ready' = {m \in Nodes : Into(used, m)' = {}}
    BY <1>8 DEF Intervene, Prepare, Into, Forward
  <2>3. \A m \in Nodes : waiting'[m] = Into(used, m)'
    BY <2>2
  <2> QED
    BY <2>1, <2>2, <2>3 DEF Sorting, SortIsRight, IsInjective
<1>9. CASE UNCHANGED vars
  <2>1. UNCHANGED <<edges, used, waiting, order, ready, pc, visited, applied, read>>
    BY <1>9 DEF vars, sorting, passing
  <2>2. /\ Acyclic(used)' = Acyclic(used) /\ Forward(used)' = Forward(used)
        /\ AllSorted' = AllSorted /\ \A n \in Nodes : Into(used, n)' = Into(used, n)
    BY <2>1 DEF Acyclic, Into, Forward, AllSorted
  <2> QED
    BY <2>1, <2>2 DEF IInv, Sorting, SortIsRight
<1> QED
  BY <1>1, <1>2, <1>3, <1>4, <1>5, <1>6, <1>7, <1>8, <1>9 DEF Next, Propagate

-----------------------------------------------------------------------------
(* The passes.                                                             *)

\* An edge of the forward pass changes the node it ends at, from which no
\* edge that has been applied starts.
LEMMA ApplyForwardPassing ==
  ASSUME IInv, ApplyForward, AllSorted
  PROVE  /\ applied' = DOMAIN read' /\ applied' \subseteq Forward(used)
         /\ \A j \in applied' : \E k \in 1..(visited + 1) : k <= Len(order) /\ order[k] = edges[j].to
         /\ \A j \in DOMAIN read' : read'[j] = values'[edges[j].from]
<1> USE DEF IInv, TypeOK
<1>1. DOMAIN order = 1..Len(order) /\ Len(order) \in Nat /\ visited \in Nat /\ visited < Len(order)
  BY DEF ApplyForward
<1>2. Left \in SUBSET used /\ Left \in SUBSET Nat /\ Left # {}
  BY EdgesTyped DEF ApplyForward, Left, Into, Forward
<1> DEFINE i == NextOf(Left)
<1>3. /\ i \in used /\ i \in Forward(used) /\ i \notin applied
      /\ edges[i].to = order[visited + 1]
  BY <1>2, NextIsElement DEF Left, Into, Current
<1>4. /\ pc = "forward" /\ applied' = applied \union {i} /\ Apply(i)
      /\ read' = [j \in DOMAIN read \union {i} |-> IF j = i THEN values[edges[i].from] ELSE read[j]]
  BY DEF ApplyForward
<1> HIDE DEF i
<1>5. /\ applied = DOMAIN read /\ applied \subseteq Forward(used)
      /\ \A j \in applied : \E k \in 1..(visited + 1) : k <= Len(order) /\ order[k] = edges[j].to
      /\ \A j \in applied : read[j] = values[edges[j].from]
  BY <1>4 DEF Passing, UpstreamIsFinal, AllSorted, Feedback, Forward
<1>6. ASSUME NEW j \in applied' PROVE \E k \in 1..(visited + 1) : k <= Len(order) /\ order[k] = edges[j].to
  <2>1. CASE j \in applied
    BY <1>5, <2>1
  <2>2. CASE j = i
    BY <1>1, <1>3, <2>2
  <2> QED
    BY <1>4, <1>6, <2>1, <2>2
<1>7. ASSUME NEW j \in applied' PROVE edges[j].from # edges[i].to /\ edges[j].from \in Nodes
  <2>1. j \in Forward(used) /\ j \in used
    BY <1>3, <1>4, <1>5, <1>7
  <2>2. PICK k \in 1..(visited + 1) : k <= Len(order) /\ order[k] = edges[j].to
    BY <1>6, <1>7
  <2>3. PICK l \in 1..(k - 1) : order[l] = edges[j].from
    BY <1>1, <2>1, <2>2 DEF Sorting
  <2>4. order[l] # order[visited + 1]
    <3> HIDE DEF IInv, TypeOK
    <3>1. k \in Int /\ 1 <= k /\ k <= visited + 1 /\ l \in Int /\ 1 <= l /\ l <= k - 1
      BY <1>1
    <3>2. l \in 1..Len(order) /\ visited + 1 \in 1..Len(order) /\ l # visited + 1
      BY <1>1, <3>1
    <3>3. IsInjective(order)
      BY DEF Sorting, IInv
    <3> QED
      BY <1>1, <3>2, <3>3 DEF IsInjective
  <2> QED
    BY <1>3, <2>1, <2>3, <2>4, EdgesTyped
<1>8. \A n \in Nodes : n # edges[i].to => values'[n] = values[n]
  BY <1>3, <1>4, ApplyTyped
<1>9. ASSUME NEW j \in DOMAIN read' PROVE read'[j] = values'[edges[j].from]
  <2>1. j \in applied'
    BY <1>4, <1>5, <1>9
  <2>2. values'[edges[j].from] = values[edges[j].from]
    BY <1>7, <1>8, <2>1
  <2> QED
    BY <1>4, <1>5, <2>1, <2>2
<1> QED
  BY <1>3, <1>4, <1>5, <1>6, <1>9

LEMMA StepPassing == IInv /\ [Next]_vars => Passing'
<1> SUFFICES ASSUME IInv, [Next]_vars PROVE Passing'
  OBVIOUS
<1>1. ASSUME NEW n \in Nodes, Pop(n) PROVE Passing'
  <2>1. pc' = "sort"
    BY <1>1 DEF Pop
  <2> QED
    BY <2>1 DEF Passing, UpstreamIsFinal
<1>2. CASE EndSort
  <2>1. applied' = {} /\ DOMAIN read' = {} /\ pc' = "forward"
    BY <1>2 DEF EndSort, passing, IInv, Sorting
  <2> QED
    BY <2>1 DEF Passing, UpstreamIsFinal
<1>3. CASE ApplyForward
  <2>1. UNCHANGED <<edges, used, waiting, order, visited, pc>>
    BY <1>3 DEF ApplyForward, sorting
  <2>2. AllSorted' = AllSorted /\ Forward(used)' = Forward(used)
    BY <2>1 DEF AllSorted, Forward
  <2> QED
    BY <1>3, <2>1, <2>2, ApplyForwardPassing DEF Passing, UpstreamIsFinal
<1>4. CASE LeaveNode
  <2>1. /\ UNCHANGED <<edges, used, waiting, order, pc, applied, values, read>>
        /\ visited' = visited + 1 /\ visited \in Nat /\ pc = "forward"
    BY <1>4 DEF LeaveNode, sorting, IInv, TypeOK
  <2>2. AllSorted' = AllSorted /\ Forward(used)' = Forward(used) /\ Feedback(used)' = Feedback(used)
    BY <2>1 DEF AllSorted, Forward, Feedback
  <2>3. \A k \in 1..(visited + 1) : k \in 1..(visited' + 1)
    BY <2>1
  <2> QED
    BY <2>1, <2>2, <2>3 DEF IInv, Passing, UpstreamIsFinal
<1>5. CASE EndForward
  <2>1. /\ UNCHANGED <<edges, used, waiting, values, read>>
        /\ applied' = {} /\ pc' = "feedback" /\ pc = "forward"
    BY <1>5 DEF EndForward, sorting
  <2>2. AllSorted' = AllSorted
    BY <2>1 DEF AllSorted
  <2>3. AllSorted => \A i \in DOMAIN read : read[i] = values[edges[i].from]
    BY <2>1 DEF IInv, Passing, UpstreamIsFinal, AllSorted, Feedback, Forward
  <2> QED
    BY <2>1, <2>2, <2>3 DEF Passing, UpstreamIsFinal
<1>6. CASE ApplyFeedback
  <2> DEFINE S == Feedback(used) \ applied
  <2>1. S \in SUBSET Nat /\ S # {}
    BY <1>6, EdgesTyped DEF ApplyFeedback, Feedback, IInv, TypeOK
  <2>2. NextOf(S) \in Feedback(used) /\ NextOf(S) \in applied' /\ pc' = "feedback"
    BY <1>6, <2>1, NextIsElement DEF ApplyFeedback
  <2>3. Feedback(used)' = Feedback(used)
    BY <1>6 DEF ApplyFeedback, Feedback
  <2> HIDE DEF S
  <2> QED
    BY <2>2, <2>3 DEF Passing, UpstreamIsFinal
<1>7. CASE EndPropagate
  <2>1. pc' \in {"idle", "compared"}
    BY <1>7 DEF EndPropagate
  <2> QED
    BY <2>1 DEF Passing, UpstreamIsFinal
<1>8. ASSUME NEW n \in Nodes \union {Outside}, NEW v \in FixedValues, Intervene(n, v) PROVE Passing'
  <2>1. pc' = "sort"
    BY <1>8 DEF Intervene
  <2> QED
    BY <2>1 DEF Passing, UpstreamIsFinal
<1>9. CASE UNCHANGED vars
  <2>1. UNCHANGED <<edges, used, waiting, order, pc, visited, applied, values, read>>
    BY <1>9 DEF vars, sorting, passing
  <2>2. AllSorted' = AllSorted /\ Forward(used)' = Forward(used) /\ Feedback(used)' = Feedback(used)
    BY <2>1 DEF AllSorted, Forward, Feedback
  <2> QED
    BY <2>1, <2>2 DEF IInv, Passing, UpstreamIsFinal
<1> QED
  BY <1>1, <1>2, <1>3, <1>4, <1>5, <1>6, <1>7, <1>8, <1>9 DEF Next, Propagate

LEMMA StepClamping == IInv /\ [Next]_vars => Clamping'
<1> SUFFICES ASSUME IInv, [Next]_vars PROVE Clamping'
  OBVIOUS
<1>1. CASE EndPropagate
  <2>1. \A n \in Nodes : Clamped(values[n]) \in 0..Unit
    BY ClampedTyped DEF IInv, TypeOK
  <2> QED
    BY <1>1, <2>1 DEF EndPropagate, Clamping
<1>2. CASE UNCHANGED vars
  BY <1>2 DEF vars, passing, IInv, Clamping
<1>3. CASE \/ \E n \in Nodes : Pop(n)
           \/ EndSort \/ ApplyForward \/ LeaveNode \/ EndForward \/ ApplyFeedback
           \/ \E n \in Nodes \union {Outside}, v \in FixedValues : Intervene(n, v)
  <2>1. pc' \in {"sort", "forward", "feedback"}
    BY <1>3 DEF Pop, EndSort, ApplyForward, LeaveNode, EndForward, ApplyFeedback, Intervene
  <2> QED
    BY <2>1 DEF Clamping
<1> QED
  BY <1>1, <1>2, <1>3 DEF Next, Propagate

LEMMA InitIInv == Init => IInv
<1> SUFFICES ASSUME Init PROVE IInv
  OBVIOUS
<1>1. TypeOK /\ Sorting
  BY InitTypes, InitSorting
<1>2. pc = "sort"
  BY DEF Init
<1> QED
  BY <1>1, <1>2 DEF IInv, SortIsRight, Passing, UpstreamIsFinal, Clamping

THEOREM CoherenceInvariant == Spec => []IInv
<1>1. IInv /\ [Next]_vars => IInv'
  BY StepTypes, StepSorting, StepPassing, StepClamping DEF IInv
<1> QED
  BY <1>1, InitIInv, PTL DEF Spec

-----------------------------------------------------------------------------
(* Every variable keeps its type.                                          *)
THEOREM CoherenceTyped == Spec => []TypeOK
<1>1. IInv => TypeOK
  BY DEF IInv
<1> QED
  BY <1>1, CoherenceInvariant, PTL

(* Whatever the order of the queue, Kahn's loop sorts all nodes exactly    *)
(* when the graph has no cycle besides feedback, and then rightly; with a  *)
(* cycle the order is that of the declaration.  Every node is visited once *)
(* (_kahn, propagation.py:88-112).                                         *)
THEOREM SortsRightly == Spec => []SortIsRight
<1>1. IInv => SortIsRight
  BY DEF IInv
<1> QED
  BY <1>1, CoherenceInvariant, PTL

(* In a graph without such a cycle every edge of the forward pass sees the *)
(* final value of its source.                                              *)
THEOREM UpstreamFirst == Spec => []UpstreamIsFinal
<1>1. IInv => UpstreamIsFinal
  BY DEF IInv, Passing, UpstreamIsFinal, AllSorted
<1> QED
  BY <1>1, CoherenceInvariant, PTL

-----------------------------------------------------------------------------
(* The report.                                                             *)

LEMMA WeightTyped ==
  ASSUME TypeOK, NEW n \in Nodes
  PROVE  Weight(n) \in Nat \ {0}
<1> DEFINE S == {i \in DOMAIN edges : edges[i].to = n}
<1> DEFINE w == [i \in DOMAIN edges |-> edges[i].weight]
<1>1. S \in SUBSET DOMAIN edges /\ IsFiniteSet(S)
  <2>1. IsFiniteSet(DOMAIN edges)
    BY EdgesTyped, FS_Interval
  <2>2. S \in SUBSET DOMAIN edges
    OBVIOUS
  <2> HIDE DEF S
  <2> QED
    BY <2>1, <2>2, FS_Subset
<1>2. \A i \in S : w[i] \in Nat
  BY EdgesTyped, CoherenceAssumption
<1> HIDE DEF S, w
<1>3. SumFunctionOnSet(w, S) \in Nat
  BY <1>1, <1>2, SumNatural
<1> QED
  BY <1>3, CoherenceAssumption DEF Weight, S, w

\* A weighted mean lies between bounds of what it is taken of.
LEMMA IndexBetween ==
  ASSUME TypeOK, NEW v \in [Nodes -> 0..Unit], NEW low \in Int, NEW high \in Int,
         \A n \in Nodes : v[n] >= low /\ v[n] <= high
  PROVE  IndexOf(v) >= low /\ IndexOf(v) <= high
<1> DEFINE w == [n \in Nodes |-> Weight(n)]
<1> DEFINE p == [n \in Nodes |-> v[n] * Weight(n)]
<1>1. IsFiniteSet(Nodes) /\ Unit \in Nat
  BY CoherenceAssumption
<1>2. \A n \in Nodes : /\ v[n] \in Int /\ low <= v[n] /\ v[n] <= high
                       /\ w[n] \in Nat /\ w[n] > 0 /\ p[n] = v[n] * w[n]
  BY <1>1, WeightTyped
<1>3. PICK m \in Nodes : TRUE
  BY CoherenceAssumption
<1> DEFINE sum == SumFunctionOnSet(w, Nodes)
<1> DEFINE total == SumFunctionOnSet(p, Nodes)
<1>4. IndexOf(v) = total \div sum
  BY DEF IndexOf, SumFunction
<1> HIDE DEF w, p
<1>5. sum \in Nat \ {0}
  BY <1>1, <1>2, <1>3, SumPositive
<1>6. total \in Int /\ low * sum <= total /\ total <= high * sum
  <2>1. \A n \in Nodes : /\ v[n] \in Int /\ low <= v[n] /\ v[n] <= high
                         /\ w[n] \in Nat /\ p[n] = v[n] * w[n]
    BY <1>2
  <2>2. /\ SumFunctionOnSet(w, Nodes) \in Nat /\ SumFunctionOnSet(p, Nodes) \in Int
        /\ low * SumFunctionOnSet(w, Nodes) <= SumFunctionOnSet(p, Nodes)
        /\ SumFunctionOnSet(p, Nodes) <= high * SumFunctionOnSet(w, Nodes)
    <3>1. IsFiniteSet(Nodes)
      BY <1>1
    <3> HIDE <1>2, <1>1
    <3> QED
      BY <2>1, <3>1, WeightedBetween
  <2> QED
    BY <2>2
<1> HIDE DEF sum, total
<1>7. low <= total \div sum /\ total \div sum <= high
  BY <1>5, <1>6, QuotientBetween
<1>8. total \div sum \in Int
  BY <1>5, <1>6
<1> QED
  BY <1>4, <1>7, <1>8

(* Node scores are clamped, and the index of the report lies between the   *)
(* weakest and the strongest node, for a counterfactual too, although it   *)
(* is weighted by edges that the counterfactual has severed.               *)
THEOREM ReportsAreBounded == Spec => []ReportIsBounded
<1>1. ASSUME IInv, pc \in {"idle", "compared"}
      PROVE  \E weakest, strongest \in Nodes :
               /\ \A n \in Nodes : values[n] >= values[weakest] /\ values[n] <= values[strongest]
               /\ IndexOf(values) >= values[weakest] /\ IndexOf(values) <= values[strongest]
  <2>1. values \in [Nodes -> 0..Unit] /\ Unit \in Nat /\ Nodes # {} /\ TypeOK
    BY <1>1, CoherenceAssumption DEF IInv, Clamping
  <2>2. PICK l, h \in Nodes : \A n \in Nodes : values[n] >= values[l] /\ values[n] <= values[h]
    BY <2>1, ExtremesExist
  <2>3. values[l] \in Int /\ values[h] \in Int
    BY <2>1
  <2>4. IndexOf(values) >= values[l] /\ IndexOf(values) <= values[h]
    BY <2>1, <2>2, <2>3, IndexBetween
  <2> QED
    BY <2>2, <2>4
<1>2. IInv => ReportIsBounded
  BY <1>1 DEF IInv, Clamping, ReportIsBounded
<1> QED
  BY <1>2, CoherenceInvariant, PTL

-----------------------------------------------------------------------------
(* What a propagation computes, said without its steps.  In a graph with   *)
(* no cycle it is determined by the edges and the values at the start,     *)
(* node by node: this is why two propagations agree where their edges do.  *)

Places == 1..Len(edges)

\* c[k] is the value of n when the inbound edges up to k have been applied to
\* x, with w for the values of the other nodes.
IsChain(list, n, w, x, c) ==
  /\ c \in [0..Len(edges) -> Int]
  /\ c[0] = x
  /\ \A k \in Places : c[k] = IF k \in Into(list, n) THEN Outcome(edges[k], w[edges[k].from], c[k - 1])
                                                     ELSE c[k - 1]

\* The inbound edges of n make v of x.
Makes(list, n, w, x, v) == \E c : IsChain(list, n, w, x, c) /\ v = c[Len(edges)]

\* w are the values after the forward edges of the list.
IsForward(list, start, w) ==
  /\ w \in [Nodes -> Int]
  /\ \A n \in Nodes : Makes(list, n, w, start[n], w[n])

\* A list with one more edge, and what this one makes of v.
With(list, i) == list \union {i}
After(i, w, v) == Outcome(edges[i], w[edges[i].from], v)

\* What the feedback edge k makes of the values v.
Fed(k, v) == [v EXCEPT ![edges[k].to] = Outcome(edges[k], v[edges[k].from], v[edges[k].to])]

\* f[k] are the values when the feedback edges up to k have been applied to w.
IsFeedback(list, w, f) ==
  /\ f \in [0..Len(edges) -> [Nodes -> Int]]
  /\ f[0] = w
  /\ \A k \in Places : f[k] = IF k \in Feedback(list) THEN Fed(k, f[k - 1]) ELSE f[k - 1]

\* The feedback edges make v of w.
Feeds(list, w, v) == \E f : IsFeedback(list, w, f) /\ v = f[Len(edges)]

IsOutcome(list, start, v) ==
  \E w, f : IsForward(list, start, w) /\ Feeds(list, w, f) /\ v = [n \in Nodes |-> Clamped(f[n])]

\* The edge i comes after those of the list that end where it ends.
Behind(list, i) == \A j \in Into(list, edges[i].to) : j < i

\* With one more edge, behind those of the list, a chain gets one more link.
LEMMA MakesOneMore ==
  ASSUME TypeOK, NEW list, NEW n \in Nodes, NEW w \in [Nodes -> Int], NEW x \in Int,
         NEW v, Makes(list, n, w, x, v),
         NEW i, i \in Forward(DOMAIN edges), n = edges[i].to, Behind(list, i)
  PROVE  Makes(With(list, i), n, w, x, After(i, w, v))
<1> DEFINE more == With(list, i)
<1> DEFINE y == After(i, w, v)
<1>c. PICK c : IsChain(list, n, w, x, c) /\ v = c[Len(edges)]
  BY DEF Makes
<1>e. more = list \union {i} /\ y = Outcome(edges[i], w[edges[i].from], c[Len(edges)])
  BY <1>c DEF With, After
<1> HIDE DEF more, y
<1> DEFINE L == Len(edges)
<1>1. /\ L \in Nat /\ i \in 1..L /\ edges[i] \in Edge /\ edges[i].from \in Nodes
      /\ \A k \in 1..L : k \in Int /\ k - 1 \in 0..L /\ k \in 0..L
  BY EdgesTyped DEF Forward
<1>2. /\ c \in [0..L -> Int] /\ c[0] = x
      /\ \A k \in 1..L : c[k] = IF k \in Into(list, n) THEN Outcome(edges[k], w[edges[k].from], c[k - 1])
                                                       ELSE c[k - 1]
  BY <1>c DEF IsChain, Places
<1>3. y \in Int
  BY <1>1, <1>2, <1>e, OutcomeTyped
<1>4. c[L] = c[i - 1]
  <2> DEFINE T == {k \in (i - 1)..L : c[k] # c[i - 1]}
  <2>1. ASSUME T # {} PROVE FALSE
    <3>1. T \in SUBSET Nat
      BY <1>1
    <3>2. PICK k \in T : \A m \in T : k <= m
      <4> HIDE DEF T
      <4> QED
        BY <2>1, <3>1, LeastElement
    <3>3. k \in i..L /\ k \in 1..L /\ k - 1 \in (i - 1)..L /\ c[k] # c[i - 1]
      BY <1>1, <3>2
    <3>4. c[k - 1] = c[i - 1]
      <4>1. k - 1 \notin T
        BY <1>1, <3>2, <3>3
      <4> QED
        BY <3>3, <4>1
    <3>5. k \notin Into(list, n)
      BY <1>1, <3>3 DEF Behind
    <3> QED
      BY <1>2, <3>3, <3>4, <3>5
  <2>2. L \in (i - 1)..L
    BY <1>1
  <2> QED
    BY <2>1, <2>2
<1> DEFINE d == [k \in 0..L |-> IF k < i THEN c[k] ELSE y]
<1>5. Into(more, n) = Into(list, n) \union {i}
  BY <1>1, <1>e DEF Into, Forward
<1>6. ASSUME NEW k \in 1..L
      PROVE  d[k] = IF k \in Into(more, n) THEN Outcome(edges[k], w[edges[k].from], d[k - 1])
                                                      ELSE d[k - 1]
  <2>1. CASE k < i
    <3>1. d[k] = c[k] /\ d[k - 1] = c[k - 1]
      BY <1>1, <2>1
    <3>2. k \in Into(more, n) <=> k \in Into(list, n)
      <4>1. k # i
        BY <1>1, <2>1
      <4> QED
        BY <1>5, <4>1
    <3> HIDE DEF d
    <3> QED
      BY <1>2, <3>1, <3>2
  <2>2. CASE k = i
    <3>1. d[k] = y /\ d[k - 1] = c[i - 1]
      BY <1>1, <2>2
    <3>2. k \in Into(more, n)
      BY <1>5, <2>2
    <3> HIDE DEF d
    <3> QED
      BY <1>4, <1>e, <2>2, <3>1, <3>2
  <2>3. CASE k > i
    <3>1. d[k] = y /\ d[k - 1] = y
      BY <1>1, <2>3
    <3>2. k \notin Into(more, n)
      <4>1. k # i /\ ~(k < i)
        BY <1>1, <2>3
      <4> QED
        BY <1>5, <4>1 DEF Behind
    <3> HIDE DEF d
    <3> QED
      BY <3>1, <3>2
  <2> QED
    BY <1>1, <2>1, <2>2, <2>3
<1>7. d \in [0..L -> Int] /\ d[0] = x /\ d[L] = y
  BY <1>1, <1>2, <1>3
<1> HIDE DEF d
<1>8. IsChain(more, n, w, x, d)
  BY <1>6, <1>7 DEF IsChain, Places
<1> QED
  BY <1>7, <1>8 DEF Makes, more, y

\* What is made depends on the edges and on the values they read.
LEMMA MakesTheSame ==
  ASSUME NEW list, NEW other, NEW n \in Nodes, NEW w, NEW u, NEW x, NEW v, Makes(list, n, w, x, v),
         Into(other, n) = Into(list, n), \A j \in Into(list, n) : u[edges[j].from] = w[edges[j].from]
  PROVE  Makes(other, n, u, x, v)
BY DEF Makes, IsChain

\* One edge of the forward pass.
LEMMA ForwardExtends ==
  ASSUME TypeOK, NEW list, NEW start \in [Nodes -> Int], IsForward(list, start, values),
         NEW i \in used, edges[i].type # "feedback", Apply(i),
         Behind(list, i),
         \A j \in Forward(list) : edges[j].from # edges[i].to,
         edges[i].from # edges[i].to, list \subseteq DOMAIN edges
  PROVE  \E w : w = values' /\ IsForward(With(list, i), start, w)
<1> DEFINE m == edges[i].to
<1> DEFINE more == With(list, i)
<1> DEFINE w == values'
<1>1. more = list \union {i}
  BY DEF With
<1>2. /\ i \in DOMAIN edges /\ m \in Nodes /\ edges[i].from \in Nodes /\ values \in [Nodes -> Int]
      /\ \A j \in DOMAIN edges : edges[j].from \in Nodes
  BY EdgesTyped DEF TypeOK
<1>3. w \in [Nodes -> Int] /\ \A n \in Nodes : n # m => w[n] = values[n]
  BY ApplyTyped
<1>4. w[m] = After(i, values, values[m])
  BY <1>2 DEF Apply, After
<1> HIDE DEF more, w
<1>5. \A n \in Nodes : \A j \in Into(more, n) : w[edges[j].from] = values[edges[j].from]
  BY <1>1, <1>2, <1>3 DEF Into, Forward
<1>6. ASSUME NEW n \in Nodes, n # m
      PROVE  Makes(more, n, w, start[n], w[n])
  <2>1. Makes(list, n, values, start[n], values[n])
    BY DEF IsForward
  <2>2. Into(more, n) = Into(list, n)
    BY <1>1, <1>6 DEF Into, Forward
  <2>3. \A j \in Into(list, n) : w[edges[j].from] = values[edges[j].from]
    BY <1>5, <2>2
  <2> QED
    BY <1>3, <1>6, <2>1, <2>2, <2>3, MakesTheSame
<1>7. Makes(more, m, w, start[m], w[m])
  <2>1. Makes(list, m, values, start[m], values[m]) /\ start[m] \in Int
    BY <1>2 DEF IsForward
  <2>2. i \in Forward(DOMAIN edges)
    BY <1>2 DEF Forward
  <2>3. Makes(With(list, i), m, values, start[m], After(i, values, values[m]))
    BY <1>2, <2>1, <2>2, MakesOneMore
  <2>4. Makes(more, m, values, start[m], w[m])
    BY <1>4, <2>3 DEF more
  <2> HIDE DEF m
  <2>5. \A j \in Into(more, m) : w[edges[j].from] = values[edges[j].from]
    BY <1>2, <1>5
  <2> QED
    BY <1>2, <2>4, <2>5, MakesTheSame
<1> HIDE DEF m
<1>8. IsForward(more, start, w)
  BY <1>3, <1>6, <1>7 DEF IsForward
<1> QED
  BY <1>8 DEF more, w

\* What is made of a value is one value; without edges it is the value itself.
LEMMA MakesOne ==
  ASSUME TypeOK, NEW list, NEW n, NEW w, NEW x, NEW u, NEW v, Makes(list, n, w, x, u), Makes(list, n, w, x, v)
  PROVE  u = v
<1> DEFINE L == Len(edges)
<1>1. L \in Nat
  BY EdgesTyped
<1>2. PICK c : IsChain(list, n, w, x, c) /\ u = c[L]
  BY DEF Makes
<1>3. PICK d : IsChain(list, n, w, x, d) /\ v = d[L]
  BY DEF Makes
<1> DEFINE C == {k \in 0..L : c[k] = d[k]}
<1>4. 0 \in C
  BY <1>1, <1>2, <1>3 DEF IsChain
<1>5. ASSUME NEW k \in 1..L, k - 1 \in C PROVE k \in C
  <2>1. c[k - 1] = d[k - 1] /\ k \in 0..L /\ k \in Places
    BY <1>1, <1>5 DEF Places
  <2>2. c[k] = d[k]
    BY <1>2, <1>3, <2>1 DEF IsChain
  <2> QED
    BY <2>1, <2>2
<1>6. 0..L \subseteq C
  <2> HIDE DEF C
  <2> QED
    BY <1>1, <1>4, <1>5, InductionUpTo
<1> QED
  BY <1>1, <1>2, <1>3, <1>6

LEMMA MakesNothing ==
  ASSUME TypeOK, NEW list, NEW n, NEW w, NEW x \in Int, Into(list, n) = {}
  PROVE  Makes(list, n, w, x, x)
<1> DEFINE c == [k \in 0..Len(edges) |-> x]
<1>1. Len(edges) \in Nat /\ \A k \in Places : k \in 0..Len(edges) /\ k - 1 \in 0..Len(edges)
  BY EdgesTyped DEF Places
<1>2. c[0] = x /\ c[Len(edges)] = x /\ c \in [0..Len(edges) -> Int]
  BY <1>1
<1>3. \A k \in Places : c[k] = c[k - 1]
  BY <1>1
<1> HIDE DEF c
<1> QED
  BY <1>2, <1>3 DEF Makes, IsChain

\* Two forward passes agree on a set of nodes that no edge of either enters,
\* if they have the same start and the same edges there.
LEMMA ForwardAgrees ==
  ASSUME TypeOK, NEW list \in SUBSET DOMAIN edges, NEW other \in SUBSET DOMAIN edges, Acyclic(list),
         NEW start \in [Nodes -> Int], NEW begin, NEW w, NEW u,
         IsForward(list, start, w), IsForward(other, begin, u),
         NEW A \in SUBSET Nodes,
         \A n \in A : start[n] = begin[n],
         \A n \in A : Into(other, n) = Into(list, n),
         \A n \in A : \A i \in Into(list, n) : edges[i].from \in A
  PROVE  \A n \in A : w[n] = u[n]
<1> DEFINE Bad == {n \in A : w[n] # u[n]}
<1>1. ASSUME Bad # {} PROVE FALSE
  <2>1. PICK n \in Bad : \A i \in Into(list, n) : edges[i].from \notin Bad
    <3>1. Bad \in SUBSET Nodes
      OBVIOUS
    <3> HIDE DEF Bad
    <3> QED
      BY <1>1, <3>1 DEF Acyclic
  <2>2. \A i \in Into(list, n) : u[edges[i].from] = w[edges[i].from]
    BY <2>1
  <2>3. n \in A /\ n \in Nodes /\ Into(other, n) = Into(list, n) /\ start[n] = begin[n]
    BY <2>1
  <2>4. Makes(list, n, w, start[n], w[n]) /\ Makes(other, n, u, start[n], u[n])
    BY <2>3 DEF IsForward
  <2>5. Makes(other, n, u, start[n], w[n])
    BY <2>2, <2>3, <2>4, MakesTheSame
  <2>6. w[n] = u[n]
    BY <2>4, <2>5, MakesOne
  <2> QED
    BY <2>1, <2>6
<1> QED
  BY <1>1

\* The same of two feedback passes.
LEMMA FeedbackAgrees ==
  ASSUME TypeOK, NEW list \in SUBSET DOMAIN edges, NEW other \in SUBSET DOMAIN edges,
         NEW w, NEW u, NEW v, NEW x, Feeds(list, w, v), Feeds(other, u, x),
         NEW A \in SUBSET Nodes,
         \A n \in A : w[n] = u[n],
         \A i \in DOMAIN edges : edges[i].to \in A => (i \in Feedback(list) <=> i \in Feedback(other)),
         \A i \in Feedback(list) : edges[i].to \in A => edges[i].from \in A
  PROVE  \A n \in A : v[n] = x[n]
<1> DEFINE L == Len(edges)
<1>1. L \in Nat /\ Places = DOMAIN edges
  BY EdgesTyped DEF Places
<1>2. PICK f : IsFeedback(list, w, f) /\ v = f[L]
  BY DEF Feeds
<1>3. PICK g : IsFeedback(other, u, g) /\ x = g[L]
  BY DEF Feeds
<1> DEFINE C == {k \in 0..L : \A n \in A : f[k][n] = g[k][n]}
<1>4. 0 \in C
  BY <1>1, <1>2, <1>3 DEF IsFeedback
<1>5. ASSUME NEW k \in 1..L, k - 1 \in C PROVE k \in C
  <2>1. k \in 0..L /\ k - 1 \in 0..L /\ k \in Places /\ k \in DOMAIN edges
    BY <1>1 DEF Places
  <2>2. \A n \in A : f[k - 1][n] = g[k - 1][n]
    BY <1>5
  <2>3. f[k - 1] \in [Nodes -> Int] /\ g[k - 1] \in [Nodes -> Int]
    BY <1>2, <1>3, <2>1 DEF IsFeedback
  <2>4. /\ f[k] = IF k \in Feedback(list) THEN Fed(k, f[k - 1]) ELSE f[k - 1]
        /\ g[k] = IF k \in Feedback(other) THEN Fed(k, g[k - 1]) ELSE g[k - 1]
    BY <1>2, <1>3, <2>1 DEF IsFeedback
  <2>5. ASSUME NEW n \in A PROVE f[k][n] = g[k][n]
    <3>1. CASE edges[k].to # n
      <4>1. Fed(k, f[k - 1])[n] = f[k - 1][n] /\ Fed(k, g[k - 1])[n] = g[k - 1][n]
        BY <2>3, <3>1 DEF Fed
      <4> QED
        BY <2>2, <2>4, <4>1
    <3>2. CASE edges[k].to = n
      <4>1. k \in Feedback(list) <=> k \in Feedback(other)
        BY <2>1, <3>2
      <4>2. ASSUME k \in Feedback(list) PROVE f[k][n] = g[k][n]
        <5>1. edges[k].from \in A
          BY <3>2, <4>2
        <5>2. /\ Fed(k, f[k - 1])[n] = Outcome(edges[k], f[k - 1][edges[k].from], f[k - 1][n])
              /\ Fed(k, g[k - 1])[n] = Outcome(edges[k], g[k - 1][edges[k].from], g[k - 1][n])
          BY <2>3, <3>2 DEF Fed
        <5> QED
          BY <2>2, <2>4, <4>1, <4>2, <5>1, <5>2
      <4> QED
        BY <2>2, <2>4, <4>1, <4>2
    <3> QED
      BY <3>1, <3>2
  <2> QED
    BY <2>1, <2>5
<1>6. 0..L \subseteq C
  <2> HIDE DEF C
  <2> QED
    BY <1>1, <1>4, <1>5, InductionUpTo
<1>7. L \in C
  <2> HIDE DEF C
  <2> QED
    BY <1>1, <1>6
<1> QED
  BY <1>2, <1>3, <1>7

\* With no edge the values stay.
LEMMA FeedsNothing ==
  ASSUME TypeOK, NEW list, NEW w \in [Nodes -> Int], Feedback(list) = {}
  PROVE  Feeds(list, w, w)
<1> DEFINE f == [k \in 0..Len(edges) |-> w]
<1>1. Len(edges) \in Nat /\ \A k \in Places : k \in 0..Len(edges) /\ k - 1 \in 0..Len(edges)
  BY EdgesTyped DEF Places
<1>2. f[0] = w /\ f[Len(edges)] = w /\ f \in [0..Len(edges) -> [Nodes -> Int]]
  BY <1>1
<1>3. \A k \in Places : f[k] = f[k - 1]
  BY <1>1
<1> HIDE DEF f
<1> QED
  BY <1>2, <1>3 DEF Feeds, IsFeedback

\* With one more feedback edge, behind those of the list, there is one more step.
LEMMA FeedsOneMore ==
  ASSUME TypeOK, NEW list, NEW w, NEW v, Feeds(list, w, v),
         NEW i, i \in Feedback(DOMAIN edges), \A j \in Feedback(list) : j < i
  PROVE  Feeds(With(list, i), w, Fed(i, v))
<1> DEFINE L == Len(edges)
<1> DEFINE more == With(list, i)
<1> DEFINE y == Fed(i, v)
<1>1. /\ L \in Nat /\ i \in 1..L /\ edges[i] \in Edge /\ edges[i].from \in Nodes /\ edges[i].to \in Nodes
      /\ \A k \in 1..L : k \in Int /\ k - 1 \in 0..L /\ k \in 0..L
  BY EdgesTyped DEF Feedback
<1>2. PICK f : IsFeedback(list, w, f) /\ v = f[L]
  BY DEF Feeds
<1>3. /\ f \in [0..L -> [Nodes -> Int]] /\ f[0] = w /\ v = f[L]
      /\ \A k \in 1..L : f[k] = IF k \in Feedback(list) THEN Fed(k, f[k - 1]) ELSE f[k - 1]
  BY <1>2 DEF IsFeedback, Places
<1>4. v \in [Nodes -> Int]
  BY <1>1, <1>3
<1>5. y \in [Nodes -> Int]
  <2>1. Outcome(edges[i], v[edges[i].from], v[edges[i].to]) \in Int
    BY <1>1, <1>4, OutcomeTyped
  <2> QED
    BY <1>1, <1>4, <2>1 DEF Fed
<1>6. f[L] = f[i - 1]
  <2> DEFINE C == {k \in 0..L : k >= i => f[k] = f[i - 1]}
  <2>1. 0 \in C
    BY <1>1
  <2>2. ASSUME NEW k \in 1..L, k - 1 \in C PROVE k \in C
    <3>1. CASE k < i
      BY <1>1, <3>1
    <3>2. CASE k = i
      <4>1. k \notin Feedback(list)
        BY <1>1, <3>2
      <4>2. f[k] = f[i - 1]
        BY <1>3, <3>2, <4>1
      <4> QED
        BY <1>1, <4>2
    <3>3. CASE k > i
      <4>1. k \notin Feedback(list)
        BY <1>1, <3>3
      <4>2. f[k] = f[k - 1]
        BY <1>3, <4>1
      <4>3. f[k - 1] = f[i - 1]
        BY <1>1, <2>2, <3>3
      <4> QED
        BY <1>1, <4>2, <4>3
    <3> QED
      BY <1>1, <3>1, <3>2, <3>3
  <2>3. 0..L \subseteq C
    <3> HIDE DEF C
    <3> QED
      BY <1>1, <2>1, <2>2, InductionUpTo
  <2>4. L \in C
    <3> HIDE DEF C
    <3> QED
      BY <1>1, <2>3
  <2> QED
    BY <1>1, <2>4
<1>7. y = Fed(i, f[i - 1])
  BY <1>3, <1>6
<1>8. \A k : k \in Feedback(more) <=> k \in Feedback(list) \/ k = i
  BY <1>1 DEF With, Feedback
<1> DEFINE g == [k \in 0..L |-> IF k < i THEN f[k] ELSE y]
<1> HIDE DEF more, y
<1>9. ASSUME NEW k \in 1..L PROVE g[k] = IF k \in Feedback(more) THEN Fed(k, g[k - 1]) ELSE g[k - 1]
  <2>1. CASE k < i
    <3>1. g[k] = f[k] /\ g[k - 1] = f[k - 1] /\ k # i
      BY <1>1, <2>1
    <3> HIDE DEF g
    <3> QED
      BY <1>3, <1>8, <3>1
  <2>2. CASE k = i
    <3>1. g[k] = y /\ g[k - 1] = f[i - 1]
      BY <1>1, <2>2
    <3> HIDE DEF g
    <3> QED
      BY <1>7, <1>8, <2>2, <3>1
  <2>3. CASE k > i
    <3>1. g[k] = y /\ g[k - 1] = y
      BY <1>1, <2>3
    <3>2. k \notin Feedback(more)
      <4>1. k # i /\ ~(k < i)
        BY <1>1, <2>3
      <4> QED
        BY <1>8, <4>1
    <3> HIDE DEF g
    <3> QED
      BY <3>1, <3>2
  <2> QED
    BY <1>1, <2>1, <2>2, <2>3
<1>10. g \in [0..L -> [Nodes -> Int]] /\ g[0] = w /\ g[L] = y
  BY <1>1, <1>3, <1>5
<1> HIDE DEF g
<1>11. IsFeedback(more, w, g)
  BY <1>9, <1>10 DEF IsFeedback, Places
<1> QED
  BY <1>10, <1>11 DEF Feeds, more, y

\* Only the edges that are counted matter.
LEMMA ForwardTheSame ==
  ASSUME NEW list, NEW other, NEW start, NEW w, IsForward(list, start, w),
         \A n \in Nodes : Into(other, n) = Into(list, n)
  PROVE  IsForward(other, start, w)
BY MakesTheSame DEF IsForward

LEMMA FeedsTheSame ==
  ASSUME NEW list, NEW other, NEW w, NEW v, Feeds(list, w, v), Feedback(other) = Feedback(list)
  PROVE  Feeds(other, w, v)
BY DEF Feeds, IsFeedback

-----------------------------------------------------------------------------
(* An intervention is local.                                               *)

\* The edges and the start of a propagation without intervention, and the
\* start of the one at work.
Whole == DOMAIN edges
Unfixed == Seeded(seeds)
Start == IF do.on THEN Fixed(do.node, do.value) ELSE Seeded(seeds)

\* How far the propagator at work has got, and what the baseline is.
ForwardTracked ==
  /\ IsForward(applied, Start, values)
  /\ \A j \in applied : \A k \in Into(used, edges[j].to) : k < j => k \in applied
  /\ \A l \in 1..visited : Into(used, order[l]) \subseteq applied

FeedbackTracked ==
  /\ \E w : IsForward(used, Start, w) /\ Feeds(applied, w, values)
  /\ applied \subseteq Feedback(used)
  /\ \A j \in applied : \A k \in Feedback(used) : k < j => k \in applied

Tracking ==
  /\ used = IF do.on THEN Severed(do.node) ELSE Whole
  /\ pc = "idle" => ~do.on
  /\ pc = "compared" => do.on
  /\ pc = "sort" => values = Start
  /\ pc = "forward" /\ Acyclic(used) => ForwardTracked
  /\ pc = "feedback" /\ Acyclic(used) => FeedbackTracked
  /\ pc = "compared" /\ Acyclic(used) => IsOutcome(used, Start, values)
  /\ pc = "idle" \/ do.on => (Acyclic(Whole) => IsOutcome(Whole, Unfixed, baseline))

\* Without some of its edges a graph has no more cycles.
LEMMA AcyclicPart ==
  ASSUME NEW list, NEW part \in SUBSET list, Acyclic(list)
  PROVE  Acyclic(part)
BY DEF Acyclic, Into, Forward

LEMMA StartTyped == ASSUME TypeOK PROVE Start \in [Nodes -> Int]
<1>1. Seeded(seeds) \in [Nodes -> Int]
  BY SeedsTyped DEF TypeOK
<1>2. do.value \in Int
  BY CoherenceAssumption DEF TypeOK
<1> QED
  BY <1>1, <1>2 DEF Start, Fixed

LEMMA TrackingImpliesLocal == TypeOK /\ Tracking => InterventionIsLocal
<1> SUFFICES ASSUME TypeOK, Tracking, pc = "compared", Acyclic(DOMAIN edges)
             PROVE  /\ do.node \in Nodes => values[do.node] = Clamped(do.value)
                    /\ \A n \in Nodes \ Reach(do.node) : values[n] = baseline[n]
  BY DEF InterventionIsLocal
<1>1. /\ do.on /\ used = Severed(do.node) /\ used \in SUBSET DOMAIN edges
      /\ Start = Fixed(do.node, do.value)
  BY DEF Tracking, Start, Severed
<1>2. Acyclic(used)
  BY <1>1, AcyclicPart
<1>3. PICK w, f : /\ IsForward(used, Start, w) /\ Feeds(used, w, f)
                  /\ values = [n \in Nodes |-> Clamped(f[n])]
  BY <1>2 DEF Tracking, IsOutcome
<1>4. PICK u, g : /\ IsForward(DOMAIN edges, Seeded(seeds), u) /\ Feeds(DOMAIN edges, u, g)
                  /\ baseline = [n \in Nodes |-> Clamped(g[n])]
  BY <1>1 DEF Tracking, IsOutcome, Whole, Unfixed
<1>5. Start \in [Nodes -> Int] /\ Seeded(seeds) \in [Nodes -> Int] /\ w \in [Nodes -> Int]
  BY <1>3, StartTyped, SeedsTyped DEF TypeOK, IsForward
<1>6. ASSUME do.node \in Nodes PROVE values[do.node] = Clamped(do.value)
  <2> DEFINE n == do.node
  <2>1. Into(used, n) = {} /\ \A i \in Feedback(used) : edges[i].to # n
    BY <1>1 DEF Into, Forward, Feedback, Severed
  <2>2. Start[n] = do.value /\ Start[n] \in Int
    BY <1>1, <1>5, <1>6 DEF Fixed
  <2>3. Makes(used, n, w, Start[n], w[n]) /\ Makes(used, n, w, Start[n], Start[n])
    BY <1>3, <1>6, <2>1, <2>2, MakesNothing DEF IsForward
  <2>4. w[n] = do.value
    BY <2>2, <2>3, MakesOne
  <2>5. Feeds({}, w, w)
    BY <1>5, FeedsNothing DEF Feedback
  <2>6. f[n] = w[n]
    <3> DEFINE A == {n}
    <3> DEFINE none == {}
    <3>1. A \in SUBSET Nodes /\ none \in SUBSET DOMAIN edges /\ Feeds(none, w, w) /\ \A m \in A : w[m] = w[m]
      BY <1>6, <2>5
    <3>2. \A i \in DOMAIN edges : edges[i].to \in A => (i \in Feedback(used) <=> i \in Feedback(none))
      BY <2>1 DEF Feedback
    <3>3. \A i \in Feedback(used) : edges[i].to \in A => edges[i].from \in A
      BY <2>1
    <3>4. n \in A
      OBVIOUS
    <3> HIDE DEF A, none
    <3>5. used \in SUBSET DOMAIN edges /\ TypeOK /\ Feeds(used, w, f)
      BY <1>1, <1>3 DEF TypeOK
    <3> HIDE DEF n
    <3>6. \A m \in A : f[m] = w[m]
      BY <3>1, <3>2, <3>3, <3>5, FeedbackAgrees
    <3> QED
      BY <3>4, <3>6
  <2> QED
    BY <1>3, <1>6, <2>4, <2>6
<1>7. ASSUME NEW m \in Nodes \ Reach(do.node) PROVE values[m] = baseline[m]
  <2> DEFINE A == Nodes \ Reach(do.node)
  <2>1. \A i \in DOMAIN edges : edges[i].from \in Nodes /\ edges[i].to \in Nodes
    BY EdgesTyped
  <2>2. A \in SUBSET Nodes /\ do.node \notin A
    BY DEF Reach
  <2>3. \A n \in A : Start[n] = Seeded(seeds)[n]
    BY <1>1, <2>2 DEF Fixed
  <2>4. \A i \in DOMAIN edges : edges[i].to \in A => edges[i].from \in A
    BY <2>1 DEF Reach, Closed
  <2>5. \A i \in DOMAIN edges : edges[i].to \in A => i \in used
    BY <1>1, <2>2 DEF Severed
  <2> HIDE DEF A
  <2>6. \A n \in A : Into(used, n) = Into(DOMAIN edges, n)
    BY <1>1, <2>5 DEF Into, Forward
  <2>7. \A n \in A : \A i \in Into(used, n) : edges[i].from \in A
    BY <1>1, <2>4 DEF Into, Forward
  <2>8. \A n \in A : w[n] = u[n]
    <3> DEFINE all == DOMAIN edges
    <3> DEFINE seeded == Seeded(seeds)
    <3>1. all \in SUBSET DOMAIN edges /\ IsForward(all, seeded, u)
      BY <1>4
    <3>2. /\ \A n \in A : Start[n] = seeded[n]
          /\ \A n \in A : Into(all, n) = Into(used, n)
      BY <2>3, <2>6
    <3> HIDE DEF all, seeded
    <3> QED
      BY <1>1, <1>2, <1>3, <1>5, <2>2, <2>7, <3>1, <3>2, ForwardAgrees
  <2>9. \A n \in A : f[n] = g[n]
    <3> DEFINE all == DOMAIN edges
    <3>1. used \in SUBSET DOMAIN edges /\ all \in SUBSET DOMAIN edges /\ Feeds(used, w, f) /\ Feeds(all, u, g)
      BY <1>1, <1>3, <1>4
    <3>2. \A i \in DOMAIN edges : edges[i].to \in A => (i \in Feedback(used) <=> i \in Feedback(all))
      BY <1>1, <2>5 DEF Feedback
    <3>3. \A i \in Feedback(used) : edges[i].to \in A => edges[i].from \in A
      BY <1>1, <2>4 DEF Feedback
    <3> HIDE DEF all
    <3> QED
      BY <2>2, <2>8, <3>1, <3>2, <3>3, FeedbackAgrees
  <2>10. f[m] = g[m] /\ m \in Nodes
    BY <2>2, <2>9 DEF A
  <2> QED
    BY <1>3, <1>4, <2>10
<1> QED
  BY <1>6, <1>7

\* While the edges stay, what has been said of them holds after a step as well.
LEMMA ForwardPrimed ==
  ASSUME edges' = edges, NEW list, NEW start, NEW w, IsForward(list, start, w),
         applied' = list, Start' = start, values' = w
  PROVE  IsForward(applied, Start, values)'
BY DEF IsForward, Makes, IsChain, Into, Forward, Places

LEMMA UsedPrimed ==
  ASSUME edges' = edges, NEW list, NEW start, NEW w, IsForward(list, start, w),
         used' = list, Start' = start
  PROVE  IsForward(used, Start, w)'
BY DEF IsForward, Makes, IsChain, Into, Forward, Places

LEMMA FeedsPrimed ==
  ASSUME edges' = edges, NEW list, NEW w, NEW v, Feeds(list, w, v), applied' = list, values' = v
  PROVE  Feeds(applied, w, values)'
BY DEF Feeds, IsFeedback, Feedback, Places, Fed

LEMMA OutcomePrimed ==
  ASSUME edges' = edges, NEW list, NEW start, NEW v, IsOutcome(list, start, v),
         used' = list, Start' = start, values' = v
  PROVE  IsOutcome(used, Start, values)'
<1>1. PICK w, f : IsForward(list, start, w) /\ Feeds(list, w, f) /\ v = [n \in Nodes |-> Clamped(f[n])]
  BY DEF IsOutcome
<1>2. IsForward(used, Start, w)'
  BY <1>1, UsedPrimed
<1>3. Feeds(used, w, f)'
  BY <1>1 DEF Feeds, IsFeedback, Feedback, Places, Fed
<1> QED
  BY <1>1, <1>2, <1>3 DEF IsOutcome

LEMMA WholePrimed ==
  ASSUME edges' = edges, NEW list, NEW start, NEW w, IsForward(list, start, w),
         Whole' = list, Unfixed' = start
  PROVE  IsForward(Whole, Unfixed, w)'
BY SMTT(20) DEF IsForward, Makes, IsChain, Into, Forward, Places

LEMMA BaselinePrimed ==
  ASSUME edges' = edges, NEW list, NEW start, NEW v, IsOutcome(list, start, v),
         Whole' = list, Unfixed' = start, baseline' = v
  PROVE  IsOutcome(Whole, Unfixed, baseline)'
<1>1. PICK w, f : IsForward(list, start, w) /\ Feeds(list, w, f) /\ v = [n \in Nodes |-> Clamped(f[n])]
  BY DEF IsOutcome
<1>2. IsForward(Whole, Unfixed, w)'
  BY <1>1, WholePrimed
<1>3. Feeds(Whole, w, f)'
  BY <1>1 DEF Feeds, IsFeedback, Feedback, Places, Fed
<1> QED
  BY <1>1, <1>2, <1>3 DEF IsOutcome

LEMMA InitTracking == Init => Tracking
BY DEF Init, Tracking, Start, Whole

\* The part of Tracking that the steps of a propagation leave alone, and the
\* claims about other phases of it.
LEMMA BaselineKept ==
  ASSUME Tracking, edges' = edges, seeds' = seeds, do' = do, baseline' = baseline, pc' = "idle" => pc = "idle"
  PROVE  pc' = "idle" \/ do'.on =>
           (Acyclic(Whole)' => IsOutcome(Whole, Unfixed, baseline)')
<1>1. Acyclic(Whole)' = Acyclic(Whole) /\ Whole' = Whole /\ Unfixed' = Unfixed
  BY DEF Acyclic, Into, Forward, Whole, Unfixed, Seeded
<1> QED
  BY <1>1, BaselinePrimed DEF Tracking

LEMMA AcyclicKept ==
  ASSUME edges' = edges, used' = used
  PROVE  Acyclic(used)' = Acyclic(used)
BY DEF Acyclic, Into, Forward

LEMMA UsedKept ==
  ASSUME Tracking, edges' = edges, used' = used, do' = do
  PROVE  used' = IF do'.on THEN Severed(do.node)' ELSE Whole'
BY DEF Tracking, Severed, Whole

LEMMA StartKept == ASSUME do' = do, seeds' = seeds PROVE Start' = Start
BY DEF Start, Fixed, Seeded

\* In a sorted graph no forward edge that has been applied leaves the node at
\* work or ends where it begins.
LEMMA SortedForward ==
  ASSUME IInv, pc = "forward", Acyclic(used), visited < Len(order), NEW i \in Into(used, Current)
  PROVE  /\ edges[i].from # edges[i].to
         /\ \A j \in Forward(applied) : edges[j].from # edges[i].to
<1>1. /\ Current = order[visited + 1] /\ edges[i].to = Current /\ i \in Forward(used)
      /\ visited + 1 \in DOMAIN order /\ visited \in Nat /\ DOMAIN order = 1..Len(order)
  BY DEF Current, Into, Forward, IInv, TypeOK
<1>2. \A j \in Forward(used) : \A k, l \in DOMAIN order :
        order[k] = edges[j].from /\ order[l] = edges[j].to => k < l
  BY DEF IInv, SortIsRight
<1>3. AllSorted
  BY DEF IInv, SortIsRight, AllSorted
<1>4. edges[i].from # edges[i].to
  BY <1>1, <1>2
<1>5. ASSUME NEW j \in Forward(applied), edges[j].from = edges[i].to PROVE FALSE
  <2>1. j \in applied /\ j \in Forward(used)
    BY DEF Forward, IInv, TypeOK
  <2>2. PICK k \in 1..(visited + 1) : k <= Len(order) /\ order[k] = edges[j].to
    BY <1>3, <2>1 DEF IInv, Passing
  <2>3. k \in DOMAIN order /\ ~(visited + 1 < k)
    BY <1>1, <2>2
  <2> QED
    BY <1>1, <1>2, <1>5, <2>1, <2>2, <2>3
<1> QED
  BY <1>4, <1>5

LEMMA ApplyForwardTracking ==
  ASSUME IInv, Tracking, Acyclic(used), ApplyForward
  PROVE  ForwardTracked'
<1> DEFINE i == NextOf(Left)
<1>1. /\ pc = "forward" /\ visited < Len(order) /\ Left # {} /\ Apply(i) /\ applied' = applied \union {i}
      /\ UNCHANGED <<edges, seeds, do, used, order, visited>>
  BY DEF ApplyForward, sorting
<1>2. Left \in SUBSET Nat
  BY EdgesTyped DEF Left, Into, Forward, IInv, TypeOK
<1>3. i \in Left /\ \A j \in Left : i <= j
  BY <1>1, <1>2, NextIsElement
<1> HIDE DEF i
<1>4. i \in Into(used, Current) /\ i \notin applied /\ i \in used /\ edges[i].to = Current /\ edges[i].type # "feedback"
  BY <1>3 DEF Left, Into, Forward
<1>5. ForwardTracked /\ TypeOK
  BY <1>1 DEF Tracking, IInv
<1>6. applied \subseteq DOMAIN edges /\ applied \subseteq used /\ used \subseteq DOMAIN edges /\ DOMAIN edges \subseteq Nat
  BY <1>5, EdgesTyped DEF TypeOK
<1>7. Behind(applied, i)
  <2>1. SUFFICES ASSUME NEW j \in Into(applied, edges[i].to) PROVE j < i
    BY DEF Behind
  <2>2. j \in applied /\ edges[j].to = Current /\ j \in Nat /\ i \in Nat
    BY <1>2, <1>3, <1>4, <1>6 DEF Into, Forward
  <2>3. ~(i < j)
    BY <1>4, <1>5, <2>2 DEF ForwardTracked
  <2> QED
    BY <1>4, <2>2, <2>3
<1>8. edges[i].from # edges[i].to /\ \A j \in Forward(applied) : edges[j].from # edges[i].to
  BY <1>1, <1>4, SortedForward
<1>9. Start \in [Nodes -> Int]
  BY <1>5, StartTyped
<1>10. IsForward(applied, Start, values)'
  <2>1. PICK w : w = values' /\ IsForward(With(applied, i), Start, w)
    <3>1. IsForward(applied, Start, values)
      BY <1>5 DEF ForwardTracked
    <3> QED
      BY <1>1, <1>4, <1>5, <1>6, <1>7, <1>8, <1>9, <3>1, ForwardExtends
  <2>2. applied' = With(applied, i) /\ Start' = Start
    BY <1>1, StartKept DEF With
  <2> QED
    BY <1>1, <2>1, <2>2, ForwardPrimed
<1>11. \A j \in applied' : \A k \in Into(used, edges[j].to) : k < j => k \in applied'
  <2>1. ASSUME NEW k \in Into(used, edges[i].to), k < i PROVE k \in applied
    <3>1. k \in Nat /\ i \in Nat
      BY <1>4, <1>6 DEF Into, Forward
    <3>2. k \notin Left
      BY <1>3, <2>1, <3>1
    <3> QED
      BY <1>4, <2>1, <3>2 DEF Left
  <2> QED
    BY <1>1, <1>5, <2>1 DEF ForwardTracked
<1>12. \A l \in 1..visited : Into(used, order[l]) \subseteq applied'
  BY <1>1, <1>5 DEF ForwardTracked
<1>13. \A n : Into(used, n)' = Into(used, n)
  BY <1>1 DEF Into, Forward
<1>14. /\ \A j \in applied' : \A k \in Into(used, edges[j].to)' : k < j => k \in applied'
       /\ \A l \in 1..visited' : Into(used, order[l])' \subseteq applied'
  BY <1>1, <1>11, <1>12 DEF Into, Forward
<1> QED
  BY <1>10, <1>14 DEF ForwardTracked

LEMMA LeaveNodeTracking ==
  ASSUME IInv, Tracking, Acyclic(used), LeaveNode
  PROVE  ForwardTracked'
<1>1. /\ pc = "forward" /\ visited < Len(order) /\ Left = {} /\ visited' = visited + 1 /\ visited \in Nat
      /\ UNCHANGED <<edges, seeds, do, used, order, applied, values>>
  BY DEF LeaveNode, sorting, IInv, TypeOK
<1>2. ForwardTracked
  BY <1>1 DEF Tracking
<1>3. IsForward(applied, Start, values)'
  BY <1>1, <1>2, StartKept, ForwardPrimed DEF ForwardTracked
<1>4. \A l \in 1..visited' : Into(used, order[l]) \subseteq applied
  <2>1. Into(used, order[visited + 1]) \subseteq applied
    BY <1>1 DEF Left, Current
  <2>2. \A l \in 1..visited' : l \in 1..visited \/ l = visited + 1
    BY <1>1
  <2> QED
    BY <1>2, <2>1, <2>2 DEF ForwardTracked
<1>5. /\ \A j \in applied' : \A k \in Into(used, edges[j].to)' : k < j => k \in applied'
      /\ \A l \in 1..visited' : Into(used, order[l])' \subseteq applied'
  BY <1>1, <1>2, <1>4 DEF ForwardTracked, Into, Forward
<1> QED
  BY <1>3, <1>5 DEF ForwardTracked

LEMMA EndForwardTracking ==
  ASSUME IInv, Tracking, Acyclic(used), EndForward
  PROVE  FeedbackTracked'
<1>1. /\ pc = "forward" /\ visited = Len(order) /\ applied' = {}
      /\ UNCHANGED <<edges, seeds, do, used, values>>
  BY DEF EndForward, sorting
<1>2. ForwardTracked /\ TypeOK
  BY <1>1 DEF Tracking, IInv
<1>3. applied \subseteq Forward(used) /\ Nodes = Range(order) /\ DOMAIN order = 1..Len(order)
  BY <1>1 DEF IInv, SortIsRight, Passing, AllSorted, TypeOK
<1>4. \A n \in Nodes : Into(used, n) = Into(applied, n)
  <2>1. ASSUME NEW n \in Nodes PROVE Into(used, n) \subseteq applied
    <3>1. PICK l \in DOMAIN order : order[l] = n
      BY <1>3 DEF Range
    <3> QED
      BY <1>1, <1>2, <1>3, <3>1 DEF ForwardTracked
  <2> QED
    BY <1>3, <2>1 DEF Into, Forward
<1>5. IsForward(used, Start, values)
  BY <1>2, <1>4, ForwardTheSame DEF ForwardTracked
<1>6. Feeds({}, values, values)
  BY <1>2, FeedsNothing DEF Feedback, TypeOK
<1>7. PICK w : w = values
  OBVIOUS
<1>8. IsForward(used, Start, w)'
  <2>1. IsForward(used, Start, w)
    BY <1>5, <1>7
  <2> QED
    BY <1>1, <2>1, StartKept, UsedPrimed
<1>9. Feeds(applied, w, values)'
  <2> DEFINE none == {}
  <2>1. Feeds(none, w, w) /\ applied' = none /\ values' = w
    BY <1>1, <1>6, <1>7
  <2> HIDE DEF none
  <2> QED
    BY <1>1, <2>1, FeedsPrimed
<1>10. applied' \subseteq Feedback(used)' /\ \A j \in applied' : \A k \in Feedback(used)' : k < j => k \in applied'
  BY <1>1
<1> QED
  BY <1>8, <1>9, <1>10 DEF FeedbackTracked

LEMMA ApplyFeedbackTracking ==
  ASSUME IInv, Tracking, Acyclic(used), ApplyFeedback
  PROVE  FeedbackTracked'
<1> DEFINE S == Feedback(used) \ applied
<1> DEFINE i == NextOf(S)
<1>1. /\ pc = "feedback" /\ S # {} /\ Apply(i) /\ applied' = applied \union {i}
      /\ UNCHANGED <<edges, seeds, do, used>>
  BY DEF ApplyFeedback
<1>2. S \in SUBSET Nat /\ DOMAIN edges \subseteq Nat /\ used \subseteq DOMAIN edges
  BY EdgesTyped DEF Feedback, IInv, TypeOK
<1>3. i \in S /\ \A j \in S : i <= j
  <2> HIDE DEF S
  <2> QED
    BY <1>1, <1>2, NextIsElement
<1> HIDE DEF i
<1>4. i \in Feedback(used) /\ i \notin applied /\ i \in Feedback(DOMAIN edges) /\ i \in Nat
  BY <1>2, <1>3 DEF Feedback
<1>5. FeedbackTracked /\ TypeOK
  BY <1>1 DEF Tracking, IInv
<1>6. PICK w : IsForward(used, Start, w) /\ Feeds(applied, w, values)
  BY <1>5 DEF FeedbackTracked
<1>7. \A j \in Feedback(applied) : j < i
  <2>1. SUFFICES ASSUME NEW j \in Feedback(applied) PROVE j < i
    OBVIOUS
  <2>2. j \in applied /\ j \in Feedback(used) /\ j \in Nat
    BY <1>2, <1>5 DEF Feedback, FeedbackTracked
  <2>3. ~(i < j)
    BY <1>4, <1>5, <2>2 DEF FeedbackTracked
  <2> QED
    BY <1>4, <2>2, <2>3
<1>8. values' = Fed(i, values)
  BY <1>1 DEF Apply, Fed
<1>9. IsForward(used, Start, w)'
  BY <1>1, <1>6, StartKept, UsedPrimed
<1>10. Feeds(applied, w, values)'
  <2> DEFINE more == With(applied, i)
  <2> DEFINE v == Fed(i, values)
  <2>1. Feeds(more, w, v)
    BY <1>4, <1>5, <1>6, <1>7, FeedsOneMore
  <2>2. applied' = more /\ values' = v
    BY <1>1, <1>8 DEF With
  <2> HIDE DEF more, v
  <2> QED
    BY <1>1, <2>1, <2>2, FeedsPrimed
<1>11. applied' \subseteq Feedback(used)' /\ \A j \in applied' : \A k \in Feedback(used)' : k < j => k \in applied'
  <2>1. Feedback(used)' = Feedback(used)
    BY <1>1 DEF Feedback
  <2>2. ASSUME NEW k \in Feedback(used), k < i PROVE k \in applied
    <3>1. k \in Nat
      BY <1>2 DEF Feedback
    <3> QED
      BY <1>3, <1>4, <2>2, <3>1
  <2> QED
    BY <1>1, <1>4, <1>5, <2>1, <2>2 DEF FeedbackTracked
<1> QED
  BY <1>9, <1>10, <1>11 DEF FeedbackTracked

\* The end of a propagation: the outcome, and of the one without intervention
\* the baseline.
LEMMA EndPropagateTracking ==
  ASSUME IInv, Tracking, Acyclic(used), EndPropagate
  PROVE  IsOutcome(used, Start, values)'
<1>1. /\ pc = "feedback" /\ Feedback(used) \subseteq applied
      /\ values' = [n \in Nodes |-> Clamped(values[n])]
      /\ UNCHANGED <<edges, seeds, do, used>>
  BY DEF EndPropagate
<1>2. FeedbackTracked
  BY <1>1 DEF Tracking
<1>3. PICK w : IsForward(used, Start, w) /\ Feeds(applied, w, values)
  BY <1>2 DEF FeedbackTracked
<1>4. Feedback(used) = Feedback(applied)
  BY <1>1, <1>2 DEF FeedbackTracked, Feedback
<1>5. Feeds(used, w, values)
  BY <1>3, <1>4, FeedsTheSame
<1>6. PICK v : v = values'
  OBVIOUS
<1>7. IsOutcome(used, Start, v)
  BY <1>1, <1>3, <1>5, <1>6 DEF IsOutcome
<1> QED
  BY <1>1, <1>6, <1>7, StartKept, OutcomePrimed

\* A sorted list: nothing is applied yet.
LEMMA EndSortTracking ==
  ASSUME IInv, Tracking, EndSort
  PROVE  ForwardTracked'
<1>1. /\ pc = "sort" /\ UNCHANGED <<edges, seeds, do, used, visited, applied, values>>
      /\ visited = 0 /\ applied = {} /\ values = Start /\ TypeOK
  BY DEF EndSort, passing, IInv, Sorting, Tracking
<1>2. Start \in [Nodes -> Int]
  BY <1>1, StartTyped
<1>3. IsForward(applied, Start, values)
  <2>1. \A n \in Nodes : Into(applied, n) = {} /\ Start[n] \in Int
    BY <1>1, <1>2 DEF Into, Forward
  <2> QED
    BY <1>1, <1>2, <2>1, MakesNothing DEF IsForward
<1>4. IsForward(applied, Start, values)'
  BY <1>1, <1>3, StartKept, ForwardPrimed
<1>5. /\ \A j \in applied' : \A k \in Into(used, edges[j].to)' : k < j => k \in applied'
      /\ \A l \in 1..visited' : Into(used, order[l])' \subseteq applied'
  BY <1>1
<1> QED
  BY <1>4, <1>5 DEF ForwardTracked

LEMMA StepTracking == IInv /\ Tracking /\ [Next]_vars => Tracking'
<1> SUFFICES ASSUME IInv, Tracking, [Next]_vars PROVE Tracking'
  OBVIOUS
<1>1. ASSUME NEW n \in Nodes, Pop(n) PROVE Tracking'
  <2>1. pc = "sort" /\ pc' = "sort" /\ UNCHANGED <<edges, seeds, do, used, values, baseline>>
    BY <1>1 DEF Pop, passing
  <2> QED
    BY <2>1, BaselineKept, UsedKept, StartKept DEF Tracking
<1>2. CASE EndSort
  <2>1. pc' = "forward" /\ UNCHANGED <<edges, seeds, do, used, baseline>>
    BY <1>2 DEF EndSort, passing
  <2> QED
    BY <1>2, <2>1, BaselineKept, UsedKept, EndSortTracking DEF Tracking
<1>3. CASE ApplyForward
  <2>1. pc' = "forward" /\ UNCHANGED <<edges, seeds, do, used, baseline>>
    BY <1>3 DEF ApplyForward
  <2> QED
    BY <1>3, <2>1, BaselineKept, UsedKept, AcyclicKept, ApplyForwardTracking DEF Tracking
<1>4. CASE LeaveNode
  <2>1. pc' = "forward" /\ UNCHANGED <<edges, seeds, do, used, baseline>>
    BY <1>4 DEF LeaveNode
  <2> QED
    BY <1>4, <2>1, BaselineKept, UsedKept, AcyclicKept, LeaveNodeTracking DEF Tracking
<1>5. CASE EndForward
  <2>1. pc' = "feedback" /\ UNCHANGED <<edges, seeds, do, used, baseline>>
    BY <1>5 DEF EndForward
  <2> QED
    BY <1>5, <2>1, BaselineKept, UsedKept, AcyclicKept, EndForwardTracking DEF Tracking
<1>6. CASE ApplyFeedback
  <2>1. pc' = "feedback" /\ UNCHANGED <<edges, seeds, do, used, baseline>>
    BY <1>6 DEF ApplyFeedback
  <2> QED
    BY <1>6, <2>1, BaselineKept, UsedKept, AcyclicKept, ApplyFeedbackTracking DEF Tracking
<1>7. CASE EndPropagate
  <2>1. UNCHANGED <<edges, seeds, do, used>>
    BY <1>7 DEF EndPropagate
  <2>2. CASE do.on
    <3>1. pc' = "compared" /\ baseline' = baseline /\ do'.on
      BY <1>7, <2>2 DEF EndPropagate
    <3> QED
      BY <1>7, <2>1, <3>1, BaselineKept, UsedKept, AcyclicKept, EndPropagateTracking DEF Tracking
  <2>3. CASE ~do.on
    <3>1. pc' = "idle" /\ baseline' = values' /\ ~do'.on
      BY <1>7, <2>1, <2>3 DEF EndPropagate
    <3>2. used = Whole /\ Start = Unfixed
      BY <2>3 DEF Tracking, Start, Unfixed
    <3>3. ASSUME Acyclic(Whole)' PROVE IsOutcome(Whole, Unfixed, baseline)'
      <4>1. Acyclic(used)
        BY <2>1, <3>2, <3>3 DEF Acyclic, Into, Forward, Whole
      <4>2. IsOutcome(used, Start, values)'
        BY <1>7, <4>1, EndPropagateTracking
      <4>3. used' = Whole' /\ Start' = Unfixed' /\ values' = baseline'
        BY <2>1, <3>1, <3>2 DEF Whole, Unfixed, Start, Seeded
      <4> QED
        BY <4>2, <4>3
    <3> QED
      BY <2>1, <3>1, <3>3, UsedKept DEF Tracking
  <2> QED
    BY <2>2, <2>3
<1>8. ASSUME NEW n \in Nodes \union {Outside}, NEW v \in FixedValues, Intervene(n, v) PROVE Tracking'
  <2>1. /\ pc = "idle" /\ pc' = "sort" /\ do' = [node |-> n, value |-> v, on |-> TRUE]
        /\ used' = Severed(n) /\ values' = Fixed(n, v)
        /\ UNCHANGED <<edges, seeds, baseline>>
    BY <1>8 DEF Intervene, Prepare
  <2>2. used' = Severed(do.node)' /\ values' = Start' /\ do'.on
    BY <2>1 DEF Severed, Start, Fixed, Seeded
  <2>3. Acyclic(Whole)' => IsOutcome(Whole, Unfixed, baseline)'
    <3>1. Acyclic(Whole)' = Acyclic(Whole) /\ Whole' = Whole /\ Unfixed' = Unfixed
      BY <2>1 DEF Acyclic, Into, Forward, Whole, Unfixed, Seeded
    <3> QED
      BY <2>1, <3>1, BaselinePrimed DEF Tracking
  <2> QED
    BY <2>1, <2>2, <2>3 DEF Tracking
<1>9. CASE UNCHANGED vars
  <2>1. UNCHANGED <<edges, seeds, pc, do, used, order, visited, applied, values, baseline>>
    BY <1>9 DEF vars, sorting, passing
  <2>2. Start' = Start
    BY <2>1, StartKept
  <2>3. ForwardTracked => ForwardTracked'
    <3>1. ASSUME ForwardTracked PROVE IsForward(applied, Start, values)'
      BY <2>1, <2>2, <3>1, ForwardPrimed DEF ForwardTracked
    <3> QED
      BY <2>1, <3>1 DEF ForwardTracked, Into, Forward
  <2>4. FeedbackTracked => FeedbackTracked'
    <3>1. ASSUME FeedbackTracked PROVE \E w : IsForward(used, Start, w)' /\ Feeds(applied, w, values)'
      <4>1. PICK w : IsForward(used, Start, w) /\ Feeds(applied, w, values)
        BY <3>1 DEF FeedbackTracked
      <4> QED
        BY <2>1, <2>2, <4>1, UsedPrimed, FeedsPrimed
    <3> QED
      BY <2>1, <3>1 DEF FeedbackTracked, Feedback
  <2>5. IsOutcome(used, Start, values) => IsOutcome(used, Start, values)'
    BY <2>1, <2>2, OutcomePrimed
  <2> QED
    BY <2>1, <2>2, <2>3, <2>4, <2>5, BaselineKept, UsedKept, AcyclicKept DEF Tracking
<1> QED
  BY <1>1, <1>2, <1>3, <1>4, <1>5, <1>6, <1>7, <1>8, <1>9 DEF Next, Propagate

(* The theorem: an intervention on a graph without cycles besides feedback *)
(* holds the fixed node and changes nothing that cannot be reached from    *)
(* it, whatever the graph, the health of its nodes and the order of the    *)
(* queue (apply, do_operator.py:33-61).                                    *)
THEOREM InterventionsAreLocal == Spec => []InterventionIsLocal
<1>1. Init => Tracking
  BY InitTracking
<1>2. IInv /\ Tracking /\ [Next]_vars => Tracking'
  BY StepTracking
<1>3. IInv /\ Tracking => InterventionIsLocal
  BY TrackingImpliesLocal DEF IInv
<1> QED
  BY <1>1, <1>2, <1>3, CoherenceInvariant, PTL DEF Spec
=============================================================================
