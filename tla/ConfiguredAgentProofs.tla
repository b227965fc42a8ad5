------------------------- MODULE ConfiguredAgentProofs -------------------------
(***************************************************************************)
(* What a configured agent may do, for any configuration, any number of    *)
(* turns and whatever a provider proposes.                                 *)
(***************************************************************************)
EXTENDS ConfiguredAgent, ArithmeticProofs, SequenceTheorems

-----------------------------------------------------------------------------
(* The safety policy.                                                      *)

LEMMA LeastOfNine ==
  ASSUME NEW S \in SUBSET (1..9), 9 \in S
  PROVE  Min(S) \in S /\ \A y \in S : Min(S) <= y
<1>1. \E x \in S : \A y \in S : x <= y
  OBVIOUS
<1> QED
  BY <1>1 DEF Min

\* What lets an action pass, whichever rule it is that does.
LEMMA AllowedMeans ==
  ASSUME NEW p, NEW request, Evaluate(p, request).decision = "allow"
  PROVE  /\ request.action \notin p.deny_actions
         /\ request.action \in p.approval_required_for =>
              request.confirmed /\ request.mode # "plan"
         /\ request.mutates /\ request.action \notin p.approval_required_for =>
              /\ p.default_mutation_mode # "deny"
              /\ p.default_mutation_mode = "require_approval" => request.confirmed
<1> DEFINE denied == request.action \in p.deny_actions
           listed == request.action \in p.approval_required_for
           Unsafe(mode) == request.mutates /\ p.default_mutation_mode = mode
           rules == <<
             <<request.secret, Decision("deny", FALSE, "secret_pattern")>>,
             <<denied, Decision("deny", FALSE, "deny_actions")>>,
             <<listed /\ request.mode = "plan", Decision("propose", TRUE, "approval_required_for")>>,
             <<listed /\ request.confirmed, Decision("allow", TRUE, "approval_granted")>>,
             <<listed, Decision("require_approval", TRUE, "approval_required_for")>>,
             <<Unsafe("deny"), Decision("deny", FALSE, "default_mutation_mode")>>,
             <<Unsafe("require_approval") /\ request.confirmed,
               Decision("allow", TRUE, "default_mutation_mode")>>,
             <<Unsafe("require_approval"), Decision("require_approval", TRUE, "default_mutation_mode")>>,
             <<TRUE, Decision("allow", FALSE, "allow_default")>> >>
           S == {i \in DOMAIN rules : rules[i][1]}
           k == Min(S)
<1>1. Evaluate(p, request) = rules[k][2]
  BY DEF Evaluate
<1>2. DOMAIN rules = 1..9 /\ rules[9][1]
  OBVIOUS
<1>3. /\ rules[2][1] <=> denied
      /\ rules[3][1] <=> listed /\ request.mode = "plan"
      /\ rules[4][1] <=> listed /\ request.confirmed
      /\ rules[5][1] <=> listed
      /\ rules[6][1] <=> Unsafe("deny")
      /\ rules[7][1] <=> Unsafe("require_approval") /\ request.confirmed
      /\ rules[8][1] <=> Unsafe("require_approval")
  OBVIOUS
<1>4. \A i \in {1, 2, 3, 5, 6, 8} : rules[i][2].decision # "allow"
  BY DEF Decision
<1> HIDE DEF rules
<1>5. S \subseteq 1..9 /\ 9 \in S
  BY <1>2
<1>6. \A i \in 1..9 : i \in S <=> rules[i][1]
  BY <1>2
<1> HIDE DEF S
<1>7. k \in S /\ \A y \in S : k <= y
  BY <1>5, LeastOfNine
<1>8. k \notin {1, 2, 3, 5, 6, 8}
  BY <1>1, <1>4
<1> HIDE DEF k, denied, listed, Unsafe
<1>9. k \in {4, 7, 9} /\ 2 \notin S /\ 3 \notin S
  BY <1>5, <1>7, <1>8
<1>10. ~denied /\ ~(listed /\ request.mode = "plan")
  BY <1>3, <1>6, <1>9
<1>11. CASE k = 4
  <2>1. listed /\ request.confirmed
    BY <1>3, <1>6, <1>7, <1>11
  <2> QED
    BY <1>10, <2>1 DEF denied, listed
<1>12. CASE k \in {7, 9}
  <2>1. 5 \notin S /\ 6 \notin S
    BY <1>5, <1>7, <1>12
  <2>2. ~listed /\ ~Unsafe("deny")
    BY <1>3, <1>6, <2>1
  <2>3. Unsafe("require_approval") => request.confirmed
    <3>1. CASE k = 7
      BY <1>3, <1>6, <1>7, <3>1
    <3>2. CASE k = 9
      <4>1. 8 \notin S
        BY <1>5, <1>7, <3>2
      <4> QED
        BY <1>3, <1>6, <4>1
    <3> QED
      BY <1>12, <3>1, <3>2
  <2> QED
    BY <1>10, <2>2, <2>3 DEF denied, listed, Unsafe
<1> QED
  BY <1>9, <1>11, <1>12

-----------------------------------------------------------------------------
(* The load: what is merged is resolved leaf by leaf.                      *)

\* All that a file may say
Leaves == (UNION {{d[l].leaves : l \in DOMAIN d} : d \in Systems})
            \union {Package[p].leaves : p \in DOMAIN Package}
Entry == [path : FilePaths, leaves : Leaves]

LoadTyped ==
  /\ disk \in Systems
  /\ path \in FilePaths
  /\ chain \in Seq(Entry)
  /\ stack \in Seq(Leaves)
  /\ load \in {"merge", "done"} => WellFormed(data)
  /\ load = "done" => Accepted(data) /\ policy = Policy(data)

\* What waits for its parent was read in this order.
Stacked ==
  load \in {"read", "merge", "done"} =>
    /\ load = "read" => Len(stack) = Len(chain)
    /\ load = "done" => stack = <<>>
    /\ Len(stack) <= Len(chain)
    /\ \A k \in DOMAIN stack : stack[k] = chain[k].leaves

\* The leaves of the k-th file that no file after the m-th hides from the first
Won(m, k) ==
  {p \in DOMAIN chain[k].leaves :
     \A j \in m+1..k-1 : \A o \in DOMAIN chain[j].leaves : ~Clash(o, p)}

Resolved ==
  load \in {"merge", "done"} =>
    LET m == Len(stack)
    IN  /\ DOMAIN data = UNION {Won(m, k) : k \in m+1..Len(chain)}
        /\ \A k \in m+1..Len(chain) : \A p \in Won(m, k) : data[p] = chain[k].leaves[p]

LoadInv == LoadTyped /\ Stacked /\ Resolved

LEMMA LeavesAreWellFormed ==
  ASSUME NEW l \in Leaves
  PROVE  WellFormed(l) /\ DOMAIN l \subseteq Seq(STRING)
<1>1. ASSUME NEW d \in Systems, NEW at \in DOMAIN d, l = d[at].leaves
      PROVE  WellFormed(l)
  BY <1>1, AgentConfigAssumption
<1>2. ASSUME NEW p \in DOMAIN Package, l = Package[p].leaves
      PROVE  WellFormed(l)
  BY <1>2, AgentConfigAssumption
<1>3. CASE l \in {Package[p].leaves : p \in DOMAIN Package}
  BY <1>2, <1>3 DEF WellFormed
<1>4. CASE l \in UNION {{d[at].leaves : at \in DOMAIN d} : d \in Systems}
  <2>1. PICK d \in Systems : l \in {d[at].leaves : at \in DOMAIN d}
    BY <1>4
  <2>2. WellFormed(l)
    BY <1>1, <2>1
  <2> QED
    BY <2>2 DEF WellFormed
<1> QED
  BY <1>3, <1>4 DEF Leaves

\* What is read is one of the files there may be.
LEMMA ContentIsOne ==
  ASSUME disk \in Systems, NEW p, Readable(disk, p)
  PROVE  Content(disk, p).leaves \in Leaves /\ Content(disk, p).extends \in {<<>>} \union FilePaths
<1>1. CASE Exists(disk, p)
  <2>1. PICK at \in DOMAIN disk : at = Location(p)
    BY <1>1 DEF Exists
  <2>2. Content(disk, p) = disk[at]
    BY <1>1, <2>1 DEF Content
  <2>3. disk[at].leaves \in {disk[l].leaves : l \in DOMAIN disk}
    OBVIOUS
  <2>4. disk[at].leaves \in Leaves
    BY <2>3 DEF Leaves
  <2>5. disk[at].extends \in {<<>>} \union FilePaths
    BY AgentConfigAssumption
  <2> QED
    BY <2>2, <2>4, <2>5
<1>2. CASE ~Exists(disk, p)
  <2>1. p \in DOMAIN Package /\ Content(disk, p) = Package[p]
    BY <1>2 DEF Content, Readable, Packaged
  <2>2. Package[p].extends \in {<<>>} \union FilePaths
    BY <2>1, AgentConfigAssumption
  <2>3. Package[p].leaves \in {Package[q].leaves : q \in DOMAIN Package}
    BY <2>1
  <2>4. Package[p].leaves \in Leaves
    BY <2>3 DEF Leaves
  <2> QED
    BY <2>1, <2>2, <2>4
<1> QED
  BY <1>1, <1>2

LEMMA MergedIsWellFormed ==
  ASSUME NEW a, NEW b, WellFormed(a), WellFormed(b)
  PROVE  WellFormed(Merged(a, b))
<1> DEFINE m == Merged(a, b)
<1>1. DOMAIN m \subseteq DOMAIN a \union DOMAIN b
  BY DEF Merged
<1>2. \A p \in DOMAIN m : IF p \in DOMAIN b THEN m[p] = b[p] ELSE p \in DOMAIN a /\ m[p] = a[p]
  BY DEF Merged
<1> HIDE DEF m
<1>3. WellFormed(m)
  BY <1>1, <1>2 DEF WellFormed
<1> QED
  BY <1>3 DEF m

LEMMA InitLoadInv == Init => LoadInv
<1> SUFFICES ASSUME Init PROVE LoadInv
  OBVIOUS
<1>1. path \in FilePaths
  BY AgentConfigAssumption DEF Init, LoadInit
<1> QED
  BY <1>1 DEF Init, LoadInit, LoadInv, LoadTyped, Stacked, Resolved

\* A path is at itself.
LEMMA ClashItself ==
  ASSUME NEW S, NEW p \in Seq(S)
  PROVE  Clash(p, p)
BY DEF Clash, IsPrefix

LEMMA ExtendedIsPath ==
  ASSUME NEW d, NEW p \in FilePaths, NEW e \in FilePaths
  PROVE  Extended(d, p, e) \in FilePaths
<1>1. p \in Seq(STRING) /\ p # <<>> /\ e \in Seq(STRING) /\ e # <<>> /\ Last(e) \notin {"/", ".."}
  BY DEF FilePaths
<1>2. Front(p) \in Seq(STRING)
  BY <1>1 DEF Front
<1>3. Front(p) \o e \in Seq(STRING) /\ Front(p) \o e # <<>> /\ Last(Front(p) \o e) = Last(e)
  BY <1>1, <1>2 DEF Last
<1>4. Front(p) \o e \in FilePaths
  BY <1>1, <1>3 DEF FilePaths
<1> QED
  BY <1>4 DEF Extended

\* A load that was given up promises nothing but its types.
LEMMA GivenUpKeeps ==
  ASSUME LoadTyped, chain' \in Seq(Entry), UNCHANGED <<disk, path, seen, stack, data, policy>>,
         load' \notin {"read", "merge", "done"}
  PROVE  LoadInv'
BY DEF LoadInv, LoadTyped, Stacked, Resolved

LEMMA ReadKeeps ==
  ASSUME LoadInv, Read
  PROVE  LoadInv'
<1> DEFINE c == Content(disk, path)
           e == [path |-> path, leaves |-> c.leaves]
<1>1. load = "read" /\ LoadTyped /\ Stacked
  BY DEF Read, LoadInv
<1>2. CASE ~Readable(disk, path)
  BY <1>1, <1>2, GivenUpKeeps DEF Read, Raise, LoadTyped
<1>3. CASE Readable(disk, path)
  <2>1. c.leaves \in Leaves /\ c.extends \in {<<>>} \union FilePaths /\ WellFormed(c.leaves)
    BY <1>1, <1>3, ContentIsOne, LeavesAreWellFormed DEF LoadTyped
  <2>2. e \in Entry /\ e.leaves = c.leaves
    BY <1>1, <2>1 DEF Entry, LoadTyped
  <2>3. chain' = Append(chain, e)
    BY <1>1, <1>3 DEF Read
  <2>4. \/ ReadRoot(c) \/ ReadChild(c)
        \/ Raise("invalid")
    BY <1>1, <1>3 DEF Read
  <2> HIDE DEF c, e
  <2>5. /\ chain' \in Seq(Entry) /\ chain \in Seq(Entry) /\ stack \in Seq(Leaves)
        /\ Len(chain') = Len(chain) + 1 /\ chain'[Len(chain) + 1] = e
        /\ \A k \in 1..Len(chain) : chain'[k] = chain[k]
    BY <1>1, <2>2, <2>3 DEF LoadTyped
  <2>6. Len(stack) = Len(chain) /\ \A k \in 1..Len(stack) : stack[k] = chain[k].leaves
    BY <1>1, <2>5 DEF Stacked
  <2>7. CASE ReadRoot(c)
    <3>1. load' = "merge" /\ data' = c.leaves /\ UNCHANGED <<disk, path, stack>>
      BY <2>7 DEF ReadRoot
    <3>2. LoadTyped'
      BY <1>1, <2>1, <2>5, <3>1 DEF LoadTyped
    <3>3. Stacked'
      BY <2>5, <2>6, <3>1 DEF Stacked
    <3>4. Resolved'
      <4>1. PICK n \in Nat : n = Len(chain)
        BY <2>5
      <4>2. Len(stack') = n /\ Len(chain') = n + 1
        BY <2>5, <2>6, <3>1, <4>1
      <4>3. n + 1..n + 1 = {n + 1} /\ n + 1..(n + 1) - 1 = {}
        BY <4>1
      <4>4. Won(n, n + 1)' = DOMAIN c.leaves
        BY <2>2, <2>5, <4>1, <4>3 DEF Won
      <4>5. UNION {Won(n, k)' : k \in n + 1..n + 1} = DOMAIN data'
        BY <3>1, <4>3, <4>4
      <4>6. \A k \in n + 1..n + 1 : \A p \in Won(n, k)' : data'[p] = chain'[k].leaves[p]
        BY <2>2, <2>5, <3>1, <4>1, <4>3
      <4> QED
        BY <4>2, <4>5, <4>6 DEF Resolved
    <3> QED
      BY <3>2, <3>3, <3>4 DEF LoadInv
  <2>8. CASE ReadChild(c)
    <3>1. CASE load' \in {"circular", "too deep"}
      <4>1. UNCHANGED <<disk, path, seen, stack, data, policy>>
        BY <1>1, <2>8, <3>1 DEF ReadChild, Raise
      <4> QED
        BY <1>1, <2>5, <3>1, <4>1, GivenUpKeeps
    <3>2. CASE load' \notin {"circular", "too deep"}
      <4>1. /\ path' = Extended(disk, path, c.extends) /\ stack' = Append(stack, c.leaves)
            /\ UNCHANGED <<disk, load>>
        BY <2>8, <3>2 DEF ReadChild, Raise
      <4>2. path' \in FilePaths
        <5>1. c.extends \in FilePaths
          BY <2>1, <2>8 DEF ReadChild
        <5>2. path \in FilePaths
          BY <1>1 DEF LoadTyped
        <5> QED
          BY <4>1, <5>1, <5>2, ExtendedIsPath
      <4>3. stack' \in Seq(Leaves) /\ Len(stack') = Len(stack) + 1 /\ stack'[Len(stack) + 1] = c.leaves
            /\ \A k \in 1..Len(stack) : stack'[k] = stack[k]
        BY <2>1, <2>5, <4>1
      <4>4. LoadTyped'
        BY <1>1, <2>5, <4>1, <4>2, <4>3 DEF LoadTyped
      <4>5. Stacked'
        BY <1>1, <2>2, <2>5, <2>6, <4>1, <4>3 DEF Stacked
      <4> QED
        BY <1>1, <4>1, <4>4, <4>5 DEF LoadInv, Resolved
    <3> QED
      BY <3>1, <3>2
  <2>9. CASE Raise("invalid")
    BY <1>1, <2>5, <2>9, GivenUpKeeps DEF Raise
  <2> QED
    BY <2>4, <2>7, <2>8, <2>9
<1> QED
  BY <1>2, <1>3

LEMMA MergeKeeps ==
  ASSUME LoadInv, Merge
  PROVE  LoadInv'
<1>1. load = "merge" /\ LoadTyped /\ Stacked /\ Resolved
  BY DEF Merge, LoadInv
<1>2. chain \in Seq(Entry) /\ stack \in Seq(Leaves) /\ stack # <<>>
  BY <1>1 DEF LoadTyped, Merge
<1>3. PICK m \in Nat \ {0} : m = Len(stack)
  BY <1>2
<1>4. PICK n \in Nat : n = Len(chain)
  BY <1>2
<1>5. m <= n /\ \A k \in 1..m : stack[k] = chain[k].leaves
  BY <1>1, <1>2, <1>3, <1>4 DEF Stacked
<1>6. PICK o \in Leaves : o = chain[m].leaves /\ o = Last(stack)
  BY <1>2, <1>3, <1>5 DEF Last
<1>7. stack' \in Seq(Leaves) /\ Len(stack') = m - 1 /\ \A k \in 1..m - 1 : stack'[k] = stack[k]
  BY <1>2, <1>3 DEF Merge, Front
<1>8. data' = Merged(data, o) /\ UNCHANGED <<disk, load, path, policy, chain>>
  BY <1>6 DEF Merge
<1>9. LoadTyped'
  <2>1. WellFormed(o) /\ WellFormed(data)
    BY <1>1, LeavesAreWellFormed DEF LoadTyped
  <2>2. WellFormed(Merged(data, o))
    BY <2>1, MergedIsWellFormed
  <2> QED
    BY <1>1, <1>7, <1>8, <2>2 DEF LoadTyped
<1>10. Stacked'
  BY <1>1, <1>3, <1>4, <1>5, <1>7, <1>8 DEF Stacked
<1>11. Resolved'
  <2>1. \A j, k : Won(j, k)' = Won(j, k)
    BY <1>8 DEF Won
  <2>2. Won(m - 1, m) = DOMAIN o
    <3>1. (m - 1) + 1..m - 1 = {}
      OBVIOUS
    <3> QED
      BY <1>6, <3>1 DEF Won
  <2>3. ASSUME NEW k \in m + 1..n
        PROVE  Won(m - 1, k) = {p \in Won(m, k) : \A q \in DOMAIN o : ~Clash(q, p)}
    <3>1. (m - 1) + 1..k - 1 = {m} \union (m + 1..k - 1)
      BY <1>3, <1>4
    <3> QED
      BY <1>6, <3>1 DEF Won
  <2>4. (m - 1) + 1..n = {m} \union (m + 1..n)
    BY <1>5
  <2>5. /\ DOMAIN data = UNION {Won(m, k) : k \in m + 1..n}
        /\ \A k \in m + 1..n : \A p \in Won(m, k) : data[p] = chain[k].leaves[p]
    BY <1>1, <1>3, <1>4 DEF Resolved
  <2>6. DOMAIN data' = DOMAIN o \union {q \in DOMAIN data : \A p \in DOMAIN o : ~Clash(p, q)}
    BY <1>8 DEF Merged
  <2>7. ASSUME NEW p
        PROVE  p \in DOMAIN data' <=> \E k \in (m - 1) + 1..n : p \in Won(m - 1, k)
    <3>1. p \in DOMAIN data <=> \E k \in m + 1..n : p \in Won(m, k)
      BY <2>5
    <3> QED
      BY <2>2, <2>3, <2>4, <2>6, <3>1
  <2>8. DOMAIN data' = UNION {Won(m - 1, k) : k \in (m - 1) + 1..n}
    BY <2>7
  <2>9. ASSUME NEW k \in (m - 1) + 1..n, NEW p \in Won(m - 1, k)
        PROVE  data'[p] = chain[k].leaves[p]
    <3>1. CASE k = m
      <4>1. p \in DOMAIN o
        BY <2>2, <2>9, <3>1
      <4> QED
        BY <1>6, <1>8, <3>1, <4>1 DEF Merged
    <3>2. CASE k \in m + 1..n
      <4>1. p \in Won(m, k) /\ \A q \in DOMAIN o : ~Clash(q, p)
        BY <2>3, <2>9, <3>2
      <4>2. p \notin DOMAIN o
        <5>1. p \in DOMAIN o => p \in Seq(STRING)
          BY LeavesAreWellFormed
        <5> QED
          BY <4>1, <5>1, ClashItself
      <4>3. data[p] = chain[k].leaves[p]
        BY <2>5, <3>2, <4>1
      <4>4. p \in DOMAIN data'
        BY <2>7, <2>9
      <4>5. data'[p] = data[p]
        BY <1>8, <2>6, <4>2, <4>4 DEF Merged
      <4> QED
        BY <4>3, <4>5
    <3> QED
      BY <2>4, <3>1, <3>2
  <2> QED
    BY <1>4, <1>7, <1>8, <2>1, <2>8, <2>9 DEF Resolved
<1> QED
  BY <1>9, <1>10, <1>11 DEF LoadInv

LEMMA ParseKeeps ==
  ASSUME LoadInv, Parse
  PROVE  LoadInv'
<1>1. load = "merge" /\ stack = <<>> /\ chain' = chain /\ LoadTyped /\ Stacked /\ Resolved
  BY DEF Parse, LoadInv
<1>2. CASE Accepted(data)
  <2>1. load' = "done" /\ policy' = Policy(data) /\ UNCHANGED <<disk, path, stack, data>>
    BY <1>2 DEF Parse
  <2>2. LoadTyped'
    BY <1>1, <1>2, <2>1 DEF LoadTyped, Accepted, At
  <2>3. Stacked'
    BY <1>1, <2>1 DEF Stacked
  <2>4. \A j, k : Won(j, k)' = Won(j, k)
    BY <1>1 DEF Won
  <2>5. Resolved'
    BY <1>1, <2>1, <2>4 DEF Resolved
  <2> QED
    BY <2>2, <2>3, <2>5 DEF LoadInv
<1>3. CASE ~Accepted(data)
  <2>1. load' = "invalid" /\ UNCHANGED <<disk, path, seen, stack, data, policy>>
    BY <1>3 DEF Parse, Raise
  <2> QED
    BY <1>1, <2>1, GivenUpKeeps DEF LoadTyped
<1> QED
  BY <1>2, <1>3

LEMMA LoadIsLeft ==
  ASSUME LoadInv, UNCHANGED loadVars
  PROVE  LoadInv'
<1>1. UNCHANGED <<disk, load, path, seen, stack, data, policy, chain>>
  BY DEF loadVars
<1>2. LoadTyped'
  BY <1>1 DEF LoadInv, LoadTyped
<1>3. Stacked'
  BY <1>1 DEF LoadInv, Stacked
<1>4. Resolved'
  BY <1>1 DEF LoadInv, Resolved, Won
<1> QED
  BY <1>2, <1>3, <1>4 DEF LoadInv

\* Once it is loaded, or given up, the configuration stays as it is.
LEMMA TurnsLeaveLoad ==
  ASSUME NEW t \in Turns, RunScenario(t)
  PROVE  UNCHANGED loadVars
BY DEF RunScenario, Begin, Persist, Open, Write, WriteFails, Put, Decide, Die, AskProvider

LEMMA StepLoadInv == LoadInv /\ [Next]_vars => LoadInv'
<1> SUFFICES ASSUME LoadInv, [Next]_vars PROVE LoadInv'
  OBVIOUS
<1>1. CASE UNCHANGED loadVars
  BY <1>1, LoadIsLeft
<1>2. CASE LoadNext
  BY <1>2, ReadKeeps, MergeKeeps, ParseKeeps DEF LoadNext
<1> QED
  BY <1>1, <1>2, TurnsLeaveLoad DEF Next, vars

\* What is merged is what the nearest file says.
LEMMA DataIsHeld ==
  ASSUME LoadInv, load = "done", NEW S, NEW p \in Seq(S)
  PROVE  IF Holds(p) THEN p \in DOMAIN data /\ data[p] = Nearest(p)[p] ELSE p \notin DOMAIN data
<1> DEFINE n == Len(chain)
<1>1. chain \in Seq(Entry) /\ stack = <<>> /\ DOMAIN chain = 1..n /\ n \in Nat
  BY DEF LoadInv, LoadTyped, Stacked
<1>2. /\ DOMAIN data = UNION {Won(0, k) : k \in 1..n}
      /\ \A k \in 1..n : \A q \in Won(0, k) : data[q] = chain[k].leaves[q]
  BY <1>1 DEF LoadInv, Resolved
<1>3. \A q : Clash(p, q) <=> Clash(q, p)
  BY DEF Clash
<1> HIDE DEF n
<1> DEFINE G == Given(p)
<1>4. \A i : i \in G <=> i \in 1..n /\ \E q \in DOMAIN chain[i].leaves : Clash(p, q)
  BY <1>1 DEF Given
<1>5. \A i \in 1..n : p \in DOMAIN chain[i].leaves => i \in G
  BY <1>4, ClashItself
<1>6. Holds(p) <=> G # {} /\ p \in DOMAIN chain[Min(G)].leaves
  BY DEF Holds, Nearest
<1>7. Nearest(p) = chain[Min(G)].leaves
  BY DEF Nearest
<1> HIDE DEF G
<1>8. ASSUME p \in DOMAIN data
      PROVE  \E i \in G : /\ p \in Won(0, i)
                           /\ \A j \in G : i <= j
  <2>1. PICK i \in 1..n : p \in Won(0, i)
    BY <1>2, <1>8
  <2>2. p \in DOMAIN chain[i].leaves
        /\ \A l \in 0 + 1..i - 1 : \A o \in DOMAIN chain[l].leaves : ~Clash(o, p)
    BY <2>1 DEF Won
  <2>3. ASSUME NEW j \in G, j < i PROVE FALSE
    <3>1. j \in 0 + 1..i - 1
      BY <1>1, <1>4, <2>3
    <3> QED
      BY <1>3, <1>4, <2>2, <3>1
  <2>4. i \in G /\ \A j \in G : i <= j
    BY <1>1, <1>4, <1>5, <2>2, <2>3
  <2> QED
    BY <2>1, <2>4
<1>9. CASE G = {}
  BY <1>6, <1>8, <1>9
<1>10. CASE G # {}
  <2> DEFINE k == Min(G)
  <2>1. k \in G /\ \A i \in G : k <= i
    <3>1. G \in SUBSET Nat
      BY <1>1, <1>4
    <3>2. \E i \in G : \A y \in G : i <= y
      BY <1>10, <3>1, LeastElement
    <3> QED
      BY <3>2 DEF Min
  <2> HIDE DEF k
  <2>2. k \in 1..n
    BY <1>4, <2>1
  <2>3. CASE p \in DOMAIN chain[k].leaves
    <3>1. ASSUME NEW i \in 0 + 1..k - 1, NEW o \in DOMAIN chain[i].leaves PROVE ~Clash(o, p)
      <4>1. i \in 1..n /\ i \notin G
        BY <1>1, <1>4, <2>1, <2>2
      <4> QED
        BY <1>3, <1>4, <4>1
    <3>2. p \in Won(0, k)
      BY <2>3, <3>1 DEF Won
    <3>3. p \in DOMAIN data /\ data[p] = chain[k].leaves[p]
      BY <1>2, <2>2, <3>2
    <3> QED
      BY <1>6, <1>7, <1>10, <2>3, <3>3 DEF k
  <2>4. CASE p \notin DOMAIN chain[k].leaves
    <3>1. ASSUME p \in DOMAIN data PROVE FALSE
      <4>1. PICK i \in G : p \in Won(0, i) /\ \A j \in G : i <= j
        BY <1>8, <3>1
      <4>2. i = k
        BY <1>1, <1>4, <2>1, <4>1
      <4> QED
        BY <2>4, <4>1, <4>2 DEF Won
    <3> QED
      BY <1>6, <2>4, <3>1 DEF k
  <2> QED
    BY <2>3, <2>4
<1> QED
  BY <1>9, <1>10

(* Whatever files a disk and the package hold, and however long the chain  *)
(* of files that extend one another: what a load arrives at is decided     *)
(* leaf by leaf by the nearest file that says anything at, above or below  *)
(* the leaf (agent_config.py:299-345).                                     *)
THEOREM NearestFileWins == Spec => []NearestWins
<1>1. ASSUME LoadInv PROVE NearestWins
  <2>1. \A k \in DOMAIN chain : DOMAIN chain[k].leaves \subseteq Seq(STRING)
    <3>1. \A e \in Entry : e.leaves \in Leaves
      BY DEF Entry
    <3>2. \A k \in DOMAIN chain : chain[k] \in Entry
      BY <1>1 DEF LoadInv, LoadTyped
    <3> QED
      BY <3>1, <3>2, LeavesAreWellFormed
  <2>2. \A p \in UNION {DOMAIN chain[k].leaves : k \in DOMAIN chain} : p \in Seq(STRING)
    BY <2>1
  <2> QED
    BY <1>1, <2>2, DataIsHeld DEF NearestWins
<1> QED
  BY <1>1, InitLoadInv, StepLoadInv, PTL DEF Spec

-----------------------------------------------------------------------------
(* Where a path leads.                                                     *)

Walked(w, p, from) ==
  /\ DOMAIN w = 0..Len(p) /\ w[0] = from
  /\ \A n \in 1..Len(p) : w[n] = Entered(w[n - 1], p[n])

LEMMA EnteredIsPlace ==
  ASSUME NEW at \in Seq(STRING), NEW name \in STRING
  PROVE  Entered(at, name) \in Seq(STRING)
<1>1. at # <<>> => Front(at) \in Seq(STRING)
  BY DEF Front
<1>2. Append(at, name) \in Seq(STRING)
  BY AppendProperties
<1>3. <<>> \in Seq(STRING)
  OBVIOUS
<1> QED
  BY <1>1, <1>2, <1>3 DEF Entered

LEMMA WalkExists ==
  ASSUME NEW p \in Seq(STRING), NEW from \in Seq(STRING)
  PROVE  \E w \in [0..Len(p) -> Seq(STRING)] : Walked(w, p, from)
<1> DEFINE step == [k \in 1..Len(p) |-> [at \in Seq(STRING) |-> Entered(at, p[k])]]
<1>1. PICK n \in Nat : n = Len(p) /\ \A k \in 1..n : p[k] \in STRING
  OBVIOUS
<1>2. PICK V : V = Seq(STRING)
  OBVIOUS
<1>3. step \in [1..n -> [V -> V]]
  BY <1>1, <1>2, EnteredIsPlace
<1>4. \A k \in 1..n, at \in V : step[k][at] = Entered(at, p[k])
  BY <1>1, <1>2
<1> HIDE DEF step
<1>5. StepsFrom(V, n, from, step) # {}
  BY <1>2, <1>3, StepsExist
<1>6. PICK w \in [0..n -> V] : w[0] = from /\ \A k \in 1..n : w[k] = step[k][w[k - 1]]
  BY <1>5 DEF StepsFrom
<1>7. ASSUME NEW k \in 1..n PROVE w[k] = Entered(w[k - 1], p[k])
  <2>1. k - 1 \in 0..n
    OBVIOUS
  <2> QED
    BY <1>4, <1>6, <2>1
<1>8. Walked(w, p, from)
  BY <1>1, <1>6, <1>7 DEF Walked
<1> QED
  BY <1>1, <1>2, <1>6, <1>8

LEMMA WalksAgree ==
  ASSUME NEW p \in Seq(STRING), NEW from, NEW v, NEW w, Walked(v, p, from), Walked(w, p, from)
  PROVE  \A n \in 0..Len(p) : v[n] = w[n]
<1>1. PICK l \in Nat : l = Len(p)
  OBVIOUS
<1> DEFINE T == {n \in 0..l : v[n] # w[n]}
<1> SUFFICES ASSUME T # {} PROVE FALSE
  BY <1>1
<1>2. T \in SUBSET Nat
  BY <1>1
<1>3. PICK m \in T : \A n \in T : m <= n
  <2> HIDE DEF T
  <2> QED
    BY <1>2, LeastElement
<1>4. m # 0
  BY DEF Walked
<1>5. m \in 1..l /\ m - 1 \in 0..l /\ m - 1 \notin T
  BY <1>3, <1>4
<1>6. v[m - 1] = w[m - 1]
  BY <1>5
<1> QED
  BY <1>1, <1>3, <1>5, <1>6 DEF Walked

LEMMA LocationIsEnd ==
  ASSUME NEW p \in Seq(STRING), NEW w, Walked(w, p, <<>>)
  PROVE  Location(p) = w[Len(p)]
<1> DEFINE n == Len(p)
           Solution(F) == F = [k \in 0..n |-> IF k = 0 THEN <<>> ELSE Entered(F[k - 1], p[k])]
           at == CHOOSE F : Solution(F)
<1>1. Location(p) = at[n]
  BY DEF Location
<1>2. n \in Nat
  OBVIOUS
<1> HIDE DEF n
<1> DEFINE v == [k \in 0..n |-> w[k]]
<1>3. v[0] = <<>> /\ \A k \in 1..n : v[k] = w[k] /\ v[k - 1] = w[k - 1]
  <2>1. \A k \in 1..n : k \in 0..n /\ k - 1 \in 0..n
    BY <1>2
  <2> QED
    BY <1>2, <2>1 DEF Walked
<1>4. \A k \in 1..n : v[k] = Entered(v[k - 1], p[k])
  BY <1>3 DEF Walked, n
<1>5. v = [k \in 0..n |-> v[k]]
  OBVIOUS
<1>6. v[n] = w[n]
  BY <1>2
<1> HIDE DEF v
<1>7. Solution(v)
  <2>1. \A k \in 0..n : k = 0 \/ k \in 1..n
    BY <1>2
  <2> QED
    BY <1>3, <1>4, <1>5, <2>1
<1>8. Solution(at)
  BY <1>7
<1> HIDE DEF at
<1>9. at[0] = <<>> /\ \A k \in 1..n : at[k] = Entered(at[k - 1], p[k])
  <2>1. \A k \in 1..n : k \in 0..n /\ k # 0
    BY <1>2
  <2>2. 0 \in 0..n
    BY <1>2
  <2> QED
    BY <1>8, <2>1, <2>2
<1>10. Walked(at, p, <<>>)
  BY <1>8, <1>9 DEF Walked, n
<1>11. \A k \in 0..Len(p) : at[k] = w[k]
  BY <1>10, WalksAgree
<1> QED
  BY <1>1, <1>2, <1>11 DEF n

\* A path that goes on leads on from where its beginning leads.
LEMMA LocationGoesOn ==
  ASSUME NEW a \in Seq(STRING), NEW b \in Seq(STRING)
  PROVE  /\ Location(a) \in Seq(STRING)
         /\ \E v : Walked(v, b, Location(a)) /\ Location(a \o b) = v[Len(b)]
<1> DEFINE c == a \o b
<1>1. PICK m \in Nat, n \in Nat : m = Len(a) /\ n = Len(b)
  OBVIOUS
<1>2. /\ c \in Seq(STRING) /\ Len(c) = m + n
      /\ \A k \in 1..m : c[k] = a[k]
      /\ \A k \in 1..n : c[m + k] = b[k]
  BY <1>1
<1> HIDE DEF c
<1>3. <<>> \in Seq(STRING)
  OBVIOUS
<1>4. PICK w \in [0..Len(c) -> Seq(STRING)] : Walked(w, c, <<>>)
  BY <1>2, <1>3, WalkExists
<1>5. Location(c) = w[m + n]
  BY <1>2, <1>4, LocationIsEnd
<1>6. /\ DOMAIN w = 0..m + n /\ w[0] = <<>>
      /\ \A k \in 1..m + n : w[k] = Entered(w[k - 1], c[k])
  BY <1>2, <1>4 DEF Walked
<1> DEFINE u == [k \in 0..m |-> w[k]]
           v == [k \in 0..n |-> w[m + k]]
<1>7. Walked(u, a, <<>>)
  <2>1. \A k \in 1..m : k \in 1..m + n /\ k - 1 \in 0..m /\ k \in 0..m
    BY <1>1
  <2>2. \A k \in 1..m : u[k] = w[k] /\ u[k - 1] = w[k - 1]
    BY <2>1
  <2>3. \A k \in 1..m : u[k] = Entered(u[k - 1], a[k])
    BY <1>2, <1>6, <2>1, <2>2
  <2>4. DOMAIN u = 0..m /\ u[0] = <<>>
    BY <1>1, <1>6
  <2> HIDE DEF u
  <2> QED
    BY <1>1, <2>3, <2>4 DEF Walked
<1>8. Location(a) = w[m] /\ w[m] \in Seq(STRING)
  <2>1. Location(a) = u[m]
    BY <1>1, <1>7, LocationIsEnd
  <2>2. u[m] = w[m] /\ m \in 0..m + n
    BY <1>1
  <2> QED
    BY <1>2, <1>4, <2>1, <2>2
<1>9. Walked(v, b, w[m])
  <2>1. \A k \in 1..n : m + k \in 1..m + n /\ k - 1 \in 0..n /\ k \in 0..n /\ m + (k - 1) = (m + k) - 1
    BY <1>1
  <2>2. \A k \in 1..n : v[k] = w[m + k] /\ v[k - 1] = w[(m + k) - 1]
    BY <2>1
  <2>3. \A k \in 1..n : v[k] = Entered(v[k - 1], b[k])
    BY <1>2, <1>6, <2>1, <2>2
  <2>4. DOMAIN v = 0..n /\ v[0] = w[m]
    BY <1>1
  <2> HIDE DEF v
  <2> QED
    BY <1>1, <2>3, <2>4 DEF Walked
<1>10. v[Len(b)] = w[m + n]
  BY <1>1
<1> HIDE DEF v
<1> QED
  BY <1>5, <1>8, <1>9, <1>10 DEF c

LEMMA SameStart ==
  ASSUME NEW a \in Seq(STRING), NEW c \in Seq(STRING), NEW b \in Seq(STRING), Location(a) = Location(c)
  PROVE  Location(a \o b) = Location(c \o b)
<1>1. PICK v : Walked(v, b, Location(a)) /\ Location(a \o b) = v[Len(b)]
  BY LocationGoesOn
<1>2. PICK w : Walked(w, b, Location(c)) /\ Location(c \o b) = w[Len(b)]
  BY LocationGoesOn
<1>3. \A n \in 0..Len(b) : v[n] = w[n]
  BY <1>1, <1>2, WalksAgree
<1>4. Len(b) \in 0..Len(b)
  OBVIOUS
<1> QED
  BY <1>1, <1>2, <1>3, <1>4

\* The last name of a path to a file is that of the file.
LEMMA LastOfLocation ==
  ASSUME NEW p \in FilePaths
  PROVE  /\ Front(p) \in Seq(STRING) /\ Location(Front(p)) \in Seq(STRING)
         /\ Location(p) = Append(Location(Front(p)), Last(p))
<1>1. p \in Seq(STRING) /\ p # <<>> /\ Last(p) \notin {"/", ".."}
  BY DEF FilePaths
<1>2. PICK n \in Nat : n + 1 = Len(p) /\ n = Len(p) - 1 /\ Last(p) = p[n + 1]
  <2>1. Len(p) - 1 \in Nat
    BY <1>1
  <2> QED
    BY <1>1, <2>1 DEF Last
<1>3. PICK f : f = Front(p) /\ f = SubSeq(p, 1, n)
  <2>1. Front(p) = SubSeq(p, 1, n)
    BY <1>2 DEF Front
  <2> QED
    BY <2>1
<1>4. f \in Seq(STRING) /\ Len(f) = n /\ \A k \in 1..n : f[k] = p[k]
  BY <1>1, <1>2, <1>3, SubSeqProperties
<1>5. PICK l \in STRING : l = Last(p)
  <2>1. n + 1 \in 1..Len(p)
    BY <1>2
  <2>2. p[n + 1] \in STRING
    BY <1>1, <2>1
  <2> QED
    BY <1>2, <2>2
<1>6. p = f \o <<l>>
  <2>1. PICK g : g = f \o <<l>>
    OBVIOUS
  <2>2. g \in Seq(STRING) /\ Len(g) = n + 1 /\ g[n + 1] = l /\ \A k \in 1..n : g[k] = f[k]
    BY <1>4, <1>5, <2>1
  <2>3. \A k \in 1..n + 1 : g[k] = p[k]
    BY <1>2, <1>4, <1>5, <2>2
  <2>4. g = p
    BY <1>1, <1>2, <2>2, <2>3, SeqEqual
  <2> QED
    BY <2>1, <2>4
<1>7. PICK b : b = <<l>>
  OBVIOUS
<1>8. b \in Seq(STRING) /\ Len(b) = 1 /\ b[1] = l /\ p = f \o b
  <2>1. <<l>> \in Seq(STRING) /\ Len(<<l>>) = 1 /\ <<l>>[1] = l
    <3>1. <<l>> \in Seq(STRING)
      BY <1>5
    <3>2. Len(<<l>>) = 1
      OBVIOUS
    <3>3. <<l>>[1] = l
      OBVIOUS
    <3> QED
      BY <3>1, <3>2, <3>3, Zenon
  <2>2. p = f \o b
    BY <1>6, <1>7, Zenon
  <2> QED
    BY <1>7, <2>1, <2>2, Zenon
<1>9. Location(f) \in Seq(STRING)
  BY <1>4, <1>8, LocationGoesOn
<1>10. PICK v : Walked(v, b, Location(f)) /\ Location(f \o b) = v[Len(b)]
  BY <1>4, <1>8, LocationGoesOn
<1>11. v[0] = Location(f) /\ v[1] = Entered(v[0], b[1])
  <2>1. v[0] = Location(f) /\ \A i \in 1..Len(b) : v[i] = Entered(v[i - 1], b[i])
    BY <1>10 DEF Walked
  <2>2. 1 \in 1..Len(b) /\ 1 - 1 = 0
    BY <1>8
  <2> QED
    BY <2>1, <2>2
<1>12. Location(p) = Entered(Location(f), l)
  <2>1. Location(p) = v[1]
    BY <1>8, <1>10
  <2> QED
    BY <1>8, <1>11, <2>1
<1> QED
  BY <1>1, <1>3, <1>4, <1>5, <1>9, <1>12 DEF Entered

\* A plain path leads to where it says.
LEMMA PlainLocation ==
  ASSUME NEW p \in Seq(STRING), {"/", ".."} \intersect Range(p) = {}
  PROVE  Location(p) = p
<1>1. PICK n \in Nat : n = Len(p) /\ DOMAIN p = 1..n
  OBVIOUS
<1> DEFINE w == [k \in 0..n |-> SubSeq(p, 1, k)]
<1>2. \A k \in 1..n : p[k] \in STRING /\ p[k] \notin {"/", ".."}
  BY <1>1 DEF Range
<1>3. ASSUME NEW k \in 1..n PROVE SubSeq(p, 1, k) = Append(SubSeq(p, 1, k - 1), p[k])
  <2>1. PICK s, r : s = SubSeq(p, 1, k) /\ r = SubSeq(p, 1, k - 1)
    OBVIOUS
  <2>2. /\ s \in Seq(STRING) /\ Len(s) = k /\ \A i \in 1..k : s[i] = p[i]
        /\ r \in Seq(STRING) /\ Len(r) = k - 1 /\ \A i \in 1..k - 1 : r[i] = p[i]
    BY <1>1, <2>1, SubSeqProperties
  <2>3. PICK t : t = Append(r, p[k])
    OBVIOUS
  <2>4. t \in Seq(STRING) /\ Len(t) = k /\ t[k] = p[k] /\ \A i \in 1..k - 1 : t[i] = r[i]
    BY <1>2, <2>2, <2>3, AppendProperties
  <2>5. \A i \in 1..k : i = k \/ i \in 1..k - 1
    OBVIOUS
  <2>6. \A i \in 1..k : s[i] = t[i]
    BY <2>2, <2>4, <2>5
  <2> QED
    BY <2>1, <2>2, <2>3, <2>4, <2>6, SeqEqual
<1>4. \A k \in 1..n : w[k] = SubSeq(p, 1, k) /\ w[k - 1] = SubSeq(p, 1, k - 1)
  OBVIOUS
<1>5. \A k \in 1..n : w[k] = Entered(w[k - 1], p[k])
  BY <1>2, <1>3, <1>4 DEF Entered
<1>6. w[0] = <<>> /\ DOMAIN w = 0..n
  OBVIOUS
<1>7. w[n] = p
  <2>1. PICK s : s = SubSeq(p, 1, n)
    OBVIOUS
  <2>2. s \in Seq(STRING) /\ Len(s) = n /\ \A i \in 1..n : s[i] = p[i]
    BY <1>1, <2>1, SubSeqProperties
  <2>3. s = p
    BY <1>1, <2>2, SeqEqual
  <2> QED
    BY <2>1, <2>3
<1> HIDE DEF w
<1>8. Walked(w, p, <<>>)
  BY <1>1, <1>5, <1>6 DEF Walked
<1> QED
  BY <1>1, <1>7, <1>8, LocationIsEnd

\* The place an extended path leads to depends on the place of the file that
\* extends it, however that file was spelled.
LEMMA SamePlaceSameParent ==
  ASSUME NEW d, NEW p \in FilePaths, NEW q \in FilePaths, NEW e \in FilePaths, Location(p) = Location(q)
  PROVE  Location(Extended(d, p, e)) = Location(Extended(d, q, e))
<1>1. /\ p \in Seq(STRING) /\ q \in Seq(STRING) /\ e \in Seq(STRING)
      /\ p # <<>> /\ q # <<>> /\ e # <<>>
  BY DEF FilePaths
<1>2. PICK f, g : f = Front(p) /\ g = Front(q)
  OBVIOUS
<1>3. f \in Seq(STRING) /\ g \in Seq(STRING) /\ Location(f) = Location(g)
  <2>1. /\ f \in Seq(STRING) /\ Location(f) \in Seq(STRING)
        /\ Location(p) = Append(Location(f), Last(p))
    BY <1>2, LastOfLocation
  <2>2. /\ g \in Seq(STRING) /\ Location(g) \in Seq(STRING)
        /\ Location(q) = Append(Location(g), Last(q))
    BY <1>2, LastOfLocation
  <2>3. PICK x, y, k, l :
          /\ x \in Seq(STRING) /\ y \in Seq(STRING)
          /\ x = Location(f) /\ y = Location(g) /\ k = Last(p) /\ l = Last(q)
          /\ Append(x, k) = Append(y, l)
    BY <2>1, <2>2
  <2>4. k \in STRING /\ l \in STRING
    BY <1>1, <2>3 DEF Last
  <2>5. x = y
    <3>1. PICK m \in Nat, n \in Nat : m = Len(x) /\ n = Len(y)
      BY <2>3
    <3>2. /\ Len(Append(x, k)) = m + 1 /\ \A i \in 1..m : Append(x, k)[i] = x[i]
          /\ Len(Append(y, l)) = n + 1 /\ \A i \in 1..n : Append(y, l)[i] = y[i]
      BY <2>4, <3>1, AppendProperties
    <3>3. m = n /\ \A i \in 1..m : x[i] = y[i]
      BY <2>3, <3>2
    <3> QED
      BY <2>3, <3>1, <3>3, SeqEqual
  <2> QED
    BY <2>1, <2>2, <2>3, <2>5
<1>4. Location(f \o e) = Location(g \o e)
  BY <1>1, <1>3, SameStart
<1>5. Exists(d, p) = Exists(d, q) /\ Exists(d, f \o e) = Exists(d, g \o e)
  BY <1>4 DEF Exists
<1>6. CASE e[1] = "/"
  BY <1>6 DEF Extended
<1>7. CASE e[1] # "/" /\ Len(e) = 1
  <2>1. ASSUME NEW r \in Seq(STRING), r # <<>>, Len(r) < 2 PROVE Front(r) \o e = e
    <3>1. Len(r) = 1
      <4>1. PICK m \in Nat : m = Len(r)
        BY <2>1
      <4>2. m # 0
        BY <2>1, <4>1
      <4>3. m < 2
        BY <2>1, <4>1
      <4> QED
        BY <4>1, <4>2, <4>3
    <3>2. Front(r) = <<>>
      BY <3>1 DEF Front
    <3> QED
      BY <1>1, <3>2
  <2>2. Extended(d, p, e) = f \o e
    BY <1>1, <1>2, <1>7, <2>1 DEF Extended
  <2>3. Extended(d, q, e) = g \o e
    BY <1>1, <1>2, <1>7, <2>1 DEF Extended
  <2> QED
    BY <1>4, <2>2, <2>3
<1>8. CASE e[1] # "/" /\ Len(e) # 1
  <2>1. Extended(d, p, e) = IF Exists(d, p) /\ Exists(d, f \o e) THEN f \o e ELSE e
    BY <1>2, <1>8 DEF Extended
  <2>2. Extended(d, q, e) = IF Exists(d, q) /\ Exists(d, g \o e) THEN g \o e ELSE e
    BY <1>2, <1>8 DEF Extended
  <2> QED
    BY <1>4, <1>5, <2>1, <2>2
<1> QED
  BY <1>6, <1>7, <1>8

\* Two spellings of one place that both can be read are of one file.
LEMMA SamePlaceSameFile ==
  ASSUME NEW d, NEW p \in FilePaths, NEW q \in FilePaths, Readable(d, p), Readable(d, q),
         Location(p) = Location(q)
  PROVE  Content(d, p) = Content(d, q)
<1>1. Exists(d, p) = Exists(d, q)
  BY DEF Exists
<1>2. CASE Exists(d, p)
  BY <1>1, <1>2 DEF Content
<1>3. CASE ~Exists(d, p)
  <2>1. p \in DOMAIN Package /\ q \in DOMAIN Package
    BY <1>1, <1>3 DEF Readable, Packaged
  <2>2. p = Location(p) /\ q = Location(q)
    BY <2>1, PlainLocation, AgentConfigAssumption DEF FilePaths
  <2> QED
    BY <2>2
<1> QED
  BY <1>2, <1>3

\* What is readable is at one of the places there are.
LEMMA ReadableIsSomewhere ==
  ASSUME NEW d, NEW p \in FilePaths, Readable(d, p)
  PROVE  Location(p) \in DOMAIN d \union DOMAIN Package
<1>1. CASE Exists(d, p)
  BY <1>1 DEF Exists
<1>2. CASE ~Exists(d, p)
  <2>1. p \in DOMAIN Package
    BY <1>2 DEF Readable, Packaged
  <2>2. Location(p) = p
    BY <2>1, PlainLocation, AgentConfigAssumption DEF FilePaths
  <2> QED
    BY <2>1, <2>2
<1> QED
  BY <1>1, <1>2

\* The files read so far: each extends the next, and none is spelled twice.
Leads(d, p, q) ==
  /\ Content(d, p).extends \notin {<<>>, <<"">>}
  /\ q = Extended(d, p, Content(d, p).extends)

Links(d, walk) ==
  /\ \A k \in 1..Len(walk) : Readable(d, walk[k].path)
  /\ \A k \in 1..Len(walk) - 1 : Leads(d, walk[k].path, walk[k + 1].path)
  /\ \A j, k \in 1..Len(walk) : walk[j].path = walk[k].path => j = k

Linked == Links(disk, chain)

Reached ==
  /\ load = "read" =>
       /\ seen = Spellings \union {path} /\ path \notin Spellings
       /\ chain # <<>> => Leads(disk, chain[Len(chain)].path, path)
  /\ load \in {"merge", "done"} =>
       chain # <<>> /\ Content(disk, chain[Len(chain)].path).extends = <<>>
  /\ load = "circular" => Extended(disk, path, Content(disk, path).extends) \in Spellings
  /\ load = "too deep" => Len(chain) = MaxDepth + 1

ChainInv == Linked /\ Reached

LEMMA InitChainInv == Init => ChainInv
<1> SUFFICES ASSUME Init PROVE ChainInv
  OBVIOUS
<1>1. chain = <<>> /\ load = "read" /\ seen = {path}
  BY DEF Init, LoadInit
<1>2. Len(chain) = 0 /\ DOMAIN chain = {} /\ Spellings = {}
  BY <1>1 DEF Spellings
<1> QED
  BY <1>1, <1>2 DEF ChainInv, Linked, Links, Reached

LEMMA ReadKeepsChain ==
  ASSUME ChainInv, LoadInv, Read
  PROVE  ChainInv'
<1> DEFINE c == Content(disk, path)
           e == [path |-> path, leaves |-> c.leaves]
<1>1. load = "read" /\ chain \in Seq(Entry) /\ Len(stack) = Len(chain) /\ stack \in Seq(Leaves)
      /\ disk \in Systems /\ path \in FilePaths
  BY DEF Read, LoadInv, LoadTyped, Stacked
<1>2. CASE ~Readable(disk, path)
  <2>1. load' = "missing" /\ UNCHANGED <<disk, path, seen, chain>>
    BY <1>1, <1>2 DEF Read, Raise
  <2> QED
    BY <2>1 DEF ChainInv, Linked, Reached
<1>3. CASE Readable(disk, path)
  <2>1. chain' = Append(chain, e) /\ disk' = disk
    BY <1>1, <1>3 DEF Read, ReadRoot, ReadChild, Raise
  <2>2. e \in Entry /\ e.path = path
    BY <1>1, <1>3, ContentIsOne DEF Entry
  <2>3. \/ ReadRoot(c) \/ ReadChild(c)
        \/ Raise("invalid")
    BY <1>1, <1>3 DEF Read
  <2>4. seen = Spellings \union {path} /\ path \notin Spellings
        /\ (chain # <<>> => Leads(disk, chain[Len(chain)].path, path)) /\ Linked
    BY <1>1 DEF ChainInv, Reached
  <2> HIDE DEF e
  <2>5. PICK n \in Nat : n = Len(chain) /\ DOMAIN chain = 1..n
    BY <1>1
  <2>6. /\ chain' \in Seq(Entry) /\ Len(chain') = n + 1 /\ DOMAIN chain' = 1..n + 1
        /\ chain'[n + 1] = e /\ \A k \in 1..n : chain'[k] = chain[k]
    BY <1>1, <2>1, <2>2, <2>5, AppendProperties
  <2>7. \A k \in 1..n + 1 : k \in 1..n \/ k = n + 1
    OBVIOUS
  <2>8. Spellings' = Spellings \union {path} /\ \A k \in 1..n : chain[k].path \in Spellings
    BY <2>2, <2>5, <2>6, <2>7 DEF Spellings
  <2>9. Linked'
    <3>1. \A k \in 1..n + 1 : Readable(disk, chain'[k].path)
      BY <1>3, <2>2, <2>4, <2>5, <2>6, <2>7 DEF Linked, Links
    <3>2. ASSUME NEW k \in 1..n PROVE Leads(disk, chain'[k].path, chain'[k + 1].path)
      <4>1. CASE k = n
        <5>1. chain # <<>> /\ Leads(disk, chain[n].path, path)
          BY <2>4, <2>5, <4>1
        <5>2. chain'[n].path = chain[n].path /\ chain'[n + 1].path = path
          BY <2>2, <2>6, <4>1
        <5> QED
          BY <4>1, <5>1, <5>2
      <4>2. CASE k # n
        <5>1. k \in 1..n - 1 /\ k + 1 \in 1..n
          BY <4>2
        <5>2. Leads(disk, chain[k].path, chain[k + 1].path)
          BY <2>4, <2>5, <5>1 DEF Linked, Links
        <5> QED
          BY <2>6, <5>1, <5>2
      <4> QED
        BY <4>1, <4>2
    <3>3. \A j, k \in 1..n + 1 : chain'[j].path = chain'[k].path => j = k
      BY <2>2, <2>4, <2>5, <2>6, <2>7, <2>8 DEF Linked, Links
    <3>4. (n + 1) - 1 = n
      OBVIOUS
    <3>5. Links(disk, chain')
      BY <2>6, <3>1, <3>2, <3>3, <3>4 DEF Links
    <3> QED
      BY <2>1, <3>5 DEF Linked
  <2>10. CASE ReadRoot(c)
    <3>1. load' = "merge" /\ c.extends = <<>>
      BY <2>10 DEF ReadRoot
    <3>2. chain' # <<>> /\ Content(disk', chain'[Len(chain')].path).extends = <<>>
      BY <2>1, <2>2, <2>6, <3>1
    <3> QED
      BY <2>9, <3>1, <3>2 DEF ChainInv, Reached
  <2>11. CASE ReadChild(c)
    <3> DEFINE parent == Extended(disk, path, c.extends)
    <3>1. c.extends \notin {<<>>, <<"">>}
      BY <2>11 DEF ReadChild
    <3>2. CASE parent \in seen
      <4>1. load' = "circular" /\ path' = path
        BY <2>11, <3>2 DEF ReadChild, Raise
      <4>2. Extended(disk', path', Content(disk', path').extends) \in Spellings'
        BY <2>1, <2>4, <2>8, <3>2, <4>1
      <4> QED
        BY <2>9, <4>1, <4>2 DEF ChainInv, Reached
    <3>3. CASE parent \notin seen /\ Len(stack) = MaxDepth
      <4>1. load' = "too deep"
        BY <2>11, <3>3 DEF ReadChild, Raise
      <4>2. Len(chain') = MaxDepth + 1
        BY <1>1, <2>5, <2>6, <3>3
      <4> QED
        BY <2>9, <4>1, <4>2 DEF ChainInv, Reached
    <3>4. CASE parent \notin seen /\ Len(stack) # MaxDepth
      <4>1. load' = "read" /\ path' = parent /\ seen' = seen \union {parent}
        BY <1>1, <2>11, <3>4 DEF ReadChild
      <4>2. seen' = Spellings' \union {path'} /\ path' \notin Spellings'
        BY <2>4, <2>8, <3>4, <4>1
      <4>3. Leads(disk', chain'[Len(chain')].path, path')
        BY <2>1, <2>2, <2>6, <3>1, <4>1 DEF Leads
      <4> QED
        BY <2>9, <4>1, <4>2, <4>3 DEF ChainInv, Reached
    <3> QED
      BY <3>2, <3>3, <3>4
  <2>12. CASE Raise("invalid")
    BY <2>9, <2>12 DEF ChainInv, Reached, Raise
  <2> QED
    BY <2>3, <2>10, <2>11, <2>12
<1> QED
  BY <1>2, <1>3

LEMMA StepChainInv == ChainInv /\ LoadInv /\ [Next]_vars => ChainInv'
<1> SUFFICES ASSUME ChainInv, LoadInv, [Next]_vars PROVE ChainInv'
  OBVIOUS
<1>1. CASE UNCHANGED loadVars
  <2>1. disk' = disk /\ load' = load /\ path' = path /\ seen' = seen /\ chain' = chain
    BY <1>1 DEF loadVars
  <2> QED
    BY <2>1 DEF ChainInv, Linked, Reached, Spellings
<1>2. CASE Read
  BY <1>2, ReadKeepsChain
<1>3. CASE Merge
  <2>1. load = "merge" /\ UNCHANGED <<disk, load, path, seen, chain>>
    BY <1>3 DEF Merge
  <2> QED
    BY <2>1 DEF ChainInv, Linked, Reached, Spellings
<1>4. CASE Parse
  <2>1. load = "merge" /\ load' \in {"done", "invalid"} /\ UNCHANGED <<disk, path, seen, chain>>
    BY <1>4 DEF Parse, Raise
  <2> QED
    BY <2>1 DEF ChainInv, Linked, Reached, Spellings
<1> QED
  BY <1>1, <1>2, <1>3, <1>4, TurnsLeaveLoad DEF Next, vars, LoadNext

\* What the files read are.
LEMMA ReadFiles ==
  ASSUME LoadInv, ChainInv
  PROVE  /\ Len(chain) \in Nat /\ DOMAIN chain = 1..Len(chain)
         /\ \A k \in 1..Len(chain) :
              /\ chain[k].path \in FilePaths /\ Readable(disk, chain[k].path)
              /\ Content(disk, chain[k].path).extends \in {<<>>} \union FilePaths
<1>1. chain \in Seq(Entry) /\ disk \in Systems
  BY DEF LoadInv, LoadTyped
<1>2. \A e \in Entry : e.path \in FilePaths
  BY DEF Entry
<1>3. \A k \in 1..Len(chain) : chain[k] \in Entry
  BY <1>1
<1>4. \A k \in 1..Len(chain) : Readable(disk, chain[k].path)
  BY DEF ChainInv, Linked, Links
<1> QED
  BY <1>1, <1>2, <1>3, <1>4, ContentIsOne

\* Two files at one place extend one place: a chain with a place it comes back
\* to has no end.
LEMMA PlacesAreNew ==
  ASSUME LoadInv, ChainInv, load \in {"merge", "done"}, NEW i \in 1..Len(chain), NEW j \in 1..Len(chain),
         Location(chain[i].path) = Location(chain[j].path)
  PROVE  i = j
<1> DEFINE P(k) == chain[k].path
           X(k) == Content(disk, P(k)).extends
           Twice(a, b) == a \in 1..Len(chain) /\ b \in 1..Len(chain) /\ a < b /\ Location(P(a)) = Location(P(b))
<1>1. PICK n \in Nat : n = Len(chain)
  BY ReadFiles
<1>2. \A k \in 1..n : P(k) \in FilePaths /\ Readable(disk, P(k)) /\ X(k) \in {<<>>} \union FilePaths
  BY <1>1, ReadFiles
<1>3. X(n) = <<>>
  BY <1>1 DEF ChainInv, Reached
<1>4. \A k \in 1..n - 1 : X(k) # <<>> /\ P(k + 1) = Extended(disk, P(k), X(k))
  BY <1>1 DEF ChainInv, Linked, Links, Leads
<1>5. ASSUME NEW a, NEW b, Twice(a, b) PROVE b < n /\ Twice(a + 1, b + 1)
  <2>1. a \in 1..n /\ b \in 1..n /\ a < b /\ Location(P(a)) = Location(P(b))
    BY <1>1, <1>5
  <2>2. a \in 1..n - 1
    BY <2>1
  <2>3. PICK p, q, e : p = P(a) /\ q = P(b) /\ e = X(a)
    OBVIOUS
  <2>4. /\ p \in FilePaths /\ q \in FilePaths /\ Readable(disk, p) /\ Readable(disk, q)
        /\ Location(p) = Location(q) /\ e \in FilePaths
    BY <1>2, <1>4, <2>1, <2>2, <2>3
  <2>5. e = X(b)
    <3>1. Content(disk, p) = Content(disk, q)
      BY <2>4, SamePlaceSameFile
    <3> QED
      BY <2>3, <3>1
  <2>6. b # n
    BY <1>3, <2>4, <2>5 DEF FilePaths
  <2>7. b \in 1..n - 1 /\ b < n
    BY <2>1, <2>6
  <2>8. P(a + 1) = Extended(disk, p, e) /\ P(b + 1) = Extended(disk, q, e)
    BY <1>4, <2>2, <2>3, <2>5, <2>7
  <2>9. Location(P(a + 1)) = Location(P(b + 1))
    BY <2>4, <2>8, SamePlaceSameParent
  <2>10. a + 1 \in 1..n /\ b + 1 \in 1..n /\ a + 1 < b + 1
    BY <2>1, <2>7
  <2> QED
    BY <1>1, <2>7, <2>9, <2>10
<1>6. ASSUME NEW a, NEW b, Twice(a, b) PROVE FALSE
  <2> DEFINE T == {m \in Nat : \E x, y \in 1..n : Twice(x, y) /\ m = n - y}
  <2>1. a \in 1..n /\ b \in 1..n
    BY <1>1, <1>6
  <2>2. n - b \in T
    BY <1>6, <2>1
  <2>3. PICK m \in T : \A o \in T : m <= o
    <3>1. T \in SUBSET Nat /\ T # {}
      BY <2>2
    <3> HIDE DEF T
    <3> QED
      BY <3>1, LeastElement
  <2>4. PICK x, y \in 1..n : Twice(x, y) /\ m = n - y
    BY <2>3
  <2> HIDE DEF Twice
  <2>5. y < n /\ Twice(x + 1, y + 1)
    BY <1>5, <2>4
  <2>6. x + 1 \in 1..n /\ y + 1 \in 1..n
    BY <1>1, <2>5 DEF Twice
  <2>7. n - (y + 1) \in T /\ n - (y + 1) < m
    <3>1. n - (y + 1) \in Nat /\ n - (y + 1) < m
      BY <2>4, <2>6
    <3> QED
      BY <2>5, <2>6, <3>1
  <2>8. m \in Nat /\ n - (y + 1) \in Nat
    BY <2>7
  <2> HIDE DEF T
  <2> QED
    BY <2>3, <2>7, <2>8
<1>7. i \in Int /\ j \in Int
  OBVIOUS
<1>8. i < j => Twice(i, j)
  OBVIOUS
<1>9. j < i => Twice(j, i)
  OBVIOUS
<1> HIDE DEF Twice
<1> QED
  BY <1>6, <1>7, <1>8, <1>9

\* As many values as there are arguments that each has its own.
LEMMA CountOfDistinct ==
  ASSUME NEW n \in Nat, NEW f, DOMAIN f = 1..n, \A i, j \in 1..n : f[i] = f[j] => i = j
  PROVE  Cardinality({f[i] : i \in 1..n}) = n
<1> DEFINE S == {f[i] : i \in 1..n}
           g == [i \in 1..n |-> f[i]]
<1>1. g \in [1..n -> S] /\ \A i \in 1..n : g[i] = f[i]
  OBVIOUS
<1>2. \A s \in S : \E i \in 1..n : f[i] = s
  OBVIOUS
<1> HIDE DEF S, g
<1>3. g \in Injection(1..n, S)
  BY <1>1 DEF Injection, IsInjective
<1>4. g \in Surjection(1..n, S)
  BY <1>1, <1>2 DEF Surjection
<1>5. ExistsBijection(1..n, S)
  BY <1>3, <1>4 DEF ExistsBijection, Bijection
<1>6. Cardinality(S) = n
  BY <1>5, FS_CountingElements
<1> QED
  BY <1>6 DEF S

\* CircleIsRefused, whatever files there are and however they spell the paths
\* of the files they extend: the program compares spellings and not places, yet
\* what is merged came from as many files as were read.  For a file extends one
\* place under all of its spellings, so that a chain which comes back to a place
\* goes round for ever, and one that ends has not come back.
THEOREM CirclesAreRefused == Spec => []CircleIsRefused
<1>1. ASSUME LoadInv, ChainInv PROVE CircleIsRefused
  <2>1. PICK n \in Nat : n = Len(chain) /\ DOMAIN chain = 1..n
    BY <1>1, ReadFiles
  <2> DEFINE at == [k \in 1..n |-> Location(chain[k].path)]
             spelled == [k \in 1..n |-> chain[k].path]
  <2>2. Places = {at[k] : k \in 1..n} /\ Spellings = {spelled[k] : k \in 1..n}
    BY <2>1 DEF Places, Spellings
  <2>3. load \in {"merge", "done"} => Cardinality(Places) = Len(chain)
    <3> SUFFICES ASSUME load \in {"merge", "done"} PROVE Cardinality(Places) = n
      BY <2>1
    <3>1. DOMAIN at = 1..n
      OBVIOUS
    <3>2. \A i, j \in 1..n : at[i] = at[j] => i = j
      BY <1>1, <2>1, PlacesAreNew
    <3> HIDE DEF at
    <3> QED
      BY <2>2, <3>1, <3>2, CountOfDistinct
  <2>4. load = "circular" => Location(Extended(disk, path, Content(disk, path).extends)) \in Places
    BY <1>1 DEF ChainInv, Reached, Places, Spellings
  <2>5. ASSUME load = "too deep" PROVE Cardinality(Spellings) = Len(chain)
    <3>1. DOMAIN spelled = 1..n
      OBVIOUS
    <3>2. \A i, j \in 1..n : spelled[i] = spelled[j] => i = j
      BY <1>1, <2>1 DEF ChainInv, Linked, Links
    <3> HIDE DEF spelled
    <3> QED
      BY <2>1, <2>2, <3>1, <3>2, CountOfDistinct
  <2>6. ASSUME load = "too deep", Cardinality(DOMAIN disk \union DOMAIN Package) <= MaxDepth
        PROVE  Cardinality(Places) < Len(chain)
    <3>1. PICK S : S = DOMAIN disk \union DOMAIN Package
      OBVIOUS
    <3>2. IsFiniteSet(S)
      <4>1. IsFiniteSet(DOMAIN disk) /\ IsFiniteSet(DOMAIN Package)
        BY <1>1, AgentConfigAssumption DEF LoadInv, LoadTyped
      <4> QED
        BY <3>1, <4>1, FS_Union
    <3>3. Places \in SUBSET S
      <4>1. \A k \in 1..n : at[k] \in S
        BY <1>1, <2>1, <3>1, ReadFiles, ReadableIsSomewhere
      <4> QED
        BY <2>2, <4>1
    <3>4. PICK c \in Nat, s \in Nat : c = Cardinality(Places) /\ s = Cardinality(S) /\ c <= s
      BY <3>2, <3>3, FS_Subset, FS_CardinalityType
    <3>5. s <= MaxDepth /\ Len(chain) = MaxDepth + 1 /\ MaxDepth \in Nat
      BY <1>1, <2>6, <3>1, <3>4, AgentConfigAssumption DEF ChainInv, Reached
    <3> QED
      BY <3>4, <3>5
  <2> QED
    BY <2>3, <2>4, <2>5, <2>6 DEF CircleIsRefused
<1> QED
  BY <1>1, InitLoadInv, StepLoadInv, InitChainInv, StepChainInv, PTL DEF Spec

-----------------------------------------------------------------------------
(* The memory policy.                                                      *)

\* The events of a kind are some of the events, in their order.
LEMMA OfKindSelects ==
  ASSUME NEW S, NEW s \in Seq(S), NEW kind
  PROVE  /\ OfKind(s, kind) \in Seq(S)
         /\ \E at \in [1..Len(OfKind(s, kind)) -> 1..Len(s)] :
              /\ \A i \in 1..Len(OfKind(s, kind)) :
                   OfKind(s, kind)[i] = s[at[i]] /\ s[at[i]].kind = kind
              /\ \A i, j \in 1..Len(OfKind(s, kind)) : i < j => at[i] < at[j]
<1> DEFINE n == Len(s)
           Solution(F) == F = [k \in 0..n |-> IF k = 0 THEN <<>>
                                ELSE IF s[k].kind = kind THEN Append(F[k - 1], s[k]) ELSE F[k - 1]]
           step == [k \in 1..n |-> [r \in Seq(S) |-> IF s[k].kind = kind THEN Append(r, s[k]) ELSE r]]
           kept == CHOOSE F : Solution(F)
<1>1. OfKind(s, kind) = kept[n]
  BY DEF OfKind
<1>2. n \in Nat /\ <<>> \in Seq(S) /\ \A k \in 1..n : s[k] \in S
  OBVIOUS
<1>3. step \in [1..n -> [Seq(S) -> Seq(S)]]
  BY <1>2
<1>4. \A k \in 1..n, r \in Seq(S) : step[k][r] = IF s[k].kind = kind THEN Append(r, s[k]) ELSE r
  OBVIOUS
<1> HIDE DEF step, n
<1>5. PICK F \in [0..n -> Seq(S)] : F[0] = <<>> /\ \A k \in 1..n : F[k] = step[k][F[k - 1]]
  <2>1. PICK V : V = Seq(S)
    OBVIOUS
  <2>2. PICK base \in V : base = <<>>
    BY <1>2, <2>1
  <2>3. step \in [1..n -> [V -> V]]
    BY <1>3, <2>1
  <2>4. StepsFrom(V, n, base, step) # {}
    BY <1>2, <2>3, StepsExist
  <2> QED
    BY <2>1, <2>2, <2>4 DEF StepsFrom
<1>6. \A k \in 1..n : F[k - 1] \in Seq(S)
                      /\ F[k] = IF s[k].kind = kind THEN Append(F[k - 1], s[k]) ELSE F[k - 1]
  <2>1. \A k \in 1..n : k - 1 \in 0..n
    BY <1>2
  <2> QED
    BY <1>4, <1>5, <2>1
<1>7. Solution(F)
  <2>1. \A k \in 0..n : k = 0 \/ k \in 1..n
    BY <1>2
  <2> QED
    BY <1>5, <1>6, <2>1
<1>8. Solution(kept)
  BY <1>7
<1> HIDE DEF kept
<1>9. kept[0] = <<>> /\ \A k \in 1..n :
        kept[k] = IF s[k].kind = kind THEN Append(kept[k - 1], s[k]) ELSE kept[k - 1]
  <2>1. \A k \in 1..n : k \in 0..n /\ k # 0
    BY <1>2
  <2>2. 0 \in 0..n
    BY <1>2
  <2> QED
    BY <1>8, <2>1, <2>2
<1> HIDE DEF Solution
<1> DEFINE Right(r, k) ==
             /\ r \in Seq(S)
             /\ \E at \in [1..Len(r) -> 1..k] :
                  /\ \A i \in 1..Len(r) : r[i] = s[at[i]] /\ s[at[i]].kind = kind
                  /\ \A i, j \in 1..Len(r) : i < j => at[i] < at[j]
           C == {k \in 0..n : Right(kept[k], k)}
<1>10. Right(<<>>, 0)
  <2>1. PICK e \in Seq(S) : e = <<>> /\ Len(e) = 0
    BY <1>2
  <2> DEFINE none == [i \in 1..0 |-> 1]
  <2>2. none \in [1..0 -> 1..0] /\ \A i \in 1..0 : FALSE
    OBVIOUS
  <2> HIDE DEF none
  <2>3. Right(e, 0)
    <3>1. none \in [1..Len(e) -> 1..0] /\ \A i \in 1..Len(e) : FALSE
      BY <2>1, <2>2
    <3> QED
      BY <3>1
  <2> HIDE DEF Right
  <2> QED
    BY <2>1, <2>3
<1>11. ASSUME NEW k \in 1..n, NEW r, Right(r, k - 1), s[k].kind = kind
       PROVE  Right(Append(r, s[k]), k)
  <2>1. r \in Seq(S) /\ s[k] \in S
    BY <1>2, <1>11
  <2>2. PICK at \in [1..Len(r) -> 1..k - 1] :
          /\ \A i \in 1..Len(r) : r[i] = s[at[i]] /\ s[at[i]].kind = kind
          /\ \A i, j \in 1..Len(r) : i < j => at[i] < at[j]
    BY <1>11
  <2>3. PICK m \in Nat : m = Len(r)
    BY <2>1
  <2>4. PICK q \in Seq(S) : q = Append(r, s[k])
    <3>1. Append(r, s[k]) \in Seq(S)
      BY <2>1, AppendProperties
    <3> QED
      BY <3>1
  <2>5. Len(q) = m + 1 /\ q[m + 1] = s[k] /\ \A i \in 1..m : q[i] = r[i]
    BY <2>1, <2>3, <2>4
  <2> DEFINE to == [i \in 1..m + 1 |-> IF i = m + 1 THEN k ELSE at[i]]
  <2>6. /\ to \in [1..m + 1 -> 1..k] /\ to[m + 1] = k
        /\ \A i \in 1..m : to[i] = at[i] /\ at[i] \in 1..k - 1
    BY <1>2, <2>2, <2>3
  <2> HIDE DEF to
  <2>7. \A i \in 1..m + 1 : i = m + 1 \/ i \in 1..m
    OBVIOUS
  <2>8. \A i \in 1..m + 1 : q[i] = s[to[i]] /\ s[to[i]].kind = kind
    BY <1>11, <2>2, <2>3, <2>5, <2>6, <2>7
  <2>9. \A i, j \in 1..m + 1 : i < j => to[i] < to[j]
    <3> SUFFICES ASSUME NEW i \in 1..m + 1, NEW j \in 1..m + 1, i < j PROVE to[i] < to[j]
      OBVIOUS
    <3>1. i \in 1..m /\ to[i] = at[i] /\ at[i] \in 1..k - 1
      BY <2>6, <2>7
    <3>2. CASE j = m + 1
      BY <1>2, <2>6, <3>1, <3>2
    <3>3. CASE j \in 1..m
      BY <2>2, <2>3, <2>6, <3>1, <3>3
    <3> QED
      BY <2>7, <3>2, <3>3
  <2>10. Right(q, k)
    BY <2>5, <2>6, <2>8, <2>9
  <2> QED
    BY <2>4, <2>10
<1>12. ASSUME NEW k \in 1..n, NEW r, Right(r, k - 1)
       PROVE  Right(r, k)
  <2>1. PICK at \in [1..Len(r) -> 1..k - 1] :
          /\ \A i \in 1..Len(r) : r[i] = s[at[i]] /\ s[at[i]].kind = kind
          /\ \A i, j \in 1..Len(r) : i < j => at[i] < at[j]
    BY <1>12
  <2>2. at \in [1..Len(r) -> 1..k]
    BY <1>2
  <2> QED
    BY <1>12, <2>1, <2>2
<1> HIDE DEF Right
<1>13. 0 \in C
  BY <1>2, <1>9, <1>10
<1>14. \A k \in 1..n : k - 1 \in C => k \in C
  <2> SUFFICES ASSUME NEW k \in 1..n, k - 1 \in C PROVE k \in C
    OBVIOUS
  <2>1. Right(kept[k - 1], k - 1) /\ k \in 0..n
    BY <1>2
  <2>2. CASE s[k].kind = kind
    <3>1. Right(Append(kept[k - 1], s[k]), k)
      BY <1>11, <2>1, <2>2
    <3>2. kept[k] = Append(kept[k - 1], s[k])
      BY <1>9, <2>2
    <3> QED
      BY <2>1, <3>1, <3>2
  <2>3. CASE s[k].kind # kind
    <3>1. Right(kept[k - 1], k)
      BY <1>12, <2>1
    <3>2. kept[k] = kept[k - 1]
      BY <1>9, <2>3
    <3> QED
      BY <2>1, <3>1, <3>2
  <2> QED
    BY <2>2, <2>3
<1>15. n \in C
  <2> HIDE DEF C
  <2>1. 0..n \subseteq C
    BY <1>2, <1>13, <1>14, InductionUpTo
  <2> QED
    BY <1>2, <2>1
<1>16. Right(kept[n], n)
  BY <1>15
<1> QED
  BY <1>1, <1>16 DEF Right, n

EventTypes == {"project_goal", "project_decision", "project_constraint", "support_issue_opened",
               "support_handoff_note", "synthetic_telemetry", "audit_event", "temporal_observation",
               "identity_checkpoint", "task_summary"}
Records == [type : EventTypes, kind : {"session", "checkpoint", "audit", "summary"},
            provenance : BOOLEAN, customer : {"none", "plain", "redacted"}]

\* No two events of a turn are of one type.
Distinct(s) == \A i, j \in DOMAIN s : s[i].type = s[j].type => i = j

Obeys(p, e) ==
  /\ e.customer = "plain" => p.retain_sensitive_data
  /\ e.provenance => p.retain_provenance
  /\ e.kind \in KindOf[p.retention_mode]

Retained(p, s) ==
  /\ s \in Seq(Records) /\ Distinct(s)
  /\ \A i \in DOMAIN s : Obeys(p, s[i])
  /\ p.max_session_events > 0 => Len(s) <= p.max_session_events

Usable(p) ==
  /\ p.retain_sensitive_data \in BOOLEAN /\ p.retain_provenance \in BOOLEAN
  /\ p.max_session_events \in Nat

LEMMA ScenarioEvents ==
  ASSUME NEW c \in Calls
  PROVE  /\ Scenario(c).events \in Seq(Records) /\ Distinct(Scenario(c).events)
         /\ \A i \in DOMAIN Scenario(c).events :
              Scenario(c).events[i].kind \in {"session", "checkpoint", "audit"}
<1> DEFINE Right(s) == /\ s \in Seq(Records) /\ Distinct(s)
                       /\ \A i \in DOMAIN s : s[i].kind \in {"session", "checkpoint", "audit"}
<1>1. Scenario(c) \in {Companion, Support, Operations, Temporal, Identity}
  BY AgentAssumption DEF Scenario, AVAILABLE_SCENARIOS
<1>2. ASSUME NEW t \in EventTypes, NEW k \in {"session", "checkpoint", "audit"},
             NEW u \in {"none", "plain"}
      PROVE  \E e \in Records : e = Event(t, k, u) /\ e.type = t /\ e.kind = k
  <2>1. Event(t, k, u) \in Records
    BY DEF Event, Records
  <2>2. Event(t, k, u).type = t /\ Event(t, k, u).kind = k
    BY DEF Event
  <2> HIDE DEF Records
  <2> QED
    BY <2>1, <2>2
<1>3. ASSUME NEW a \in Records, a.kind \in {"session", "checkpoint", "audit"}
      PROVE  Right(<<a>>)
  BY <1>3 DEF Distinct
<1>4. ASSUME NEW a \in Records, a.kind \in {"session", "checkpoint", "audit"},
             NEW b \in Records, b.kind \in {"session", "checkpoint", "audit"}, a.type # b.type
      PROVE  Right(<<a, b>>)
  BY <1>4 DEF Distinct
<1>5. ASSUME NEW a \in Records, a.kind \in {"session", "checkpoint", "audit"},
             NEW b \in Records, b.kind \in {"session", "checkpoint", "audit"},
             NEW d \in Records, d.kind \in {"session", "checkpoint", "audit"},
             a.type # b.type, b.type # d.type, a.type # d.type
      PROVE  Right(<<a, b, d>>)
  BY <1>5 DEF Distinct
<1> HIDE DEF Right
<1>6. Right(Companion.events)
  <2>1. PICK a \in Records : /\ a = Event("project_goal", "checkpoint", "none")
                          /\ a.type = "project_goal" /\ a.kind = "checkpoint"
    BY <1>2 DEF EventTypes
  <2>2. PICK b \in Records : /\ b = Event("project_decision", "checkpoint", "none")
                          /\ b.type = "project_decision" /\ b.kind = "checkpoint"
    BY <1>2 DEF EventTypes
  <2>3. PICK d \in Records : /\ d = Event("project_constraint", "checkpoint", "none")
                          /\ d.type = "project_constraint" /\ d.kind = "checkpoint"
    BY <1>2 DEF EventTypes
  <2>4. Companion.events = <<a, b, d>>
    BY <2>1, <2>2, <2>3 DEF Companion
  <2> QED
    BY <1>5, <2>1, <2>2, <2>3, <2>4
<1>7. Right(Support.events)
  <2>1. PICK a \in Records : /\ a = Event("support_issue_opened", "session", "plain")
                          /\ a.type = "support_issue_opened" /\ a.kind = "session"
    BY <1>2 DEF EventTypes
  <2>2. PICK b \in Records : /\ b = Event("support_handoff_note", "session", "plain")
                          /\ b.type = "support_handoff_note" /\ b.kind = "session"
    BY <1>2 DEF EventTypes
  <2>3. Support.events = <<a, b>>
    BY <2>1, <2>2 DEF Support
  <2> QED
    BY <1>4, <2>1, <2>2, <2>3
<1>8. Right(Operations.events)
  <2>1. PICK a \in Records : /\ a = Event("synthetic_telemetry", "session", "none")
                          /\ a.type = "synthetic_telemetry" /\ a.kind = "session"
    BY <1>2 DEF EventTypes
  <2>2. PICK b \in Records : /\ b = Event("audit_event", "audit", "none")
                          /\ b.type = "audit_event" /\ b.kind = "audit"
    BY <1>2 DEF EventTypes
  <2>3. Operations.events = <<a, b>>
    BY <2>1, <2>2 DEF Operations
  <2> QED
    BY <1>4, <2>1, <2>2, <2>3
<1>9. Right(Temporal.events) /\ Right(Identity.events)
  <2>1. PICK a \in Records : /\ a = Event("temporal_observation", "audit", "none")
                          /\ a.type = "temporal_observation" /\ a.kind = "audit"
    BY <1>2 DEF EventTypes
  <2>2. PICK b \in Records : /\ b = Event("identity_checkpoint", "checkpoint", "none")
                          /\ b.type = "identity_checkpoint" /\ b.kind = "checkpoint"
    BY <1>2 DEF EventTypes
  <2>3. Temporal.events = <<a>> /\ Identity.events = <<b>>
    BY <2>1, <2>2 DEF Temporal, Identity
  <2>4. Right(<<a>>) /\ Right(<<b>>)
    BY <1>3, <2>1, <2>2
  <2> QED
    BY <2>3, <2>4
<1>10. Right(Scenario(c).events)
  BY <1>1, <1>6, <1>7, <1>8, <1>9
<1> QED
  BY <1>10 DEF Right

LEMMA FilteredRight ==
  ASSUME NEW p, Usable(p), p.retention_mode \in Modes, NEW s \in Seq(Records), Distinct(s),
         \A i \in DOMAIN s : s[i].kind \in {"session", "checkpoint", "audit"}
  PROVE  /\ Filtered(p, s) \in Seq(Records) /\ Distinct(Filtered(p, s))
         /\ \A i \in DOMAIN Filtered(p, s) : Filtered(p, s)[i].kind \in KindOf[p.retention_mode]
<1> DEFINE Right(r) == /\ r \in Seq(Records) /\ Distinct(r)
                       /\ \A i \in DOMAIN r : r[i].kind \in KindOf[p.retention_mode]
<1>1. ASSUME NEW kind PROVE OfKind(s, kind) \in Seq(Records) /\ Distinct(OfKind(s, kind))
                            /\ \A i \in DOMAIN OfKind(s, kind) : OfKind(s, kind)[i].kind = kind
  <2>1. PICK r : r = OfKind(s, kind)
    OBVIOUS
  <2>2. r \in Seq(Records)
    BY <2>1, OfKindSelects
  <2>3. PICK at \in [1..Len(r) -> 1..Len(s)] :
          /\ \A i \in 1..Len(r) : r[i] = s[at[i]] /\ s[at[i]].kind = kind
          /\ \A i, j \in 1..Len(r) : i < j => at[i] < at[j]
    BY <2>1, OfKindSelects
  <2>4. DOMAIN r = 1..Len(r) /\ DOMAIN s = 1..Len(s) /\ Len(r) \in Nat /\ Len(s) \in Nat
    BY <2>2
  <2>5. ASSUME NEW i \in 1..Len(r), NEW j \in 1..Len(r), r[i].type = r[j].type PROVE i = j
    <3>1. at[i] = at[j]
      BY <2>3, <2>4, <2>5 DEF Distinct
    <3> QED
      BY <2>3, <2>4, <3>1
  <2>6. Distinct(r) /\ \A i \in DOMAIN r : r[i].kind = kind
    BY <2>3, <2>4, <2>5 DEF Distinct
  <2> QED
    BY <2>1, <2>2, <2>6
<1>2. CASE p.retention_mode = "session_history"
  <2>1. KindOf[p.retention_mode] = {"session", "checkpoint", "audit"}
    BY <1>2 DEF KindOf
  <2> QED
    BY <1>2, <2>1 DEF Filtered
<1>3. CASE p.retention_mode = "explicit_checkpoints"
  <2>1. KindOf[p.retention_mode] = {"checkpoint"} /\ Filtered(p, s) = OfKind(s, "checkpoint")
    BY <1>3 DEF KindOf, Filtered
  <2> QED
    BY <1>1, <2>1
<1>4. CASE p.retention_mode = "audit_only"
  <2>1. KindOf[p.retention_mode] = {"audit"} /\ Filtered(p, s) = OfKind(s, "audit")
    BY <1>4 DEF KindOf, Filtered
  <2> QED
    BY <1>1, <2>1
<1>5. CASE p.retention_mode = "summary_only"
  <2>1. KindOf[p.retention_mode] = {"summary"}
    BY <1>5 DEF KindOf
  <2>2. CASE s = <<>>
    <3>1. Filtered(p, s) = <<>>
      BY <1>5, <2>2 DEF Filtered
    <3> QED
      BY <3>1 DEF Distinct
  <2>3. CASE s # <<>>
    <3>1. Filtered(p, s) = <<Summary(p, Last(s))>>
      BY <1>5, <2>3 DEF Filtered
    <3>2. Last(s) \in Records
      BY <2>3 DEF Last
    <3>3. Last(s).provenance \in BOOLEAN
      BY <3>2 DEF Records
    <3>4. Summary(p, Last(s)) \in Records /\ Summary(p, Last(s)).kind = "summary"
      <4>1. PICK q \in BOOLEAN : q = (p.retain_provenance /\ Last(s).provenance)
        BY <3>3 DEF Usable
      <4>2. Summary(p, Last(s)) =
              [type |-> "task_summary", kind |-> "summary", customer |-> "none", provenance |-> q]
        BY <4>1 DEF Summary
      <4> QED
        BY <4>2 DEF Records, EventTypes
    <3>5. PICK e \in Records : e = Summary(p, Last(s)) /\ e.kind = "summary"
      BY <3>4
    <3> QED
      BY <2>1, <3>1, <3>5 DEF Distinct
  <2> QED
    BY <2>2, <2>3
<1> QED
  BY <1>2, <1>3, <1>4, <1>5 DEF Modes

LEMMA SanitizedObeys ==
  ASSUME NEW p, Usable(p), NEW e \in Records
  PROVE  /\ Sanitized(p, e) \in Records
         /\ Sanitized(p, e).type = e.type /\ Sanitized(p, e).kind = e.kind
         /\ Sanitized(p, e).customer = "plain" => p.retain_sensitive_data
         /\ Sanitized(p, e).provenance => p.retain_provenance
BY DEF Sanitized, Records, Usable

\* What is retained obeys the policy.
LEMMA RetainObeys ==
  ASSUME NEW p, Usable(p), p.retention_mode \in Modes, NEW c \in Calls
  PROVE  Retained(p, Retain(p, Scenario(c).events))
<1>1. PICK f : f = Filtered(p, Scenario(c).events)
  OBVIOUS
<1>2. /\ f \in Seq(Records) /\ Distinct(f)
      /\ \A i \in DOMAIN f : f[i].kind \in KindOf[p.retention_mode]
  BY <1>1, ScenarioEvents, FilteredRight
<1> DEFINE clean == [i \in DOMAIN f |-> Sanitized(p, f[i])]
           cap == p.max_session_events
<1>3. Retain(p, Scenario(c).events) =
        IF cap = 0 \/ Len(clean) <= cap THEN clean ELSE SubSeq(clean, Len(clean) - cap + 1, Len(clean))
  BY <1>1 DEF Retain
<1>4. PICK n \in Nat : n = Len(f) /\ DOMAIN f = 1..n
  BY <1>2
<1>5. \A i \in 1..n : /\ clean[i] \in Records /\ clean[i].type = f[i].type /\ Obeys(p, clean[i])
  <2>1. \A i \in 1..n : f[i] \in Records
    BY <1>2, <1>4
  <2>2. \A i \in 1..n : clean[i] = Sanitized(p, f[i])
    BY <1>4
  <2> HIDE DEF clean
  <2> QED
    BY <1>2, <1>4, <2>1, <2>2, SanitizedObeys DEF Obeys
<1>6. clean \in Seq(Records) /\ Len(clean) = n /\ DOMAIN clean = 1..n
  BY <1>4, <1>5
<1>7. Distinct(clean)
  BY <1>2, <1>4, <1>5, <1>6 DEF Distinct
<1> HIDE DEF clean
<1>8. cap \in Nat
  BY DEF Usable
<1>9. CASE cap = 0 \/ n <= cap
  <2>1. Retain(p, Scenario(c).events) = clean
    BY <1>3, <1>6, <1>9
  <2> QED
    BY <1>5, <1>6, <1>7, <1>8, <1>9, <2>1 DEF Retained
<1>10. CASE cap # 0 /\ n > cap
  <2>1. PICK a \in 1..n : a = n - cap + 1
    BY <1>8, <1>10
  <2>2. PICK r : r = SubSeq(clean, a, n)
    OBVIOUS
  <2>3. r \in Seq(Records) /\ Len(r) = cap /\ \A i \in 1..cap : r[i] = clean[a + i - 1]
    <3>1. \A i \in a..n : clean[i] \in Records
      BY <1>5, <2>1
    <3>2. a <= n /\ n - a + 1 = cap
      BY <1>8, <1>10, <2>1
    <3>3. /\ r \in Seq(Records)
          /\ Len(r) = IF a <= n THEN n - a + 1 ELSE 0
          /\ \A i \in 1..n - a + 1 : r[i] = clean[a + i - 1]
      BY <2>1, <2>2, <3>1, SubSeqProperties
    <3> HIDE DEF cap
    <3> QED
      BY <3>2, <3>3
  <2>4. \A i \in 1..cap : a + i - 1 \in 1..n
    BY <1>8, <1>10, <2>1
  <2>5. \A i, j \in 1..cap : a + i - 1 = a + j - 1 => i = j
    BY <1>8, <2>1
  <2>6. DOMAIN r = 1..cap
    BY <2>3
  <2>7. Distinct(r)
    <3> SUFFICES ASSUME NEW i \in 1..cap, NEW j \in 1..cap, r[i].type = r[j].type PROVE i = j
      BY <2>6 DEF Distinct
    <3>1. PICK k \in 1..n : k = a + i - 1
      BY <2>4
    <3>2. PICK l \in 1..n : l = a + j - 1
      BY <2>4
    <3>3. r[i] = clean[k] /\ r[j] = clean[l]
      BY <2>3, <3>1, <3>2
    <3>4. clean[k].type = clean[l].type /\ k \in DOMAIN clean /\ l \in DOMAIN clean
      BY <1>6, <3>3
    <3>5. k = l
      BY <1>7, <3>4 DEF Distinct
    <3> QED
      BY <2>5, <3>1, <3>2, <3>5
  <2>8. \A i \in DOMAIN r : Obeys(p, r[i])
    BY <1>5, <2>3, <2>4, <2>6
  <2>9. Retain(p, Scenario(c).events) = r
    <3>1. ~(cap = 0 \/ Len(clean) <= cap) /\ Len(clean) - cap + 1 = a
      BY <1>6, <1>8, <1>10, <2>1
    <3> QED
      BY <1>3, <1>6, <2>2, <3>1
  <2> QED
    BY <1>8, <2>3, <2>7, <2>8, <2>9 DEF Retained
<1> QED
  BY <1>4, <1>8, <1>9, <1>10

\* Where a setting of the memory policy comes from
LEMMA MemorySettings ==
  ASSUME NEW d
  PROVE  /\ \A f \in Memory :
              /\ f \in Settings
              /\ Policy(d)[f] = At(d, <<"memory_policy", f>>, At(d, <<"memory_policy", Alias[f]>>, Null))
         /\ "max_session_events" \in Settings
         /\ Policy(d).max_session_events = At(d, <<"memory_policy", "max_session_events">>, 100)
<1>1. ASSUME NEW f \in Memory \union {"max_session_events"}
      PROVE  f \in Settings /\ Policy(d)[f] = Setting(d, "memory_policy", f)
  <2>1. f \in Sections["memory_policy"] /\ "memory_policy" \in DOMAIN Sections
    BY DEF Sections
  <2>2. \A s \in DOMAIN Sections : f \in Sections[s] => s = "memory_policy"
    BY DEF Sections, Weights, Memory
  <2>3. f \in Settings
    BY <2>1 DEF Settings
  <2> QED
    BY <2>1, <2>2, <2>3 DEF Policy
<1>2. \A f \in Memory : Setting(d, "memory_policy", f) =
        At(d, <<"memory_policy", f>>, At(d, <<"memory_policy", Alias[f]>>, Null))
  BY DEF Setting
<1>3. Setting(d, "memory_policy", "max_session_events") =
        At(d, <<"memory_policy", "max_session_events">>, 100)
  BY DEF Setting, Memory, Weights, Default
<1> QED
  BY <1>1, <1>2, <1>3

\* What a configuration can be run with has flags and a cap to retain by.
LEMMA LoadedIsUsable ==
  ASSUME LoadInv, load = "done"
  PROVE  Usable(policy)
<1>1. WellFormed(data) /\ Accepted(data) /\ policy = Policy(data)
  BY DEF LoadInv, LoadTyped
<1>2. ASSUME NEW f \in Flags PROVE policy[f] \in BOOLEAN
  <2>1. f \in Memory
    BY DEF Flags, Memory
  <2>2. policy[f] \notin {Null, Wrong}
    BY <1>1, <2>1, MemorySettings DEF Accepted
  <2>3. <<"memory_policy", f>> \in FlagPaths /\ <<"memory_policy", Alias[f]>> \in FlagPaths
    BY DEF FlagPaths
  <2>4. \A p \in DOMAIN data : p \in FlagPaths => data[p] \in BOOLEAN \union {Null, Wrong}
    BY <1>1 DEF WellFormed
  <2>5. policy[f] = At(data, <<"memory_policy", f>>, At(data, <<"memory_policy", Alias[f]>>, Null))
    BY <1>1, <2>1, MemorySettings
  <2>6. policy[f] \in BOOLEAN \union {Null, Wrong}
    BY <2>3, <2>4, <2>5 DEF At
  <2> QED
    BY <2>2, <2>6
<1>3. policy.max_session_events \in Nat
  <2>1. policy.max_session_events \notin {Null, Wrong}
    BY <1>1, MemorySettings DEF Accepted
  <2>2. policy.max_session_events = At(data, <<"memory_policy", "max_session_events">>, 100)
    BY <1>1, MemorySettings
  <2>3. policy.max_session_events \in Nat \union {Null, Wrong}
    BY <1>1, <2>2 DEF At, WellFormed
  <2> QED
    BY <2>1, <2>3
<1> QED
  BY <1>2, <1>3 DEF Usable, Flags

-----------------------------------------------------------------------------
(* The inductive invariant: no turn has begun before the configuration is  *)
(* loaded, so it is judged by one policy throughout.                       *)

Judged == {"provider", "returned", "refused"}

\* A turn that was judged has all that the judgement consists of.
Fields(r) ==
  /\ "at" \in DOMAIN r
  /\ r.at # "idle" => {"call", "done", "kept"} \subseteq DOMAIN r /\ r.call \in Calls
  /\ r.at \in Judged => {"audit", "executed", "proposals", "judged"} \subseteq DOMAIN r

ExecutedApproved(r) ==
  r.executed =>
    /\ r.call.approve /\ r.call.scenario = "operations-observer"
    /\ Operations.action \notin policy.deny_actions
    /\ policy.default_mutation_mode = "deny" => Operations.action \in policy.approval_required_for

ProposalsUnapproved(r) ==
  \A i \in DOMAIN r.judged :
    r.judged[i].decision = "allow" /\ r.proposals[i].mutates =>
      /\ policy.default_mutation_mode \notin {"deny", "require_approval"}
      /\ r.proposals[i].action \notin policy.deny_actions \union policy.approval_required_for

\* The audit is of all that was kept, by the policy that is in force.
Audited(r) ==
  /\ r.audit.score = Score(policy, Scenario(r.call).signal)
  /\ r.audit.types = Types(r.kept)
  /\ r.done = Len(r.kept)

\* What was kept is retained as the policy has it.
Kept(r) ==
  r.at # "idle" =>
    /\ Retained(policy, r.kept) /\ r.done \in 0..Len(r.kept)
    /\ r.at = "open" => r.kept = <<>>

Sound(r) ==
  Fields(r) /\ Kept(r) /\ (r.at \in Judged => ExecutedApproved(r) /\ ProposalsUnapproved(r) /\ Audited(r))

IInv ==
  /\ DOMAIN turn = Turns
  /\ load # "done" => \A t \in Turns : turn[t].at = "idle"
  /\ \A t \in Turns : Sound(turn[t])

LEMMA InitIInv == Init => IInv
BY DEF Init, IInv, Sound, Fields, Kept, Idle, Judged

\* One turn goes on with a new record.
LEMMA TurnKeeps ==
  ASSUME IInv, NEW t \in Turns, NEW r, turn' = [turn EXCEPT ![t] = r],
         UNCHANGED loadVars, load = "done", Sound(r)
  PROVE  IInv'
<1>1. policy' = policy /\ load' = load
  BY DEF loadVars
<1>2. DOMAIN turn' = Turns /\ \A u \in Turns : turn'[u] = IF u = t THEN r ELSE turn[u]
  BY DEF IInv
<1>3. \A u \in Turns : Sound(turn'[u])
  BY <1>2 DEF IInv
<1>4. \A u \in Turns : Sound(turn[u])'
  BY <1>1, <1>3 DEF Sound, Fields, Kept, Retained, Obeys, ExecutedApproved, ProposalsUnapproved, Audited
<1> QED
  BY <1>1, <1>2, <1>4 DEF IInv

\* A step that only takes a turn to another place.
LEMMA MoveKeeps ==
  ASSUME IInv, NEW t \in Turns, turn[t].at # "idle", NEW place, place \notin Judged \union {"idle", "open"}
  PROVE  load = "done" /\ Sound([turn[t] EXCEPT !.at = place])
<1>1. Sound(turn[t]) /\ load = "done"
  BY DEF IInv
<1> DEFINE r == [turn[t] EXCEPT !.at = place]
<1>2. /\ DOMAIN r = DOMAIN turn[t] /\ r.at = place
      /\ r.call = turn[t].call /\ r.kept = turn[t].kept /\ r.done = turn[t].done
  BY <1>1 DEF Sound, Fields
<1> HIDE DEF r
<1>3. Sound(r)
  BY <1>1, <1>2 DEF Sound, Fields, Kept
<1> QED
  BY <1>1, <1>3 DEF r

LEMMA PersistKeeps ==
  ASSUME IInv, LoadInv, NEW t \in Turns, Persist(t) \/ Die(t)
  PROVE  IInv'
<1> DEFINE r == turn[t]
<1>1. Sound(r) /\ DOMAIN turn = Turns
  BY DEF IInv
<1>2. CASE Open(t) /\ turn' # [turn EXCEPT ![t].at = "failed"]
  <2> DEFINE kept == Retain(policy, Scenario(turn[t].call).events)
             new == [[r EXCEPT !.at = "write"] EXCEPT !.kept = kept]
  <2>1. turn' = [turn EXCEPT ![t] = new] /\ policy.retention_mode \in Modes
    BY <1>1, <1>2 DEF Open
  <2>2. r.at = "open" /\ load = "done" /\ UNCHANGED loadVars
    BY <1>2 DEF Open, IInv
  <2>3. Retained(policy, kept)
    <3>1. turn[t].call \in Calls
      BY <1>1, <2>2 DEF Sound, Fields
    <3> QED
      BY <2>1, <2>2, <3>1, LoadedIsUsable, RetainObeys
  <2> HIDE DEF kept
  <2>4. kept \in Seq(Records) /\ r.done = 0
    <3>1. r.done \in 0..Len(r.kept) /\ r.kept = <<>>
      BY <1>1, <2>2 DEF Sound, Kept
    <3>2. Len(r.kept) = 0
      BY <3>1
    <3> QED
      BY <2>3, <3>1, <3>2 DEF Retained
  <2>5. DOMAIN new = DOMAIN r /\ new.at = "write" /\ new.kept = kept /\ new.done = 0 /\ new.call = r.call
    BY <1>1, <2>2, <2>4 DEF Sound, Fields
  <2> HIDE DEF new
  <2>6. Sound(new)
    BY <1>1, <2>2, <2>3, <2>4, <2>5 DEF Sound, Fields, Kept, Judged
  <2> QED
    BY <2>1, <2>2, <2>6, TurnKeeps
<1>3. CASE Write(t)
  <2> DEFINE new == [r EXCEPT !.done = r.done + 1]
  <2>1. turn' = [turn EXCEPT ![t] = new]
        /\ r.at = "write" /\ r.done < Len(r.kept) /\ load = "done" /\ UNCHANGED loadVars
    BY <1>1, <1>3 DEF Write, Put, IInv
  <2>2. /\ DOMAIN new = DOMAIN r /\ new.at = "write" /\ new.kept = r.kept /\ new.call = r.call
        /\ new.done = r.done + 1
    BY <1>1, <2>1 DEF Sound, Fields
  <2> HIDE DEF new
  <2>3. new.done \in 0..Len(new.kept) /\ Retained(policy, new.kept)
    <3>1. Kept(r) /\ r.at # "idle"
      BY <1>1, <2>1 DEF Sound
    <3>2. Retained(policy, r.kept) /\ r.done \in 0..Len(r.kept)
      BY <3>1 DEF Kept
    <3>3. r.kept \in Seq(Records)
      BY <3>2 DEF Retained
    <3>4. PICK n \in Nat : n = Len(r.kept)
      BY <3>3
    <3> QED
      BY <2>1, <2>2, <3>2, <3>4
  <2>4. Sound(new)
    BY <1>1, <2>1, <2>2, <2>3 DEF Sound, Fields, Kept, Judged
  <2> QED
    BY <2>1, <2>4, TurnKeeps
<1>4. CASE turn' = [turn EXCEPT ![t].at = "failed"]
  <2>1. turn' = [turn EXCEPT ![t] = [r EXCEPT !.at = "failed"]]
    BY <1>1, <1>4
  <2>2. r.at # "idle" /\ UNCHANGED loadVars
    BY DEF Persist, Open, Write, WriteFails, Put, Die
  <2>3. "failed" \notin Judged \union {"idle", "open"}
    BY DEF Judged
  <2>4. load = "done" /\ Sound([r EXCEPT !.at = "failed"])
    BY <2>2, <2>3, MoveKeeps
  <2> QED
    BY <2>1, <2>2, <2>4, TurnKeeps
<1> QED
  BY <1>2, <1>3, <1>4 DEF Persist, WriteFails, Die

\* What the scenario's own action is allowed by.
LEMMA DecideKeeps ==
  ASSUME IInv, NEW t \in Turns, Decide(t)
  PROVE  IInv'
<1> DEFINE call == turn[t].call
           safety == Evaluate(policy, ScenarioRequest(call))
<1>1. PICK r : /\ turn' = [turn EXCEPT ![t] = r]
               /\ {"at", "call", "kept", "done", "audit", "executed", "proposals", "judged"} \subseteq DOMAIN r
               /\ r.call = call /\ r.judged = <<>>
               /\ r.executed = (safety.decision = "allow" /\ Approved(call))
               /\ Audited(r) /\ r.kept = turn[t].kept /\ r.done = turn[t].done
               /\ r.at \in {"provider", "returned"}
  <2> DEFINE score == Score(policy, Scenario(call).signal)
             audit == [score |-> score, route |-> Route(policy, score, FALSE), safety |-> safety,
                       types |-> Types(turn[t].kept)]
  <2>1. PICK at \in {"provider", "returned"} : \E contradicted :
          turn' = [turn EXCEPT ![t] =
            [at |-> at, call |-> call, kept |-> turn[t].kept, done |-> turn[t].done, audit |-> audit,
             contradicted |-> contradicted,
             executed |-> safety.decision = "allow" /\ Approved(call),
             proposals |-> <<>>, judged |-> <<>>]]
    BY DEF Decide
  <2> PICK contradicted :
          turn' = [turn EXCEPT ![t] =
            [at |-> at, call |-> call, kept |-> turn[t].kept, done |-> turn[t].done, audit |-> audit,
             contradicted |-> contradicted,
             executed |-> safety.decision = "allow" /\ Approved(call),
             proposals |-> <<>>, judged |-> <<>>]]
    BY <2>1
  <2> DEFINE done == (safety.decision = "allow" /\ Approved(call))
             r == [at |-> at, call |-> call, kept |-> turn[t].kept, done |-> turn[t].done, audit |-> audit,
                   contradicted |-> contradicted, executed |-> done, proposals |-> <<>>, judged |-> <<>>]
  <2>2. turn' = [turn EXCEPT ![t] = r]
    BY <2>1
  <2>3. audit.score = score /\ audit.types = Types(turn[t].kept)
    OBVIOUS
  <2>4. turn[t].done = Len(turn[t].kept)
    BY DEF Decide
  <2> HIDE DEF done, audit, score
  <2>5. /\ {"at", "call", "kept", "done", "audit", "executed", "proposals", "judged"} \subseteq DOMAIN r
        /\ r.call = call /\ r.judged = <<>> /\ r.executed = done /\ r.audit = audit
        /\ r.kept = turn[t].kept /\ r.done = turn[t].done /\ r.at \in {"provider", "returned"}
    OBVIOUS
  <2> HIDE DEF r
  <2>6. Audited(r)
    BY <2>3, <2>4, <2>5 DEF Audited, score
  <2> QED
    BY <2>2, <2>5, <2>6 DEF done
<1>2. load = "done" /\ UNCHANGED loadVars /\ call \in Calls
      /\ Retained(policy, turn[t].kept) /\ turn[t].done \in 0..Len(turn[t].kept)
  <2>1. Sound(turn[t]) /\ turn[t].at = "write"
    BY DEF Decide, IInv
  <2> QED
    BY <2>1 DEF Decide, IInv, Sound, Fields, Kept
<1>3. ASSUME safety.decision = "allow" /\ Approved(call)
      PROVE  /\ call.approve /\ call.scenario = "operations-observer"
             /\ Operations.action \notin policy.deny_actions
             /\ policy.default_mutation_mode = "deny" =>
                  Operations.action \in policy.approval_required_for
  <2>1. call.approve /\ call.scenario = "operations-observer"
    BY <1>3 DEF Approved
  <2>2. Scenario(call) = Operations
    BY <2>1 DEF Scenario
  <2>3. ScenarioRequest(call).action = Operations.action /\ ScenarioRequest(call).mutates
    BY <2>2 DEF ScenarioRequest, Operations
  <2> QED
    BY <1>3, <2>1, <2>3, AllowedMeans
<1>4. ExecutedApproved(r)
  BY <1>1, <1>3 DEF ExecutedApproved
<1>5. ProposalsUnapproved(r) /\ Fields(r)
  BY <1>1, <1>2 DEF Fields, ProposalsUnapproved
<1>6. Sound(r)
  BY <1>1, <1>2, <1>4, <1>5 DEF Sound, Kept
<1> QED
  BY <1>1, <1>2, <1>6, TurnKeeps

LEMMA AnswersEnd ==
  \A provider, ready, scenario, reply :
    Generate(provider, ready, scenario, reply).end \in {"returned", "refused", "failed"}
<1>1. \A q : End("returned", q).end = "returned"
  BY DEF End
<1>2. Refused.end = "refused" /\ Failed.end = "failed"
  BY DEF Refused, Failed, End
<1>3. \A y, fs : Normalized(y, fs).end \in {"returned", "failed"}
  BY <1>1, <1>2 DEF Normalized
<1>4. \A u : Mock(u).end = "returned"
  BY <1>1 DEF Mock
<1>5. /\ \A y : NormalizeResponses(y).end \in {"returned", "failed"}
      /\ \A y : NormalizeChatCompletions(y).end \in {"returned", "failed"}
      /\ \A y : NormalizeMessages(y).end \in {"returned", "failed"}
  BY <1>3 DEF NormalizeResponses, NormalizeChatCompletions, NormalizeMessages
<1>6. /\ \A u, y : OpenAI(u, y).end \in {"returned", "refused", "failed"}
      /\ \A u, y : Anthropic(u, y).end \in {"returned", "refused", "failed"}
      /\ \A u, y : OpenAICompatible(u, y).end \in {"returned", "refused", "failed"}
  BY <1>2, <1>5 DEF OpenAI, Anthropic, OpenAICompatible
<1>7. \A u : u \in DOMAIN Protocol => u = "mock" \/ u \in {"openai", "anthropic", "ollama", "vllm"}
  BY DEF Protocol
<1> QED
  BY <1>2, <1>4, <1>6, <1>7 DEF Generate

\* What a provider proposes is judged without an approval.
LEMMA AskProviderKeeps ==
  ASSUME IInv, NEW t \in Turns, NEW reply, AskProvider(t, reply)
  PROVE  IInv'
<1> DEFINE old == turn[t]
           answer == Generate(old.call.provider, old.call.ready, old.call.scenario, reply)
           judged == [i \in DOMAIN answer.proposals |->
                        Evaluate(policy, ProviderRequest(old.call, answer.proposals[i]))]
           new == [[[old EXCEPT !.at = answer.end] EXCEPT !.proposals = answer.proposals]
                     EXCEPT !.judged = judged]
<1>1. old.at = "provider" /\ Sound(old) /\ DOMAIN turn = Turns
  BY DEF AskProvider, IInv
<1>2. turn' = [turn EXCEPT ![t] = new] /\ load = "done" /\ UNCHANGED loadVars
  BY <1>1 DEF AskProvider, IInv
<1>3. ASSUME NEW i \in DOMAIN judged, judged[i].decision = "allow", answer.proposals[i].mutates
      PROVE  /\ policy.default_mutation_mode \notin {"deny", "require_approval"}
             /\ answer.proposals[i].action \notin policy.deny_actions \union policy.approval_required_for
  <2> DEFINE request == ProviderRequest(old.call, answer.proposals[i])
  <2>1. request.action = answer.proposals[i].action /\ request.mutates /\ request.confirmed = FALSE
    BY <1>3 DEF ProviderRequest
  <2>2. Evaluate(policy, request).decision = "allow"
    BY <1>3
  <2> HIDE DEF request
  <2> QED
    BY <2>1, <2>2, AllowedMeans
<1> HIDE DEF answer, judged
<1>4. Fields(old) /\ Kept(old) /\ ExecutedApproved(old) /\ Audited(old)
      /\ {"at", "call", "done", "kept", "audit", "executed", "proposals", "judged"} \subseteq DOMAIN old
      /\ old.call \in Calls
  BY <1>1 DEF Sound, Fields, Judged
<1>5. /\ DOMAIN new = DOMAIN old /\ new.at = answer.end /\ new.proposals = answer.proposals
      /\ new.judged = judged /\ new.call = old.call /\ new.executed = old.executed
      /\ new.audit = old.audit /\ new.kept = old.kept /\ new.done = old.done
  BY <1>4
<1> HIDE DEF new
<1>6. Sound(new)
  <2>1. answer.end \in {"returned", "refused", "failed"}
    BY AnswersEnd DEF answer
  <2>2. Kept(new)
    BY <1>1, <1>4, <1>5, <2>1 DEF Kept
  <2> QED
    BY <1>3, <1>4, <1>5, <2>2 DEF Sound, Fields, ExecutedApproved, ProposalsUnapproved, Audited
<1> QED
  BY <1>2, <1>6, TurnKeeps

LEMMA StepIInv == IInv /\ LoadInv /\ [Next]_vars => IInv'
<1> SUFFICES ASSUME IInv, LoadInv, [Next]_vars PROVE IInv'
  OBVIOUS
<1>1. CASE LoadNext /\ UNCHANGED <<files, turn>>
  <2>1. load # "done"
    BY <1>1 DEF LoadNext, Read, Merge, Parse
  <2> QED
    BY <1>1, <2>1 DEF IInv, Sound, Fields, Kept, Judged
<1>2. ASSUME NEW t \in Turns, NEW call \in Calls, Begin(t, call)
      PROVE  IInv'
  <2> DEFINE r == [at |-> "open", call |-> call, kept |-> <<>>, done |-> 0]
  <2>1. Retained(policy, <<>>)
    <3>1. policy.max_session_events \in Nat
      BY <1>2, LoadedIsUsable DEF Begin, Usable
    <3> QED
      BY <3>1 DEF Retained, Distinct
  <2>2. Sound(r)
    BY <2>1 DEF Sound, Fields, Kept, Judged
  <2> QED
    BY <1>2, <2>2, TurnKeeps DEF Begin
<1>3. CASE UNCHANGED vars
  BY <1>3 DEF vars, loadVars, IInv, Sound, Fields, Kept, Retained, Obeys, ExecutedApproved,
              ProposalsUnapproved, Audited
<1> QED
  BY <1>1, <1>2, <1>3, PersistKeeps, DecideKeeps, AskProviderKeeps DEF Next, RunScenario

(* Whatever the configuration says, whatever a provider proposes and       *)
(* however turns interleave and fail: nothing is executed without the      *)
(* approval of its own turn, and a change that a provider proposes is      *)
(* allowed only where changes need no approval and nothing lists it        *)
(* (configured_safety.py:30-79, configured_agent.py).                      *)
THEOREM UnapprovedTurnsNeverAct == Spec => []UnapprovedNeverActs
<1>1. IInv => UnapprovedNeverActs
  BY DEF IInv, Sound, ExecutedApproved, ProposalsUnapproved, UnapprovedNeverActs, Judged
<1> QED
  BY <1>1, InitIInv, StepIInv, InitLoadInv, StepLoadInv, PTL DEF Spec
-----------------------------------------------------------------------------
(* The priority policy.                                                    *)

\* What a configuration can be run with has four weights that are not all 0.
LEMMA WeightsAreShares ==
  ASSUME NEW d, WellFormed(d), Accepted(d)
  PROVE  /\ \A w \in Weights : Policy(d)[w] \in 0..100
         /\ \E w \in Weights : Policy(d)[w] # 0
<1>1. ASSUME NEW w \in Weights PROVE Policy(d)[w] \in 0..100
  <2>1. w \in Sections["priority_policy"] /\ "priority_policy" \in DOMAIN Sections /\ w \notin Memory
    BY DEF Sections, Weights, Memory
  <2>2. \A s \in DOMAIN Sections : w \in Sections[s] => s = "priority_policy"
    BY DEF Sections, Weights, Memory
  <2>3. w \in Settings
    BY <2>1 DEF Settings
  <2>4. Policy(d)[w] = Setting(d, "priority_policy", w)
    BY <2>1, <2>2, <2>3 DEF Policy
  <2>5. Policy(d)[w] \notin {Null, Wrong}
    BY <2>3 DEF Accepted
  <2>6. <<"priority_policy", "weights", w>> \in WeightPaths /\ <<"priority_policy", Alias[w]>> \in WeightPaths
    BY DEF WeightPaths
  <2>7. \A p \in DOMAIN d : p \in WeightPaths => d[p] \in 0..100 \union {Null, Wrong}
    BY DEF WellFormed
  <2>8. Default[w] \in 0..100
    BY DEF Default, Weights
  <2>9. Setting(d, "priority_policy", w) \in 0..100 \union {Null, Wrong}
    BY <2>1, <2>6, <2>7, <2>8 DEF Setting, At
  <2> QED
    BY <2>4, <2>5, <2>9
<1>2. \E w \in Weights : Policy(d)[w] # 0
  BY DEF Accepted
<1> QED
  BY <1>1, <1>2

\* What is weighed of a scenario is between 0 and 100.
LEMMA ComponentsAreShares ==
  ASSUME NEW c \in Calls
  PROVE  /\ DOMAIN Components(Scenario(c).signal) = Weights
         /\ \A w \in Weights : Components(Scenario(c).signal)[w] \in 0..100
<1>1. Scenario(c) \in {Companion, Support, Operations, Temporal, Identity}
  BY AgentAssumption DEF Scenario, AVAILABLE_SCENARIOS
<1>2. \A s \in {Companion, Support, Operations, Temporal, Identity} :
        /\ s.signal.urgency \in 0..100 /\ s.signal.risk \in 0..100
        /\ s.signal.user_value \in 0..100 /\ s.signal.stability \in 0..100
  <2> DEFINE Shares(s) == /\ s.signal.urgency \in 0..100 /\ s.signal.risk \in 0..100
                          /\ s.signal.user_value \in 0..100 /\ s.signal.stability \in 0..100
  <2>1. Shares(Companion)
    BY DEF Companion, Signal
  <2>2. Shares(Support)
    BY DEF Support, Signal
  <2>3. Shares(Operations)
    BY DEF Operations, Signal
  <2>4. Shares(Temporal)
    BY DEF Temporal, Signal
  <2>5. Shares(Identity)
    BY DEF Identity, Signal
  <2> QED
    BY <2>1, <2>2, <2>3, <2>4, <2>5
<1> DEFINE g == Scenario(c).signal
<1>3. g.urgency \in 0..100 /\ g.risk \in 0..100 /\ g.user_value \in 0..100 /\ g.stability \in 0..100
  BY <1>1, <1>2
<1> HIDE DEF g
<1>4. /\ DOMAIN Components(g) = {"urgency", "risk", "user_value", "instability"}
      /\ Components(g).urgency = g.urgency /\ Components(g).risk = g.risk
      /\ Components(g).user_value = g.user_value /\ Components(g).instability = 100 - g.stability
  BY <1>3 DEF Components, Clipped
<1> QED
  BY <1>3, <1>4 DEF Weights, g

\* A rounded mean of what has a weight.
LEMMA ScoreIsMean ==
  ASSUME NEW p, NEW signal, DOMAIN Components(signal) = Weights,
         \A w \in Weights : p[w] \in 0..100 /\ Components(signal)[w] \in 0..100,
         \E w \in Weights : p[w] # 0
  PROVE  LET weighed == {Components(signal)[w] : w \in {v \in Weights : p[v] # 0}}
         IN  Score(p, signal) \in 100 * Min(weighed) .. 100 * Max(weighed)
<1> DEFINE c == Components(signal)
           V == {v \in Weights : p[v] # 0}
           weighed == {c[w] : w \in V}
           shares == [w \in Weights |-> p[w]]
           products == [w \in Weights |-> p[w] * c[w]]
           total == SumFunctionOnSet(shares, Weights)
           sum == SumFunctionOnSet(products, Weights)
<1>1. IsFiniteSet(Weights)
  <2>1. IsFiniteSet({"urgency"})
    BY FS_Singleton
  <2>2. IsFiniteSet({"urgency"} \union {"risk"})
    BY <2>1, FS_AddElement
  <2>3. IsFiniteSet(({"urgency"} \union {"risk"}) \union {"user_value"})
    BY <2>2, FS_AddElement
  <2>4. IsFiniteSet((({"urgency"} \union {"risk"}) \union {"user_value"}) \union {"instability"})
    BY <2>3, FS_AddElement
  <2>5. Weights = (({"urgency"} \union {"risk"}) \union {"user_value"}) \union {"instability"}
    BY DEF Weights
  <2> QED
    BY <2>4, <2>5
<1>2. Score(p, signal) = IF total = 0 THEN 0 ELSE RoundedDiv(100 * sum, total)
  BY DEF Score, Weighed, SumFunction
<1>3. V \subseteq Weights /\ IsFiniteSet(V) /\ V # {}
  BY <1>1, FS_Subset
<1>4. \A w \in Weights : shares[w] = p[w] /\ p[w] \in 0..100 /\ c[w] \in 0..100 /\ products[w] = p[w] * c[w]
  OBVIOUS
<1> HIDE DEF c, shares, products
<1>5. \A w \in V : c[w] \in Int
  BY <1>4
<1>6. PICK l \in V : \A w \in V : c[l] <= c[w]
  BY <1>3, <1>5, LeastExists
<1>7. PICK h \in V : \A w \in V : c[w] <= c[h]
  BY <1>3, <1>5, GreatestExists
<1>8. Min(weighed) = c[l] /\ Max(weighed) = c[h]
  <2>1. weighed \subseteq Int /\ c[l] \in weighed /\ c[h] \in weighed
    BY <1>5
  <2>2. \A y \in weighed : c[l] <= y /\ y <= c[h]
    BY <1>6, <1>7
  <2> HIDE DEF weighed
  <2>3. Min(weighed) \in weighed /\ \A y \in weighed : Min(weighed) <= y
    BY <2>1, <2>2 DEF Min
  <2>4. Max(weighed) \in weighed /\ \A y \in weighed : Max(weighed) >= y
    BY <2>1, <2>2 DEF Max
  <2>5. Min(weighed) \in Int /\ c[l] \in Int /\ Min(weighed) <= c[l] /\ c[l] <= Min(weighed)
    BY <2>1, <2>2, <2>3
  <2>6. Max(weighed) \in Int /\ c[h] \in Int /\ Max(weighed) <= c[h] /\ c[h] <= Max(weighed)
    BY <2>1, <2>2, <2>4
  <2>7. Min(weighed) = c[l]
    BY <2>5
  <2>8. Max(weighed) = c[h]
    BY <2>6
  <2> QED
    BY <2>7, <2>8
<1>9. PICK lo \in Int : lo = c[l]
  BY <1>5
<1>10. PICK hi \in Int : hi = c[h]
  BY <1>5
<1> DEFINE v == [w \in Weights |-> IF w \in V THEN c[w] ELSE lo]
<1>11. \A w \in Weights : /\ v[w] \in Int /\ lo <= v[w] /\ v[w] <= hi
                           /\ shares[w] \in Nat /\ products[w] = v[w] * shares[w]
  <2> SUFFICES ASSUME NEW w \in Weights
               PROVE  /\ v[w] \in Int /\ lo <= v[w] /\ v[w] <= hi
                      /\ shares[w] \in Nat /\ products[w] = v[w] * shares[w]
    OBVIOUS
  <2>1. p[w] \in 0..100 /\ c[w] \in 0..100 /\ shares[w] = p[w] /\ products[w] = p[w] * c[w]
    BY <1>4
  <2>2. CASE w \in V
    <3>1. v[w] = c[w]
      BY <2>2
    <3>2. lo <= c[w] /\ c[w] <= hi
      BY <1>6, <1>7, <1>9, <1>10, <2>2
    <3>3. products[w] = c[w] * shares[w] /\ c[w] \in Int /\ shares[w] \in Nat
      <4>1. \A x, y \in 0..100 : x * y = y * x /\ x \in Int /\ x \in Nat
        OBVIOUS
      <4> QED
        BY <2>1, <4>1
    <3> HIDE DEF v, V
    <3> QED
      BY <3>1, <3>2, <3>3
  <2>3. CASE w \notin V
    <3>1. p[w] = 0 /\ v[w] = lo
      BY <2>3
    <3>2. lo <= hi
      BY <1>6, <1>9, <1>10
    <3>3. products[w] = 0 /\ lo * shares[w] = 0
      BY <2>1, <3>1
    <3> QED
      BY <2>1, <3>1, <3>2, <3>3
  <2> QED
    BY <2>2, <2>3
<1> HIDE DEF v
<1>12. /\ total \in Nat /\ sum \in Int /\ lo * total <= sum /\ sum <= hi * total
  <2>1. lo \in Int /\ hi \in Int
    OBVIOUS
  <2> HIDE DEF V, weighed
  <2> QED
    BY ONLY <1>1, <1>11, <2>1, WeightedBetween
<1>13. total > 0
  <2>1. shares[l] > 0 /\ l \in Weights /\ \A w \in Weights : shares[w] \in Nat
    BY <1>3, <1>4
  <2> QED
    BY <1>1, <2>1, SumPositive
<1> HIDE DEF total, sum
<1>14. PICK a \in Int : a = 100 * lo
  OBVIOUS
<1>15. PICK b \in Int : b = 100 * hi
  OBVIOUS
<1>16. total * a <= 100 * sum /\ 100 * sum <= total * b
  <2>1. total * a = 100 * (lo * total) /\ total * b = 100 * (hi * total)
    BY <1>12, <1>14, <1>15
  <2>2. lo * total \in Int /\ hi * total \in Int
    BY <1>12
  <2> QED
    BY <1>12, <2>1, <2>2
<1>17. a <= RoundedDiv(100 * sum, total) /\ RoundedDiv(100 * sum, total) <= b
       /\ RoundedDiv(100 * sum, total) \in Int
  <2>1. PICK m \in Int : m = 100 * sum
    BY <1>12
  <2>2. total \in Nat \ {0}
    BY <1>12, <1>13
  <2> QED
    BY <1>16, <2>1, <2>2, RoundingBounds, RoundingError
<1>18. Score(p, signal) = RoundedDiv(100 * sum, total)
  BY <1>2, <1>12, <1>13
<1>19. Score(p, signal) \in 100 * Min(weighed) .. 100 * Max(weighed)
  BY <1>8, <1>9, <1>10, <1>14, <1>15, <1>17, <1>18
<1> QED
  BY <1>19 DEF c

(* Whatever the weights, also if they do not sum to 1 or some are 0: the   *)
(* score that a turn is audited with lies between the least and the        *)
(* greatest of what they weigh (configured_priority.py:40-75).             *)
THEOREM PriorityIsAMean == Spec => []PriorityIsMean
<1>1. ASSUME IInv, LoadInv PROVE PriorityIsMean
  <2>1. ASSUME NEW t \in Turns, turn[t].at \in Judged
        PROVE  LET c == Components(Scenario(turn[t].call).signal)
                   weighed == {c[w] : w \in {v \in Weights : policy[v] # 0}}
               IN  turn[t].audit.score \in 100 * Min(weighed) .. 100 * Max(weighed)
    <3>1. load = "done" /\ turn[t].call \in Calls
          /\ turn[t].audit.score = Score(policy, Scenario(turn[t].call).signal)
      BY <1>1, <2>1 DEF IInv, Sound, Fields, Audited, Judged
    <3>2. WellFormed(data) /\ Accepted(data) /\ policy = Policy(data)
      BY <1>1, <3>1 DEF LoadInv, LoadTyped
    <3>3. (\A w \in Weights : policy[w] \in 0..100) /\ (\E w \in Weights : policy[w] # 0)
      BY <3>2, WeightsAreShares
    <3> DEFINE signal == Scenario(turn[t].call).signal
    <3>4. DOMAIN Components(signal) = Weights /\ \A w \in Weights : Components(signal)[w] \in 0..100
      BY <3>1, ComponentsAreShares
    <3> HIDE DEF signal
    <3>5. LET weighed == {Components(signal)[w] : w \in {v \in Weights : policy[v] # 0}}
          IN  Score(policy, signal) \in 100 * Min(weighed) .. 100 * Max(weighed)
      BY <3>3, <3>4, ScoreIsMean
    <3> QED
      BY <3>1, <3>5 DEF signal
  <2> QED
    BY <2>1 DEF PriorityIsMean, Judged
<1> QED
  BY <1>1, InitIInv, StepIInv, InitLoadInv, StepLoadInv, PTL DEF Spec
-----------------------------------------------------------------------------
(* The lines of a file and the turns they are of.                          *)

LineSet == {Broken} \union [by : Turns, event : Records]
Ending == {"newline", "torn", "whole"}

OwnIn(lines, t) == {i \in DOMAIN lines : lines[i].by = t}
BrokenIn(lines) == {i \in DOMAIN lines : lines[i] = Broken}

\* How many of its events a turn may have lines of; the last may be one whose
\* append has failed.
Reach(r) == IF r.at = "failed" THEN Len(r.kept) ELSE r.done

PlacedIn(lines, t, r) ==
  \E place \in [OwnIn(lines, t) -> 1..Reach(r)] :
    /\ \A i, j \in OwnIn(lines, t) : i < j => place[i] < place[j]
    /\ \A i \in OwnIn(lines, t) : lines[i].event = r.kept[place[i]]

MissingIn(lines, t, r) ==
  {i \in 1..r.done : \A j \in OwnIn(lines, t) : lines[j].event # r.kept[i]}

LEMMA LineFacts ==
  /\ \A l \in LineSet : l = Broken \/ (l.by \in Turns /\ l.event \in Records)
  /\ Broken \in LineSet /\ Broken.by = Nobody /\ Nobody \notin Turns
  /\ \A l \in LineSet : l = Broken <=> l.by \notin Turns
<1>1. Broken.by = Nobody /\ Nobody \notin Turns
  BY AgentAssumption DEF Broken
<1>2. \A l \in [by : Turns, event : Records] : l.by \in Turns /\ l.event \in Records
  OBVIOUS
<1> HIDE DEF Broken
<1> QED
  BY <1>1, <1>2 DEF LineSet

\* A line that is added
LEMMA AddedLine ==
  ASSUME NEW L \in Seq(LineSet), NEW l \in LineSet, NEW n, n = Len(L), NEW K, K = Append(L, l)
  PROVE  /\ K \in Seq(LineSet) /\ n \in Nat /\ DOMAIN L = 1..n /\ DOMAIN K = 1..n + 1
         /\ Len(K) = n + 1 /\ K[n + 1] = l /\ \A i \in 1..n : K[i] = L[i]
BY AppendProperties

\* Which lines are whose with one more among them
More(L, K, n, u) ==
  /\ OwnIn(L, u) \subseteq 1..n /\ BrokenIn(L) \subseteq 1..n /\ n + 1 \notin 1..n
  /\ OwnIn(K, u) = OwnIn(L, u) \union (IF K[n + 1].by = u THEN {n + 1} ELSE {})
  /\ BrokenIn(K) = BrokenIn(L) \union (IF K[n + 1] = Broken THEN {n + 1} ELSE {})

LEMMA MoreIndices ==
  ASSUME NEW L, NEW K, NEW n \in Nat, DOMAIN L = 1..n, DOMAIN K = 1..n + 1,
         \A i \in 1..n : K[i] = L[i], NEW u
  PROVE  More(L, K, n, u)
<1>1. n + 1 \notin 1..n /\ 1..n + 1 = 1..n \union {n + 1}
  OBVIOUS
<1>2. \A i \in DOMAIN K : i \in DOMAIN L \/ i = n + 1
  BY <1>1
<1>3. DOMAIN L \subseteq DOMAIN K /\ n + 1 \in DOMAIN K /\ n + 1 \notin DOMAIN L
  BY <1>1
<1>4. OwnIn(L, u) \subseteq 1..n /\ BrokenIn(L) \subseteq 1..n
  BY DEF OwnIn, BrokenIn
<1>5. BrokenIn(K) = BrokenIn(L) \union (IF K[n + 1] = Broken THEN {n + 1} ELSE {})
  BY <1>2, <1>3 DEF BrokenIn
<1>6. OwnIn(K, u) = OwnIn(L, u) \union (IF K[n + 1].by = u THEN {n + 1} ELSE {})
  BY <1>2, <1>3 DEF OwnIn
<1> QED
  BY <1>1, <1>4, <1>5, <1>6 DEF More

\* A last line that is written on
LEMMA BrokenLine ==
  ASSUME NEW L \in Seq(LineSet), L # <<>>, NEW n, n = Len(L), NEW K, K = [L EXCEPT ![n] = Broken]
  PROVE  /\ K \in Seq(LineSet) /\ n \in Nat \ {0} /\ DOMAIN L = 1..n /\ DOMAIN K = 1..n
         /\ Len(K) = n /\ K[n] = Broken /\ \A i \in 1..n : i # n => K[i] = L[i]
<1>1. DOMAIN L = 1..n /\ n \in Nat \ {0} /\ n \in 1..n
  OBVIOUS
<1>2. DOMAIN K = 1..n /\ K[n] = Broken /\ \A i \in 1..n : i # n => K[i] = L[i]
  BY <1>1
<1>3. \A i \in 1..n : K[i] \in LineSet
  BY <1>1, <1>2, LineFacts
<1>4. K = [i \in 1..n |-> K[i]]
  BY <1>1
<1>5. K \in [1..n -> LineSet]
  BY <1>3, <1>4
<1>6. K \in Seq(LineSet) /\ Len(K) = n
  BY <1>1, <1>5
<1> QED
  BY <1>1, <1>2, <1>6

Fewer(L, K, n, u) ==
  /\ BrokenIn(L) \subseteq 1..n /\ OwnIn(L, u) \subseteq 1..n
  /\ OwnIn(K, u) = OwnIn(L, u) \ {n}
  /\ BrokenIn(K) = BrokenIn(L) \union {n}

LEMMA FewerIndices ==
  ASSUME NEW L, NEW K, NEW n \in Nat \ {0}, DOMAIN L = 1..n, DOMAIN K = 1..n,
         \A i \in 1..n : i # n => K[i] = L[i], K[n] = Broken, NEW u \in Turns
  PROVE  Fewer(L, K, n, u)
<1>1. Broken.by # u /\ n \in 1..n
  BY LineFacts
<1>2. OwnIn(K, u) = OwnIn(L, u) \ {n}
  BY <1>1 DEF OwnIn
<1>3. BrokenIn(K) = BrokenIn(L) \union {n}
  BY <1>1 DEF BrokenIn
<1>4. BrokenIn(L) \subseteq 1..n /\ OwnIn(L, u) \subseteq 1..n
  BY DEF BrokenIn, OwnIn
<1> QED
  BY <1>2, <1>3, <1>4 DEF Fewer

\* A turn keeps the place of its lines if it loses some, and none is changed.
LEMMA PlacedAmong ==
  ASSUME NEW L, NEW K, NEW u, NEW r, PlacedIn(L, u, r),
         OwnIn(K, u) \subseteq OwnIn(L, u), \A i \in OwnIn(K, u) : K[i] = L[i]
  PROVE  PlacedIn(K, u, r)
<1>1. PICK place \in [OwnIn(L, u) -> 1..Reach(r)] :
        /\ \A i, j \in OwnIn(L, u) : i < j => place[i] < place[j]
        /\ \A i \in OwnIn(L, u) : L[i].event = r.kept[place[i]]
  BY DEF PlacedIn
<1> DEFINE fewer == [i \in OwnIn(K, u) |-> place[i]]
<1>2. fewer \in [OwnIn(K, u) -> 1..Reach(r)]
  BY <1>1
<1>3. \A i \in OwnIn(K, u) : fewer[i] = place[i] /\ i \in OwnIn(L, u)
  OBVIOUS
<1> HIDE DEF fewer
<1>4. \A i, j \in OwnIn(K, u) : i < j => fewer[i] < fewer[j]
  BY <1>1, <1>3
<1>5. \A i \in OwnIn(K, u) : K[i].event = r.kept[fewer[i]]
  BY <1>1, <1>3
<1> QED
  BY <1>2, <1>4, <1>5 DEF PlacedIn

LEMMA NoneIsPlaced ==
  ASSUME NEW L, NEW u, NEW r, OwnIn(L, u) = {}
  PROVE  PlacedIn(L, u, r)
<1> DEFINE place == [i \in {} |-> i]
<1>1. place \in [{} -> 1..Reach(r)]
  OBVIOUS
<1> HIDE DEF place
<1>2. place \in [OwnIn(L, u) -> 1..Reach(r)]
  BY <1>1
<1>3. /\ \A i, j \in OwnIn(L, u) : i < j => place[i] < place[j]
      /\ \A i \in OwnIn(L, u) : L[i].event = r.kept[place[i]]
  OBVIOUS
<1> QED
  BY <1>2, <1>3 DEF PlacedIn

\* A line that is written by another leaves the lines of a turn alone.
Unharmed(K, L, u, r) ==
  /\ OwnIn(K, u) \subseteq OwnIn(L, u)
  /\ MissingIn(K, u, r) = MissingIn(L, u, r)
  /\ PlacedIn(L, u, r) => PlacedIn(K, u, r)

LEMMA AddedAnother ==
  ASSUME NEW L \in Seq(LineSet), NEW l \in LineSet, NEW K, K = Append(L, l),
         NEW u \in Turns, l.by # u, NEW r
  PROVE  Unharmed(K, L, u, r)
<1>1. PICK n : n = Len(L)
  OBVIOUS
<1>2. /\ n \in Nat /\ DOMAIN L = 1..n /\ DOMAIN K = 1..n + 1
      /\ K[n + 1] = l /\ \A i \in 1..n : K[i] = L[i]
  BY <1>1, AddedLine
<1>3. More(L, K, n, u)
  BY <1>2, MoreIndices
<1>4. OwnIn(L, u) \subseteq 1..n /\ OwnIn(K, u) = OwnIn(L, u)
  BY <1>2, <1>3 DEF More
<1>5. \A i \in OwnIn(L, u) : K[i] = L[i]
  BY <1>2, <1>4
<1>6. MissingIn(K, u, r) = MissingIn(L, u, r)
  BY <1>4, <1>5 DEF MissingIn
<1> QED
  BY <1>4, <1>5, <1>6, PlacedAmong DEF Unharmed

\* The line is not one of those that count as written by the turn.
Uncounted(l, u, r) == l.by = u => \A i \in 1..r.done : r.kept[i] # l.event

LEMMA BrokenAnother ==
  ASSUME NEW L \in Seq(LineSet), L # <<>>, NEW n, n = Len(L), NEW K, K = [L EXCEPT ![n] = Broken],
         NEW u \in Turns, NEW r, Uncounted(L[n], u, r)
  PROVE  Unharmed(K, L, u, r)
<1>1. /\ n \in Nat \ {0} /\ DOMAIN L = 1..n /\ DOMAIN K = 1..n
      /\ K[n] = Broken /\ \A i \in 1..n : i # n => K[i] = L[i]
  BY BrokenLine
<1>2. Fewer(L, K, n, u)
  BY <1>1, FewerIndices
<1>3. OwnIn(K, u) = OwnIn(L, u) \ {n}
  BY <1>2 DEF Fewer
<1>4. \A i \in OwnIn(L, u) : i \in 1..n
  BY <1>1 DEF OwnIn
<1>5. \A i \in OwnIn(K, u) : K[i] = L[i]
  BY <1>3, <1>1, <1>4
<1>6. ASSUME NEW i \in 1..r.done
      PROVE  (\A j \in OwnIn(K, u) : K[j].event # r.kept[i])
                <=> (\A j \in OwnIn(L, u) : L[j].event # r.kept[i])
  <2>1. \A j \in OwnIn(L, u) : j \in OwnIn(K, u) \/ j = n
    BY <1>3
  <2>2. n \in OwnIn(L, u) => L[n].event # r.kept[i]
    BY <1>6 DEF OwnIn, Uncounted
  <2> QED
    BY <1>3, <1>5, <2>1, <2>2
<1>7. MissingIn(K, u, r) = MissingIn(L, u, r)
  BY <1>6 DEF MissingIn
<1> QED
  BY <1>3, <1>5, <1>7, PlacedAmong DEF Unharmed

\* What the next line of a turn does to its lines
LEMMA AddedOwn ==
  ASSUME NEW L \in Seq(LineSet), NEW t, NEW l \in LineSet, NEW K, K = Append(L, l), NEW r, NEW q,
         NEW d \in Nat, r.done = d, r.at # "failed", q.kept = r.kept, q.done \in {d, d + 1},
         NEW m \in Nat, Reach(q) = m, d + 1 <= m, l.by = t, l.event = r.kept[d + 1],
         PlacedIn(L, t, r)
  PROVE  PlacedIn(K, t, q) /\ MissingIn(K, t, q) \subseteq MissingIn(L, t, r)
<1>1. PICK n : n = Len(L)
  OBVIOUS
<1>2. /\ n \in Nat /\ DOMAIN L = 1..n /\ DOMAIN K = 1..n + 1
      /\ K[n + 1] = l /\ \A i \in 1..n : K[i] = L[i]
  BY <1>1, AddedLine
<1>3. More(L, K, n, t)
  BY <1>2, MoreIndices
<1>4. /\ OwnIn(K, t) = OwnIn(L, t) \union {n + 1} /\ OwnIn(L, t) \subseteq 1..n
      /\ n + 1 \notin 1..n
  BY <1>2, <1>3 DEF More
<1>5. PICK place \in [OwnIn(L, t) -> 1..d] :
        /\ \A i, j \in OwnIn(L, t) : i < j => place[i] < place[j]
        /\ \A i \in OwnIn(L, t) : L[i].event = r.kept[place[i]]
  BY DEF PlacedIn, Reach
<1> DEFINE more == [i \in OwnIn(K, t) |-> IF i = n + 1 THEN d + 1 ELSE place[i]]
<1>6. more[n + 1] = d + 1 /\ \A i \in OwnIn(L, t) : more[i] = place[i]
  BY <1>4
<1>7. DOMAIN more = OwnIn(K, t) /\ more = [i \in OwnIn(K, t) |-> more[i]]
  OBVIOUS
<1> HIDE DEF more
<1>8. \A i \in OwnIn(L, t) : place[i] \in Nat /\ place[i] <= d /\ 1 <= place[i] /\ i \in Nat /\ i < n + 1
  BY <1>4, <1>2, <1>5
<1>9. \A i \in OwnIn(K, t) : more[i] \in 1..m
  BY <1>4, <1>6, <1>8
<1>10. \A i, j \in OwnIn(K, t) : i < j => more[i] < more[j]
  <2> SUFFICES ASSUME NEW i \in OwnIn(K, t), NEW j \in OwnIn(K, t), i < j PROVE more[i] < more[j]
    OBVIOUS
  <2>1. i \in OwnIn(L, t)
    <3>1. CASE i = n + 1
      <4>1. \A k \in OwnIn(K, t) : k = n + 1 \/ (k \in Nat /\ k < n + 1)
        BY <1>4, <1>8
      <4> QED
        BY <1>2, <3>1, <4>1
    <3> QED
      BY <1>4, <3>1
  <2>2. CASE j = n + 1
    BY <1>6, <1>8, <2>1, <2>2
  <2>3. CASE j \in OwnIn(L, t)
    BY <1>5, <1>6, <2>1, <2>3
  <2> QED
    BY <1>4, <2>2, <2>3
<1>11. ASSUME NEW i \in OwnIn(K, t) PROVE K[i].event = q.kept[more[i]]
  <2>1. CASE i = n + 1
    BY <1>2, <1>6, <2>1
  <2>2. CASE i \in OwnIn(L, t)
    BY <1>4, <1>2, <1>5, <1>6, <2>2
  <2> QED
    BY <1>4, <2>1, <2>2
<1>12. more \in [OwnIn(K, t) -> 1..m]
  BY <1>7, <1>9
<1>13. PlacedIn(K, t, q)
  BY <1>10, <1>11, <1>12 DEF PlacedIn
<1>14. ASSUME NEW i \in MissingIn(K, t, q) PROVE i \in MissingIn(L, t, r)
  <2>1. i \in 1..q.done /\ \A j \in OwnIn(K, t) : K[j].event # r.kept[i]
    BY <1>14 DEF MissingIn
  <2>2. i # d + 1
    BY <1>4, <1>2, <2>1
  <2>3. i \in 1..d
    BY <2>1, <2>2
  <2>4. \A j \in OwnIn(L, t) : L[j].event # r.kept[i]
    BY <1>4, <1>2, <2>1
  <2> QED
    BY <2>3, <2>4 DEF MissingIn
<1> QED
  BY <1>13, <1>14

\* The record of a turn that has begun
Begun(r) == r.kept \in Seq(Records) /\ Distinct(r.kept) /\ r.done \in 0..Len(r.kept)

LastIn(lines) == lines[Len(lines)]
FailedOf(users, r) == {u \in users : r[u].at = "failed"}
MissingOf(lines, users, r) == [u \in users |-> Cardinality(MissingIn(lines, u, r[u]))]
Lost(lines, users, r) == SumFunctionOnSet(MissingOf(lines, users, r), users)

\* What an append that failed may leave: a broken line, or the line of an event
\* that does not count as written.
LastLine(lines, ending, users, r) ==
  /\ ending # "newline" => lines # <<>>
  /\ ending = "torn" => LastIn(lines) = Broken
  /\ ending = "whole" =>
       \E u \in FailedOf(users, r) :
         /\ LastIn(lines).by = u
         /\ \A i \in 1..r[u].done : r[u].kept[i] # LastIn(lines).event

Counts(lines, ending, users, r) ==
  /\ Lost(lines, users, r) + (IF ending = "torn" THEN 1 ELSE 0) <= Cardinality(BrokenIn(lines))
  /\ Cardinality(BrokenIn(lines)) + (IF ending = "whole" THEN 1 ELSE 0)
       <= Cardinality(FailedOf(users, r))

FileRight(lines, ending, users, r) ==
  /\ lines \in Seq(LineSet) /\ ending \in Ending
  /\ users \subseteq Turns /\ IsFiniteSet(users) /\ \A u \in users : Begun(r[u])
  /\ \A u \in users : PlacedIn(lines, u, r[u])
  /\ \A u \in Turns \ users : OwnIn(lines, u) = {}
  /\ LastLine(lines, ending, users, r)
  /\ Counts(lines, ending, users, r)

LEMMA MissingIsFinite ==
  ASSUME NEW L, NEW u, NEW r, Begun(r)
  PROVE  IsFiniteSet(MissingIn(L, u, r)) /\ Cardinality(MissingIn(L, u, r)) \in Nat
<1>1. PICK d \in Nat : d = r.done
  BY DEF Begun
<1>2. IsFiniteSet(1..d)
  BY FS_Interval
<1>3. MissingIn(L, u, r) \subseteq 1..d
  BY <1>1 DEF MissingIn
<1> QED
  BY <1>2, <1>3, FS_Subset, FS_CardinalityType

LEMMA CountsAreNatural ==
  ASSUME NEW L \in Seq(LineSet), NEW U, IsFiniteSet(U), NEW r, \A u \in U : Begun(r[u])
  PROVE  /\ IsFiniteSet(BrokenIn(L)) /\ Cardinality(BrokenIn(L)) \in Nat
         /\ IsFiniteSet(FailedOf(U, r)) /\ Cardinality(FailedOf(U, r)) \in Nat
         /\ Lost(L, U, r) \in Nat
<1>1. PICK n \in Nat : DOMAIN L = 1..n
  OBVIOUS
<1>2. IsFiniteSet(1..n) /\ BrokenIn(L) \subseteq 1..n
  BY <1>1, FS_Interval DEF BrokenIn
<1>3. FailedOf(U, r) \subseteq U
  BY DEF FailedOf
<1>4. \A u \in U : MissingOf(L, U, r)[u] \in Nat
  BY MissingIsFinite DEF MissingOf
<1>5. Lost(L, U, r) \in Nat
  BY <1>4, SumNatural DEF Lost
<1>6. IsFiniteSet(BrokenIn(L)) /\ IsFiniteSet(FailedOf(U, r))
  BY <1>2, <1>3, FS_Subset
<1> QED
  BY <1>5, <1>6, FS_CardinalityType

\* Only one turn can come to miss more.
LEMMA LostChanges ==
  ASSUME NEW L, NEW K, NEW U, IsFiniteSet(U), NEW t \in U, NEW r, NEW q,
         \A u \in U : Begun(r[u]) /\ Begun(q[u]),
         \A u \in U \ {t} : MissingIn(K, u, q[u]) = MissingIn(L, u, r[u]),
         NEW d \in Nat,
         Cardinality(MissingIn(K, t, q[t])) <= Cardinality(MissingIn(L, t, r[t])) + d
  PROVE  Lost(K, U, q) <= Lost(L, U, r) + d
<1>1. PICK f : f = MissingOf(L, U, r)
  OBVIOUS
<1>2. PICK g : g = MissingOf(K, U, q)
  OBVIOUS
<1>3. \A u \in U : f[u] \in Nat /\ g[u] \in Nat
  BY <1>1, <1>2, MissingIsFinite DEF MissingOf
<1>4. \A u \in U \ {t} : f[u] = g[u]
  BY <1>1, <1>2 DEF MissingOf
<1>5. g[t] <= f[t] + d
  BY <1>1, <1>2 DEF MissingOf
<1>6. IsFiniteSet(U \ {t})
  BY FS_Subset
<1>7. SumFunctionOnSet(f, U \ {t}) = SumFunctionOnSet(g, U \ {t}) /\ SumFunctionOnSet(f, U \ {t}) \in Int
  BY <1>3, <1>4, <1>6, SumOnlyValues, SumType
<1>8. SumFunctionOnSet(f, U) = f[t] + SumFunctionOnSet(f, U \ {t})
  BY <1>3, SumRemove
<1>9. SumFunctionOnSet(g, U) = g[t] + SumFunctionOnSet(g, U \ {t})
  BY <1>3, SumRemove
<1>10. SumFunctionOnSet(g, U) <= SumFunctionOnSet(f, U) + d
  BY <1>3, <1>5, <1>7, <1>8, <1>9
<1> QED
  BY <1>1, <1>2, <1>10 DEF Lost

\* Turns go on without a line being written.
LEMMA QuietKeeps ==
  ASSUME NEW L, NEW e, NEW U, NEW r, FileRight(L, e, U, r), NEW q, \A u \in U : Begun(q[u]),
         \A u \in U : \/ q[u] = r[u]
                      \/ /\ r[u].at # "failed" /\ q[u].done = r[u].done
                         /\ q[u].kept = r[u].kept \/ r[u].done = 0
  PROVE  FileRight(L, e, U, q)
<1>1. \A u \in U : r[u].at = "failed" => q[u] = r[u]
  OBVIOUS
<1>2. ASSUME NEW u \in U
      PROVE  PlacedIn(L, u, q[u]) /\ MissingIn(L, u, q[u]) = MissingIn(L, u, r[u])
  <2>1. PlacedIn(L, u, r[u]) /\ Begun(r[u]) /\ Begun(q[u])
    BY DEF FileRight
  <2>2. PICK d \in Nat, m \in Nat : d = r[u].done /\ m = Len(q[u].kept)
    BY <2>1 DEF Begun
  <2>3. CASE q[u] = r[u]
    BY <2>1, <2>3
  <2>4. CASE r[u].at # "failed" /\ q[u].done = d /\ d = 0
    <3>1. OwnIn(L, u) = {}
      BY <2>1, <2>2, <2>4 DEF PlacedIn, Reach
    <3>2. PlacedIn(L, u, q[u])
      BY <3>1, NoneIsPlaced
    <3>3. MissingIn(L, u, q[u]) = {} /\ MissingIn(L, u, r[u]) = {}
      BY <2>2, <2>4 DEF MissingIn
    <3> QED
      BY <3>2, <3>3
  <2>5. CASE r[u].at # "failed" /\ q[u].done = d /\ q[u].kept = r[u].kept
    <3>1. PICK place \in [OwnIn(L, u) -> 1..d] :
            /\ \A i, j \in OwnIn(L, u) : i < j => place[i] < place[j]
            /\ \A i \in OwnIn(L, u) : L[i].event = r[u].kept[place[i]]
      BY <2>1, <2>2, <2>5 DEF PlacedIn, Reach
    <3>2. d <= m
      BY <2>1, <2>2, <2>5 DEF Begun
    <3>3. Reach(q[u]) \in {d, m}
      BY <2>2, <2>5 DEF Reach
    <3>4. place \in [OwnIn(L, u) -> 1..Reach(q[u])]
      BY <3>1, <3>2, <3>3
    <3>5. PlacedIn(L, u, q[u])
      BY <2>5, <3>1, <3>4 DEF PlacedIn
    <3>6. MissingIn(L, u, q[u]) = MissingIn(L, u, r[u])
      BY <2>2, <2>5 DEF MissingIn
    <3> QED
      BY <3>5, <3>6
  <2> QED
    BY <2>2, <2>3, <2>4, <2>5
<1>3. L \in Seq(LineSet) /\ IsFiniteSet(U) /\ \A u \in U : Begun(r[u])
  BY DEF FileRight
<1>4. MissingOf(L, U, q) = MissingOf(L, U, r)
  BY <1>2 DEF MissingOf
<1>5. FailedOf(U, r) \subseteq FailedOf(U, q) /\ IsFiniteSet(FailedOf(U, q))
  BY <1>1, <1>3, CountsAreNatural DEF FailedOf
<1>6. Cardinality(FailedOf(U, r)) <= Cardinality(FailedOf(U, q))
  BY <1>5, FS_Subset
<1>7. LastLine(L, e, U, q)
  <2>1. LastLine(L, e, U, r)
    BY DEF FileRight
  <2> QED
    BY <1>1, <1>5, <2>1 DEF LastLine, FailedOf
<1>8. Counts(L, e, U, q)
  <2>1. Counts(L, e, U, r)
    BY DEF FileRight
  <2>2. Lost(L, U, q) = Lost(L, U, r)
    BY <1>4 DEF Lost
  <2>3. PICK c \in Nat, f \in Nat, g \in Nat :
          c = Cardinality(BrokenIn(L)) /\ f = Cardinality(FailedOf(U, r)) /\ g = Cardinality(FailedOf(U, q))
    BY <1>3, CountsAreNatural
  <2>4. f <= g
    BY <1>6, <2>3
  <2>5. c + (IF e = "whole" THEN 1 ELSE 0) <= f
    BY <2>1, <2>3 DEF Counts
  <2> QED
    BY <2>1, <2>2, <2>3, <2>4, <2>5 DEF Counts
<1> QED
  BY <1>2, <1>7, <1>8 DEF FileRight

\* A turn begins.
LEMMA BeginKeeps ==
  ASSUME NEW L, NEW e, NEW U, NEW r, FileRight(L, e, U, r), NEW q, NEW t \in Turns \ U,
         \A u \in U : q[u] = r[u], Begun(q[t]), q[t].done = 0
  PROVE  FileRight(L, e, U \union {t}, q)
<1> DEFINE V == U \union {t}
<1>1. /\ L \in Seq(LineSet) /\ e \in Ending /\ U \subseteq Turns /\ IsFiniteSet(U)
      /\ \A u \in U : Begun(r[u]) /\ PlacedIn(L, u, r[u])
      /\ \A u \in Turns \ U : OwnIn(L, u) = {}
  BY DEF FileRight
<1>2. IsFiniteSet(V) /\ V \subseteq Turns /\ \A u \in V : Begun(q[u])
  BY <1>1, FS_AddElement
<1>3. OwnIn(L, t) = {} /\ MissingIn(L, t, q[t]) = {}
  BY <1>1 DEF MissingIn
<1>4. PlacedIn(L, t, q[t])
  BY <1>3, NoneIsPlaced
<1>5. \A u \in V : PlacedIn(L, u, q[u])
  BY <1>1, <1>4
<1>6. FailedOf(U, r) \subseteq FailedOf(V, q)
  BY DEF FailedOf
<1>7. LastLine(L, e, V, q)
  <2>1. LastLine(L, e, U, r)
    BY DEF FileRight
  <2>2. \A u \in FailedOf(U, r) : q[u] = r[u]
    BY DEF FailedOf
  <2> HIDE DEF V
  <2> QED
    BY <1>6, <2>1, <2>2 DEF LastLine
<1>8. Lost(L, V, q) = Lost(L, U, r)
  <2>1. PICK f : f = MissingOf(L, U, r)
    OBVIOUS
  <2>2. PICK g : g = MissingOf(L, V, q)
    OBVIOUS
  <2>3. \A u \in U : f[u] \in Nat /\ g[u] = f[u]
    BY <1>1, <2>1, <2>2, MissingIsFinite DEF MissingOf
  <2>4. g[t] = 0
    BY <1>3, <2>2, FS_EmptySet DEF MissingOf
  <2>5. t \notin U /\ \A u \in U \union {t} : g[u] \in Int
    BY <2>3, <2>4
  <2>6. SumFunctionOnSet(g, U \union {t}) = g[t] + SumFunctionOnSet(g, U)
    BY <1>1, <2>5, SumAdd
  <2>7. SumFunctionOnSet(g, U) = SumFunctionOnSet(f, U) /\ SumFunctionOnSet(f, U) \in Int
    BY <1>1, <2>3, SumOnlyValues, SumType
  <2> QED
    BY <2>1, <2>2, <2>4, <2>6, <2>7 DEF Lost
<1> HIDE DEF V
<1>9. Counts(L, e, V, q)
  <2>1. Counts(L, e, U, r)
    BY DEF FileRight
  <2>2. PICK c \in Nat, f \in Nat, g \in Nat :
          c = Cardinality(BrokenIn(L)) /\ f = Cardinality(FailedOf(U, r)) /\ g = Cardinality(FailedOf(V, q))
    BY <1>1, <1>2, CountsAreNatural
  <2>3. f <= g
    BY <1>2, <1>6, <2>2, FS_Subset, CountsAreNatural, <1>1
  <2>4. c + (IF e = "whole" THEN 1 ELSE 0) <= f
    BY <2>1, <2>2 DEF Counts
  <2> QED
    BY <1>8, <2>1, <2>2, <2>3, <2>4 DEF Counts
<1>10. \A u \in Turns \ V : OwnIn(L, u) = {}
  BY <1>1 DEF V
<1>11. FileRight(L, e, V, q)
  BY <1>1, <1>2, <1>5, <1>7, <1>9, <1>10 DEF FileRight
<1> QED
  BY <1>11 DEF V

LEMMA FailuresCount ==
  ASSUME NEW U, IsFiniteSet(U), NEW t \in U, NEW r, NEW q, \A u \in U \ {t} : q[u] = r[u],
         r[t].at # "failed"
  PROVE  /\ q[t].at = "failed" =>
              Cardinality(FailedOf(U, q)) = Cardinality(FailedOf(U, r)) + 1
         /\ q[t].at # "failed" => FailedOf(U, q) = FailedOf(U, r)
<1>1. FailedOf(U, r) \subseteq U /\ t \notin FailedOf(U, r)
  BY DEF FailedOf
<1>2. ASSUME q[t].at = "failed"
      PROVE  Cardinality(FailedOf(U, q)) = Cardinality(FailedOf(U, r)) + 1
  <2>1. FailedOf(U, q) = FailedOf(U, r) \union {t}
    BY <1>2 DEF FailedOf
  <2> QED
    BY <1>1, <2>1, FS_Subset, FS_AddElement
<1>3. q[t].at # "failed" => FailedOf(U, q) = FailedOf(U, r)
  BY DEF FailedOf
<1> QED
  BY <1>2, <1>3

\* What a turn writes leaves the lines of the others as they are.
OthersKeep(K, L, t, users, r) ==
  /\ \A u \in users \ {t} : PlacedIn(K, u, r[u]) /\ MissingIn(K, u, r[u]) = MissingIn(L, u, r[u])
  /\ \A u \in Turns \ users : OwnIn(K, u) = {}

LEMMA PutMakes ==
  ASSUME NEW L, NEW e, NEW U, NEW r, FileRight(L, e, U, r), NEW t \in U, NEW q,
         \A u \in U \ {t} : q[u] = r[u], Begun(q[t]), NEW K \in Seq(LineSet), NEW f \in Ending,
         OthersKeep(K, L, t, U, r), PlacedIn(K, t, q[t]), LastLine(K, f, U, q), Counts(K, f, U, q)
  PROVE  FileRight(K, f, U, q)
<1>1. \A u \in U : Begun(q[u]) /\ PlacedIn(K, u, q[u])
  BY DEF FileRight, OthersKeep
<1>2. \A u \in Turns \ U : OwnIn(K, u) = {}
  BY DEF OthersKeep
<1> QED
  BY <1>1, <1>2 DEF FileRight

\* A turn that appends its next event goes on, or it fails.
Appends(r, q, ending) ==
  /\ r.at # "failed" /\ q.kept = r.kept /\ r.done < Len(r.kept)
  /\ \/ q.at # "failed" /\ q.done = r.done + 1 /\ ending = "newline"
     \/ q.at = "failed" /\ q.done = r.done

\* A turn writes the line of its next event, or fails with that line written.
LEMMA OwnLineKeeps ==
  ASSUME NEW L, NEW U, NEW r, FileRight(L, "newline", U, r), NEW t \in U, NEW q,
         \A u \in U \ {t} : q[u] = r[u], Begun(q[t]),
         NEW l \in LineSet, l.by = t, l.event = r[t].kept[r[t].done + 1],
         NEW K, K = Append(L, l), NEW f \in {"newline", "whole"}, Appends(r[t], q[t], f)
  PROVE  FileRight(K, f, U, q)
<1> USE DEF Appends
<1>1. /\ L \in Seq(LineSet) /\ U \subseteq Turns /\ IsFiniteSet(U) /\ Begun(r[t])
      /\ \A u \in U : Begun(r[u]) /\ PlacedIn(L, u, r[u])
      /\ \A u \in Turns \ U : OwnIn(L, u) = {}
      /\ Counts(L, "newline", U, r)
  BY DEF FileRight
<1>2. PICK d \in Nat, m \in Nat : d = r[t].done /\ m = Len(r[t].kept) /\ d + 1 <= m /\ DOMAIN r[t].kept = 1..m
  BY <1>1 DEF Begun
<1>3. PICK n : n = Len(L)
  OBVIOUS
<1>4. /\ n \in Nat /\ DOMAIN L = 1..n /\ DOMAIN K = 1..n + 1 /\ K \in Seq(LineSet)
      /\ Len(K) = n + 1 /\ K[n + 1] = l /\ \A i \in 1..n : K[i] = L[i]
  BY <1>1, <1>3, AddedLine
<1>5. OthersKeep(K, L, t, U, r)
  <2>1. ASSUME NEW u \in Turns, u # t PROVE Unharmed(K, L, u, r[u])
    <3>1. l.by # u
      BY <2>1
    <3> QED
      BY <1>1, <3>1, AddedAnother
  <2> QED
    BY <1>1, <2>1 DEF OthersKeep, Unharmed
<1>6. PlacedIn(K, t, q[t]) /\ MissingIn(K, t, q[t]) \subseteq MissingIn(L, t, r[t])
  <2>1. PICK a, b : a = r[t] /\ b = q[t]
    OBVIOUS
  <2>2. PICK c : c = Reach(b) /\ c \in {d + 1, m}
    BY <1>2, <2>1 DEF Reach
  <2>3. c \in Nat /\ d + 1 <= c
    BY <1>2, <2>2
  <2>4. a.done = d /\ a.at # "failed" /\ b.kept = a.kept /\ b.done \in {d, d + 1} /\ PlacedIn(L, t, a)
        /\ l.event = a.kept[d + 1]
    BY <1>1, <1>2, <2>1
  <2>5. PlacedIn(K, t, b) /\ MissingIn(K, t, b) \subseteq MissingIn(L, t, a)
    BY <1>1, <2>2, <2>3, <2>4, AddedOwn
  <2> QED
    BY <2>1, <2>5
<1>7. BrokenIn(K) = BrokenIn(L)
  <2>1. l # Broken
    BY <1>1, LineFacts
  <2>2. More(L, K, n, t)
    BY <1>4, MoreIndices
  <2> QED
    BY <1>4, <2>1, <2>2 DEF More
<1>8. Lost(K, U, q) <= Lost(L, U, r) + 0
  <2>1. Cardinality(MissingIn(K, t, q[t])) <= Cardinality(MissingIn(L, t, r[t]))
        /\ Cardinality(MissingIn(K, t, q[t])) \in Nat /\ Cardinality(MissingIn(L, t, r[t])) \in Nat
    BY <1>1, <1>6, MissingIsFinite, FS_Subset
  <2>2. Cardinality(MissingIn(K, t, q[t])) <= Cardinality(MissingIn(L, t, r[t])) + 0
    BY <2>1
  <2>3. \A u \in U \ {t} : MissingIn(K, u, q[u]) = MissingIn(L, u, r[u])
    BY <1>5 DEF OthersKeep
  <2>4. \A u \in U : Begun(r[u]) /\ Begun(q[u])
    BY <1>1
  <2> QED
    BY <1>1, <2>2, <2>3, <2>4, LostChanges
<1>9. LastLine(K, f, U, q)
  <2>1. K # <<>> /\ LastIn(K) = l
    BY <1>4 DEF LastIn
  <2>2. ASSUME q[t].at = "failed" /\ q[t].done = r[t].done
        PROVE  /\ t \in FailedOf(U, q)
               /\ \A i \in 1..q[t].done : q[t].kept[i] # l.event
    <3>1. Distinct(r[t].kept)
      BY <1>1 DEF Begun
    <3>2. ASSUME NEW i \in 1..d PROVE r[t].kept[i] # r[t].kept[d + 1]
      <4>1. i \in DOMAIN r[t].kept /\ d + 1 \in DOMAIN r[t].kept /\ i # d + 1
        BY <1>2
      <4> QED
        BY <3>1, <4>1 DEF Distinct
    <3> QED
      BY <1>2, <2>2, <3>2 DEF FailedOf
  <2> QED
    BY <2>1, <2>2 DEF LastLine
<1>10. Counts(K, f, U, q)
  <2>1. PICK c \in Nat, a \in Nat, b \in Nat, x \in Nat, y \in Nat :
          /\ c = Cardinality(BrokenIn(L)) /\ a = Cardinality(FailedOf(U, r)) /\ b = Cardinality(FailedOf(U, q))
          /\ x = Lost(L, U, r) /\ y = Lost(K, U, q)
    <3>1. \A u \in U : Begun(q[u])
      BY <1>1
    <3>2. Cardinality(BrokenIn(L)) \in Nat /\ Cardinality(FailedOf(U, r)) \in Nat /\ Lost(L, U, r) \in Nat
      BY <1>1, CountsAreNatural
    <3>3. Cardinality(FailedOf(U, q)) \in Nat /\ Lost(K, U, q) \in Nat
      BY <1>1, <1>4, <3>1, CountsAreNatural
    <3> QED
      BY <3>2, <3>3
  <2>2. y <= x /\ x + 0 <= c /\ c + 0 <= a
    <3>1. "newline" # "torn" /\ "newline" # "whole"
      OBVIOUS
    <3>2. Lost(L, U, r) + 0 <= Cardinality(BrokenIn(L)) /\ Cardinality(BrokenIn(L)) + 0 <= Cardinality(FailedOf(U, r))
      BY <1>1, <3>1, Zenon DEF Counts
    <3>3. y <= x + 0
      BY <1>8, <2>1
    <3>4. x + 0 <= c /\ c + 0 <= a
      BY <2>1, <3>2
    <3> QED
      BY <3>3, <3>4
  <2>3. /\ q[t].at = "failed" =>
             Cardinality(FailedOf(U, q)) = Cardinality(FailedOf(U, r)) + 1
        /\ q[t].at # "failed" => FailedOf(U, q) = FailedOf(U, r)
    BY <1>1, FailuresCount
  <2>4. (q[t].at = "failed" => b = a + 1) /\ (q[t].at # "failed" => b = a)
    BY <2>1, <2>3
  <2>5. c + (IF f = "whole" THEN 1 ELSE 0) <= b
    BY <2>2, <2>4
  <2> QED
    BY <1>7, <2>1, <2>2, <2>5 DEF Counts
<1>11. f \in Ending /\ K \in Seq(LineSet)
  BY <1>4 DEF Ending
<1>12. PlacedIn(K, t, q[t])
  BY <1>6
<1> HIDE DEF Ending
<1> QED
  BY <1>5, <1>9, <1>10, <1>11, <1>12, PutMakes

\* A turn fails with a part of its line written.
LEMMA BrokenLineKeeps ==
  ASSUME NEW L, NEW U, NEW r, FileRight(L, "newline", U, r), NEW t \in U, NEW q,
         \A u \in U \ {t} : q[u] = r[u], Begun(q[t]), q[t].kept = r[t].kept, q[t].done = r[t].done,
         r[t].at # "failed", q[t].at = "failed", NEW K, K = Append(L, Broken)
  PROVE  FileRight(K, "torn", U, q)
<1>1. /\ L \in Seq(LineSet) /\ U \subseteq Turns /\ IsFiniteSet(U) /\ Begun(r[t])
      /\ \A u \in U : Begun(r[u]) /\ PlacedIn(L, u, r[u])
      /\ \A u \in Turns \ U : OwnIn(L, u) = {}
      /\ Counts(L, "newline", U, r)
  BY DEF FileRight
<1>2. FileRight(L, "newline", U, q)
  BY QuietKeeps, <1>1
<1>3. PICK n, l : n = Len(L) /\ l = Broken
  OBVIOUS
<1>4. l \in LineSet /\ K = Append(L, l) /\ \A u \in Turns : l.by # u
  BY <1>3, LineFacts
<1>5. /\ n \in Nat /\ DOMAIN L = 1..n /\ DOMAIN K = 1..n + 1 /\ K \in Seq(LineSet)
      /\ Len(K) = n + 1 /\ K[n + 1] = l /\ \A i \in 1..n : K[i] = L[i]
  BY <1>1, <1>3, <1>4, AddedLine
<1>6. \A u \in Turns : \A s : Unharmed(K, L, u, s)
  BY <1>1, <1>4, AddedAnother
<1>7. \A u \in Turns : \A s : /\ OwnIn(K, u) \subseteq OwnIn(L, u)
                              /\ MissingIn(K, u, s) = MissingIn(L, u, s)
                              /\ PlacedIn(L, u, s) => PlacedIn(K, u, s)
  BY <1>6 DEF Unharmed
<1>8. \A u \in U : PlacedIn(L, u, q[u])
  BY <1>2 DEF FileRight
<1>9. OthersKeep(K, L, t, U, r) /\ PlacedIn(K, t, q[t])
  BY <1>1, <1>7, <1>8 DEF OthersKeep
<1>10. LastLine(K, "torn", U, q)
  BY <1>3, <1>5 DEF LastLine, LastIn
<1>11. Cardinality(BrokenIn(K)) = Cardinality(BrokenIn(L)) + 1
  <2>1. More(L, K, n, t)
    BY <1>5, MoreIndices
  <2>2. BrokenIn(K) = BrokenIn(L) \union {n + 1} /\ n + 1 \notin BrokenIn(L)
    BY <1>3, <1>5, <2>1 DEF More
  <2>3. IsFiniteSet(BrokenIn(L))
    BY <1>1, CountsAreNatural
  <2> QED
    BY <2>2, <2>3, FS_AddElement
<1>12. Counts(K, "torn", U, q)
  <2>1. PICK c \in Nat, a \in Nat, b \in Nat, x \in Nat :
          /\ c = Cardinality(BrokenIn(L)) /\ a = Cardinality(FailedOf(U, r)) /\ b = Cardinality(FailedOf(U, q))
          /\ x = Lost(L, U, r)
    BY <1>1, CountsAreNatural
  <2>2. x + 0 <= c /\ c + 0 <= a
    BY <1>1, <2>1 DEF Counts
  <2>3. b = a + 1
    BY <1>1, <2>1, FailuresCount
  <2>4. Lost(K, U, q) = x
    <3>1. \A u \in U : MissingIn(K, u, q[u]) = MissingIn(L, u, r[u])
      <4>1. MissingIn(L, t, q[t]) = MissingIn(L, t, r[t])
        BY DEF MissingIn
      <4> QED
        BY <1>1, <1>7, <4>1
    <3>2. MissingOf(K, U, q) = MissingOf(L, U, r)
      BY <3>1 DEF MissingOf
    <3> QED
      BY <2>1, <3>2 DEF Lost
  <2>5. x + 1 <= c + 1 /\ c + 1 + 0 <= b
    BY <2>2, <2>3
  <2> QED
    BY <1>11, <2>1, <2>4, <2>5 DEF Counts
<1> QED
  BY <1>1, <1>5, <1>9, <1>10, <1>12, PutMakes DEF Ending

\* A turn writes at the end of a line that was left unfinished, or fails there.
LEMMA UnfinishedKeeps ==
  ASSUME NEW L, NEW e \in {"torn", "whole"}, NEW U, NEW r, FileRight(L, e, U, r), NEW t \in U, NEW q,
         \A u \in U \ {t} : q[u] = r[u], Begun(q[t]), L # <<>>, NEW n, n = Len(L),
         NEW K, K = [L EXCEPT ![n] = Broken], NEW f \in {"newline", "torn"}, Appends(r[t], q[t], f)
  PROVE  FileRight(K, f, U, q)
<1> USE DEF Appends
<1>1. /\ L \in Seq(LineSet) /\ U \subseteq Turns /\ IsFiniteSet(U) /\ Begun(r[t])
      /\ \A u \in U : Begun(r[u]) /\ PlacedIn(L, u, r[u])
      /\ \A u \in Turns \ U : OwnIn(L, u) = {}
      /\ LastLine(L, e, U, r) /\ Counts(L, e, U, r)
  BY DEF FileRight
<1>2. LastIn(L) = L[n]
  BY DEF LastIn
<1>3. /\ K \in Seq(LineSet) /\ n \in Nat \ {0} /\ DOMAIN L = 1..n /\ DOMAIN K = 1..n
      /\ Len(K) = n /\ K[n] = Broken /\ \A i \in 1..n : i # n => K[i] = L[i]
  BY <1>1, BrokenLine
<1>4. PICK d \in Nat : d = r[t].done
  BY <1>1 DEF Begun
<1>5. ASSUME NEW u \in Turns, L[n].by = u
      PROVE  u \in U /\ u # t /\ \A i \in 1..r[u].done : r[u].kept[i] # L[n].event
  <2>1. L[n] # Broken
    BY <1>5, LineFacts
  <2>2. e = "whole"
    BY <1>1, <1>2, <2>1 DEF LastLine
  <2> QED
    BY <1>1, <1>2, <1>5, <2>2 DEF LastLine, FailedOf
<1>6. ASSUME NEW u \in U
      PROVE  MissingIn(K, u, r[u]) = MissingIn(L, u, r[u]) /\ PlacedIn(K, u, r[u])
  <2>1. u \in Turns /\ Uncounted(L[n], u, r[u])
    BY <1>1, <1>5 DEF Uncounted
  <2>2. Unharmed(K, L, u, r[u])
    BY <1>1, <2>1, BrokenAnother
  <2> QED
    BY <1>1, <2>2 DEF Unharmed
<1>7. \A u \in Turns \ U : OwnIn(K, u) = {}
  <2> SUFFICES ASSUME NEW u \in Turns \ U PROVE OwnIn(K, u) = {}
    OBVIOUS
  <2>1. L[n].by # u
    BY <1>5
  <2>2. Uncounted(L[n], u, r[u])
    BY <2>1 DEF Uncounted
  <2>3. OwnIn(K, u) \subseteq OwnIn(L, u)
    BY <1>1, <2>2, BrokenAnother DEF Unharmed
  <2> QED
    BY <1>1, <2>3
<1>8. OthersKeep(K, L, t, U, r)
  BY <1>6, <1>7 DEF OthersKeep
<1>9. PlacedIn(K, t, q[t])
  <2>1. PICK a, b : a = r[t] /\ b = q[t]
    OBVIOUS
  <2>2. PlacedIn(K, t, a) /\ Reach(a) = d
    BY <1>4, <1>6, <2>1 DEF Reach
  <2>3. PICK m \in Nat : m = Reach(b) /\ d <= m
    BY <1>4, <2>1, <1>1 DEF Begun, Reach
  <2>4. PICK place \in [OwnIn(K, t) -> 1..d] :
            /\ \A i, j \in OwnIn(K, t) : i < j => place[i] < place[j]
            /\ \A i \in OwnIn(K, t) : K[i].event = a.kept[place[i]]
    BY <2>2 DEF PlacedIn
  <2>5. \A i \in 1..d : i \in 1..m
    BY <2>3
  <2>6. place \in [OwnIn(K, t) -> 1..Reach(b)]
    BY <2>3, <2>4, <2>5
  <2>7. b.kept = a.kept
    BY <2>1
  <2>8. \A i \in OwnIn(K, t) : K[i].event = b.kept[place[i]]
    BY <2>4, <2>7
  <2>9. PlacedIn(K, t, b)
    BY <2>4, <2>6, <2>8 DEF PlacedIn
  <2> QED
    BY <2>1, <2>9
<1>10. LastLine(K, f, U, q)
  BY <1>3 DEF LastLine, LastIn
<1>11. BrokenIn(K) = BrokenIn(L) \union {n} /\ IsFiniteSet(BrokenIn(L)) /\ (e = "torn" => n \in BrokenIn(L))
  <2>1. Fewer(L, K, n, t)
    BY <1>1, <1>3, FewerIndices
  <2>2. e = "torn" => n \in BrokenIn(L)
    BY <1>1, <1>2, <1>3 DEF LastLine, BrokenIn
  <2> QED
    BY <1>1, <2>1, <2>2, CountsAreNatural DEF Fewer
<1>12. (e = "whole" => n \notin BrokenIn(L))
  BY <1>1, <1>2, LineFacts DEF BrokenIn, LastLine, FailedOf
<1>13. PICK c \in Nat, k \in Nat : /\ c = Cardinality(BrokenIn(L)) /\ k = Cardinality(BrokenIn(K))
                                   /\ (e = "torn" => k = c) /\ (e = "whole" => k = c + 1)
  <2>1. Cardinality(BrokenIn(L)) \in Nat /\ Cardinality(BrokenIn(K)) \in Nat
    BY <1>1, <1>3, CountsAreNatural
  <2>2. e = "torn" => BrokenIn(K) = BrokenIn(L)
    BY <1>11
  <2>3. e = "whole" => Cardinality(BrokenIn(K)) = Cardinality(BrokenIn(L)) + 1
    BY <1>11, <1>12, FS_AddElement
  <2> QED
    BY <2>1, <2>2, <2>3
<1>14. Lost(K, U, q) <= Lost(L, U, r) + (IF q[t].at = "failed" THEN 0 ELSE 1)
  <2>1. MissingIn(K, t, q[t]) \subseteq MissingIn(L, t, r[t]) \union {d + 1}
    <3>1. MissingIn(K, t, r[t]) = MissingIn(L, t, r[t])
      BY <1>6
    <3>2. \A i \in 1..q[t].done : i \in 1..d \/ i = d + 1
      BY <1>4
    <3>3. \A i \in MissingIn(K, t, q[t]) : i \in MissingIn(K, t, r[t]) \/ i = d + 1
      BY <1>4, <3>2 DEF MissingIn
    <3> QED
      BY <3>1, <3>3
  <2>2. IsFiniteSet(MissingIn(L, t, r[t])) /\ Cardinality(MissingIn(L, t, r[t])) \in Nat
        /\ Cardinality(MissingIn(K, t, q[t])) \in Nat
    BY <1>1, MissingIsFinite
  <2>3. Cardinality(MissingIn(K, t, q[t])) <= Cardinality(MissingIn(L, t, r[t])) + 1
    <3> DEFINE A == MissingIn(L, t, r[t])
    <3>1. IsFiniteSet(A) /\ Cardinality(A) \in Nat
      BY <2>2
    <3> HIDE DEF A
    <3>2. PICK B : B = A \union {d + 1}
      OBVIOUS
    <3>3. IsFiniteSet(B)
          /\ (d + 1 \in A => Cardinality(B) = Cardinality(A))
          /\ (d + 1 \notin A => Cardinality(B) = Cardinality(A) + 1)
      <4>1. d + 1 \in A => B = A
        BY <3>2
      <4> QED
        BY <3>1, <3>2, <4>1, FS_AddElement
    <3>4. Cardinality(B) \in Nat /\ Cardinality(B) <= Cardinality(A) + 1
      BY <3>1, <3>3
    <3>5. IsFiniteSet(A \union {d + 1}) /\ Cardinality(A \union {d + 1}) \in Nat
          /\ Cardinality(A \union {d + 1}) <= Cardinality(A) + 1
      BY <3>2, <3>3, <3>4
    <3>6. Cardinality(MissingIn(K, t, q[t])) <= Cardinality(A \union {d + 1})
      BY <2>1, <3>5, FS_Subset DEF A
    <3> QED
      BY <2>2, <3>5, <3>6 DEF A
  <2>4. q[t].at = "failed" => MissingIn(K, t, q[t]) = MissingIn(L, t, r[t])
    <3>1. q[t].at = "failed" => MissingIn(K, t, q[t]) = MissingIn(K, t, r[t])
      BY <1>4 DEF MissingIn
    <3> QED
      BY <1>6, <3>1
  <2>5. PICK z \in Nat : z = (IF q[t].at = "failed" THEN 0 ELSE 1)
    OBVIOUS
  <2>6. Cardinality(MissingIn(K, t, q[t])) <= Cardinality(MissingIn(L, t, r[t])) + z
    BY <2>2, <2>3, <2>4, <2>5
  <2>7. \A u \in U \ {t} : MissingIn(K, u, q[u]) = MissingIn(L, u, r[u])
    BY <1>6
  <2>8. \A u \in U : Begun(r[u]) /\ Begun(q[u])
    BY <1>1
  <2>9. Lost(K, U, q) <= Lost(L, U, r) + z
    BY <1>1, <2>6, <2>7, <2>8, LostChanges
  <2> QED
    BY <2>5, <2>9
<1>15. Counts(K, f, U, q)
  <2>1. PICK a \in Nat, b \in Nat, x \in Nat, y \in Nat :
          /\ a = Cardinality(FailedOf(U, r)) /\ b = Cardinality(FailedOf(U, q))
          /\ x = Lost(L, U, r) /\ y = Lost(K, U, q)
    BY <1>1, <1>3, CountsAreNatural
  <2>2. /\ x + (IF e = "torn" THEN 1 ELSE 0) <= c
        /\ c + (IF e = "whole" THEN 1 ELSE 0) <= a
    BY <1>1, <1>13, <2>1 DEF Counts
  <2>3. /\ q[t].at = "failed" =>
             Cardinality(FailedOf(U, q)) = Cardinality(FailedOf(U, r)) + 1
        /\ q[t].at # "failed" => FailedOf(U, q) = FailedOf(U, r)
    BY <1>1, FailuresCount
  <2>4. (q[t].at = "failed" => b = a + 1) /\ (q[t].at # "failed" => b = a)
    BY <2>1, <2>3
  <2>5. y <= x + (IF q[t].at = "failed" THEN 0 ELSE 1)
    BY <1>14, <2>1
  <2>6. y + (IF f = "torn" THEN 1 ELSE 0) <= k /\ k + 0 <= b
    BY <1>13, <2>2, <2>4, <2>5
  <2> QED
    BY <1>13, <2>1, <2>6 DEF Counts
<1>16. f \in Ending
  BY DEF Ending
<1> QED
  BY <1>3, <1>8, <1>9, <1>10, <1>15, <1>16, PutMakes

FilesInv ==
  /\ DOMAIN files = Files
  /\ \A f \in Files : FileRight(files[f].lines, files[f].ending, Users(f), turn)

LEMMA TurnsHaveBegun ==
  ASSUME IInv
  PROVE  \A t \in Turns : turn[t].at # "idle" => Begun(turn[t]) /\ turn[t].call \in Calls
BY DEF IInv, Sound, Fields, Kept, Retained, Begun

LEMMA TurnsWillHaveBegun ==
  ASSUME IInv'
  PROVE  \A t \in Turns : turn'[t].at # "idle" => Begun(turn'[t])
BY DEF IInv, Sound, Kept, Retained, Begun

LEMMA StoreIsFile == \A c \in Calls : Scenario(c).file \in Files
<1> SUFFICES ASSUME NEW c \in Calls PROVE Scenario(c).file \in Files
  OBVIOUS
<1>1. Scenario(c) \in {Companion, Support, Operations, Temporal, Identity}
  BY AgentAssumption DEF Scenario, AVAILABLE_SCENARIOS
<1>2. /\ Companion.file = "project_companion" /\ Support.file = "support_continuity"
      /\ Operations.file = "operations_observer" /\ Temporal.file = "temporal_layering"
      /\ Identity.file = "persistent_identity"
  BY DEF Companion, Support, Operations, Temporal, Identity
<1> QED
  BY <1>1, <1>2 DEF Files

LEMMA InitFilesInv == Init => FilesInv
<1> SUFFICES ASSUME Init, NEW f \in Files
             PROVE  FileRight(files[f].lines, files[f].ending, Users(f), turn)
  BY DEF Init, FilesInv
<1>1. files[f].lines = <<>> /\ files[f].ending = "newline" /\ Users(f) = {}
  BY DEF Init, Users, Idle
<1>2. \A u : OwnIn(<<>>, u) = {}
  BY DEF OwnIn
<1>3. BrokenIn(<<>>) = {} /\ FailedOf({}, turn) = {}
  BY DEF BrokenIn, FailedOf
<1>4. IsFiniteSet({}) /\ Cardinality({}) = 0 /\ Lost(<<>>, {}, turn) = 0
  BY FS_EmptySet, SumEmpty DEF Lost
<1>5. Cardinality(BrokenIn(<<>>)) = 0 /\ Cardinality(FailedOf({}, turn)) = 0
  BY <1>3, <1>4
<1>6. Counts(<<>>, "newline", {}, turn)
  BY <1>4, <1>5 DEF Counts
<1>7. LastLine(<<>>, "newline", {}, turn)
  BY DEF LastLine
<1> QED
  BY <1>1, <1>2, <1>4, <1>6, <1>7 DEF FileRight, Ending

\* A turn goes on and writes nothing.
LEMMA MoveKeepsFiles ==
  ASSUME FilesInv, IInv', NEW t \in Turns, files' = files,
         \A u \in Turns \ {t} : turn'[u] = turn[u],
         turn[t].at \notin {"idle", "failed"}, turn'[t].at # "idle", turn'[t].call = turn[t].call,
         turn'[t].done = turn[t].done, turn'[t].kept = turn[t].kept \/ turn[t].done = 0
  PROVE  FilesInv'
<1> SUFFICES ASSUME NEW f \in Files
             PROVE  FileRight(files[f].lines, files[f].ending, Users(f), turn)'
  BY DEF FilesInv
<1>1. FileRight(files[f].lines, files[f].ending, Users(f), turn)
  BY DEF FilesInv
<1>2. Users(f)' = Users(f)
  BY DEF Users, Store
<1>3. \A u \in Users(f) : u \in Turns /\ turn[u].at # "idle" /\ turn'[u].at # "idle"
  BY DEF Users
<1>4. \A u \in Users(f) : Begun(turn'[u])
  BY <1>3, TurnsWillHaveBegun
<1>5. \A u \in Users(f) : \/ turn'[u] = turn[u]
                          \/ /\ turn[u].at # "failed" /\ turn'[u].done = turn[u].done
                             /\ turn'[u].kept = turn[u].kept \/ turn[u].done = 0
  BY <1>3
<1>6. FileRight(files[f].lines, files[f].ending, Users(f), turn')
  BY <1>1, <1>4, <1>5, QuietKeeps
<1> QED
  BY <1>2, <1>6

LEMMA BeginKeepsFiles ==
  ASSUME FilesInv, IInv, IInv', NEW t \in Turns, NEW call \in Calls, Begin(t, call)
  PROVE  FilesInv'
<1>1. /\ \A u \in Turns \ {t} : turn'[u] = turn[u]
      /\ turn[t].at = "idle" /\ turn'[t].at = "open" /\ turn'[t].call = call /\ turn'[t].done = 0
      /\ files' = files
  BY DEF Begin, IInv
<1> SUFFICES ASSUME NEW f \in Files
             PROVE  FileRight(files[f].lines, files[f].ending, Users(f), turn)'
  BY <1>1 DEF FilesInv
<1>2. FileRight(files[f].lines, files[f].ending, Users(f), turn)
  BY DEF FilesInv
<1>3. Users(f) \subseteq Turns /\ t \notin Users(f)
  BY <1>1 DEF Users
<1>4. \A u \in Users(f) : turn'[u] = turn[u]
  BY <1>1, <1>3
<1>5. Begun(turn'[t])
  BY <1>1, TurnsWillHaveBegun
<1>6. CASE Scenario(call).file = f
  <2>1. Users(f)' = Users(f) \union {t}
    BY <1>1, <1>6 DEF Users, Store
  <2>2. FileRight(files[f].lines, files[f].ending, Users(f) \union {t}, turn')
    BY <1>1, <1>2, <1>3, <1>4, <1>5, BeginKeeps
  <2> QED
    BY <1>1, <2>1, <2>2
<1>7. CASE Scenario(call).file # f
  <2>1. Users(f)' = Users(f)
    BY <1>1, <1>7 DEF Users, Store
  <2>2. \A u \in Users(f) : Begun(turn'[u])
    BY <1>2, <1>4 DEF FileRight
  <2>3. FileRight(files[f].lines, files[f].ending, Users(f), turn')
    BY <1>2, <1>4, <2>2, QuietKeeps
  <2> QED
    BY <1>1, <2>1, <2>3
<1> QED
  BY <1>6, <1>7

\* What is written to a file does not concern the others.
LEMMA PutKeepsFiles ==
  ASSUME FilesInv, NEW t \in Turns, NEW lines, NEW ending,
         \A u \in Turns \ {t} : turn'[u] = turn[u],
         turn[t].at # "idle", turn'[t].at # "idle", turn'[t].call = turn[t].call, Store(t) \in Files,
         files' = [files EXCEPT ![Store(t)] = [lines |-> lines, ending |-> ending]],
         FileRight(lines, ending, Users(Store(t)), turn')
  PROVE  FilesInv'
<1>1. DOMAIN files' = Files
  BY DEF FilesInv
<1> SUFFICES ASSUME NEW f \in Files
             PROVE  FileRight(files[f].lines, files[f].ending, Users(f), turn)'
  BY <1>1 DEF FilesInv
<1>2. FileRight(files[f].lines, files[f].ending, Users(f), turn)
  BY DEF FilesInv
<1>3. Users(f)' = Users(f)
  BY DEF Users, Store
<1>4. CASE f = Store(t)
  <2>1. files'[f].lines = lines /\ files'[f].ending = ending
    BY <1>4 DEF FilesInv
  <2> QED
    BY <1>3, <1>4, <2>1
<1>5. CASE f # Store(t)
  <2>1. files'[f] = files[f]
    BY <1>5 DEF FilesInv
  <2>2. \A u \in Users(f) : turn'[u] = turn[u]
    BY <1>5 DEF Users
  <2>3. \A u \in Users(f) : Begun(turn'[u])
    BY <1>2, <2>2 DEF FileRight
  <2>4. FileRight(files[f].lines, files[f].ending, Users(f), turn')
    BY <1>2, <2>2, <2>3, QuietKeeps
  <2> QED
    BY <1>3, <2>1, <2>4
<1> QED
  BY <1>4, <1>5

LEMMA WriteKeepsFiles ==
  ASSUME FilesInv, IInv, IInv', NEW t \in Turns, Write(t) \/ WriteFails(t)
  PROVE  FilesInv'
<1> DEFINE F == Store(t)
           L == files[F].lines
           e == files[F].ending
           d == turn[t].done
<1>1. /\ turn[t].at = "write" /\ d < Len(turn[t].kept)
      /\ Begun(turn[t]) /\ turn[t].call \in Calls /\ F \in Files
  BY TurnsHaveBegun, StoreIsFile DEF Write, WriteFails, Put, Store
<1>2. /\ \A u \in Turns \ {t} : turn'[u] = turn[u]
      /\ turn'[t].call = turn[t].call /\ turn'[t].kept = turn[t].kept
      /\ Write(t) => turn'[t].at = "write" /\ turn'[t].done = d + 1
      /\ WriteFails(t) => turn'[t].at = "failed" /\ turn'[t].done = d
  <2>1. DOMAIN turn = Turns /\ {"at", "call", "done", "kept"} \subseteq DOMAIN turn[t]
    BY <1>1 DEF IInv, Sound, Fields
  <2>2. CASE Write(t)
    <3>1. turn' = [turn EXCEPT ![t] = [turn[t] EXCEPT !.done = d + 1]] /\ ~WriteFails(t)
      BY <1>1, <2>1, <2>2 DEF Write, WriteFails
    <3> QED
      BY <1>1, <2>1, <2>2, <3>1
  <2>3. CASE WriteFails(t)
    <3>1. turn' = [turn EXCEPT ![t] = [turn[t] EXCEPT !.at = "failed"]] /\ ~Write(t)
      BY <1>1, <2>1, <2>3 DEF Write, WriteFails
    <3> QED
      BY <1>1, <2>1, <2>3, <3>1
  <2> QED
    BY <2>2, <2>3
<1>3. turn'[t].at # "idle" /\ Begun(turn'[t])
  BY <1>2, TurnsWillHaveBegun
<1>4. FileRight(L, e, Users(F), turn) /\ e \in Ending
  BY <1>1 DEF FilesInv, FileRight
<1>5. t \in Users(F)
  BY <1>1 DEF Users
<1>6. Line(t) \in LineSet /\ Line(t).by = t /\ Line(t).event = turn[t].kept[d + 1]
  <2>1. turn[t].kept \in Seq(Records) /\ d \in Nat /\ d + 1 \in 1..Len(turn[t].kept)
    BY <1>1 DEF Begun
  <2>2. turn[t].kept[d + 1] \in Records
    BY <2>1
  <2> QED
    BY <2>2 DEF Line, LineSet
<1>7. \A u \in Users(F) \ {t} : turn'[u] = turn[u]
  BY <1>2 DEF Users
<1>8. ASSUME NEW lines, NEW ending, FileRight(lines, ending, Users(F), turn'),
             files' = [files EXCEPT ![F] = [lines |-> lines, ending |-> ending]]
      PROVE  FilesInv'
  BY <1>1, <1>2, <1>3, <1>8, PutKeepsFiles
<1>9. ASSUME NEW line, NEW ending, Put(t, line, ending)
      PROVE  files' = [files EXCEPT ![F] = [lines |-> Extend(files[F], line), ending |-> ending]]
  <2>1. F \in DOMAIN files
    BY <1>1 DEF FilesInv
  <2> QED
    BY <1>9, <2>1 DEF Put
<1>10. CASE e = "newline"
  <2>1. \A line : Extend(files[F], line) = Append(L, line)
    BY <1>10 DEF Extend
  <2>2. ASSUME NEW f \in {"newline", "whole"}, Put(t, Line(t), f), Write(t) => f = "newline"
        PROVE  FilesInv'
    <3>1. FileRight(Append(L, Line(t)), f, Users(F), turn')
      <4>1. PICK l, K : l = Line(t) /\ K = Append(L, l)
        OBVIOUS
      <4>2. l \in LineSet /\ l.by = t /\ l.event = turn[t].kept[turn[t].done + 1]
        BY <1>6, <4>1
      <4>3. Appends(turn[t], turn'[t], f)
        BY <1>1, <1>2, <2>2 DEF Appends
      <4>4. FileRight(L, "newline", Users(F), turn)
        BY <1>4, <1>10
      <4>5. FileRight(K, f, Users(F), turn')
        BY <1>3, <1>5, <1>7, <4>1, <4>2, <4>3, <4>4, OwnLineKeeps
      <4> QED
        BY <4>1, <4>5
    <3>2. files' = [files EXCEPT ![F] = [lines |-> Append(L, Line(t)), ending |-> f]]
      BY <1>9, <2>1, <2>2
    <3> QED
      BY <1>8, <3>1, <3>2
  <2>3. ASSUME Put(t, Broken, "torn"), WriteFails(t)
        PROVE  FilesInv'
    <3>1. FileRight(Append(L, Broken), "torn", Users(F), turn')
      <4>1. PICK K : K = Append(L, Broken)
        OBVIOUS
      <4>2. FileRight(L, "newline", Users(F), turn) /\ turn'[t].kept = turn[t].kept
            /\ turn[t].at # "failed" /\ turn'[t].at = "failed" /\ turn'[t].done = turn[t].done
        BY <1>1, <1>2, <1>4, <1>10, <2>3
      <4>3. FileRight(K, "torn", Users(F), turn')
        BY <1>3, <1>5, <1>7, <4>1, <4>2, BrokenLineKeeps
      <4> QED
        BY <4>1, <4>3
    <3>2. files' = [files EXCEPT ![F] = [lines |-> Append(L, Broken), ending |-> "torn"]]
      BY <1>9, <2>1, <2>3
    <3> QED
      BY <1>8, <3>1, <3>2
  <2> QED
    BY <1>10, <2>2, <2>3 DEF Write, WriteFails
<1>11. CASE e # "newline"
  <2>1. e \in {"torn", "whole"}
    BY <1>4, <1>11 DEF Ending
  <2>2. PICK K : K = [L EXCEPT ![Len(L)] = Broken]
    OBVIOUS
  <2>3. \A line : Extend(files[F], line) = K
    BY <1>11, <2>2 DEF Extend
  <2>4. ASSUME NEW line, NEW f \in {"newline", "torn"}, Put(t, line, f), Write(t) => f = "newline"
        PROVE  FilesInv'
    <3>1. FileRight(K, f, Users(F), turn')
      <4>1. PICK M, n : M = L /\ n = Len(M)
        OBVIOUS
      <4>2. Appends(turn[t], turn'[t], f)
        BY <1>1, <1>2, <2>4 DEF Appends
      <4>3. FileRight(M, e, Users(F), turn) /\ M # <<>>
        BY <1>4, <1>11, <4>1 DEF FileRight, LastLine
      <4>4. K = [M EXCEPT ![n] = Broken]
        BY <2>2, <4>1
      <4>5. PICK x, U : x = e /\ U = Users(F)
        OBVIOUS
      <4>6. FileRight(M, x, U, turn) /\ t \in U /\ x \in {"torn", "whole"}
            /\ \A u \in U \ {t} : turn'[u] = turn[u]
        BY <1>5, <1>7, <2>1, <4>3, <4>5
      <4>7. FileRight(K, f, U, turn')
        BY <1>3, <4>1, <4>2, <4>3, <4>4, <4>6, UnfinishedKeeps
      <4> QED
        BY <4>5, <4>7
    <3>2. files' = [files EXCEPT ![F] = [lines |-> K, ending |-> f]]
      BY <1>9, <2>3, <2>4
    <3> QED
      BY <1>8, <3>1, <3>2
  <2> QED
    BY <1>11, <2>4 DEF Write, WriteFails
<1> QED
  BY <1>10, <1>11

\* Everything else a turn does
LEMMA QuietStepKeepsFiles ==
  ASSUME FilesInv, IInv, IInv', NEW t \in Turns, NEW reply,
         Open(t) \/ Die(t) \/ Decide(t) \/ AskProvider(t, reply)
  PROVE  FilesInv'
<1> DEFINE r == turn[t]
<1>1. /\ r.at \in {"open", "write", "provider"} /\ DOMAIN turn = Turns
      /\ {"at", "call", "done", "kept"} \subseteq DOMAIN r
      /\ r.at = "open" => r.done = 0
      /\ files' = files
  <2>1. r.at \in {"open", "write", "provider"} /\ files' = files
    BY DEF Open, Die, Decide, AskProvider
  <2>2. Fields(r) /\ Kept(r) /\ DOMAIN turn = Turns
    BY DEF IInv, Sound
  <2>3. r.at = "open" => r.done = 0
    <3>1. r.at = "open" => r.kept = <<>> /\ r.done \in 0..Len(r.kept)
      BY <2>2 DEF Kept
    <3> QED
      BY <3>1
  <2> QED
    BY <2>1, <2>2, <2>3 DEF Fields
<1>2. ASSUME NEW q, turn' = [turn EXCEPT ![t] = q], q.at # "idle", q.call = r.call,
             q.done = r.done, q.kept = r.kept \/ r.done = 0
      PROVE  FilesInv'
  <2>1. turn'[t] = q /\ \A u \in Turns \ {t} : turn'[u] = turn[u]
    BY <1>1, <1>2
  <2> QED
    BY <1>1, <1>2, <2>1, MoveKeepsFiles
<1>3. CASE turn' = [turn EXCEPT ![t].at = "failed"]
  <2> DEFINE q == [r EXCEPT !.at = "failed"]
  <2>1. turn' = [turn EXCEPT ![t] = q]
    BY <1>3
  <2>2. q.at = "failed" /\ q.call = r.call /\ q.done = r.done /\ q.kept = r.kept
    BY <1>1
  <2> HIDE DEF q
  <2> QED
    BY <1>2, <2>1, <2>2
<1>4. CASE Open(t) /\ turn' # [turn EXCEPT ![t].at = "failed"]
  <2> DEFINE kept == Retain(policy, Scenario(turn[t].call).events)
             q == [[r EXCEPT !.at = "write"] EXCEPT !.kept = kept]
  <2>1. turn' = [turn EXCEPT ![t] = q] /\ r.at = "open"
    BY <1>4 DEF Open
  <2> HIDE DEF kept
  <2>2. q.at = "write" /\ q.call = r.call /\ q.done = r.done
    BY <1>1
  <2> HIDE DEF q
  <2> QED
    BY <1>1, <1>2, <2>1, <2>2
<1>5. CASE Decide(t)
  <2>1. PICK at \in {"provider", "returned"} : \E audit, contradicted, executed :
          turn' = [turn EXCEPT ![t] =
            [at |-> at, call |-> r.call, kept |-> r.kept, done |-> r.done, audit |-> audit,
             contradicted |-> contradicted, executed |-> executed,
             proposals |-> <<>>, judged |-> <<>>]]
    BY <1>5 DEF Decide
  <2> PICK audit, contradicted, executed :
          turn' = [turn EXCEPT ![t] =
            [at |-> at, call |-> r.call, kept |-> r.kept, done |-> r.done, audit |-> audit,
             contradicted |-> contradicted, executed |-> executed,
             proposals |-> <<>>, judged |-> <<>>]]
    BY <2>1
  <2> DEFINE q == [at |-> at, call |-> r.call, kept |-> r.kept, done |-> r.done, audit |-> audit,
                   contradicted |-> contradicted, executed |-> executed,
                   proposals |-> <<>>, judged |-> <<>>]
  <2>2. q.at \in {"provider", "returned"} /\ q.call = r.call /\ q.done = r.done /\ q.kept = r.kept
    OBVIOUS
  <2>3. turn' = [turn EXCEPT ![t] = q]
    BY <2>1
  <2> HIDE DEF q
  <2> QED
    BY <1>2, <2>2, <2>3
<1>6. CASE AskProvider(t, reply)
  <2> DEFINE answer == Generate(r.call.provider, r.call.ready, r.call.scenario, reply)
             judged == [i \in DOMAIN answer.proposals |->
                          Evaluate(policy, ProviderRequest(r.call, answer.proposals[i]))]
             q == [[[r EXCEPT !.at = answer.end] EXCEPT !.proposals = answer.proposals]
                     EXCEPT !.judged = judged]
  <2>1. turn' = [turn EXCEPT ![t] = q]
    BY <1>6 DEF AskProvider
  <2>2. q.call = r.call /\ q.done = r.done /\ q.kept = r.kept /\ q.at = answer.end
    <3> HIDE DEF answer, judged
    <3> QED
      BY <1>1
  <2> HIDE DEF answer, judged, q
  <2>3. q.at # "idle"
    BY <2>2, AnswersEnd DEF answer
  <2> QED
    BY <1>2, <2>1, <2>2, <2>3
<1> QED
  BY <1>3, <1>4, <1>5, <1>6 DEF Open, Die

LEMMA StepFilesInv == FilesInv /\ IInv /\ LoadInv /\ [Next]_vars => FilesInv'
<1> SUFFICES ASSUME FilesInv, IInv, LoadInv, [Next]_vars PROVE FilesInv'
  OBVIOUS
<1>1. IInv'
  BY StepIInv
<1>2. CASE UNCHANGED <<files, turn>>
  BY <1>2 DEF FilesInv, Users, Store
<1> QED
  BY <1>1, <1>2, BeginKeepsFiles, WriteKeepsFiles, QuietStepKeepsFiles
     DEF Next, RunScenario, Persist, vars

(* Whatever turns share a file, and wherever they fail: the lines that a   *)
(* turn has in it are its events, in their order, an event can be missing  *)
(* only where the append of another turn failed and left its line          *)
(* unfinished, one for each such failure at most, and what was audited was *)
(* written (memory_store.py:34-36, configured_agent.py).                   *)
THEOREM LinesAreAccounted == Spec => []LinesAccounted
<1>1. IInv /\ FilesInv => LinesAccounted
  <2> SUFFICES ASSUME IInv, FilesInv, NEW f \in Files
               PROVE  /\ \A t \in Users(f) :
                           /\ \E place \in [Own(f, t) -> DOMAIN turn[t].kept] :
                                /\ \A i, j \in Own(f, t) : i < j => place[i] < place[j]
                                /\ \A i \in Own(f, t) : files[f].lines[i].event = turn[t].kept[place[i]]
                           /\ turn[t].at \in {"provider", "returned", "refused"} =>
                                turn[t].done = Len(turn[t].kept) /\ turn[t].audit.types = Types(turn[t].kept)
                      /\ SumFunction([t \in Users(f) |-> Cardinality(Missing(f, t))])
                           <= Cardinality(BrokenLines(f))
                      /\ Cardinality(BrokenLines(f))
                           <= Cardinality({t \in Users(f) : turn[t].at = "failed"})
    BY DEF LinesAccounted
  <2> DEFINE L == files[f].lines
             e == files[f].ending
             U == Users(f)
  <2>1. FileRight(L, e, U, turn)
    BY DEF FilesInv
  <2>2. ASSUME NEW t \in U
        PROVE  \E place \in [OwnIn(L, t) -> DOMAIN turn[t].kept] :
                 /\ \A i, j \in OwnIn(L, t) : i < j => place[i] < place[j]
                 /\ \A i \in OwnIn(L, t) : L[i].event = turn[t].kept[place[i]]
    <3>1. Begun(turn[t])
      BY <2>1 DEF FileRight
    <3>2. PICK place \in [OwnIn(L, t) -> 1..Reach(turn[t])] :
            /\ \A i, j \in OwnIn(L, t) : i < j => place[i] < place[j]
            /\ \A i \in OwnIn(L, t) : L[i].event = turn[t].kept[place[i]]
      BY <2>1 DEF FileRight, PlacedIn
    <3>3. 1..Reach(turn[t]) \subseteq DOMAIN turn[t].kept
      BY <3>1 DEF Begun, Reach
    <3> HIDE DEF L, U
    <3>4. place \in [OwnIn(L, t) -> DOMAIN turn[t].kept]
      BY <3>2, <3>3
    <3> QED
      BY <3>2, <3>4
  <2>3. ASSUME NEW t \in U, turn[t].at \in Judged
        PROVE  turn[t].done = Len(turn[t].kept) /\ turn[t].audit.types = Types(turn[t].kept)
    BY <2>3 DEF IInv, Sound, Audited, Users
  <2>4. L \in Seq(LineSet) /\ IsFiniteSet(U) /\ \A t \in U : Begun(turn[t])
    BY <2>1 DEF FileRight
  <2>5. PICK c \in Nat, g \in Nat, x \in Nat :
          c = Cardinality(BrokenIn(L)) /\ g = Cardinality(FailedOf(U, turn)) /\ x = Lost(L, U, turn)
    BY <2>4, CountsAreNatural
  <2>6. x <= c /\ c <= g
    <3>1. x + (IF e = "torn" THEN 1 ELSE 0) <= c /\ c + (IF e = "whole" THEN 1 ELSE 0) <= g
      BY <2>1, <2>5 DEF FileRight, Counts
    <3> QED
      BY <3>1
  <2>7. Lost(L, U, turn) = SumFunction([t \in U |-> Cardinality(Missing(f, t))])
    <3>1. \A t \in U : Missing(f, t) = MissingIn(L, t, turn[t])
      BY DEF Missing, MissingIn, Own, OwnIn
    <3>2. MissingOf(L, U, turn) = [t \in U |-> Cardinality(Missing(f, t))]
      BY <3>1 DEF MissingOf
    <3>3. DOMAIN MissingOf(L, U, turn) = U
      BY DEF MissingOf
    <3> QED
      BY <3>2, <3>3 DEF Lost, SumFunction
  <2>8. BrokenLines(f) = BrokenIn(L) /\ FailedOf(U, turn) = {t \in U : turn[t].at = "failed"}
        /\ \A t : Own(f, t) = OwnIn(L, t)
    BY DEF BrokenLines, BrokenIn, FailedOf, Own, OwnIn
  <2>9. SumFunction([t \in U |-> Cardinality(Missing(f, t))]) <= Cardinality(BrokenLines(f))
        /\ Cardinality(BrokenLines(f)) <= Cardinality({t \in U : turn[t].at = "failed"})
    BY <2>5, <2>6, <2>7, <2>8
  <2> QED
    BY <2>2, <2>3, <2>8, <2>9 DEF Judged
<1> QED
  BY <1>1, InitIInv, StepIInv, InitLoadInv, StepLoadInv, InitFilesInv, StepFilesInv, PTL DEF Spec

\* What the configuration says is what the policy holds.
LEMMA SaidIsPolicy ==
  ASSUME LoadInv, load = "done", NEW default
  PROVE  /\ \A f \in Memory : Said(f, default) = policy[f]
         /\ Said("max_session_events", 100) = policy.max_session_events
<1>1. Accepted(data) /\ policy = Policy(data)
  BY DEF LoadInv, LoadTyped
<1>2. ASSUME NEW f PROVE <<"memory_policy", f>> \in Seq({"memory_policy", f})
  OBVIOUS
<1>3. ASSUME NEW f
      PROVE  LET p == <<"memory_policy", f>>
             IN  IF Holds(p) THEN p \in DOMAIN data /\ data[p] = Nearest(p)[p] ELSE p \notin DOMAIN data
  <2>1. PICK p, S : p = <<"memory_policy", f>> /\ S = {"memory_policy", f}
    OBVIOUS
  <2>2. p \in Seq(S)
    BY <1>2, <2>1
  <2>3. IF Holds(p) THEN p \in DOMAIN data /\ data[p] = Nearest(p)[p] ELSE p \notin DOMAIN data
    BY <2>2, DataIsHeld
  <2> QED
    BY <2>1, <2>3
<1>4. ASSUME NEW f \in Memory PROVE Said(f, default) = policy[f]
  <2>1. PICK own, old : own = <<"memory_policy", f>> /\ old = <<"memory_policy", Alias[f]>>
    OBVIOUS
  <2>2. policy[f] = At(data, own, At(data, old, Null)) /\ policy[f] # Null
    BY <1>1, <2>1, MemorySettings DEF Accepted
  <2>3. /\ IF Holds(own) THEN own \in DOMAIN data /\ data[own] = Nearest(own)[own] ELSE own \notin DOMAIN data
        /\ IF Holds(old) THEN old \in DOMAIN data /\ data[old] = Nearest(old)[old] ELSE old \notin DOMAIN data
    BY <1>3, <2>1
  <2>4. f \in DOMAIN Alias
    BY DEF Memory, Alias
  <2>5. Said(f, default) = IF Holds(own) THEN Nearest(own)[own]
                           ELSE IF Holds(old) THEN Nearest(old)[old] ELSE default
    BY <2>1, <2>4 DEF Said
  <2> QED
    BY <2>2, <2>3, <2>5 DEF At
<1>5. Said("max_session_events", 100) = policy.max_session_events
  <2>1. PICK own : own = <<"memory_policy", "max_session_events">>
    OBVIOUS
  <2>2. policy.max_session_events = At(data, own, 100)
    BY <1>1, <2>1, MemorySettings
  <2>3. IF Holds(own) THEN own \in DOMAIN data /\ data[own] = Nearest(own)[own] ELSE own \notin DOMAIN data
    BY <1>3, <2>1
  <2>4. "max_session_events" \notin DOMAIN Alias
    BY DEF Alias
  <2>5. Said("max_session_events", 100) = IF Holds(own) THEN Nearest(own)[own] ELSE 100
    BY <2>1, <2>4 DEF Said
  <2> QED
    BY <2>2, <2>3, <2>5 DEF At
<1> QED
  BY <1>4, <1>5

LEMMA FewPlaced ==
  ASSUME NEW L \in Seq(LineSet), NEW t, NEW r, Begun(r), PlacedIn(L, t, r)
  PROVE  Cardinality(OwnIn(L, t)) <= Len(r.kept)
<1>1. PICK n \in Nat, m \in Nat : DOMAIN L = 1..n /\ m = Len(r.kept)
  BY DEF Begun
<1>2. OwnIn(L, t) \subseteq 1..n /\ IsFiniteSet(OwnIn(L, t)) /\ Cardinality(OwnIn(L, t)) \in Nat
  <2>1. OwnIn(L, t) \subseteq 1..n /\ IsFiniteSet(1..n)
    BY <1>1, FS_Interval DEF OwnIn
  <2> QED
    BY <2>1, FS_Subset, FS_CardinalityType
<1>3. PICK place \in [OwnIn(L, t) -> 1..Reach(r)] :
        \A i, j \in OwnIn(L, t) : i < j => place[i] < place[j]
  BY DEF PlacedIn
<1>4. \A i \in 1..Reach(r) : i \in 1..m
  BY <1>1 DEF Begun, Reach
<1>5. place \in [OwnIn(L, t) -> 1..m]
  BY <1>3, <1>4
<1>6. IsFiniteSet(1..m) /\ Cardinality(1..m) = m
  BY FS_Interval
<1>7. ASSUME m < Cardinality(OwnIn(L, t)) PROVE FALSE
  <2>1. PICK i \in OwnIn(L, t), j \in OwnIn(L, t) : i # j /\ place[i] = place[j]
    BY <1>2, <1>5, <1>6, <1>7, FS_PigeonHole
  <2>2. i \in Nat /\ j \in Nat /\ place[i] \in Nat /\ place[j] \in Nat
    BY <1>2, <1>5
  <2>3. i < j \/ j < i
    BY <2>1, <2>2
  <2> QED
    BY <1>3, <2>1, <2>2, <2>3
<1> QED
  BY <1>1, <1>2, <1>7

(* Whatever the configuration files say, however turns share a file and    *)
(* wherever they fail: no line of it holds what the settings have not      *)
(* allowed that the nearest file giving a current name or, where none      *)
(* does, the nearest giving the older one sets; nor has any one turn more  *)
(* lines in it than its cap, if that is not 0 (configured_memory.py:24-78, *)
(* agent_config.py:182-215).                                               *)
THEOREM StoredIsAllowed == Spec => []StoredObeysConfiguration
<1>1. ASSUME IInv, LoadInv, FilesInv PROVE StoredObeysConfiguration
  <2> SUFFICES ASSUME NEW f \in Files
               PROVE  /\ \A i \in DOMAIN files[f].lines \ BrokenLines(f) :
                           LET e == files[f].lines[i].event
                           IN  /\ e.customer = "plain" => Said("retain_sensitive_data", FALSE)
                               /\ e.provenance => Said("retain_provenance", FALSE)
                               /\ e.kind \in KindOf[Said("retention_mode", "none")]
                      /\ \A t \in Turns : Own(f, t) # {} =>
                           LET cap == Said("max_session_events", 100)
                           IN  cap > 0 => Cardinality(Own(f, t)) <= cap
    BY DEF StoredObeysConfiguration
  <2> DEFINE L == files[f].lines
             U == Users(f)
  <2>1. /\ L \in Seq(LineSet) /\ U \subseteq Turns
        /\ \A t \in U : Begun(turn[t]) /\ PlacedIn(L, t, turn[t])
        /\ \A t \in Turns \ U : OwnIn(L, t) = {}
    BY <1>1 DEF FilesInv, FileRight
  <2>2. \A t \in U : Retained(policy, turn[t].kept) /\ load = "done"
    BY <1>1 DEF IInv, Sound, Kept, Users
  <2>3. ASSUME NEW i \in DOMAIN L, L[i] # Broken
        PROVE  load = "done" /\ Obeys(policy, L[i].event)
    <3>1. L[i] \in LineSet
      BY <2>1, <2>3
    <3>2. PICK t \in Turns : L[i].by = t
      BY <2>3, <3>1, LineFacts
    <3>3. i \in OwnIn(L, t)
      BY <2>3, <3>2 DEF OwnIn
    <3>4. t \in U
      BY <2>1, <3>3
    <3>5. PICK k \in 1..Reach(turn[t]) : L[i].event = turn[t].kept[k]
      BY <2>1, <3>3, <3>4 DEF PlacedIn
    <3>6. Begun(turn[t])
      BY <2>1, <3>4
    <3>7. k \in DOMAIN turn[t].kept
      BY <3>5, <3>6 DEF Begun, Reach
    <3> QED
      BY <2>2, <3>4, <3>5, <3>7 DEF Retained
  <2>4. ASSUME NEW i \in DOMAIN L, L[i] # Broken
        PROVE  /\ L[i].event.customer = "plain" => Said("retain_sensitive_data", FALSE)
               /\ L[i].event.provenance => Said("retain_provenance", FALSE)
               /\ L[i].event.kind \in KindOf[Said("retention_mode", "none")]
    <3>1. load = "done" /\ Obeys(policy, L[i].event)
      BY <2>3, <2>4
    <3>2. /\ Said("retain_sensitive_data", FALSE) = policy.retain_sensitive_data
          /\ Said("retain_provenance", FALSE) = policy.retain_provenance
          /\ Said("retention_mode", "none") = policy.retention_mode
      BY <1>1, <3>1, SaidIsPolicy DEF Memory
    <3> QED
      BY <3>1, <3>2 DEF Obeys
  <2>5. ASSUME NEW t \in Turns, OwnIn(L, t) # {}, Said("max_session_events", 100) > 0
        PROVE  Cardinality(OwnIn(L, t)) <= Said("max_session_events", 100)
    <3>1. t \in U
      BY <2>1, <2>5
    <3> QED
      <4>1. load = "done" /\ Retained(policy, turn[t].kept)
        BY <2>2, <3>1
      <4>2. Said("max_session_events", 100) = policy.max_session_events /\ Usable(policy)
        BY <1>1, <4>1, SaidIsPolicy, LoadedIsUsable
      <4>3. PICK cap \in Nat : cap = Said("max_session_events", 100) /\ Len(turn[t].kept) <= cap
        BY <2>5, <4>1, <4>2 DEF Retained, Usable
      <4>4. Begun(turn[t]) /\ PlacedIn(L, t, turn[t])
        BY <2>1, <3>1
      <4>5. Cardinality(OwnIn(L, t)) <= Len(turn[t].kept)
        BY <2>1, <4>4, FewPlaced
      <4>6. IsFiniteSet(OwnIn(L, t)) /\ Cardinality(OwnIn(L, t)) \in Nat
        <5>1. PICK n \in Nat : DOMAIN L = 1..n
          BY <2>1
        <5>2. OwnIn(L, t) \subseteq 1..n /\ IsFiniteSet(1..n)
          BY <5>1, FS_Interval DEF OwnIn
        <5> QED
          BY <5>2, FS_Subset, FS_CardinalityType
      <4>7. Len(turn[t].kept) \in Nat
        BY <4>4 DEF Begun
      <4> QED
        BY <4>3, <4>5, <4>6, <4>7
  <2>6. BrokenLines(f) = {i \in DOMAIN L : L[i] = Broken} /\ \A t : Own(f, t) = OwnIn(L, t)
    BY DEF BrokenLines, Own, OwnIn
  <2> QED
    BY <2>4, <2>5, <2>6
<1> QED
  BY <1>1, InitIInv, StepIInv, InitLoadInv, StepLoadInv, InitFilesInv, StepFilesInv, PTL DEF Spec
-----------------------------------------------------------------------------
=============================================================================
