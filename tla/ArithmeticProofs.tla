--------------------------- MODULE ArithmeticProofs ---------------------------
(***************************************************************************)
(* Lemmas about what the models compute with: rounded division, finite     *)
(* sums (SumFunctionOnSet of the community modules) and least elements.    *)
(* The lemmas about sums go by induction on the set that is summed over;   *)
(* induction is stated with a set in the place of a predicate, so that it  *)
(* is an ordinary fact for the provers.                                    *)
(***************************************************************************)
EXTENDS FixedPoint, Functions, FiniteSetTheorems, WellFoundedInduction, TLAPS

-----------------------------------------------------------------------------
(* Rounded division.                                                       *)

\* The quotient and the remainder of a division.
LEMMA DivisionFacts ==
  ASSUME NEW a \in Int, NEW b \in Nat \ {0}
  PROVE  /\ a \div b \in Int /\ a % b \in Int
         /\ 0 <= a % b /\ a % b < b
         /\ a = b * (a \div b) + (a % b)
OBVIOUS

\* The rounded quotient is an integer at most half a divisor off.
LEMMA RoundingError ==
  ASSUME NEW a \in Int, NEW b \in Nat \ {0}
  PROVE  /\ RoundedDiv(a, b) \in Int
         /\ 2 * (b * RoundedDiv(a, b) - a) <= b
         /\ -b <= 2 * (b * RoundedDiv(a, b) - a)
<1> DEFINE q == a \div b
<1> DEFINE r == a % b
<1>1. q \in Int /\ r \in Int /\ 0 <= r /\ r < b /\ a = b * q + r
  BY DivisionFacts
<1>2. RoundedDiv(a, b) = q \/ RoundedDiv(a, b) = q + 1
  BY <1>1 DEF RoundedDiv
<1>3. CASE RoundedDiv(a, b) = q
  <2>1. 2 * r <= b
    BY <1>1, <1>3 DEF RoundedDiv
  <2> QED
    BY <1>1, <1>3, <2>1
<1>4. CASE RoundedDiv(a, b) = q + 1
  <2>1. 2 * r >= b
    BY <1>1, <1>4 DEF RoundedDiv
  <2>2. b * (q + 1) = b * q + b
    BY <1>1
  <2> QED
    BY <1>1, <1>4, <2>1, <2>2
<1> QED
  BY <1>2, <1>3, <1>4

\* Multiplying by a positive divisor keeps what is apart apart.
LEMMA ProductGap ==
  ASSUME NEW b \in Nat \ {0}, NEW m \in Int, NEW n \in Int, m < n
  PROVE  b * m + b <= b * n
<1>1. PICK k \in Nat : n = m + 1 + k
  <2>1. n - m - 1 \in Nat
    OBVIOUS
  <2> QED
    BY <2>1
<1>2. b * n = b * m + b + b * k
  BY <1>1
<1>3. b * k \in Nat
  BY <1>1
<1> QED
  BY <1>2, <1>3

\* There is one quotient.
LEMMA DivisionUnique ==
  ASSUME NEW b \in Nat \ {0}, NEW q \in Int, NEW r \in Int, 0 <= r, r < b
  PROVE  (b * q + r) \div b = q /\ (b * q + r) % b = r
<1> DEFINE p == (b * q + r) \div b
<1> DEFINE s == (b * q + r) % b
<1>1. /\ p \in Int /\ s \in Int /\ 0 <= s /\ s < b
      /\ b * q + r = b * p + s
  BY DivisionFacts
<1>2. ~ (p < q)
  BY <1>1, ProductGap
<1>3. ~ (q < p)
  BY <1>1, ProductGap
<1> QED
  BY <1>1, <1>2, <1>3

\* Rounding keeps order.
LEMMA RoundingMonotone ==
  ASSUME NEW a \in Int, NEW c \in Int, NEW b \in Nat \ {0}, a <= c
  PROVE  RoundedDiv(a, b) <= RoundedDiv(c, b)
<1> DEFINE m == RoundedDiv(a, b)
<1> DEFINE n == RoundedDiv(c, b)
<1>1. m \in Int /\ n \in Int /\ 2 * (b * m - a) <= b /\ -b <= 2 * (b * n - c)
  BY RoundingError
<1>2. CASE n < m
  <2>1. b * n + b <= b * m
    BY <1>1, <1>2, ProductGap
  <2>2. a = c
    BY <1>1, <2>1
  <2> QED
    BY <1>1, <1>2, <2>2
<1> QED
  BY <1>1, <1>2

\* Rounding is symmetric: a tie goes to the even quotient on either side.
LEMMA RoundingSymmetric ==
  ASSUME NEW a \in Int, NEW b \in Nat \ {0}
  PROVE  RoundedDiv(-a, b) = -RoundedDiv(a, b)
<1> DEFINE q == a \div b
<1> DEFINE r == a % b
<1>1. q \in Int /\ r \in Int /\ 0 <= r /\ r < b /\ a = b * q + r
  BY DivisionFacts
<1>2. CASE r = 0
  <2>1. -a = b * (-q) + 0
    BY <1>1, <1>2
  <2>2. (-a) \div b = -q /\ (-a) % b = 0
    <3>1. -q \in Int /\ 0 \in Int /\ 0 <= 0 /\ 0 < b
      BY <1>1
    <3>2. (b * (-q) + 0) \div b = -q /\ (b * (-q) + 0) % b = 0
      BY <3>1, DivisionUnique
    <3> QED
      BY <2>1, <3>2
  <2>3. RoundedDiv(-a, b) = -q /\ RoundedDiv(a, b) = q
    BY <1>1, <1>2, <2>2 DEF RoundedDiv
  <2> QED
    BY <2>3
<1>3. CASE r > 0
  <2>1. -a = b * (-q - 1) + (b - r)
    BY <1>1
  <2>2. (-a) \div b = -q - 1 /\ (-a) % b = b - r
    <3>1. -q - 1 \in Int /\ b - r \in Int /\ 0 <= b - r /\ b - r < b
      BY <1>1, <1>3
    <3>2. /\ (b * (-q - 1) + (b - r)) \div b = -q - 1
          /\ (b * (-q - 1) + (b - r)) % b = b - r
      BY <3>1, DivisionUnique
    <3> QED
      BY <2>1, <3>2
  <2>3. q % 2 = 1 <=> (-q - 1) % 2 # 1
    BY <1>1
  <2>4. CASE 2 * r > b
    BY <1>1, <2>2, <2>4 DEF RoundedDiv
  <2>5. CASE 2 * r < b
    BY <1>1, <2>2, <2>5 DEF RoundedDiv
  <2>6. CASE 2 * r = b
    BY <1>1, <2>2, <2>3, <2>6 DEF RoundedDiv
  <2> QED
    BY <1>1, <2>4, <2>5, <2>6
<1> QED
  BY <1>1, <1>2, <1>3

\* A whole quotient is not rounded.
LEMMA RoundingExact ==
  ASSUME NEW q \in Int, NEW b \in Nat \ {0}
  PROVE  RoundedDiv(b * q, b) = q
<1>1. b * q + 0 = b * q /\ b * q \in Int
  OBVIOUS
<1>2. (b * q) \div b = q /\ (b * q) % b = 0
  BY <1>1, DivisionUnique
<1> QED
  BY <1>2 DEF RoundedDiv

\* What lies between two whole quotients is rounded between them.
LEMMA RoundingBounds ==
  ASSUME NEW a \in Int, NEW b \in Nat \ {0}, NEW lo \in Int, NEW hi \in Int,
         b * lo <= a, a <= b * hi
  PROVE  lo <= RoundedDiv(a, b) /\ RoundedDiv(a, b) <= hi
<1>1. RoundedDiv(b * lo, b) = lo /\ RoundedDiv(b * hi, b) = hi
  BY RoundingExact
<1>2. b * lo \in Int /\ b * hi \in Int
  OBVIOUS
<1>3. RoundedDiv(b * lo, b) <= RoundedDiv(a, b)
  BY <1>2, RoundingMonotone
<1>4. RoundedDiv(a, b) <= RoundedDiv(b * hi, b)
  BY <1>2, RoundingMonotone
<1> QED
  BY <1>1, <1>3, <1>4

-----------------------------------------------------------------------------
(* Induction. *)

\* A place before one of n places.
LEMMA EarlierPlace ==
  ASSUME NEW n \in Nat, NEW l \in 1..n, NEW k \in 1..(l - 1)
  PROVE  k \in 1..n /\ ~(l <= k)
OBVIOUS

\* Every nonempty set of natural numbers has a least element.
LEMMA LeastElement ==
  ASSUME NEW T \in SUBSET Nat, T # {}
  PROVE  \E m \in T : \A n \in T : m <= n
<1>1. \E m \in T : \A n \in T : ~ (<<n, m>> \in OpToRel(<, Nat))
  BY NatLessThanWellFounded, WFMin
<1>2. PICK m \in T : \A n \in T : ~ (<<n, m>> \in OpToRel(<, Nat))
  BY <1>1
<1>3. ASSUME NEW n \in T PROVE m <= n
  <2>1. n \in Nat /\ m \in Nat
    OBVIOUS
  <2>2. <<n, m>> \notin OpToRel(<, Nat)
    BY <1>2
  <2>3. ~ (n < m)
    BY <2>1, <2>2 DEF OpToRel
  <2> QED
    BY <2>1, <2>3
<1> QED
  BY <1>3

\* Induction over the natural numbers: a set that has 0, and with a number
\* the next one, has them all.
LEMMA InductionOverNat ==
  ASSUME NEW C, 0 \in C, \A n \in Nat : n \in C => n + 1 \in C
  PROVE  Nat \subseteq C
<1> SUFFICES ASSUME Nat \ C # {} PROVE FALSE
  OBVIOUS
<1>1. PICK m \in Nat \ C : \A n \in Nat \ C : m <= n
  BY LeastElement
<1>2. m # 0 /\ m - 1 \in Nat /\ m - 1 \in C
  BY <1>1
<1> QED
  BY <1>1, <1>2

\* The same up to a bound.
LEMMA InductionUpTo ==
  ASSUME NEW L \in Nat, NEW C, 0 \in C, \A k \in 1..L : k - 1 \in C => k \in C
  PROVE  0..L \subseteq C
<1> DEFINE T == {k \in 0..L : k \notin C}
<1>1. ASSUME T # {} PROVE FALSE
  <2>1. T \in SUBSET Nat
    OBVIOUS
  <2>2. PICK m \in T : \A n \in T : m <= n
    <3> HIDE DEF T
    <3> QED
      BY <1>1, <2>1, LeastElement
  <2>3. m \in 1..L /\ m - 1 \in 0..L /\ ~(m <= m - 1)
    BY <2>2
  <2> QED
    BY <2>2, <2>3
<1> QED
  BY <1>1

\* A sequence of steps, each from the result of the one before
StepsFrom(V, n, base, step) ==
  {F \in [0..n -> V] : F[0] = base /\ \A k \in 1..n : F[k] = step[k][F[k - 1]]}

LEMMA StepsExist ==
  ASSUME NEW V, NEW n \in Nat, NEW base \in V, NEW step \in [1..n -> [V -> V]]
  PROVE  StepsFrom(V, n, base, step) # {}
<1> DEFINE Steps(m) ==
             {F \in [0..m -> V] : F[0] = base /\ \A k \in 1..m : F[k] = step[k][F[k - 1]]}
           C == {m \in 0..n : Steps(m) # {}}
<1>1. Steps(0) # {}
  <2> DEFINE F == [i \in 0..0 |-> base]
  <2>1. F \in [0..0 -> V] /\ F[0] = base /\ \A k \in 1..0 : F[k] = step[k][F[k - 1]]
    OBVIOUS
  <2> QED
    BY <2>1
<1>2. ASSUME NEW k \in 1..n, Steps(k - 1) # {} PROVE Steps(k) # {}
  <2>1. PICK F \in [0..k - 1 -> V] :
          F[0] = base /\ \A i \in 1..k - 1 : F[i] = step[i][F[i - 1]]
    BY <1>2
  <2>2. PICK v \in V : v = step[k][F[k - 1]]
    BY <2>1
  <2> DEFINE G == [i \in 0..k |-> IF i = k THEN v ELSE F[i]]
  <2>3. G \in [0..k -> V] /\ G[0] = base /\ G[k] = v /\ \A i \in 0..k - 1 : G[i] = F[i]
    BY <2>1, <2>2
  <2> HIDE DEF G
  <2>4. \A i \in 1..k : G[i] = step[i][G[i - 1]]
    <3>1. G[k - 1] = F[k - 1]
      BY <2>3
    <3>2. \A i \in 1..k - 1 : G[i] = F[i] /\ G[i - 1] = F[i - 1]
      BY <2>3
    <3>3. \A i \in 1..k : i = k \/ i \in 1..k - 1
      OBVIOUS
    <3> QED
      BY <2>1, <2>2, <2>3, <3>1, <3>2, <3>3
  <2> QED
    BY <2>3, <2>4
<1> HIDE DEF Steps
<1>3. 0 \in C /\ \A k \in 1..n : k - 1 \in C => k \in C
  BY <1>1, <1>2
<1>4. 0..n \subseteq C
  <2> HIDE DEF C
  <2> QED
    BY <1>3, InductionUpTo
<1>5. Steps(n) # {}
  BY <1>4
<1> QED
  BY <1>5 DEF Steps, StepsFrom

\* Induction over the subsets of a finite set: if some of them are in C, one
\* of these has no smaller one in C.
LEMMA SmallestSubset ==
  ASSUME NEW S, IsFiniteSet(S), NEW C \in SUBSET (SUBSET S), C # {}
  PROVE  \E T \in C : \A U \in C : U \subseteq T => U = T
<1>1. IsWellFoundedOn(StrictSubsetOrdering(S), SUBSET S)
  BY FS_StrictSubsetOrderingWellFounded, FS_FiniteSubsetsOfFinite
<1>2. PICK T \in C : \A U \in C : ~ (<<U, T>> \in StrictSubsetOrdering(S))
  BY <1>1, WFMin
<1>3. ASSUME NEW U \in C, U \subseteq T PROVE U = T
  <2>1. <<U, T>> \in (SUBSET S) \X (SUBSET S)
    OBVIOUS
  <2>2. <<U, T>> \notin StrictSubsetOrdering(S)
    BY <1>2
  <2> QED
    BY <1>3, <2>1, <2>2 DEF StrictSubsetOrdering
<1> QED
  BY <1>3

-----------------------------------------------------------------------------
(* The sum is what its recursion says. *)

Chosen(s) == CHOOSE x \in s : TRUE
SumStep(f, g, s) == IF s = {} THEN 0 ELSE f[Chosen(s)] + g[s \ {Chosen(s)}]
Solves(f, S, g) == g = [s \in SUBSET S |-> SumStep(f, g, s)]

LEMMA ChosenIsElement == ASSUME NEW s, s # {} PROVE Chosen(s) \in s
BY DEF Chosen

LEMMA SumIsSolution ==
  ASSUME NEW S, NEW f, \E g : Solves(f, S, g)
  PROVE  \E g : Solves(f, S, g) /\ SumFunctionOnSet(f, S) = g[S]
<1> DEFINE g == CHOOSE g : Solves(f, S, g)
<1>1. Solves(f, S, g)
  OBVIOUS
<1>2. SumFunctionOnSet(f, S) = g[S]
  BY DEF SumFunctionOnSet, FoldFunctionOnSet, MapThenFoldSet, Solves, SumStep, Chosen
<1> QED
  BY <1>1, <1>2

LEMMA SolutionExists ==
  ASSUME NEW S, IsFiniteSet(S), NEW f
  PROVE  \E g : Solves(f, S, g)
<1> DEFINE Small(n) == {s \in SUBSET S : Cardinality(s) <= n}
<1> DEFINE C == {n \in Nat : \E g : g = [s \in Small(n) |-> SumStep(f, g, s)]}
<1>1. \A s \in SUBSET S : IsFiniteSet(s) /\ Cardinality(s) \in Nat
  BY FS_Subset, FS_CardinalityType
<1>2. 0 \in C
  <2> DEFINE g == [s \in Small(0) |-> 0]
  <2>1. \A s \in Small(0) : s = {}
    BY <1>1, FS_EmptySet
  <2>2. g = [s \in Small(0) |-> SumStep(f, g, s)]
    BY <2>1 DEF SumStep
  <2> QED
    BY <2>2
<1>3. ASSUME NEW n \in Nat, n \in C PROVE n + 1 \in C
  <2>1. PICK g : g = [s \in Small(n) |-> SumStep(f, g, s)]
    BY <1>3
  <2> DEFINE h == [s \in Small(n + 1) |-> SumStep(f, g, s)]
  <2>2. \A s \in Small(n) : s \in Small(n + 1) /\ h[s] = g[s]
    <3>1. \A s \in Small(n) : s \in Small(n + 1)
      BY <1>1
    <3>2. \A s \in Small(n) : g[s] = SumStep(f, g, s)
      BY <2>1
    <3> QED
      BY <3>1, <3>2
  <2>3. ASSUME NEW s \in Small(n + 1) PROVE h[s] = SumStep(f, h, s)
    <3>1. CASE s = {}
      BY <3>1 DEF SumStep
    <3>2. CASE s # {}
      <4>1. s \ {Chosen(s)} \in Small(n)
        <5>1. Chosen(s) \in s /\ s \in SUBSET S /\ Cardinality(s) <= n + 1
          BY <3>2, ChosenIsElement
        <5>2. Cardinality(s \ {Chosen(s)}) = Cardinality(s) - 1
          BY <1>1, <5>1, FS_RemoveElement
        <5> QED
          BY <1>1, <5>1, <5>2
      <4>2. h[s \ {Chosen(s)}] = g[s \ {Chosen(s)}]
        BY <2>2, <4>1
      <4>3. h[s] = SumStep(f, g, s)
        OBVIOUS
      <4> HIDE DEF h
      <4> QED
        BY <3>2, <4>2, <4>3 DEF SumStep
    <3> QED
      BY <3>1, <3>2
  <2>4. h = [s \in Small(n + 1) |-> SumStep(f, h, s)]
    BY <2>3
  <2> HIDE DEF h
  <2> QED
    BY <2>4
<1>4. Cardinality(S) \in C
  BY <1>1, <1>2, <1>3, InductionOverNat
<1>5. Small(Cardinality(S)) = SUBSET S
  BY <1>1, FS_Subset
<1> QED
  BY <1>4, <1>5 DEF Solves

LEMMA SolutionsAgree ==
  ASSUME NEW S, IsFiniteSet(S), NEW T \in SUBSET S, NEW f,
         NEW g, Solves(f, S, g), NEW h, Solves(f, T, h)
  PROVE  g[T] = h[T]
<1> DEFINE C == {u \in SUBSET T : g[u] # h[u]}
<1> SUFFICES ASSUME C # {} PROVE FALSE
  OBVIOUS
<1>1. IsFiniteSet(T)
  BY FS_Subset
<1>2. PICK t \in C : \A u \in C : u \subseteq t => u = t
  <2>1. C \in SUBSET (SUBSET T)
    OBVIOUS
  <2> HIDE DEF C
  <2> QED
    BY <2>1, <1>1, SmallestSubset
<1>3. g[t] = SumStep(f, g, t) /\ h[t] = SumStep(f, h, t)
  BY <1>2 DEF Solves
<1>4. t # {}
  BY <1>2, <1>3 DEF SumStep
<1>5. g[t \ {Chosen(t)}] = h[t \ {Chosen(t)}]
  BY <1>2, <1>4, ChosenIsElement
<1> QED
  BY <1>2, <1>3, <1>4, <1>5 DEF SumStep

\* The recursion itself.
LEMMA SumUnfolds ==
  ASSUME NEW S, IsFiniteSet(S), NEW f
  PROVE  SumFunctionOnSet(f, S) =
           IF S = {} THEN 0 ELSE f[Chosen(S)] + SumFunctionOnSet(f, S \ {Chosen(S)})
<1>1. PICK g : Solves(f, S, g) /\ SumFunctionOnSet(f, S) = g[S]
  BY SolutionExists, SumIsSolution
<1>2. g[S] = SumStep(f, g, S)
  BY <1>1 DEF Solves
<1>3. CASE S = {}
  BY <1>1, <1>2, <1>3 DEF SumStep
<1>4. CASE S # {}
  <2> DEFINE T == S \ {Chosen(S)}
  <2>1. IsFiniteSet(T)
    BY FS_Subset
  <2>2. PICK h : Solves(f, T, h) /\ SumFunctionOnSet(f, T) = h[T]
    BY <2>1, SolutionExists, SumIsSolution
  <2>3. g[T] = h[T]
    BY <1>1, <2>2, SolutionsAgree
  <2> QED
    BY <1>1, <1>2, <1>4, <2>2, <2>3 DEF SumStep
<1> QED
  BY <1>3, <1>4
-----------------------------------------------------------------------------
(* Sums of integers. *)

LEMMA SumEmpty == ASSUME NEW f PROVE SumFunctionOnSet(f, {}) = 0
BY SumUnfolds, FS_EmptySet

LEMMA SumType ==
  ASSUME NEW S, IsFiniteSet(S), NEW f, \A x \in S : f[x] \in Int
  PROVE  SumFunctionOnSet(f, S) \in Int
<1> DEFINE C == {u \in SUBSET S : SumFunctionOnSet(f, u) \notin Int}
<1> SUFFICES ASSUME C # {} PROVE FALSE
  OBVIOUS
<1>1. PICK t \in C : \A u \in C : u \subseteq t => u = t
  <2>1. C \in SUBSET (SUBSET S)
    OBVIOUS
  <2> HIDE DEF C
  <2> QED
    BY <2>1, SmallestSubset
<1>2. IsFiniteSet(t)
  BY FS_Subset
<1>3. t # {}
  <2>1. {} \notin C
    BY SumEmpty
  <2> HIDE DEF C
  <2> QED
    BY <1>1, <2>1
<1>4. SumFunctionOnSet(f, t \ {Chosen(t)}) \in Int /\ Chosen(t) \in t
  BY <1>1, <1>3, ChosenIsElement
<1>5. f[Chosen(t)] \in Int
  BY <1>4
<1>6. SumFunctionOnSet(f, t) = f[Chosen(t)] + SumFunctionOnSet(f, t \ {Chosen(t)})
  BY <1>2, <1>3, SumUnfolds
<1>7. SumFunctionOnSet(f, t) \in Int
  BY <1>4, <1>5, <1>6
<1> QED
  BY <1>1, <1>7

\* Any element may be taken out first.
LEMMA SumRemove ==
  ASSUME NEW S, IsFiniteSet(S), NEW f, \A x \in S : f[x] \in Int, NEW x \in S
  PROVE  SumFunctionOnSet(f, S) = f[x] + SumFunctionOnSet(f, S \ {x})
<1> DEFINE Sum(u) == SumFunctionOnSet(f, u)
<1> DEFINE C == {u \in SUBSET S : \E y \in u : Sum(u) # f[y] + Sum(u \ {y})}
<1> SUFFICES ASSUME C # {} PROVE FALSE
  OBVIOUS
<1>1. PICK t \in C : \A u \in C : u \subseteq t => u = t
  <2>1. C \in SUBSET (SUBSET S)
    OBVIOUS
  <2> HIDE DEF C
  <2> QED
    BY <2>1, SmallestSubset
<1>2. PICK y \in t : Sum(t) # f[y] + Sum(t \ {y})
  BY <1>1
<1> DEFINE c == Chosen(t)
<1>3. IsFiniteSet(t) /\ c \in t
  BY <1>2, FS_Subset, ChosenIsElement
<1>4. Sum(t) = f[c] + Sum(t \ {c})
  BY <1>2, <1>3, SumUnfolds
<1>5. c # y
  BY <1>2, <1>4
<1> HIDE DEF c
<1>6. Sum(t \ {c}) = f[y] + Sum((t \ {c}) \ {y})
  <2>1. t \ {c} \notin C /\ t \ {c} \in SUBSET S
    BY <1>1, <1>3
  <2> QED
    BY <1>5, <2>1
<1>7. Sum(t \ {y}) = f[c] + Sum((t \ {y}) \ {c})
  <2>1. t \ {y} \notin C /\ t \ {y} \in SUBSET S
    BY <1>1
  <2> QED
    BY <1>3, <1>5, <2>1
<1>8. (t \ {c}) \ {y} = (t \ {y}) \ {c}
  OBVIOUS
<1>9. Sum((t \ {c}) \ {y}) \in Int /\ f[c] \in Int /\ f[y] \in Int
  <2>1. IsFiniteSet((t \ {c}) \ {y})
    BY <1>3, FS_Subset
  <2>2. \A z \in (t \ {c}) \ {y} : f[z] \in Int
    OBVIOUS
  <2> QED
    BY <1>3, <2>1, <2>2, SumType
<1> DEFINE z == Sum((t \ {c}) \ {y})
<1>10. Sum(t) = f[c] + (f[y] + z) /\ Sum(t \ {y}) = f[c] + z
  BY <1>4, <1>6, <1>7, <1>8
<1> HIDE DEF Sum, C
<1>11. z \in Int
  BY <1>9
<1> HIDE DEF z
<1>12. f[y] + (f[c] + z) = f[c] + (f[y] + z)
  BY <1>9, <1>11
<1> QED
  BY <1>2, <1>10, <1>12

LEMMA SumAdd ==
  ASSUME NEW S, IsFiniteSet(S), NEW f, NEW x, x \notin S, \A y \in S \union {x} : f[y] \in Int
  PROVE  SumFunctionOnSet(f, S \union {x}) = f[x] + SumFunctionOnSet(f, S)
<1>1. IsFiniteSet(S \union {x}) /\ (S \union {x}) \ {x} = S
  BY FS_AddElement
<1>2. SumFunctionOnSet(f, S \union {x}) = f[x] + SumFunctionOnSet(f, (S \union {x}) \ {x})
  BY <1>1, SumRemove
<1> QED
  BY <1>1, <1>2

\* A sum depends on the values on its set only, and grows with them.
LEMMA SumOrdered ==
  ASSUME NEW S, IsFiniteSet(S), NEW f, NEW g,
         \A x \in S : f[x] \in Int /\ g[x] \in Int /\ f[x] <= g[x]
  PROVE  SumFunctionOnSet(f, S) <= SumFunctionOnSet(g, S)
<1> DEFINE C == {u \in SUBSET S : ~(SumFunctionOnSet(f, u) <= SumFunctionOnSet(g, u))}
<1> SUFFICES ASSUME C # {} PROVE FALSE
  OBVIOUS
<1>1. PICK t \in C : \A u \in C : u \subseteq t => u = t
  <2>1. C \in SUBSET (SUBSET S)
    OBVIOUS
  <2> HIDE DEF C
  <2> QED
    BY <2>1, SmallestSubset
<1>2. IsFiniteSet(t)
  BY FS_Subset
<1>3. t # {}
  <2>1. {} \notin C
    BY SumEmpty
  <2> HIDE DEF C
  <2> QED
    BY <1>1, <2>1
<1>4. PICK x : x \in t
  BY <1>3
<1> DEFINE r == t \ {x}
<1>5. SumFunctionOnSet(f, r) <= SumFunctionOnSet(g, r)
  BY <1>1, <1>4
<1>6. /\ SumFunctionOnSet(f, t) = f[x] + SumFunctionOnSet(f, r)
      /\ SumFunctionOnSet(g, t) = g[x] + SumFunctionOnSet(g, r)
  BY <1>2, <1>4, SumRemove
<1>7. SumFunctionOnSet(f, r) \in Int /\ SumFunctionOnSet(g, r) \in Int
  <2>1. IsFiniteSet(r) /\ r \subseteq S
    BY <1>2, FS_Subset
  <2> QED
    BY <2>1, SumType
<1>8. f[x] \in Int /\ g[x] \in Int /\ f[x] <= g[x]
  BY <1>4
<1> HIDE DEF r
<1>9. SumFunctionOnSet(f, t) <= SumFunctionOnSet(g, t)
  BY <1>5, <1>6, <1>7, <1>8
<1> QED
  BY <1>1, <1>9

LEMMA SumOnlyValues ==
  ASSUME NEW S, IsFiniteSet(S), NEW f, NEW g, \A x \in S : f[x] \in Int /\ f[x] = g[x]
  PROVE  SumFunctionOnSet(f, S) = SumFunctionOnSet(g, S)
<1>1. /\ \A x \in S : f[x] \in Int /\ g[x] \in Int /\ f[x] <= g[x]
      /\ \A x \in S : g[x] \in Int /\ f[x] \in Int /\ g[x] <= f[x]
  OBVIOUS
<1>2. SumFunctionOnSet(f, S) <= SumFunctionOnSet(g, S) /\ SumFunctionOnSet(g, S) <= SumFunctionOnSet(f, S)
  BY <1>1, SumOrdered
<1>3. SumFunctionOnSet(f, S) \in Int /\ SumFunctionOnSet(g, S) \in Int
  BY <1>1, SumType
<1> QED
  BY <1>2, <1>3

\* A sum of multiples.
LEMMA SumLinear ==
  ASSUME NEW S, IsFiniteSet(S), NEW f, NEW g, NEW h, NEW a \in Int, NEW b \in Int,
         \A x \in S : f[x] \in Int /\ g[x] \in Int /\ h[x] = a * f[x] + b * g[x]
  PROVE  SumFunctionOnSet(h, S) = a * SumFunctionOnSet(f, S) + b * SumFunctionOnSet(g, S)
<1> DEFINE Right(u) == a * SumFunctionOnSet(f, u) + b * SumFunctionOnSet(g, u)
<1> DEFINE C == {u \in SUBSET S : SumFunctionOnSet(h, u) # Right(u)}
<1> SUFFICES ASSUME C # {} PROVE FALSE
  OBVIOUS
<1>1. PICK t \in C : \A u \in C : u \subseteq t => u = t
  <2>1. C \in SUBSET (SUBSET S)
    OBVIOUS
  <2> HIDE DEF C
  <2> QED
    BY <2>1, SmallestSubset
<1>2. IsFiniteSet(t)
  BY FS_Subset
<1>3. t # {}
  <2>1. a * 0 + b * 0 = 0
    OBVIOUS
  <2> QED
    BY <1>1, <2>1, SumEmpty
<1>4. PICK x : x \in t
  BY <1>3
<1> DEFINE r == t \ {x}
<1>5. SumFunctionOnSet(h, r) = Right(r)
  BY <1>1, <1>4
<1>6. \A y \in S : f[y] \in Int /\ g[y] \in Int /\ h[y] \in Int
  OBVIOUS
<1>7. /\ SumFunctionOnSet(f, t) = f[x] + SumFunctionOnSet(f, r)
      /\ SumFunctionOnSet(g, t) = g[x] + SumFunctionOnSet(g, r)
      /\ SumFunctionOnSet(h, t) = h[x] + SumFunctionOnSet(h, r)
  BY <1>2, <1>4, <1>6, SumRemove
<1>8. SumFunctionOnSet(f, r) \in Int /\ SumFunctionOnSet(g, r) \in Int
  <2>1. IsFiniteSet(r) /\ r \subseteq S
    BY <1>2, FS_Subset
  <2> QED
    BY <2>1, <1>6, SumType
<1>9. f[x] \in Int /\ g[x] \in Int /\ h[x] = a * f[x] + b * g[x]
  BY <1>4
<1> HIDE DEF r
<1>10. /\ a * (f[x] + SumFunctionOnSet(f, r)) = a * f[x] + a * SumFunctionOnSet(f, r)
       /\ b * (g[x] + SumFunctionOnSet(g, r)) = b * g[x] + b * SumFunctionOnSet(g, r)
  BY <1>8, <1>9
<1>11. /\ a * f[x] \in Int /\ b * g[x] \in Int
       /\ a * SumFunctionOnSet(f, r) \in Int /\ b * SumFunctionOnSet(g, r) \in Int
  BY <1>8, <1>9
<1>12. SumFunctionOnSet(h, t) = Right(t)
  BY <1>5, <1>7, <1>9, <1>10, <1>11
<1> QED
  BY <1>1, <1>12

LEMMA SumConstant ==
  ASSUME NEW S, IsFiniteSet(S), NEW f, NEW c \in Int, \A x \in S : f[x] = c
  PROVE  SumFunctionOnSet(f, S) = c * Cardinality(S)
<1> DEFINE C == {u \in SUBSET S : SumFunctionOnSet(f, u) # c * Cardinality(u)}
<1> SUFFICES ASSUME C # {} PROVE FALSE
  OBVIOUS
<1>1. PICK t \in C : \A u \in C : u \subseteq t => u = t
  <2>1. C \in SUBSET (SUBSET S)
    OBVIOUS
  <2> HIDE DEF C
  <2> QED
    BY <2>1, SmallestSubset
<1>2. IsFiniteSet(t)
  BY FS_Subset
<1>3. t # {}
  <2>1. c * 0 = 0
    OBVIOUS
  <2> QED
    BY <1>1, <2>1, SumEmpty, FS_EmptySet
<1>4. PICK x : x \in t
  BY <1>3
<1> DEFINE r == t \ {x}
<1>5. SumFunctionOnSet(f, r) = c * Cardinality(r)
  BY <1>1, <1>4
<1>6. SumFunctionOnSet(f, t) = c + SumFunctionOnSet(f, r)
  BY <1>2, <1>4, SumRemove
<1>7. Cardinality(r) = Cardinality(t) - 1 /\ Cardinality(t) \in Nat
  BY <1>2, <1>4, FS_RemoveElement, FS_CardinalityType
<1> HIDE DEF r
<1>8. c * Cardinality(t) = c + c * (Cardinality(t) - 1)
  BY <1>7
<1> QED
  BY <1>1, <1>5, <1>6, <1>7, <1>8

\* A sum lies between as many times its least and its greatest value.
LEMMA SumBetween ==
  ASSUME NEW S, IsFiniteSet(S), NEW f, NEW low \in Int, NEW high \in Int,
         \A x \in S : f[x] \in Int /\ low <= f[x] /\ f[x] <= high
  PROVE  /\ low * Cardinality(S) <= SumFunctionOnSet(f, S)
         /\ SumFunctionOnSet(f, S) <= high * Cardinality(S)
<1> DEFINE l == [x \in S |-> low]
<1> DEFINE h == [x \in S |-> high]
<1>1. SumFunctionOnSet(l, S) = low * Cardinality(S) /\ SumFunctionOnSet(h, S) = high * Cardinality(S)
  BY SumConstant
<1>2. SumFunctionOnSet(l, S) <= SumFunctionOnSet(f, S) /\ SumFunctionOnSet(f, S) <= SumFunctionOnSet(h, S)
  BY SumOrdered
<1> QED
  BY <1>1, <1>2

\* A sum over two sets that have no element in common.
LEMMA SumParts ==
  ASSUME NEW S, IsFiniteSet(S), NEW T \in SUBSET S, NEW f, \A x \in S : f[x] \in Int
  PROVE  SumFunctionOnSet(f, S) = SumFunctionOnSet(f, T) + SumFunctionOnSet(f, S \ T)
<1> DEFINE Part(u) == SumFunctionOnSet(f, u) + SumFunctionOnSet(f, S \ u)
<1> DEFINE C == {u \in SUBSET S : SumFunctionOnSet(f, S) # Part(u)}
<1> SUFFICES ASSUME C # {} PROVE FALSE
  OBVIOUS
<1>1. PICK t \in C : \A u \in C : u \subseteq t => u = t
  <2>1. C \in SUBSET (SUBSET S)
    OBVIOUS
  <2> HIDE DEF C
  <2> QED
    BY <2>1, SmallestSubset
<1>2. /\ \A u \in SUBSET S : IsFiniteSet(u) /\ SumFunctionOnSet(f, u) \in Int
      /\ SumFunctionOnSet(f, {}) = 0 /\ S \ {} = S
  BY FS_Subset, SumType, SumEmpty
<1>3. t # {}
  <2>1. SumFunctionOnSet(f, S) \in Int
    BY <1>2
  <2>2. Part({}) = SumFunctionOnSet(f, S)
    BY <1>2, <2>1
  <2>3. SumFunctionOnSet(f, S) # Part(t)
    BY <1>1
  <2> HIDE DEF Part
  <2> QED
    BY <2>2, <2>3
<1>4. PICK x : x \in t
  BY <1>3
<1> DEFINE r == t \ {x}
<1>5. SumFunctionOnSet(f, S) = Part(r)
  BY <1>1, <1>4
<1>6. SumFunctionOnSet(f, t) = f[x] + SumFunctionOnSet(f, r)
  BY <1>2, <1>4, SumRemove
<1>7. SumFunctionOnSet(f, S \ r) = f[x] + SumFunctionOnSet(f, S \ t)
  <2>1. S \ r = (S \ t) \union {x} /\ x \notin S \ t /\ S \ t \in SUBSET S
    BY <1>4
  <2> QED
    BY <1>2, <2>1, SumAdd
<1>8. f[x] \in Int /\ SumFunctionOnSet(f, r) \in Int /\ SumFunctionOnSet(f, S \ t) \in Int
  BY <1>2, <1>4
<1> HIDE DEF r
<1>9. SumFunctionOnSet(f, S) = Part(t)
  BY <1>5, <1>6, <1>7, <1>8
<1> QED
  BY <1>1, <1>9

-----------------------------------------------------------------------------
(* Weighted means.                                                         *)

LEMMA OrderedProducts ==
  ASSUME NEW x \in Int, NEW y \in Int, x <= y, NEW w \in Nat
  PROVE  x * w <= y * w /\ x * w \in Int /\ y * w \in Int
<1>1. y - x \in Nat
  OBVIOUS
<1>2. (y - x) * w >= 0
  BY <1>1
<1>3. (y - x) * w = y * w - x * w /\ x * w \in Int /\ y * w \in Int
  OBVIOUS
<1> QED
  BY <1>2, <1>3

\* The weighted sum of values between low and high is between as many times
\* the sum of the weights.
LEMMA WeightedBetween ==
  ASSUME NEW S, IsFiniteSet(S), NEW v, NEW w, NEW p, NEW low \in Int, NEW high \in Int,
         \A x \in S : /\ v[x] \in Int /\ low <= v[x] /\ v[x] <= high
                      /\ w[x] \in Nat /\ p[x] = v[x] * w[x]
  PROVE  /\ SumFunctionOnSet(w, S) \in Nat /\ SumFunctionOnSet(p, S) \in Int
         /\ low * SumFunctionOnSet(w, S) <= SumFunctionOnSet(p, S)
         /\ SumFunctionOnSet(p, S) <= high * SumFunctionOnSet(w, S)
<1> DEFINE l == [x \in S |-> low * w[x]]
<1> DEFINE h == [x \in S |-> high * w[x]]
<1>1. \A x \in S : /\ w[x] \in Int /\ 0 <= w[x] /\ p[x] \in Int /\ low * w[x] \in Int /\ high * w[x] \in Int
                   /\ low * w[x] <= p[x] /\ p[x] <= high * w[x]
  BY OrderedProducts
<1>2. SumFunctionOnSet(w, S) \in Int /\ SumFunctionOnSet(p, S) \in Int
  BY <1>1, SumType
<1>3. SumFunctionOnSet(w, S) >= 0
  <2> DEFINE z == [x \in S |-> 0]
  <2>1. SumFunctionOnSet(z, S) = 0 * Cardinality(S)
    BY SumConstant
  <2>2. SumFunctionOnSet(z, S) <= SumFunctionOnSet(w, S)
    BY <1>1, SumOrdered
  <2>3. 0 * Cardinality(S) = 0
    BY FS_CardinalityType
  <2> HIDE DEF z
  <2> QED
    BY <1>2, <2>1, <2>2, <2>3
<1>4. ASSUME NEW c \in Int, NEW q, \A x \in S : q[x] = c * w[x]
      PROVE  SumFunctionOnSet(q, S) = c * SumFunctionOnSet(w, S)
  <2>1. \A x \in S : w[x] \in Int /\ w[x] \in Int /\ q[x] = c * w[x] + 0 * w[x]
    BY <1>1, <1>4
  <2>2. SumFunctionOnSet(q, S) = c * SumFunctionOnSet(w, S) + 0 * SumFunctionOnSet(w, S)
    BY <2>1, SumLinear
  <2> QED
    BY <1>2, <2>2
<1>5. \A x \in S : l[x] = low * w[x] /\ h[x] = high * w[x]
  OBVIOUS
<1>6. SumFunctionOnSet(l, S) <= SumFunctionOnSet(p, S) /\ SumFunctionOnSet(p, S) <= SumFunctionOnSet(h, S)
  BY <1>1, <1>5, SumOrdered
<1> HIDE DEF l, h
<1>7. SumFunctionOnSet(l, S) = low * SumFunctionOnSet(w, S) /\ SumFunctionOnSet(h, S) = high * SumFunctionOnSet(w, S)
  BY <1>4, <1>5
<1> QED
  BY <1>2, <1>3, <1>6, <1>7

LEMMA SumNatural ==
  ASSUME NEW S, IsFiniteSet(S), NEW w, \A x \in S : w[x] \in Nat
  PROVE  SumFunctionOnSet(w, S) \in Nat
<1>1. PICK zero \in Int : zero = 0
  OBVIOUS
<1> DEFINE z == [x \in S |-> zero]
<1> DEFINE p == [x \in S |-> z[x] * w[x]]
<1>2. \A x \in S : z[x] \in Int /\ zero <= z[x] /\ z[x] <= zero /\ w[x] \in Nat /\ p[x] = z[x] * w[x]
  BY <1>1
<1> HIDE DEF z, p
<1> QED
  BY <1>2, WeightedBetween

LEMMA SumPositive ==
  ASSUME NEW S, IsFiniteSet(S), NEW w, \A x \in S : w[x] \in Nat, NEW y \in S, w[y] > 0
  PROVE  SumFunctionOnSet(w, S) \in Nat \ {0}
<1>1. SumFunctionOnSet(w, S) = w[y] + SumFunctionOnSet(w, S \ {y})
  BY SumRemove
<1>2. IsFiniteSet(S \ {y})
  BY FS_Subset
<1>3. SumFunctionOnSet(w, S \ {y}) \in Nat
  BY <1>2, SumNatural
<1> QED
  BY <1>1, <1>3

LEMMA QuotientBetween ==
  ASSUME NEW a \in Int, NEW b \in Nat \ {0}, NEW low \in Int, NEW high \in Int,
         low * b <= a, a <= high * b
  PROVE  low <= a \div b /\ a \div b <= high
<1> DEFINE q == a \div b
<1>1. q \in Int /\ a % b \in Int /\ 0 <= a % b /\ a % b < b /\ a = b * q + (a % b)
  BY DivisionFacts
<1> HIDE DEF q
<1>2. ASSUME q < low PROVE FALSE
  <2>1. (q + 1) * b <= low * b
    BY <1>1, <1>2, OrderedProducts
  <2>2. (q + 1) * b = b * q + b /\ b * q \in Int /\ low * b \in Int
    BY <1>1
  <2> QED
    BY <1>1, <2>1, <2>2
<1>3. ASSUME high < q PROVE FALSE
  <2>1. (high + 1) * b <= q * b
    BY <1>1, <1>3, OrderedProducts
  <2>2. (high + 1) * b = high * b + b /\ q * b = b * q /\ b * q \in Int /\ high * b \in Int
    BY <1>1
  <2> QED
    BY <1>1, <2>1, <2>2
<1>4. low <= q /\ q <= high
  BY <1>1, <1>2, <1>3
<1> QED
  BY <1>4 DEF q

\* A function with values in 0..top has a least and a greatest one.
LEMMA ExtremesExist ==
  ASSUME NEW S, S # {}, NEW top \in Nat, NEW v \in [S -> 0..top]
  PROVE  \E l, h \in S : \A x \in S : v[x] >= v[l] /\ v[x] <= v[h]
<1> DEFINE T == {v[x] : x \in S}
<1>1. PICK m \in T : \A n \in T : m <= n
  <2>1. T \in SUBSET Nat /\ T # {}
    OBVIOUS
  <2> HIDE DEF T
  <2> QED
    BY <2>1, LeastElement
<1> DEFINE U == {top - v[x] : x \in S}
<1>2. PICK k \in U : \A n \in U : k <= n
  <2>1. U \in SUBSET Nat /\ U # {}
    OBVIOUS
  <2> HIDE DEF U
  <2> QED
    BY <2>1, LeastElement
<1>3. PICK l \in S : m = v[l]
  OBVIOUS
<1>4. PICK h \in S : k = top - v[h]
  OBVIOUS
<1>5. ASSUME NEW x \in S PROVE v[x] >= v[l] /\ v[x] <= v[h]
  <2>1. v[x] \in T /\ top - v[x] \in U /\ v[x] \in 0..top /\ v[h] \in 0..top /\ v[l] \in 0..top
    OBVIOUS
  <2>2. v[l] <= v[x] /\ top - v[h] <= top - v[x]
    BY <1>1, <1>2, <1>3, <1>4, <2>1
  <2> QED
    BY <2>1, <2>2
<1> QED
  BY <1>5

\* So has one with integer values on a finite set.
LEMMA GreatestExists ==
  ASSUME NEW S, IsFiniteSet(S), S # {}, NEW f, \A x \in S : f[x] \in Int
  PROVE  \E h \in S : \A x \in S : f[x] <= f[h]
<1> DEFINE C == {t \in SUBSET S : t # {} /\ ~ \E h \in t : \A x \in t : f[x] <= f[h]}
<1>1. ASSUME NEW t \in C, \A r \in SUBSET t : r # t => r \notin C PROVE FALSE
  <2>1. PICK x : x \in t
    OBVIOUS
  <2>2. t \ {x} \in SUBSET t /\ t \ {x} # t /\ t \ {x} \notin C /\ t \in SUBSET S
    BY <1>1, <2>1
  <2>3. CASE t \ {x} = {}
    <3>1. \A y \in t : f[y] <= f[x]
      BY <2>1, <2>2, <2>3
    <3> QED
      BY <2>1, <3>1
  <2>4. CASE t \ {x} # {}
    <3>1. PICK h \in t \ {x} : \A y \in t \ {x} : f[y] <= f[h]
      BY <2>2, <2>4
    <3>2. f[x] \in Int /\ f[h] \in Int /\ \A y \in t : f[y] \in Int /\ (y = x \/ y \in t \ {x})
      BY <2>1, <2>2
    <3>3. CASE f[x] <= f[h]
      <4>1. \A y \in t : f[y] <= f[h]
        BY <3>1, <3>2, <3>3
      <4> QED
        BY <4>1
    <3>4. CASE f[h] <= f[x]
      <4>1. \A y \in t : f[y] <= f[x]
        BY <3>1, <3>2, <3>4
      <4> QED
        BY <2>1, <4>1
    <3> QED
      BY <3>2, <3>3, <3>4
  <2> QED
    BY <2>3, <2>4
<1>2. S \notin C
  <2> SUFFICES ASSUME S \in C PROVE FALSE
    OBVIOUS
  <2>1. C \in SUBSET (SUBSET S) /\ C # {}
    OBVIOUS
  <2> HIDE DEF C
  <2>2. PICK t \in C : \A r \in C : r \subseteq t => r = t
    BY <2>1, SmallestSubset
  <2> QED
    BY <1>1, <2>2
<1> QED
  BY <1>2

LEMMA LeastExists ==
  ASSUME NEW S, IsFiniteSet(S), S # {}, NEW f, \A x \in S : f[x] \in Int
  PROVE  \E l \in S : \A x \in S : f[l] <= f[x]
<1> DEFINE g == [x \in S |-> -f[x]]
<1>1. \A x \in S : g[x] = -f[x] /\ g[x] \in Int
  OBVIOUS
<1> HIDE DEF g
<1>2. PICK l \in S : \A x \in S : g[x] <= g[l]
  BY <1>1, GreatestExists
<1>3. \A x \in S : f[l] <= f[x]
  BY <1>1, <1>2
<1> QED
  BY <1>3

\* The square of a sum is at most as many times the sum of the squares as
\* there are terms.
LEMMA SquareOfSum ==
  ASSUME NEW S, IsFiniteSet(S), NEW d, NEW q, \A x \in S : d[x] \in Int /\ q[x] = d[x] * d[x]
  PROVE  /\ SumFunctionOnSet(d, S) \in Int /\ SumFunctionOnSet(q, S) \in Nat /\ Cardinality(S) \in Nat
         /\ SumFunctionOnSet(d, S) * SumFunctionOnSet(d, S) <= Cardinality(S) * SumFunctionOnSet(q, S)
<1>1. \A i \in Int : i * i \in Nat
  OBVIOUS
<1>2. \A x \in S : q[x] \in Nat
  BY <1>1
<1>3. PICK D \in Int : D = SumFunctionOnSet(d, S)
  BY SumType
<1>4. PICK Q \in Nat : Q = SumFunctionOnSet(q, S)
  BY <1>2, SumNatural
<1>5. PICK k \in Nat : k = Cardinality(S)
  BY FS_CardinalityType
<1>6. CASE k = 0
  <2>1. S = {}
    BY <1>5, <1>6, FS_EmptySet
  <2>2. D = 0 /\ Q = 0
    BY <1>3, <1>4, <2>1, SumEmpty
  <2> QED
    BY <1>3, <1>4, <1>5, <2>2
<1>7. CASE k > 0
  <2>1. PICK a \in Int : a = k * k
    BY <1>5
  <2>2. PICK b \in Int : b = -(2 * k * D)
    BY <1>3, <1>5
  <2>3. PICK c \in Int : c = D * D
    BY <1>3
  <2>4. PICK one \in Int : one = 1
    OBVIOUS
  <2> DEFINE g == [x \in S |-> a * q[x] + b * d[x]]
  <2> DEFINE u == [x \in S |-> one]
  <2> DEFINE h == [x \in S |-> one * g[x] + c * u[x]]
  <2>5. \A x \in S : q[x] \in Int /\ d[x] \in Int /\ g[x] \in Int /\ g[x] = a * q[x] + b * d[x]
    BY <1>2
  <2>6. \A x \in S : u[x] \in Int /\ u[x] = one /\ h[x] = one * g[x] + c * u[x]
    OBVIOUS
  <2>7. \A x \in S : h[x] \in Nat
    <3>1. \A i \in Int : (k * i - D) * (k * i - D) = 1 * (k * k * (i * i) + (-(2 * k * D)) * i) + D * D * 1
      OBVIOUS
    <3>2. ASSUME NEW x \in S PROVE h[x] = (k * d[x] - D) * (k * d[x] - D)
      BY <2>1, <2>2, <2>3, <2>4, <2>5, <2>6, <3>1
    <3>3. \A x \in S : k * d[x] - D \in Int
      OBVIOUS
    <3> HIDE DEF h
    <3> QED
      BY <1>1, <3>2, <3>3
  <2> HIDE DEF g, u, h
  <2>8. SumFunctionOnSet(g, S) = a * Q + b * D
    <3>1. \A x \in S : q[x] \in Int /\ d[x] \in Int /\ g[x] = a * q[x] + b * d[x]
      BY <2>5
    <3>2. a \in Int /\ b \in Int
      OBVIOUS
    <3>3. IsFiniteSet(S)
      OBVIOUS
    <3>4. SumFunctionOnSet(g, S) = a * SumFunctionOnSet(q, S) + b * SumFunctionOnSet(d, S)
      BY <3>1, <3>2, <3>3, SumLinear
    <3> QED
      BY <1>3, <1>4, <3>4
  <2>9. SumFunctionOnSet(u, S) = one * k
    BY <1>5, <2>6, SumConstant
  <2>10. SumFunctionOnSet(h, S) = one * SumFunctionOnSet(g, S) + c * SumFunctionOnSet(u, S)
    BY <2>5, <2>6, SumLinear
  <2>11. SumFunctionOnSet(h, S) \in Nat
    BY <2>7, SumNatural
  <2>12. 1 * (k * k * Q + (-(2 * k * D)) * D) + D * D * (1 * k) = k * (k * Q - D * D)
    BY <1>3, <1>4, <1>5
  <2>13. k * (k * Q - D * D) >= 0
    BY <2>1, <2>2, <2>3, <2>4, <2>8, <2>9, <2>10, <2>11, <2>12
  <2>14. k * Q - D * D >= 0
    <3>1. PICK y \in Int : y = k * Q - D * D
      OBVIOUS
    <3>2. y < 0 => k * y < 0
      BY <1>7
    <3> QED
      BY <2>13, <3>1, <3>2
  <2> QED
    BY <1>3, <1>4, <1>5, <2>14
<1> QED
  BY <1>5, <1>6, <1>7
=============================================================================
