----------------------------- MODULE MemoryPyramid -----------------------------
(***************************************************************************)
(* MemoryPyramid (core/memory/memory_pyramid.py): the tier of an indexed   *)
(* entry and what compaction keeps of each tier.  It keeps no state: these *)
(* are operators on an index, a sequence of entries that have a salience,  *)
(* in thousandths, and an age.  An age is in fiftieths of an hour, so that *)
(* a tenth, to which ages are rounded, is a whole odd number of them and   *)
(* no age is halfway between two.                                          *)
(***************************************************************************)
EXTENDS Integers, Sequences, FiniteSets

\* TierCapacity gives a number to all but the last.
Tiers == {"active", "working", "long_term", "archive"}

Hour == 50
Tenth == 5

\* _estimate_age_hours of a timestamp that is missing or does not parse.
Undated == 999 * Hour

\* round(age_hours, 1), in tenths of an hour.
Rounded(age) == (age + 2) \div Tenth

\* classify_one: the first of its tests that holds, with the age as it is.
TierOf(e) ==
  IF e.salience >= 500 /\ e.age < Hour THEN "active"
  ELSE IF e.salience >= 300 /\ e.age < 24 * Hour THEN "working"
  ELSE IF e.salience >= 200 THEN "long_term"
  ELSE "archive"

Bucket(entries, tier) == {p \in DOMAIN entries : TierOf(entries[p]) = tier}

\* mistake: the older first
BeforeOlderFirst(entries, p, q) ==
  LET rank(x) == Rounded(entries[x].age) IN
  \/ entries[p].salience > entries[q].salience
  \/ entries[p].salience = entries[q].salience /\ rank(p) > rank(q)
  \/ entries[p].salience = entries[q].salience /\ rank(p) = rank(q) /\ p < q

\* The sort of a bucket: by salience, the higher first, then by the rounded
\* age, the younger first; it is stable, so the earlier of two in the index,
\* which is the older, comes first when their ages round alike.
Before(entries, p, q) ==
  LET rank(x) == Rounded(entries[x].age) IN
  \/ entries[p].salience > entries[q].salience
  \/ entries[p].salience = entries[q].salience /\ rank(p) < rank(q)
  \/ entries[p].salience = entries[q].salience /\ rank(p) = rank(q) /\ p < q

\* bucket[:n] of the sorted bucket.
First(entries, n, bucket) ==
  {p \in bucket : Cardinality({q \in bucket : Before(entries, q, p)}) < n}

\* What is kept of a tier besides what is kept already; _count_in looks for
\* entries of this tier among those, and there are none.
Fill(entries, capacity, tier, kept) ==
  LET remaining == capacity[tier] - Cardinality(kept \intersect Bucket(entries, tier))
  IN  kept \union First(entries, remaining, Bucket(entries, tier))

\* The two results of compact, as positions in the index.
Retained(entries, capacity) ==
  Fill(entries, capacity, "long_term",
    Fill(entries, capacity, "working",
      First(entries, capacity["active"], Bucket(entries, "active"))))

Evicted(entries, capacity) ==
  LET retained == Retained(entries, capacity)
  IN  (UNION {Bucket(entries, tier) \ retained : tier \in DOMAIN capacity})
        \union Bucket(entries, "archive")
=============================================================================
