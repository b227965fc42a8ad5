----------------------------- MODULE MCMemoryStore -----------------------------
(* An instance of MemoryStore for TLC. *)
EXTENDS MemoryStore, TLC

\* For the archive, and two that are in different tiers when young and in
\* one when they are older, of which one may lack a timestamp.
MCKinds == {
  [salience |-> 100, dated |-> TRUE],
  [salience |-> 320, dated |-> TRUE],
  [salience |-> 500, dated |-> TRUE],
  [salience |-> 500, dated |-> FALSE]}

\* Now, two fiftieths of an hour later, which rounds to nothing, and a day
\* later: an event of the first is then long-term, one of the second not yet.
MCTimes == {0, 2, 1201}

\* No place in a tier, one and two.
MCCapacities == {[active |-> 0, working |-> 1, long_term |-> 2]}

MCSymmetry == Permutations(Handles)
=============================================================================
