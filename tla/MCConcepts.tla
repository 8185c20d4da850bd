----------------------------- MODULE MCConcepts -----------------------------
(* Two courses of one and two names that have one in common, two           *)
(* administrators and two pairs of duplicates, two readers.                *)
EXTENDS Concepts, TLC

CONSTANTS s1, s2, a, b
MCWanted == [s \in Subtopics |-> IF s = s1 THEN {a, b} ELSE {a}]
Symmetry == Permutations(Candidates) \cup Permutations(Readers) \cup Permutations(Admins)

\* Bound: two jobs, administrators or readers are between statements at a time.
TwoAtATime ==
    Cardinality({s \in Subtopics : job[s].pc \in {"find", "create"}})
      + Cardinality({x \in Admins : admin[x].pc # "idle"})
      + Cardinality({r \in Readers : reader[r].pc # "idle"}) <= 2
=============================================================================
