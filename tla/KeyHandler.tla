----------------------------- MODULE KeyHandler -----------------------------
(***************************************************************************)
(* The set algebra of keyHandler and checkResults (IBLT_helpers.hpp), with *)
(* which the test drivers compute what a peel should give.  A collection   *)
(* of key sets is a sequence; an assignment gives each key the increasing  *)
(* vector of the parties that hold it, which is here the set of them.      *)
(***************************************************************************)
EXTENDS Integers, Sequences, FiniteSets

set_union(key_sets) == UNION {key_sets[i] : i \in DOMAIN key_sets}
set_intersection(key_sets) ==
    {k \in key_sets[1] : \A i \in 2 .. Len(key_sets) : k \in key_sets[i]}
set_difference(keys1, keys2) == {k \in keys1 : k \notin keys2}

\* The keys of two sets that are in one of them, and of many that are not in all.
distinct_keys2(keys1, keys2) == set_difference(keys1, keys2) \cup set_difference(keys2, keys1)
distinct_keys(key_sets) == set_difference(set_union(key_sets), set_intersection(key_sets))

\* Mutant: a key that all hold is taken to be distinct.
set_difference_assignedAll(n_parties, assignment) ==
    {k \in DOMAIN assignment : Cardinality(assignment[k]) \in 1 .. n_parties}
\* The same from an assignment.
set_difference_assigned(n_parties, assignment) ==
    {k \in DOMAIN assignment : Cardinality(assignment[k]) \in 1 .. n_parties - 1}

transform_keys(assignment, n_parties) ==
    [i \in 1 .. n_parties |-> {k \in DOMAIN assignment : i - 1 \in assignment[k]}]

\* How many parties have each key.  (The overload for key sets does not compile.)
set_counts(assignment) == [k \in DOMAIN assignment |-> Cardinality(assignment[k])]

\* Sets of different sizes are printed, not asserted to be equal.
checkResults(expected, actual) ==
    CASE Cardinality(expected) # Cardinality(actual) -> "printed"
      [] \E k \in expected : k \notin actual         -> "aborted"
      [] OTHER                                       -> "same"

=============================================================================
