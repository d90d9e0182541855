------------------------------- MODULE Trials -------------------------------
(***************************************************************************)
(* A trial of the tester in multiIBLT_testing.cpp, around                  *)
(* MultiReconciliation: keys are assigned to the parties at random and     *)
(* inserted one by one (random_testing); the tables are added, and the     *)
(* result of peel is compared with what the assignment says                *)
(* (check_results_simple, which the tester offers and its main, with the   *)
(* trials reduced to filling the tables, does not call).                   *)
(***************************************************************************)
EXTENDS MultiReconciliation, KeyHandler

VARIABLE
    verdict   \* what the driver made of the result

\* key_assignments: the parties that hold a key, which is every assignment as
\* assign_keys draws for each party whether it does.
key_assignments == [k \in Key |-> {p \in Party : k \in keys[p]}]

TrialInit == Init /\ verdict = "none"

\* check_results_simple, after its peel.
Check ==
    /\ Returned /\ verdict = "none"
    /\ verdict' = IF pc = "failure" THEN "failed to peel"
                  ELSE checkResults(set_difference_assigned(N, key_assignments), peeled_keys)
    /\ UNCHANGED vars

TrialNext == (Next /\ UNCHANGED verdict) \/ Check

TrialSpec == TrialInit /\ [][TrialNext]_<<vars, verdict>> /\ WF_vars(Peel)

-----------------------------------------------------------------------------
(***************************************************************************)
(* What the driver expects is computed from the assignment, other drivers  *)
(* compute it from the key sets, or count: all agree.                      *)
(***************************************************************************)
ExpectedKeysAgree ==
    LET key_sets == transform_keys(key_assignments, N)
        expected == set_difference_assigned(N, key_assignments)
    IN  /\ distinct_keys(key_sets) = expected
        /\ {k \in Key : set_counts(key_assignments)[k] \in 1 .. N - 1} = expected
        /\ distinct_keys2(key_sets[1], key_sets[2]) \subseteq expected

(***************************************************************************)
(* The comparison of check_results_simple has only two outcomes: what was  *)
(* peeled is what the assignment says, however that is computed, or peel   *)
(* said that it failed, and then keys are missing.  It never only prints.  *)
(***************************************************************************)
TrialPasses ==
    /\ verdict \in {"none", "same", "failed to peel"}
    /\ verdict = "failed to peel" => Rest # {}
    /\ ExpectedKeysAgree

=============================================================================
