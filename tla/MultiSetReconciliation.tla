----------------------- MODULE MultiSetReconciliation -----------------------
(***************************************************************************)
(* What the reconciliation of several sets promises (README.md of the      *)
(* repository): the keys that are not in all of the sets are learned, no   *)
(* other key ever is, and success is reported exactly when all are.        *)
(***************************************************************************)
CONSTANTS Key, Party

VARIABLES sets,      \* sets[p]: the keys of party p
          learned,
          result     \* "filling", "peeling", "success", "failure"

vars == <<sets, learned, result>>

NotInAll == {k \in Key : \E p, q \in Party : k \in sets[p] /\ k \notin sets[q]}

Init ==
    /\ sets = [p \in Party |-> {}]
    /\ learned = {}
    /\ result = "filling"

Change ==
    /\ result = "filling"
    /\ \E p \in Party, k \in Key :
          sets' \in {[sets EXCEPT ![p] = @ \cup {k}], [sets EXCEPT ![p] = @ \ {k}]}
    /\ UNCHANGED <<learned, result>>

Start ==
    /\ result = "filling"
    /\ result' = "peeling"
    /\ UNCHANGED <<sets, learned>>

Learn ==
    /\ result = "peeling"
    /\ \E k \in NotInAll \ learned : learned' = learned \cup {k}
    /\ UNCHANGED <<sets, result>>

Finish ==
    /\ result = "peeling"
    /\ result' = IF learned = NotInAll THEN "success" ELSE "failure"
    /\ UNCHANGED <<sets, learned>>

Next == Change \/ Start \/ Learn \/ Finish

Spec == Init /\ [][Next]_vars

=============================================================================
