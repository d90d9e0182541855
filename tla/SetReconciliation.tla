-------------------------- MODULE SetReconciliation --------------------------
(***************************************************************************)
(* What a set reconciliation promises, whatever data structure carries it: *)
(* the party that peels learns keys of the two differences only, and       *)
(* reports success exactly when it has learned all of them.                *)
(***************************************************************************)
CONSTANT Key

VARIABLES mine, theirs,         \* the two sets of keys
          onlyMine, onlyTheirs, \* what has been learned of the difference
          result                \* "filling", "peeling", "success", "failure"

vars == <<mine, theirs, onlyMine, onlyTheirs, result>>

Complete == onlyMine = mine \ theirs /\ onlyTheirs = theirs \ mine

Init ==
    /\ mine = {} /\ theirs = {}
    /\ onlyMine = {} /\ onlyTheirs = {}
    /\ result = "filling"

\* Either set gains or loses one key.
Change ==
    /\ result = "filling"
    /\ \E k \in Key :
          \/ mine' \in {mine \cup {k}, mine \ {k}} /\ theirs' = theirs
          \/ theirs' \in {theirs \cup {k}, theirs \ {k}} /\ mine' = mine
    /\ UNCHANGED <<onlyMine, onlyTheirs, result>>

Start ==
    /\ result = "filling"
    /\ result' = "peeling"
    /\ UNCHANGED <<mine, theirs, onlyMine, onlyTheirs>>

\* One key, not known before, of one of the two differences.
Learn ==
    /\ result = "peeling"
    /\ \/ /\ \E k \in (mine \ theirs) \ onlyMine : onlyMine' = onlyMine \cup {k}
          /\ onlyTheirs' = onlyTheirs
       \/ /\ \E k \in (theirs \ mine) \ onlyTheirs : onlyTheirs' = onlyTheirs \cup {k}
          /\ onlyMine' = onlyMine
    /\ UNCHANGED <<mine, theirs, result>>

Finish ==
    /\ result = "peeling"
    /\ result' = IF Complete THEN "success" ELSE "failure"
    /\ UNCHANGED <<mine, theirs, onlyMine, onlyTheirs>>

Next == Change \/ Start \/ Learn \/ Finish

Spec == Init /\ [][Next]_vars

=============================================================================
