------------------------------ MODULE MCGossip ------------------------------
(* Small instances of Gossip for TLC.                                      *)
EXTENDS Gossip

\* Two keys, of one node or two, and of all.
MixedAssignments == { <<{"a", "b"}, {"b"}, {"b"}>>, <<{"a", "b"}, {"b"}, {}>> }
Mixed == {[i \in Node |-> a[i + 1]] : a \in MixedAssignments}
MixedKeys == {"a", "b"}

=============================================================================
