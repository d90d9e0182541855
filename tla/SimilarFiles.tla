---------------------------- MODULE SimilarFiles ----------------------------
(***************************************************************************)
(* The files that the test driver makes of a file (TestFiles), cut by      *)
(* winnow: what a change to the file changes in its cuts.                  *)
(***************************************************************************)
EXTENDS Winnowing, TestFiles

\* What the test driver writes in the place of a char is a char.
ASSUME CharAssumption == \A c \in Char : Changed(c) \in Char

\* The places whose hashes, or windows, a change may reach, and the cuts elsewhere.
Near(changed) == UNION {x - w + 1 .. x + w + Kgrams - 2 : x \in changed}
Stays(old, new, changed) == Cuts(new) \ Near(changed) = Cuts(old) \ Near(changed)

(***************************************************************************)
(* In the files that the test driver makes of this one, with a character   *)
(* changed here and there or with blocks changed, however the blocks       *)
(* overlap, a cut is where it was if no window that it belongs to reaches  *)
(* a changed character: those chunks need not be sent.                     *)
(***************************************************************************)
ChangesStayLocal ==
    LET drawn == {curr_pos, curr_pos + 4} \cap DOMAIN buf
    IN  /\ Stays(buf, generate_similar_file(buf, DOMAIN buf \ drawn), drawn)
        /\ \A starts \in {{curr_pos, curr_pos + 1}, {curr_pos, curr_pos + 3}} :
              starts \subseteq Starts(buf, 2) =>
                  Stays(buf, generate_block_changed_file(buf, starts, 2),
                        UNION {{s + 1, s + 2} : s \in starts})

=============================================================================
