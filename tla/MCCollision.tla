----------------------------- MODULE MCCollision -----------------------------
(***************************************************************************)
(* Reconciliation with a checksum for which three keys sum to a word whose *)
(* checksum is the sum of theirs: here the parity of the word's bits.  Any *)
(* 32-bit checksum has such triples; MurmurHash only makes them rare.      *)
(***************************************************************************)
EXTENDS Reconciliation

MCBit == 0 .. 2
MCKey == {{0}, {1}, {2}}
MCHashBit == {"parity"}
MCKeyHash == [w \in SUBSET MCBit |-> IF IsOdd(w) THEN MCHashBit ELSE {}]
\* All keys share the bucket of the first row; the sum of the three has a
\* bucket of its own in the second.
MCSubHash == [i \in 0 .. 1 |->
                 [w \in SUBSET MCBit |-> IF i = 0 THEN 0 ELSE Cardinality(w) \div 2]]
=============================================================================
