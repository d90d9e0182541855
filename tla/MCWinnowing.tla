---------------------------- MODULE MCWinnowing ----------------------------
(* Small instances of Winnowing for TLC: all files over two letters, and    *)
(* some that have more than one block of twelve for BobHash.                *)
EXTENDS Digesting

MCChar == {-1, 0}   \* the values of a signed char of one bit
MCMaxSize == 17
MCFile == UNION {[1 .. n -> MCChar] : n \in {4, 8, 11}}
          \cup {[i \in 1 .. 17 |-> IF i \in ones THEN 0 ELSE -1] :
                   ones \in {{x, y} : x, y \in 1 .. 16}}
MCGramHash == [g \in Gram |-> HashOf(g)]

\* The low bits of the constants of hash_util.
MCPredefSeeds == <<12, 12, 1, 11>>
=============================================================================
