-------------------------- MODULE MCReconciliation --------------------------
(* Small instances of Reconciliation for TLC: words of four bits.          *)
EXTENDS Reconciliation

MCBit == 0 .. 3
Value(w) == (IF 0 \in w THEN 1 ELSE 0) + (IF 1 \in w THEN 2 ELSE 0)
            + (IF 2 \in w THEN 4 ELSE 0) + (IF 3 \in w THEN 8 ELSE 0)
WordsOf(values) == {w \in SUBSET MCBit : Value(w) \in values}

\* A quadratic checksum: one bit for each pair of one bits of the word.
MCHashBit == {p \in SUBSET MCBit : Cardinality(p) = 2}
MCKeyHash == [w \in SUBSET MCBit |-> {p \in MCHashBit : p \subseteq w}]

Hashes(factors) ==
    [i \in 0 .. Len(factors) - 1 |->
        [w \in SUBSET MCBit |-> Value(w) * factors[i + 1] + Value(w) \div 4]]

\* Two rows of three buckets; 5 buckets are asked for.
SixKeys == WordsOf({0, 3, 5, 6, 12, 14})
TwoRows == Hashes(<<3, 5>>)

\* The checksum of the instance is sound on its keys.
ASSUME MCChecksumAssumption == ChecksumSound
=============================================================================
