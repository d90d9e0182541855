-------------------------- MODULE MCStrataEstimator --------------------------
(* A small instance of StrataEstimator for TLC: four strata.               *)
EXTENDS StrataEstimator

MCBit == 0 .. 3
Value(w) == (IF 0 \in w THEN 1 ELSE 0) + (IF 1 \in w THEN 2 ELSE 0)
            + (IF 2 \in w THEN 4 ELSE 0) + (IF 3 \in w THEN 8 ELSE 0)

\* Zero, and keys of every stratum; 4 and 12, 2 and 10, 3 and 7 share all buckets.
StrataKeys == {w \in SUBSET MCBit : Value(w) \in {0, 3, 7, 2, 10, 4, 12, 8}}
MCKeyHash == [w \in SUBSET MCBit |-> {}]
MCSubHash == [r \in 0 .. 1 |-> [w \in SUBSET MCBit |-> Value(w) \div (r + 1)]]
=============================================================================
