--------------------------- MODULE Fingerprinting ---------------------------
(***************************************************************************)
(* Where a file is cut into chunks (fingerprinting.hpp).  A file is a      *)
(* sequence of characters; the rolling hash of a k-gram is an arbitrary    *)
(* function of the k-gram.                                                 *)
(***************************************************************************)
EXTENDS Integers, Sequences, FiniteSets

CONSTANTS
    Char,        \* the alphabet
    File,        \* the files considered
    MaxSize,     \* the size of the largest of them
    AvgBlock,    \* avg_block_size
    Kgrams,      \* kgrams of RollingHash
    MaxHash,     \* (hash_type)(-1), the value that fills the first window
    GramHash     \* the rolling hash of every string of at most Kgrams characters

StringOf(n) == [1 .. n -> Char]
Content == UNION {StringOf(n) : n \in 0 .. MaxSize}
Gram == UNION {StringOf(n) : n \in 1 .. Kgrams}

w == 2 * AvgBlock - 1

\* A file shorter than the window makes file_size - w wrap around: winnow reads
\* beyond the buffer.  Such files are not modelled.
ASSUME SizeAssumption ==
    /\ AvgBlock \in Nat \ {0} /\ Kgrams \in Nat \ {0}
    /\ MaxSize \in Nat
    /\ File \subseteq Content /\ \A f \in File : Len(f) >= w

ASSUME HashAssumption ==
    /\ MaxHash \in Nat /\ GramHash \in [Gram -> 0 .. MaxHash]

-----------------------------------------------------------------------------
(* Winnowing.                                                              *)

\* next_hash at the r-th call: the hash of the (at most Kgrams) last characters.
NextHash(f, r) == GramHash[SubSeq(f, IF r > Kgrams THEN r - Kgrams + 1 ELSE 1, r)]

\* The rightmost minimum of the window of (at most w) hashes that ends at r.
WindowMin(f, r) ==
    LET Window == {i \in 1 .. r : i > r - w}
    IN  CHOOSE m \in Window :
            /\ \A i \in Window : NextHash(f, m) <= NextHash(f, i)
            /\ \A i \in Window : i > m => NextHash(f, m) < NextHash(f, i)

\* winnow: what its loop over the file computes (see Winnowing).
Cuts(f) == {WindowMin(f, r) : r \in 1 .. Len(f) - w - 1}

=============================================================================
