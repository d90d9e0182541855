------------------------------ MODULE Chunking ------------------------------
(***************************************************************************)
(* The chunks of a file and the hashes that name them (digest_file of      *)
(* fingerprinting.hpp, process_file of file_sync.hpp).  The hash of a      *)
(* chunk is an arbitrary injective function of the characters it covers,   *)
(* as the 64-bit MurmurHash nearly is.                                     *)
(***************************************************************************)
EXTENDS Fingerprinting

CONSTANTS
    ChunkHash,   \* MurmurHash64A of every string
    LogBase      \* 1 << 8: one more byte of overlap for each such factor

ASSUME ChunkHashAssumption ==
    /\ ChunkHash \in [Content -> Nat]
    /\ \A s, t \in Content : ChunkHash[s] = ChunkHash[t] => s = t

ASSUME LogAssumption == LogBase \in Nat \ {0, 1}

\* process_file: log(size / avg_block_size) / log(256) + 1, truncated.
OverlapOf(size) ==
    1 + CHOOSE e \in 0 .. size : /\ LogBase ^ e <= size \div AvgBlock
                                 /\ LogBase ^ (e + 1) > size \div AvgBlock

\* Otherwise hashing the chunk before the last reads beyond the buffer, and the last
\* chunk is shorter than the overlap.
ASSUME OverlapAssumption ==
    \A f \in File : OverlapOf(Len(f)) \in 1 .. w + 1 /\ OverlapOf(Len(f)) <= Len(f)

\* The position of a member in a sorted vector, and the member at a position.
Rank(S, x) == Cardinality({y \in S : y < x})
At(S, i) == CHOOSE x \in S : Rank(S, x) = i

\* digest_file: the chunks between cuts, the last one up to the end of the file.
\* Every hash but the last chunk's also covers the overlap_len characters after
\* the chunk.
Digest(f, overlap_len) ==
    LET Bounds == {0, Len(f)} \cup Cuts(f)
        n == Cardinality(Bounds) - 1
    IN  [i \in 1 .. n |->
            LET start == At(Bounds, i - 1)
                end == At(Bounds, i)
                hashed == IF i = n THEN end ELSE end + overlap_len
            IN  [pos |-> start, len |-> end - start,
                 hash |-> ChunkHash[SubSeq(f, start + 1, hashed)]]]

\* FINGERPRINT_DEBUG: one hash for two different contents ends the program.
Clashes(f, chunks) ==
    \E i, j \in DOMAIN chunks :
        LET c == chunks[i]
            d == chunks[j]
        IN  /\ c.hash = d.hash
            /\ SubSeq(f, c.pos + 1, c.pos + c.len) # SubSeq(f, d.pos + 1, d.pos + d.len)
=============================================================================
