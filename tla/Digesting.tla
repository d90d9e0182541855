------------------------------ MODULE Digesting ------------------------------
(***************************************************************************)
(* winnow together with hashes of the characters: the one that digest_file *)
(* and the tables take, and Bob Jenkins', which reads a string according   *)
(* to where it lies in memory and has no caller in the repository.         *)
(***************************************************************************)
EXTENDS SimilarFiles, HashUtil

\* The characters as unsigned bytes.
Bytes(s) == [i \in DOMAIN s |-> s[i] % 2 ^ ByteBits]

\* The stretches of the file of at most n characters, as the loop stands: those
\* that end where the hasher is.
Stretches(n) == {SubSeq(buf, curr_pos - m + 1, curr_pos) : m \in 1 .. Min({n, curr_pos})}
StretchesOf(m) == {SubSeq(buf, x, x + m - 1) : x \in 1 .. Len(buf) - m + 1}

(***************************************************************************)
(* Strings of one length that fit into a word never share a hash.  So a    *)
(* chunk of at most eight characters is told from every other of its       *)
(* length, which Chunking assumes of all chunks, and a hash_type of 64     *)
(* bits tells a 64-bit key from every other one, as in the tables of       *)
(* network_testing.cpp:86-88.  It says nothing of the tables of            *)
(* FileSynchronizer, which keep 32 bits of the hash of such a key          *)
(* (basicIBLT.hpp:98): there keys may share their checksum.                *)
(***************************************************************************)
WordsHashApart ==
    /\ \A s \in Stretches(8) : \A t \in StretchesOf(Len(s)) :
          MurmurHash64A(Bytes(s), 0) = MurmurHash64A(Bytes(t), 0) => Bytes(s) = Bytes(t)
    /\ \A s \in Stretches(4) : \A t \in StretchesOf(Len(s)) :
          MurmurHash(Bytes(s), 0) = MurmurHash(Bytes(t), 0) => Bytes(s) = Bytes(t)
    /\ curr_pos >= 8 =>
          \A i \in 0 .. 1, t \in StretchesOf(8) :
              LET s == SubSeq(buf, curr_pos - 7, curr_pos)
                  hash64(string) == hash(Bytes(string), 64, Word64Size, set_seed(i))
              IN  hash64(s) = hash64(t) => Bytes(s) = Bytes(t)

(***************************************************************************)
(* Bob Jenkins' hash of the file as far as it was read is the same whether *)
(* it is read by four bytes, by two or one by one, the bytes behind its    *)
(* end notwithstanding; the variant with two results agrees in the first   *)
(* (hash_util.cpp:61-392).                                                 *)
(***************************************************************************)
AlignmentsAgree ==
    LET s == Bytes(SubSeq(buf, 1, curr_pos + w))
    IN  \A x \in Alignments :
            /\ BobHash(x, s, 0) = BobHash("1", s, 0)
            /\ BobHash2(x, s, 0, 0) = BobHash2("1", s, 0, 0)
            /\ BobHash2(x, s, 0, 0)[1] = BobHash(x, s, 0)

=============================================================================
