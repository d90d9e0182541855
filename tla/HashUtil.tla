------------------------------ MODULE HashUtil ------------------------------
(***************************************************************************)
(* The hash functions of hash_util.cpp on strings of bytes.  A byte has    *)
(* ByteBits bits; a word of four bytes (uint32_t) or eight (uint64_t)      *)
(* shrinks with it, and so do the distances of shifts and rotations, which *)
(* are written as in the code.                                             *)
(***************************************************************************)
EXTENDS Integers, Sequences, SequencesExt, Bitwise

CONSTANTS
    ByteBits,     \* 8
    BobSeed,      \* 0xdeadbeef
    MurmurM,      \* m of MurmurHash
    Murmur64M,    \* m of MurmurHash64A
    PredefSeeds   \* predef_seeds of MurmurHashing

Byte == 0 .. 2 ^ ByteBits - 1
Word32Size == 2 ^ (4 * ByteBits)
Word64Size == 2 ^ (8 * ByteBits)

\* MurmurHash64A takes its seed as an unsigned int.
ASSUME HashUtilAssumption ==
    /\ ByteBits \in Nat \ {0} /\ BobSeed \in Nat
    /\ MurmurM % 2 = 1 /\ Murmur64M % 2 = 1
    /\ PredefSeeds \in Seq(0 .. Word32Size - 1)

\* A distance of n bits where a byte has eight.
Bits(n) == (n * ByteBits) \div 8

\* The number that bytes make on a little-endian machine.
Number(bytes) == FoldRight(LAMBDA b, n : b + 2 ^ ByteBits * n, bytes, 0)

\* The i-th group of n bytes, the whole groups, and what they leave.
Group(s, n, i) == SubSeq(s, (i - 1) * n + 1, Min({i * n, Len(s)}))
Groups(s, n) == [i \in 1 .. Len(s) \div n |-> Number(Group(s, n, i))]
Remainder(s, n) == SubSeq(s, (Len(s) \div n) * n + 1, Len(s))

\* h ^= h >> n
Fold(h, n) == h ^^ (h \div 2 ^ Bits(n))

-----------------------------------------------------------------------------
(* Bob Jenkins' hash: three words, filled twelve bytes at a time.          *)

rot(x, k) == ((x * 2 ^ Bits(k)) % Word32Size) | (x \div 2 ^ (4 * ByteBits - Bits(k)))

\* Each step changes two of the words; the next one begins with the next word.
mix(words) ==
    FoldLeft(LAMBDA s, k : <<s[2], (s[3] + s[2]) % Word32Size,
                             ((s[1] - s[3]) % Word32Size) ^^ rot(s[3], k)>>,
             words, <<4, 6, 8, 16, 19, 4>>)

\* On <<c, b, a>>: each step changes the first word by the second.
final(words) ==
    FoldLeft(LAMBDA s, k : <<s[3], ((s[1] ^^ s[2]) - rot(s[2], k)) % Word32Size, s[2]>>,
             <<words[3], words[2], words[1]>>, <<14, 11, 25, 16, 4, 14, 24>>)

\* What up to four bytes add to a word, read in units of four bytes (the part behind
\* the end of the string is masked off), of two, or one by one.
Masked(bytes) ==
    LET beyond == [i \in 1 .. 4 - Len(bytes) |-> 2 ^ ByteBits - 1]
    IN  IF bytes = << >> THEN 0
        ELSE Number(bytes \o beyond) & (2 ^ (ByteBits * Len(bytes)) - 1)

Half(bytes, i) == Number(Group(bytes, 2, i))
\* Mutant: the third byte is taken at the place of the second.
HalvesMisplaced(bytes) ==
    CASE Len(bytes) = 4 -> Half(bytes, 1) + Half(bytes, 2) * 2 ^ (2 * ByteBits)
      [] Len(bytes) = 3 -> bytes[3] * 2 ^ ByteBits + Half(bytes, 1)
      [] Len(bytes) = 2 -> Half(bytes, 1)
      [] Len(bytes) = 1 -> bytes[1]
      [] OTHER          -> 0
Halves(bytes) ==
    CASE Len(bytes) = 4 -> Half(bytes, 1) + Half(bytes, 2) * 2 ^ (2 * ByteBits)
      [] Len(bytes) = 3 -> bytes[3] * 2 ^ (2 * ByteBits) + Half(bytes, 1)
      [] Len(bytes) = 2 -> Half(bytes, 1)
      [] Len(bytes) = 1 -> bytes[1]
      [] OTHER          -> 0

OneByOne(bytes) ==
    FoldLeft(LAMBDA n, i : n + bytes[i] * 2 ^ (ByteBits * (i - 1)), 0,
             [i \in 1 .. Len(bytes) |-> i])

\* The alignment of the string decides how it is read.
Alignments == {"4", "2", "1"}
ReadAs(alignment, bytes) ==
    CASE alignment = "4" -> Masked(bytes)
      [] alignment = "2" -> Halves(bytes)
      [] alignment = "1" -> OneByOne(bytes)

AddBlock(alignment, words, block) ==
    [i \in 1 .. 3 |-> (words[i] + ReadAs(alignment, Group(block, 4, i))) % Word32Size]

\* All blocks of twelve but the last, which may be shorter and is never empty.
MixBlocks(alignment, s, words) ==
    FoldLeft(LAMBDA ws, i : mix(AddBlock(alignment, ws, Group(s, 12, i))), words,
             [i \in 1 .. (Len(s) - 1) \div 12 |-> i])
LastBlock(s) == SubSeq(s, ((Len(s) - 1) \div 12) * 12 + 1, Len(s))

Start(s, seed) == (BobSeed + Len(s) + seed) % Word32Size

BobHash(alignment, s, seed) ==
    LET c == Start(s, seed)
        words == MixBlocks(alignment, s, <<c, c, c>>)
    IN  IF s = << >> THEN c ELSE final(AddBlock(alignment, words, LastBlock(s)))[2]

\* The variant with two seeds and two results, <<*idx1, *idx2>>.
BobHash2(alignment, s, idx1, idx2) ==
    LET a == Start(s, idx1)
        c == (a + idx2) % Word32Size
        words == MixBlocks(alignment, s, <<a, a, c>>)
        last == final(AddBlock(alignment, words, LastBlock(s)))
    IN  IF s = << >> THEN <<c, a>> ELSE <<last[2], last[3]>>

-----------------------------------------------------------------------------
(* MurmurHash2, for 32 and for 64 bits.                                    *)

Scrambled(k, m, r, size) == (Fold((k * m) % size, r) * m) % size

MurmurHash(s, seed) ==
    LET body(h, k) == ((h * MurmurM) % Word32Size) ^^ Scrambled(k, MurmurM, 24, Word32Size)
        mixed == FoldLeft(body, (seed ^^ Len(s)) % Word32Size, Groups(s, 4))
        tail == Remainder(s, 4)
        h == IF tail = << >> THEN mixed
             ELSE ((mixed ^^ Number(tail)) * MurmurM) % Word32Size
    IN  Fold((Fold(h, 13) * MurmurM) % Word32Size, 15)

\* Mutant: the tail is not mixed in.
MurmurHash64ANoTail(s, seed) ==
    LET body(h, k) ==
            ((h ^^ Scrambled(k, Murmur64M, 47, Word64Size)) * Murmur64M) % Word64Size
        mixed == FoldLeft(body, seed ^^ ((Len(s) * Murmur64M) % Word64Size), Groups(s, 8))
    IN  Fold((Fold(mixed, 47) * Murmur64M) % Word64Size, 47)
MurmurHash64A(s, seed) ==
    LET body(h, k) ==
            ((h ^^ Scrambled(k, Murmur64M, 47, Word64Size)) * Murmur64M) % Word64Size
        mixed == FoldLeft(body, seed ^^ ((Len(s) * Murmur64M) % Word64Size), Groups(s, 8))
        tail == Remainder(s, 8)
        h == IF tail = << >> THEN mixed
             ELSE ((mixed ^^ Number(tail)) * Murmur64M) % Word64Size
    IN  Fold((Fold(h, 47) * Murmur64M) % Word64Size, 47)

\* MurmurHashing: the hashers of the tables and estimators.  Only the low bits of the
\* 64 are returned when hash_type is shorter: hash_size is the number of its values,
\* Word64Size for uint64_t, Word32Size for uint32_t.
set_seed(i) == PredefSeeds[i + 1]
hash(s, key_bits, hash_size, seed) ==
    MurmurHash64A(SubSeq(s, 1, key_bits \div 8), seed) % hash_size

=============================================================================
