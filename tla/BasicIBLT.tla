------------------------------ MODULE BasicIBLT ------------------------------
(***************************************************************************)
(* The invertible Bloom lookup table of basicIBLT.hpp: its buckets, its    *)
(* operations, and what the contents of a table mean.                      *)
(*                                                                         *)
(* A machine word is the set of its one bits, so ^ is symmetric difference *)
(* and 0 is the empty set.  A table is subIBLTs[i][j]: one row of buckets  *)
(* for each hash function.  The two hash functions are arbitrary tables    *)
(* (CONSTANTS): nothing here depends on MurmurHash.                        *)
(***************************************************************************)
EXTENDS Integers, FiniteSets

CONSTANTS
    Bit,          \* bit positions of a key (key_type)
    HashBit,      \* bit positions of a checksum (hash_type)
    Key,          \* the keys that may be inserted
    KeyHash,      \* key_hasher: the checksum of every word
    SubHash,      \* sub_hashers[i]: an unreduced hash of every word
    BucketCount,  \* the bucket_count asked of the constructor
    NumHashfns,   \* num_hashfns
    CountHalf     \* half the range of the int count and of its uint32 field

Word == SUBSET Bit
HashWord == SUBSET HashBit
XOR(a, b) == (a \ b) \cup (b \ a)

\* The constructor rounds bucket_count up to a nonzero multiple of num_hashfns.
buckets_per_subIBLT == IF BucketCount = 0
                       THEN 1
                       ELSE (BucketCount + NumHashfns - 1) \div NumHashfns
num_buckets == NumHashfns * buckets_per_subIBLT

Sub == 0 .. NumHashfns - 1
Slot == 0 .. buckets_per_subIBLT - 1

ASSUME SizesAssumption ==
    /\ NumHashfns \in Nat \ {0}
    /\ BucketCount \in Nat

ASSUME KeyAssumption == Key \subseteq Word /\ IsFiniteSet(Key)

ASSUME HashAssumption ==
    /\ KeyHash \in [Word -> HashWord]
    /\ SubHash \in [Sub -> [Word -> Nat]]

\* No set of distinct keys can overflow a bucket's count.
ASSUME CountAssumption ==
    /\ CountHalf \in Nat \ {0}
    /\ Cardinality(Key) < CountHalf

-----------------------------------------------------------------------------
(* Buckets.                                                                *)

Bucket == [key_sum : Word, hash_sum : HashWord, count : Int]
EmptyBucket == [key_sum |-> {}, hash_sum |-> {}, count |-> 0]

AddTimes(b, k, h, n_times) ==
    [key_sum  |-> XOR(b.key_sum, k),
     hash_sum |-> XOR(b.hash_sum, h),
     count    |-> b.count + n_times]

AddBucket(b, c) == AddTimes(b, c.key_sum, c.hash_sum, c.count)
RemoveBucket(b, c) == AddTimes(b, c.key_sum, c.hash_sum, (-1) * c.count)

\* Mutant: the checksum is not compared.
CanPeelNoChecksum(b) == b.count \in {-1, 1}
\* Exactly one key, as far as the count and the checksum can tell.
CanPeel(b) == b.count \in {-1, 1} /\ KeyHash[b.key_sum] = b.hash_sum

-----------------------------------------------------------------------------
(* Tables.                                                                 *)

Table == [Sub -> [Slot -> Bucket]]
EmptyTable == [i \in Sub |-> [j \in Slot |-> EmptyBucket]]

BucketIndex(k, i) == SubHash[i][k] % buckets_per_subIBLT

\* Mutant: the checksum is left out of the bucket.
InsertKeyNoChecksum(t, k) ==
    [i \in Sub |-> [t[i] EXCEPT ![BucketIndex(k, i)] = AddTimes(@, k, {}, 1)]]

InsertKey(t, k) ==
    [i \in Sub |-> [t[i] EXCEPT ![BucketIndex(k, i)] =
                        AddTimes(@, k, KeyHash[k], 1)]]
RemoveKey(t, k) ==
    [i \in Sub |-> [t[i] EXCEPT ![BucketIndex(k, i)] =
                        AddTimes(@, k, KeyHash[k], -1)]]

\* Mutant: the key is taken out of the first row only.
PeelKeyOneRow(t, b) ==
    [t EXCEPT ![0] = [@ EXCEPT ![BucketIndex(b.key_sum, 0)] = RemoveBucket(@, b)]]

\* Takes a one-key bucket, seen earlier in the table, out of every row.
PeelKey(t, b) ==
    [i \in Sub |-> [t[i] EXCEPT ![BucketIndex(b.key_sum, i)] =
                        RemoveBucket(@, b)]]

AddTable(t, u) == [i \in Sub |-> [j \in Slot |-> AddBucket(t[i][j], u[i][j])]]

\* Mutant: the counts are added instead of subtracted.
XORTableAddsCounts(t, u) ==
    [i \in Sub |-> [j \in Slot |-> AddBucket(t[i][j], u[i][j])]]
XORTable(t, u) == [i \in Sub |-> [j \in Slot |-> RemoveBucket(t[i][j], u[i][j])]]

\* Mutant: a zero count is taken for an empty bucket.
IsEmptyTableByCount(t) == \A i \in Sub, j \in Slot : t[i][j].count = 0
IsEmptyTable(t) == \A i \in Sub, j \in Slot : t[i][j] = EmptyBucket

-----------------------------------------------------------------------------
(* The IBLT2 message: three parallel arrays in row-major order, the signed *)
(* count in an unsigned field.                                             *)

ToUint(c) == c % (2 * CountHalf)
ToInt(c) == IF c < CountHalf THEN c ELSE c - 2 * CountHalf

Cell == 0 .. num_buckets - 1
Message == [Cell -> [key_sum : Word, hash_sum : HashWord,
                     count : 0 .. 2 * CountHalf - 1]]

Serialize(t) ==
    [x \in Cell |->
        LET b == t[x \div buckets_per_subIBLT][x % buckets_per_subIBLT]
        IN  [b EXCEPT !.count = ToUint(@)]]

\* Mutant: the message is read in column-major order.
DeserializeByColumn(t, m) ==
    [i \in Sub |-> [j \in Slot |->
        LET c == m[j * NumHashfns + i]
        IN  AddTimes(t[i][j], c.key_sum, c.hash_sum, ToInt(c.count))]]

\* The code adds what it reads to the buckets the table already has.
Deserialize(t, m) ==
    [i \in Sub |-> [j \in Slot |->
        LET c == m[i * buckets_per_subIBLT + j]
        IN  AddTimes(t[i][j], c.key_sum, c.hash_sum, ToInt(c.count))]]

-----------------------------------------------------------------------------
(* What a table means.  The sums over a set of keys are given bit by bit:  *)
(* a bit of a sum is one iff it is one in an odd number of the keys.       *)

IsOdd(S) == Cardinality(S) % 2 = 1
KeyXor(S) == {b \in Bit : IsOdd({k \in S : b \in k})}
HashXor(S) == {b \in HashBit : IsOdd({k \in S : b \in KeyHash[k]})}

Hits(S, i, j) == {k \in S : BucketIndex(k, i) = j}

\* The bucket that holds the keys M with a plus sign and C with a minus sign.
SumBucket(M, C) == [key_sum  |-> KeyXor(M \cup C),
                    hash_sum |-> HashXor(M \cup C),
                    count    |-> Cardinality(M) - Cardinality(C)]

Encodes(t, M, C) ==
    \A i \in Sub, j \in Slot : t[i][j] = SumBucket(Hits(M, i, j), Hits(C, i, j))

\* In every row, every key of S shares its bucket with another key of S.
Stopping(S) ==
    \A k \in S, i \in Sub :
        \E l \in S \ {k} : BucketIndex(l, i) = BucketIndex(k, i)

(***************************************************************************)
(* The checksum does its work on these keys: the sum of an odd number of   *)
(* keys, other than one, never looks like a single key, and the sum of a   *)
(* nonempty even number of keys never looks like nothing.  MurmurHash      *)
(* gives this with high probability only.                                  *)
(***************************************************************************)
ChecksumSound ==
    \A S \in SUBSET Key :
        /\ IsOdd(S) /\ Cardinality(S) # 1 => KeyHash[KeyXor(S)] # HashXor(S)
        /\ ~IsOdd(S) /\ S # {} => KeyXor(S) # {} \/ HashXor(S) # {}

=============================================================================
