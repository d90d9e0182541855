------------------------------ MODULE MultiIBLT ------------------------------
(***************************************************************************)
(* The multi-party invertible Bloom lookup table of multiIBLT.hpp over the *)
(* fields of basicField.hpp.  A sum of keys is kept digit by digit: one    *)
(* number modulo N for each bit of a key.  N is the number of parties, or  *)
(* a prime of the gossip network; the specialisation Field<2>, which uses  *)
(* xor and divides everything, is the case N = 2 of the same definitions.  *)
(***************************************************************************)
EXTENDS Integers, FiniteSets, Functions

CONSTANTS
    N,            \* the modulus, n_parties of the bucket type
    Bit,          \* bit positions of a key; a key is the set of its one bits
    HashBit,      \* bit positions of a checksum
    Key,          \* the keys that may be inserted
    KeyHash,      \* key_hasher: the checksum of every word
    SubHash,      \* sub_hashers[i]: an unreduced hash of every word
    BucketCount,  \* the bucket_count asked of the constructor
    NumHashfns    \* num_hashfns

Word == SUBSET Bit
HashWord == SUBSET HashBit
Digit == 0 .. N - 1

\* setup: the least nonzero multiple of num_hashfns not below bucket_count.
num_buckets == CHOOSE n \in BucketCount .. BucketCount + NumHashfns :
                   /\ n # 0 /\ n % NumHashfns = 0
                   /\ \A m \in BucketCount .. n - 1 : m = 0 \/ m % NumHashfns # 0
buckets_per_subIBLT == num_buckets \div NumHashfns

Sub == 0 .. NumHashfns - 1
Slot == 0 .. buckets_per_subIBLT - 1

ASSUME MultiSizesAssumption ==
    /\ N \in Nat \ {0, 1}
    /\ NumHashfns \in Nat \ {0}
    /\ BucketCount \in Nat

ASSUME MultiKeyAssumption == Key \subseteq Word /\ IsFiniteSet(Key)

ASSUME MultiHashAssumption ==
    /\ KeyHash \in [Word -> HashWord]
    /\ SubHash \in [Sub -> [Word -> Nat]]

-----------------------------------------------------------------------------
(* Fields: the remainder is brought into range whatever its sign.          *)

\* Mutant: C++'s remainder, which has the sign of the sum, is left as it is.
field_add_signed(x, y) == IF x + y < 0 THEN (-1) * (((-1) * (x + y)) % N) ELSE (x + y) % N
field_add(x, y) == (x + y) % N
field_multiply(x, y) == (x * y) % N

AddField(f, g) == [i \in DOMAIN f |-> field_add(f[i], g[i])]
RemoveField(f, g) == [i \in DOMAIN f |-> field_add(f[i], (-1) * g[i])]
MultiplyField(f, c) == [i \in DOMAIN f |-> field_multiply(f[i], c)]

\* The digits of a word that occurs n times.
Digits(word, positions, n) == [i \in positions |-> IF i \in word THEN n % N ELSE 0]

\* Every digit is zero or the count itself: perhaps one key, several times.
can_divide_by(f, n) == \A i \in DOMAIN f : f[i] \in {0, n}

extract_key(f) == {i \in DOMAIN f : f[i] # 0}

-----------------------------------------------------------------------------
(* Buckets.                                                                *)

Bucket == [key_sum : [Bit -> Digit], hash_sum : [HashBit -> Digit], count : Digit]

\* The bucket that holds word n times, with checksum hash.
Single(word, hash, n) == [key_sum  |-> Digits(word, Bit, n),
                          hash_sum |-> Digits(hash, HashBit, n),
                          count    |-> n % N]
EmptyBucket == Single({}, {}, 0)

AddBucket(b, c) == [key_sum  |-> AddField(b.key_sum, c.key_sum),
                    hash_sum |-> AddField(b.hash_sum, c.hash_sum),
                    count    |-> field_add(b.count, c.count)]
RemoveBucket(b, c) == [key_sum  |-> RemoveField(b.key_sum, c.key_sum),
                       hash_sum |-> RemoveField(b.hash_sum, c.hash_sum),
                       count    |-> field_add(b.count, (-1) * c.count)]
MultiplyBucket(b, c) == [key_sum  |-> MultiplyField(b.key_sum, c),
                         hash_sum |-> MultiplyField(b.hash_sum, c),
                         count    |-> field_multiply(b.count, c)]

can_peel(b) ==
    /\ b.count # 0
    /\ can_divide_by(b.key_sum, b.count)
    /\ can_divide_by(b.hash_sum, b.count)
    /\ KeyHash[extract_key(b.key_sum)] = extract_key(b.hash_sum)

-----------------------------------------------------------------------------
(* Tables.                                                                 *)

Table == [Sub -> [Slot -> Bucket]]
EmptyTable == [i \in Sub |-> [j \in Slot |-> EmptyBucket]]

get_bucket_index(k, i) == SubHash[i][k] % buckets_per_subIBLT

insert_key(t, k) ==
    [i \in Sub |-> [t[i] EXCEPT ![get_bucket_index(k, i)] =
                        AddBucket(@, Single(k, KeyHash[k], 1))]]
\* Mutant: the checksum stays.
remove_key_not_hash(t, k) ==
    [i \in Sub |-> [t[i] EXCEPT ![get_bucket_index(k, i)] =
                        RemoveBucket(@, Single(k, {}, 1))]]
remove_key(t, k) ==
    [i \in Sub |-> [t[i] EXCEPT ![get_bucket_index(k, i)] =
                        RemoveBucket(@, Single(k, KeyHash[k], 1))]]

AddTable(t, u) == [i \in Sub |-> [j \in Slot |-> AddBucket(t[i][j], u[i][j])]]

RemoveTable(t, u) ==
    [i \in Sub |-> [j \in Slot |-> RemoveBucket(t[i][j], u[i][j])]]

\* Mutant: the counts are left alone.
MultiplyTableNoCount(t, c) ==
    [i \in Sub |-> [j \in Slot |-> [MultiplyBucket(t[i][j], c) EXCEPT
                                        !.count = t[i][j].count]]]
MultiplyTable(t, c) == [i \in Sub |-> [j \in Slot |-> MultiplyBucket(t[i][j], c)]]

\* Mutant: the key is taken out once, whatever its multiplicity.
PeelKeyOnce(t, b) == remove_key(t, extract_key(b.key_sum))
\* Takes a one-key bucket, seen earlier in the table, out of every row.
peel_key(t, b) ==
    [i \in Sub |-> [t[i] EXCEPT ![get_bucket_index(extract_key(b.key_sum), i)] =
                        RemoveBucket(@, b)]]

\* Mutant: a zero count is taken for an empty bucket.
is_empty_by_count(t) == \A i \in Sub, j \in Slot : t[i][j].count = 0
is_empty(t) == \A i \in Sub, j \in Slot : t[i][j] = EmptyBucket

-----------------------------------------------------------------------------
(* What a table means: each key some number of times, modulo N.            *)

\* The bucket that holds each key k of S times[k] times.
SumBucket(S, times) ==
    [key_sum  |-> [i \in Bit |-> SumFunctionOnSet(times, {k \in S : i \in k}) % N],
     hash_sum |-> [i \in HashBit |->
                        SumFunctionOnSet(times, {k \in S : i \in KeyHash[k]}) % N],
     count    |-> SumFunctionOnSet(times, S) % N]

Encodes(t, S, times) ==
    \A i \in Sub, j \in Slot :
        t[i][j] = SumBucket({k \in S : get_bucket_index(k, i) = j}, times)

(***************************************************************************)
(* The checksum does its work on these keys: two or more keys, each some   *)
(* nonzero number of times, never sum to what one word, however often,     *)
(* would sum to with its checksum.                                         *)
(***************************************************************************)
ChecksumSound ==
    \A S \in SUBSET Key : Cardinality(S) >= 2 =>
        \A times \in [S -> 1 .. N - 1] : \A word \in Word, n \in Digit :
            SumBucket(S, times) # Single(word, KeyHash[word], n)

=============================================================================
