----------------------- MODULE Reconciliation_proofs -----------------------
(***************************************************************************)
(* The inductive invariant of Reconciliation and what follows from it, for *)
(* every table size, pair of hash functions and finite set of keys, given  *)
(* that the checksum is sound on those keys (ChecksumSound); first the     *)
(* facts about the table operations of BasicIBLT.                          *)
(***************************************************************************)
EXTENDS Reconciliation, FiniteSetTheorems, TLAPS

-----------------------------------------------------------------------------
(* Parity.                                                                 *)

\* The cardinality of a finite set is a natural number (for is_odd reasoning).
LEMMA CardNat ==
    ASSUME NEW S, IsFiniteSet(S)
    PROVE  Cardinality(S) \in Nat
BY FS_CardinalityType

\* One more element flips the parity.
LEMMA ParityAdd ==
    ASSUME NEW S, IsFiniteSet(S), NEW k, k \notin S
    PROVE  IsOdd(S \cup {k}) <=> ~IsOdd(S)
<1>1. Cardinality(S) \in Nat /\ Cardinality(S \cup {k}) = Cardinality(S) + 1
  BY CardNat, FS_AddElement
<1> QED  BY <1>1 DEF IsOdd

\* The parity of a symmetric difference is the sum of the parities.
LEMMA ParityXOR ==
    ASSUME NEW S, IsFiniteSet(S), NEW T, IsFiniteSet(T)
    PROVE  IsOdd(XOR(S, T)) <=> (IsOdd(S) <=> ~IsOdd(T))
<1> DEFINE A == S \ T
           B == T \ S
<1>1. /\ IsFiniteSet(A) /\ IsFiniteSet(B) /\ IsFiniteSet(S \cap T)
      /\ Cardinality(A) = Cardinality(S) - Cardinality(S \cap T)
      /\ Cardinality(B) = Cardinality(T) - Cardinality(T \cap S)
  BY FS_Difference, FS_Intersection
<1>2. Cardinality(A \cup B) = Cardinality(A) + Cardinality(B) - Cardinality(A \cap B)
  BY <1>1, FS_Union
<1>3. A \cap B = {} /\ T \cap S = S \cap T
  OBVIOUS
<1>4. Cardinality(A \cap B) = 0
  BY <1>3, FS_EmptySet
<1>5. /\ Cardinality(S) \in Nat /\ Cardinality(T) \in Nat
      /\ Cardinality(S \cap T) \in Nat
  BY <1>1, CardNat
<1>6. XOR(S, T) = A \cup B
  BY DEF XOR
<1> HIDE DEF A, B
<1>7. Cardinality(A \cup B)
        = (Cardinality(S) - Cardinality(S \cap T))
          + (Cardinality(T) - Cardinality(S \cap T)) - 0
  BY <1>1, <1>2, <1>3, <1>4, Zenon
<1> QED  BY <1>5, <1>7, <1>6 DEF IsOdd

-----------------------------------------------------------------------------
(* Sums over sets of keys.                                                 *)

\* XOR of words undoes itself.
LEMMA XORCancel ==
    ASSUME NEW a, NEW b
    PROVE  XOR(XOR(a, b), b) = a /\ XOR(a, b) = XOR(b, a) /\ XOR({}, a) = a
BY DEF XOR

\* Every set of keys is finite (the keys of a run are).
LEMMA KeySetFinite ==
    ASSUME NEW S \in SUBSET Key
    PROVE  IsFiniteSet(S) /\ Cardinality(S) \in Nat
BY KeyAssumption, FS_Subset, CardNat

\* No keys sum to zero; one key sums to itself.
LEMMA SumSmall ==
    /\ KeyXor({}) = {} /\ HashXor({}) = {}
    /\ \A k \in Key : KeyXor({k}) = k /\ HashXor({k}) = KeyHash[k]
<1>0. Cardinality({}) = 0 /\ \A x : Cardinality({x}) = 1
  BY FS_EmptySet, FS_Singleton, Zenon
<1>1. ~IsOdd({}) /\ \A x : IsOdd({x})
  BY <1>0 DEF IsOdd
<1>2. KeyXor({}) = {} /\ HashXor({}) = {}
  BY <1>1 DEF KeyXor, HashXor
<1>3. ASSUME NEW k \in Key
      PROVE  KeyXor({k}) = k /\ HashXor({k}) = KeyHash[k]
  <2>1. k \subseteq Bit /\ KeyHash[k] \subseteq HashBit
    BY KeyAssumption, HashAssumption DEF Word, HashWord
  <2>2. \A b \in Bit : {x \in {k} : b \in x} = IF b \in k THEN {k} ELSE {}
    OBVIOUS
  <2>3. \A b \in HashBit : {x \in {k} : b \in KeyHash[x]}
                              = IF b \in KeyHash[k] THEN {k} ELSE {}
    OBVIOUS
  <2>4. KeyXor({k}) = k
    BY <1>1, <2>1, <2>2 DEF KeyXor
  <2>5. HashXor({k}) = KeyHash[k]
    BY <1>1, <2>1, <2>3 DEF HashXor
  <2> QED  BY <2>4, <2>5
<1> QED  BY <1>2, <1>3

\* The sum over a symmetric difference is the sum of the sums.
LEMMA SumXOR ==
    ASSUME NEW S \in SUBSET Key, NEW T \in SUBSET Key
    PROVE  /\ KeyXor(XOR(S, T)) = XOR(KeyXor(S), KeyXor(T))
           /\ HashXor(XOR(S, T)) = XOR(HashXor(S), HashXor(T))
<1>1. ASSUME NEW b \in Bit
      PROVE  b \in KeyXor(XOR(S, T)) <=> (b \in KeyXor(S) <=> b \notin KeyXor(T))
  <2> DEFINE P == {k \in S : b \in k}
             R == {k \in T : b \in k}
  <2>1. {k \in XOR(S, T) : b \in k} = XOR(P, R)
    BY DEF XOR
  <2>2. IsFiniteSet(P) /\ IsFiniteSet(R)
    <3>1. P \in SUBSET Key /\ R \in SUBSET Key
      OBVIOUS
    <3> QED  BY <3>1, KeySetFinite
  <2>3. IsOdd(XOR(P, R)) <=> (IsOdd(P) <=> ~IsOdd(R))
    BY <2>2, ParityXOR
  <2> QED  BY <2>1, <2>3 DEF KeyXor
<1>2. ASSUME NEW b \in HashBit
      PROVE  b \in HashXor(XOR(S, T))
               <=> (b \in HashXor(S) <=> b \notin HashXor(T))
  <2> DEFINE P == {k \in S : b \in KeyHash[k]}
             R == {k \in T : b \in KeyHash[k]}
  <2>1. {k \in XOR(S, T) : b \in KeyHash[k]} = XOR(P, R)
    BY DEF XOR
  <2>2. IsFiniteSet(P) /\ IsFiniteSet(R)
    <3>1. P \in SUBSET Key /\ R \in SUBSET Key
      OBVIOUS
    <3> QED  BY <3>1, KeySetFinite
  <2>3. IsOdd(XOR(P, R)) <=> (IsOdd(P) <=> ~IsOdd(R))
    BY <2>2, ParityXOR
  <2> QED  BY <2>1, <2>3 DEF HashXor
<1>3. \A U \in SUBSET Key : KeyXor(U) \subseteq Bit /\ HashXor(U) \subseteq HashBit
  BY DEF KeyXor, HashXor
<1>4. XOR(S, T) \in SUBSET Key
  BY DEF XOR
<1>5. \A b \in Bit : b \in XOR(KeyXor(S), KeyXor(T))
                        <=> (b \in KeyXor(S) <=> b \notin KeyXor(T))
  BY DEF XOR
<1>6. \A b \in HashBit : b \in XOR(HashXor(S), HashXor(T))
                        <=> (b \in HashXor(S) <=> b \notin HashXor(T))
  BY DEF XOR
<1>7. /\ XOR(KeyXor(S), KeyXor(T)) \subseteq Bit
      /\ XOR(HashXor(S), HashXor(T)) \subseteq HashBit
  BY <1>3 DEF XOR
<1> QED  BY <1>1, <1>2, <1>3, <1>4, <1>5, <1>6, <1>7

\* Adding a key to a set, or taking one out, adds it to the sums.
LEMMA SumFlip ==
    ASSUME NEW S \in SUBSET Key, NEW k \in Key
    PROVE  /\ k \notin S => /\ KeyXor(S \cup {k}) = XOR(KeyXor(S), k)
                            /\ HashXor(S \cup {k}) = XOR(HashXor(S), KeyHash[k])
           /\ k \in S => /\ KeyXor(S \ {k}) = XOR(KeyXor(S), k)
                         /\ HashXor(S \ {k}) = XOR(HashXor(S), KeyHash[k])
<1>1. k \notin S => XOR(S, {k}) = S \cup {k}
  BY DEF XOR
<1>2. k \in S => XOR(S, {k}) = S \ {k}
  BY DEF XOR
<1>3. {k} \in SUBSET Key
  OBVIOUS
<1>4. /\ KeyXor(XOR(S, {k})) = XOR(KeyXor(S), KeyXor({k}))
      /\ HashXor(XOR(S, {k})) = XOR(HashXor(S), HashXor({k}))
  BY <1>3, SumXOR
<1>5. KeyXor({k}) = k /\ HashXor({k}) = KeyHash[k]
  BY SumSmall
<1> QED  BY <1>1, <1>2, <1>4, <1>5, Zenon

-----------------------------------------------------------------------------
(* Operations on buckets and tables that hold sums.                        *)

\* The constructor leaves at least one bucket in each row.
LEMMA RowNonempty == buckets_per_subIBLT \in Nat \ {0}
<1>1. CASE BucketCount = 0
  BY <1>1 DEF buckets_per_subIBLT
<1>2. CASE BucketCount # 0
  <2> DEFINE x == BucketCount + NumHashfns - 1
             q == x \div NumHashfns
  <2>1. x \in Nat /\ x >= NumHashfns /\ NumHashfns \in Nat /\ NumHashfns > 0
    BY <1>2, SizesAssumption
  <2>2. q \in Int /\ x >= NumHashfns * q /\ x < NumHashfns * (q + 1)
    BY <2>1
  <2>3. ASSUME q <= 0 PROVE FALSE
    <3>1. q + 1 <= 1
      BY <2>2, <2>3
    <3> HIDE DEF q, x
    <3>2. NumHashfns * (q + 1) <= NumHashfns * 1
      BY <3>1, <2>1, <2>2
    <3> QED  BY <3>2, <2>1, <2>2
  <2> QED  BY <1>2, <2>2, <2>3 DEF buckets_per_subIBLT
<1> QED  BY <1>1, <1>2

\* A word's bucket exists in every row.
LEMMA BucketIndexType ==
    ASSUME NEW k \in Word, NEW i \in Sub
    PROVE  BucketIndex(k, i) \in Slot
<1>1. SubHash[i][k] \in Nat
  BY HashAssumption
<1> QED  BY <1>1, RowNonempty DEF BucketIndex, Slot

\* A bucket that holds sums is a bucket.
LEMMA SumBucketType ==
    ASSUME NEW M \in SUBSET Key, NEW C \in SUBSET Key
    PROVE  SumBucket(M, C) \in Bucket
<1>1. Cardinality(M) - Cardinality(C) \in Int
  BY KeySetFinite
<1> QED  BY <1>1 DEF SumBucket, Bucket, KeyXor, HashXor, Word, HashWord

(***************************************************************************)
(* Flip(n, k, M, C, N, D): taking k in or out of the sets M (plus) and C   *)
(* (minus), as adding n to the count says, gives N and D.                  *)
(***************************************************************************)
Flip(n, k, M, C, N, D) ==
    \/ n = 1 /\ k \notin M \cup C /\ N = M \cup {k} /\ D = C
    \/ n = -1 /\ k \in M \ C /\ N = M \ {k} /\ D = C
    \/ n = 1 /\ k \in C \ M /\ N = M /\ D = C \ {k}

\* Adding or removing one key (bucket add, remove) turns the bucket of one pair
\* of sets into the bucket of the changed pair.
LEMMA FlipBucket ==
    ASSUME NEW M \in SUBSET Key, NEW C \in SUBSET Key, NEW k \in Key,
           NEW n, NEW N, NEW D, Flip(n, k, M, C, N, D)
    PROVE  AddTimes(SumBucket(M, C), k, KeyHash[k], n) = SumBucket(N, D)
<1>1. /\ IsFiniteSet(M) /\ Cardinality(M) \in Nat
      /\ IsFiniteSet(C) /\ Cardinality(C) \in Nat
  BY KeySetFinite
<1>2. /\ KeyXor(N \cup D) = XOR(KeyXor(M \cup C), k)
      /\ HashXor(N \cup D) = XOR(HashXor(M \cup C), KeyHash[k])
  <2>1. M \cup C \in SUBSET Key
    OBVIOUS
  <2>2. \/ k \notin M \cup C /\ N \cup D = (M \cup C) \cup {k}
        \/ k \in M \cup C /\ N \cup D = (M \cup C) \ {k}
    BY DEF Flip
  <2> QED  BY <2>1, <2>2, SumFlip
<1>3. Cardinality(N) - Cardinality(D) = (Cardinality(M) - Cardinality(C)) + n
  <2>1. CASE n = 1 /\ k \notin M \cup C /\ N = M \cup {k} /\ D = C
    <3>1. Cardinality(N) = Cardinality(M) + 1
      BY <2>1, <1>1, FS_AddElement
    <3> QED  BY <2>1, <3>1, <1>1
  <2>2. CASE n = -1 /\ k \in M \ C /\ N = M \ {k} /\ D = C
    <3>1. Cardinality(N) = Cardinality(M) - 1
      BY <2>2, <1>1, FS_RemoveElement
    <3> QED  BY <2>2, <3>1, <1>1
  <2>3. CASE n = 1 /\ k \in C \ M /\ N = M /\ D = C \ {k}
    <3>1. Cardinality(D) = Cardinality(C) - 1
      BY <2>3, <1>1, FS_RemoveElement
    <3> QED  BY <2>3, <3>1, <1>1
  <2> QED  BY <2>1, <2>2, <2>3 DEF Flip
<1> QED  BY <1>2, <1>3 DEF AddTimes, SumBucket

\* The table with (k, h, n) added to k's bucket in every row.
Updated(t, k, h, n) ==
    [i \in Sub |-> [t[i] EXCEPT ![BucketIndex(k, i)] = AddTimes(@, k, h, n)]]
Flipped(t, k, n) == Updated(t, k, KeyHash[k], n)

\* The same for the whole table: the key changes its bucket in every row, and
\* every other bucket holds none of its copies (insert_key, peel_key).
LEMMA FlipTable ==
    ASSUME NEW t \in Table, NEW M \in SUBSET Key, NEW C \in SUBSET Key,
           NEW k \in Key, NEW n, NEW N, NEW D,
           Encodes(t, M, C), Flip(n, k, M, C, N, D)
    PROVE  Encodes(Flipped(t, k, n), N, D)
<1> SUFFICES ASSUME NEW i \in Sub, NEW j \in Slot
             PROVE  Flipped(t, k, n)[i][j] = SumBucket(Hits(N, i, j), Hits(D, i, j))
  BY DEF Encodes
<1>1. t[i] \in [Slot -> Bucket] /\ t[i][j] = SumBucket(Hits(M, i, j), Hits(C, i, j))
  BY DEF Table, Encodes
<1>2. CASE BucketIndex(k, i) = j
  <2>1. Flip(n, k, Hits(M, i, j), Hits(C, i, j), Hits(N, i, j), Hits(D, i, j))
    BY <1>2 DEF Flip, Hits
  <2>2. Hits(M, i, j) \in SUBSET Key /\ Hits(C, i, j) \in SUBSET Key
    BY DEF Hits
  <2>3. AddTimes(t[i][j], k, KeyHash[k], n) = SumBucket(Hits(N, i, j), Hits(D, i, j))
    BY <1>1, <2>1, <2>2, FlipBucket
  <2> QED  BY <1>1, <1>2, <2>3 DEF Flipped, Updated
<1>3. CASE BucketIndex(k, i) # j
  <2>1. Hits(N, i, j) = Hits(M, i, j) /\ Hits(D, i, j) = Hits(C, i, j)
    BY <1>3 DEF Flip, Hits
  <2> QED  BY <1>1, <1>3, <2>1 DEF Flipped, Updated
<1> QED  BY <1>2, <1>3

\* The update keeps the shape of the table.
LEMMA FlippedType ==
    ASSUME NEW t \in Table, NEW k \in Word, NEW h \in HashWord, NEW n \in Int
    PROVE  Updated(t, k, h, n) \in Table
<1> SUFFICES ASSUME NEW i \in Sub
             PROVE  [t[i] EXCEPT ![BucketIndex(k, i)] = AddTimes(@, k, h, n)]
                      \in [Slot -> Bucket]
  BY DEF Table, Updated
<1>1. t[i] \in [Slot -> Bucket] /\ BucketIndex(k, i) \in Slot
  BY BucketIndexType DEF Table
<1>2. \A b \in Bucket : AddTimes(b, k, h, n) \in Bucket
  BY DEF AddTimes, Bucket, XOR, Word, HashWord
<1> QED  BY <1>1, <1>2

\* The sum of no keys is the empty bucket.
LEMMA EmptySum == SumBucket({}, {}) = EmptyBucket
<1>1. Cardinality({}) - Cardinality({}) = 0
  BY FS_EmptySet
<1>2. {} \cup {} = {}
  OBVIOUS
<1> QED  BY <1>1, <1>2, SumSmall DEF SumBucket, EmptyBucket

\* The table the constructor makes encodes no keys.
LEMMA EmptyTableFacts ==
    /\ EmptyTable \in Table
    /\ Encodes(EmptyTable, {}, {})
<1>1. EmptyBucket \in Bucket
  BY DEF EmptyBucket, Bucket, Word, HashWord
<1>2. \A i, j : Hits({}, i, j) = {}
  BY DEF Hits
<1> QED  BY <1>1, <1>2, EmptySum DEF EmptyTable, Table, Encodes

\* Adding a table to an empty one copies it.
LEMMA CopyTable ==
    ASSUME NEW t \in Table
    PROVE  AddTable(EmptyTable, t) = t
<1> SUFFICES ASSUME NEW i \in Sub, NEW j \in Slot
             PROVE  AddBucket(EmptyBucket, t[i][j]) = t[i][j]
  BY DEF AddTable, EmptyTable, Table
<1>1. t[i][j] \in Bucket
  BY DEF Table
<1> QED  BY <1>1, XORCancel DEF AddBucket, AddTimes, EmptyBucket, Bucket

\* Subtracting one set's bucket from another's leaves their difference.
LEMMA SubtractBucket ==
    ASSUME NEW M \in SUBSET Key, NEW C \in SUBSET Key
    PROVE  RemoveBucket(SumBucket(M, {}), SumBucket(C, {}))
             = SumBucket(M \ C, C \ M)
<1>1. M \cup {} = M /\ C \cup {} = C /\ (M \ C) \cup (C \ M) = XOR(M, C)
  BY DEF XOR
<1>2. /\ IsFiniteSet(M) /\ Cardinality(M) \in Nat
      /\ IsFiniteSet(C) /\ Cardinality(C) \in Nat
      /\ Cardinality(M \cap C) \in Nat
  BY KeySetFinite, FS_Intersection, CardNat
<1>3. /\ Cardinality(M \ C) = Cardinality(M) - Cardinality(M \cap C)
      /\ Cardinality(C \ M) = Cardinality(C) - Cardinality(C \cap M)
      /\ C \cap M = M \cap C
      /\ Cardinality({}) = 0
  BY <1>2, FS_Difference, FS_EmptySet
<1>4. (Cardinality(M) - 0) + (-1) * (Cardinality(C) - 0)
        = (Cardinality(M) - Cardinality(M \cap C))
          - (Cardinality(C) - Cardinality(M \cap C))
  BY <1>2
<1>5. (Cardinality(M) - Cardinality({})) + (-1) * (Cardinality(C) - Cardinality({}))
        = Cardinality(M \ C) - Cardinality(C \ M)
  BY <1>3, <1>4, Zenon
<1>6. /\ KeyXor((M \ C) \cup (C \ M)) = XOR(KeyXor(M \cup {}), KeyXor(C \cup {}))
      /\ HashXor((M \ C) \cup (C \ M)) = XOR(HashXor(M \cup {}), HashXor(C \cup {}))
  <2>1. /\ KeyXor(XOR(M, C)) = XOR(KeyXor(M), KeyXor(C))
        /\ HashXor(XOR(M, C)) = XOR(HashXor(M), HashXor(C))
    BY SumXOR
  <2> QED  BY <1>1, <2>1, Zenon
<1> QED  BY <1>5, <1>6, Zenon DEF RemoveBucket, AddTimes, SumBucket

\* Subtracting tables (XOR) leaves the keys of the two differences, with signs.
LEMMA SubtractTables ==
    ASSUME NEW t \in Table, NEW u \in Table,
           NEW M \in SUBSET Key, NEW C \in SUBSET Key,
           Encodes(t, M, {}), Encodes(u, C, {})
    PROVE  XORTable(t, u) \in Table /\ Encodes(XORTable(t, u), M \ C, C \ M)
<1>1. ASSUME NEW i \in Sub, NEW j \in Slot
      PROVE  XORTable(t, u)[i][j] = SumBucket(Hits(M \ C, i, j), Hits(C \ M, i, j))
  <2>1. /\ Hits(M, i, j) \in SUBSET Key /\ Hits(C, i, j) \in SUBSET Key
        /\ Hits({}, i, j) = {}
        /\ Hits(M \ C, i, j) = Hits(M, i, j) \ Hits(C, i, j)
        /\ Hits(C \ M, i, j) = Hits(C, i, j) \ Hits(M, i, j)
    BY DEF Hits
  <2>2. /\ t[i][j] = SumBucket(Hits(M, i, j), {})
        /\ u[i][j] = SumBucket(Hits(C, i, j), {})
    BY <2>1 DEF Encodes
  <2> QED  BY <2>1, <2>2, SubtractBucket DEF XORTable
<1>2. ASSUME NEW i \in Sub, NEW j \in Slot
      PROVE  XORTable(t, u)[i][j] \in Bucket
  <2>1. Hits(M \ C, i, j) \in SUBSET Key /\ Hits(C \ M, i, j) \in SUBSET Key
    BY DEF Hits
  <2> QED  BY <1>1, <2>1, SumBucketType
<1> QED  BY <1>1, <1>2 DEF XORTable, Table, Encodes

-----------------------------------------------------------------------------
(* The message.                                                            *)

\* Row-major positions and (row, bucket) pairs correspond.
LEMMA FlatIndex ==
    ASSUME NEW i \in Sub, NEW j \in Slot
    PROVE  LET n == buckets_per_subIBLT
           IN  /\ i * n + j \in Cell
               /\ (i * n + j) \div n = i
               /\ (i * n + j) % n = j
<1> DEFINE n == buckets_per_subIBLT
           x == i * n + j
<1>1. n \in Nat \ {0} /\ i \in Nat /\ j \in Nat /\ j < n /\ NumHashfns \in Nat
      /\ i <= NumHashfns - 1
  BY RowNonempty, SizesAssumption DEF Sub, Slot
<1> HIDE DEF n
<1>2. i * n \in Nat /\ (NumHashfns - 1) * n = NumHashfns * n - n
      /\ NumHashfns * n \in Nat
  BY <1>1
<1>3. i * n <= (NumHashfns - 1) * n
  BY <1>1
<1>4. x \in 0 .. NumHashfns * n - 1
  BY <1>1, <1>2, <1>3
<1>5. x \div n = i /\ x % n = j
  BY <1>1, <1>2
<1> QED  BY <1>4, <1>5 DEF Cell, num_buckets, n

\* A nonnegative count below CountHalf survives the unsigned field.
LEMMA CountRoundTrip ==
    ASSUME NEW c \in 0 .. CountHalf - 1
    PROVE  ToInt(ToUint(c)) = c /\ ToUint(c) = c
BY CountAssumption DEF ToInt, ToUint

\* What A sends of a table with no negative keys is what B reads.
LEMMA RoundTrip ==
    ASSUME NEW t \in Table, NEW M \in SUBSET Key, Encodes(t, M, {})
    PROVE  Serialize(t) \in Message /\ Deserialize(EmptyTable, Serialize(t)) = t
<1>1. ASSUME NEW i \in Sub, NEW j \in Slot
      PROVE  t[i][j] \in Bucket /\ t[i][j].count \in 0 .. CountHalf - 1
  <2>1. Hits(M, i, j) \in SUBSET Key /\ Hits({}, i, j) = {}
    BY DEF Hits
  <2>2. t[i][j].count = Cardinality(Hits(M, i, j)) - Cardinality({})
    <3>1. t[i][j] = SumBucket(Hits(M, i, j), {})
      BY <2>1, Zenon DEF Encodes
    <3>2. \A A, B : SumBucket(A, B).count = Cardinality(A) - Cardinality(B)
      BY DEF SumBucket
    <3> QED  BY <3>1, <3>2, Zenon
  <2>3. Cardinality(Hits(M, i, j)) <= Cardinality(Key) /\ Cardinality({}) = 0
    BY <2>1, KeyAssumption, FS_Subset, FS_EmptySet
  <2>4. Cardinality(Hits(M, i, j)) \in Nat /\ Cardinality(Key) \in Nat
    BY <2>1, KeySetFinite
  <2> QED  BY <2>2, <2>3, <2>4, CountAssumption DEF Table
<1>2. ASSUME NEW x \in Cell
      PROVE  x \div buckets_per_subIBLT \in Sub /\ x % buckets_per_subIBLT \in Slot
  <2> DEFINE n == buckets_per_subIBLT
  <2>1. n \in Nat \ {0} /\ NumHashfns \in Nat /\ x \in Nat /\ x < NumHashfns * n
    BY RowNonempty, SizesAssumption DEF Cell, num_buckets
  <2> HIDE DEF n
  <2>2. x \div n \in Nat /\ x >= n * (x \div n) /\ x % n \in 0 .. n - 1
    BY <2>1
  <2>3. ASSUME x \div n >= NumHashfns PROVE FALSE
    <3> DEFINE q == x \div n
    <3> HIDE DEF q
    <3>1. q \in Nat /\ q >= NumHashfns /\ x >= n * q
      BY <2>2, <2>3 DEF q
    <3>2. n * q >= n * NumHashfns
      BY <3>1, <2>1
    <3> QED  BY <3>1, <3>2, <2>1
  <2> QED  BY <2>1, <2>2, <2>3 DEF Sub, Slot, n
<1>3. ASSUME NEW i \in Sub, NEW j \in Slot
      PROVE  Deserialize(EmptyTable, Serialize(t))[i][j] = t[i][j]
  <2> DEFINE x == i * buckets_per_subIBLT + j
             b == t[i][j]
             c == [b EXCEPT !.count = ToUint(@)]
  <2>1. Serialize(t)[x] = c
    BY FlatIndex DEF Serialize
  <2>2. b \in Bucket /\ ToInt(ToUint(b.count)) = b.count /\ b.count \in Int
    BY <1>1, CountRoundTrip DEF Bucket
  <2> HIDE DEF b
  <2>3. AddTimes(EmptyBucket, c.key_sum, c.hash_sum, ToInt(c.count)) = b
    <3>1. /\ c.key_sum = b.key_sum /\ c.hash_sum = b.hash_sum
          /\ ToInt(c.count) = b.count
      BY <2>2 DEF Bucket
    <3> HIDE DEF c
    <3>2. AddTimes(EmptyBucket, c.key_sum, c.hash_sum, ToInt(c.count))
            = [key_sum |-> b.key_sum, hash_sum |-> b.hash_sum, count |-> b.count]
      BY <2>2, <3>1, XORCancel DEF AddTimes, EmptyBucket
    <3> QED  BY <2>2, <3>2 DEF Bucket
  <2>4. Deserialize(EmptyTable, Serialize(t))[i][j]
          = AddTimes(EmptyBucket, c.key_sum, c.hash_sum, ToInt(c.count))
    BY <2>1 DEF Deserialize, EmptyTable
  <2> QED  BY <2>3, <2>4 DEF b
<1>4. Serialize(t) \in Message
  <2> SUFFICES ASSUME NEW x \in Cell
               PROVE  Serialize(t)[x] \in [key_sum : Word, hash_sum : HashWord,
                                            count : 0 .. 2 * CountHalf - 1]
    BY DEF Serialize, Message
  <2> DEFINE b == t[x \div buckets_per_subIBLT][x % buckets_per_subIBLT]
  <2>1. b \in Bucket /\ b.count \in 0 .. CountHalf - 1
    BY <1>1, <1>2
  <2>2. ToUint(b.count) \in 0 .. 2 * CountHalf - 1
    BY <2>1, CountRoundTrip, CountAssumption
  <2> HIDE DEF b
  <2>3. [b EXCEPT !.count = ToUint(@)] \in [key_sum : Word, hash_sum : HashWord,
                                             count : 0 .. 2 * CountHalf - 1]
    BY <2>1, <2>2 DEF Bucket
  <2> QED  BY <2>3 DEF Serialize, b
<1> QED  BY <1>3, <1>4 DEF Deserialize, Table

-----------------------------------------------------------------------------
(* What the two tests on a bucket tell when the checksum is sound.         *)

\* The keys of the two sides of a bucket are counted together.
LEMMA DisjointCount ==
    ASSUME NEW M \in SUBSET Key, NEW C \in SUBSET Key, M \cap C = {}
    PROVE  /\ Cardinality(M) \in Nat /\ Cardinality(C) \in Nat
           /\ Cardinality(M \cup C) = Cardinality(M) + Cardinality(C)
<1>1. IsFiniteSet(M) /\ IsFiniteSet(C) /\ Cardinality(M) \in Nat /\ Cardinality(C) \in Nat
  BY KeySetFinite
<1>2. Cardinality(M \cup C) = Cardinality(M) + Cardinality(C) - Cardinality(M \cap C)
  BY <1>1, FS_Union
<1>3. Cardinality(M \cap C) = 0
  BY FS_EmptySet, Zenon
<1> QED  BY <1>1, <1>2, <1>3

OneKey(M, C, k) == (M = {k} /\ C = {}) \/ (M = {} /\ C = {k})

\* can_peel holds of the buckets with one key and of no others.
LEMMA Peelable ==
    ASSUME ChecksumSound,
           NEW M \in SUBSET Key, NEW C \in SUBSET Key, M \cap C = {}
    PROVE  CanPeel(SumBucket(M, C)) <=> \E k \in Key : OneKey(M, C, k)
<1>1. ASSUME CanPeel(SumBucket(M, C))
      PROVE  \E k \in Key : OneKey(M, C, k)
  <2>1. /\ Cardinality(M) - Cardinality(C) \in {-1, 1}
        /\ KeyHash[KeyXor(M \cup C)] = HashXor(M \cup C)
    BY <1>1 DEF CanPeel, SumBucket
  <2>2. IsOdd(M \cup C)
    BY <2>1, DisjointCount DEF IsOdd
  <2>3. Cardinality(M \cup C) = 1
    <3>1. M \cup C \in SUBSET Key
      OBVIOUS
    <3> QED  BY <2>1, <2>2, <3>1, Zenon DEF ChecksumSound
  <2>4. PICK k : M \cup C = {k}
    <3>1. M \cup C \in SUBSET Key
      OBVIOUS
    <3>2. IsFiniteSet(M \cup C)
      BY <3>1, KeySetFinite
    <3> QED  BY <2>3, <3>2, FS_Singleton
  <2> QED  BY <2>4 DEF OneKey
<1>2. ASSUME NEW k \in Key, OneKey(M, C, k)
      PROVE  CanPeel(SumBucket(M, C))
  <2>1. M \cup C = {k}
    BY <1>2 DEF OneKey
  <2>2. KeyHash[KeyXor(M \cup C)] = HashXor(M \cup C)
    BY <2>1, SumSmall
  <2>3. Cardinality({}) = 0 /\ Cardinality({k}) = 1
    BY FS_EmptySet, FS_Singleton, Zenon
  <2>4. Cardinality(M) - Cardinality(C) \in {-1, 1}
    BY <1>2, <2>3 DEF OneKey
  <2> QED  BY <2>2, <2>4 DEF CanPeel, SumBucket
<1> QED  BY <1>1, <1>2

\* is_empty holds of the buckets with no key and of no others.
LEMMA LooksEmpty ==
    ASSUME ChecksumSound,
           NEW M \in SUBSET Key, NEW C \in SUBSET Key, M \cap C = {}
    PROVE  SumBucket(M, C) = EmptyBucket <=> M = {} /\ C = {}
<1>1. ASSUME SumBucket(M, C) = EmptyBucket
      PROVE  M = {} /\ C = {}
  <2>1. /\ Cardinality(M) - Cardinality(C) = 0
        /\ KeyXor(M \cup C) = {} /\ HashXor(M \cup C) = {}
    BY <1>1 DEF SumBucket, EmptyBucket
  <2>2. ~IsOdd(M \cup C)
    BY <2>1, DisjointCount DEF IsOdd
  <2>3. M \cup C \in SUBSET Key
    OBVIOUS
  <2>4. M \cup C = {}
    BY <2>1, <2>2, <2>3, Zenon DEF ChecksumSound
  <2> QED  BY <2>4
<1> QED  BY <1>1, EmptySum

\* A one-key bucket names its key, its checksum and its side.
LEMMA OneKeyBucket ==
    ASSUME NEW k \in Key
    PROVE  /\ SumBucket({k}, {}) = [key_sum |-> k, hash_sum |-> KeyHash[k], count |-> 1]
           /\ SumBucket({}, {k}) = [key_sum |-> k, hash_sum |-> KeyHash[k], count |-> -1]
<1>1. Cardinality({}) = 0 /\ Cardinality({k}) = 1
  BY FS_EmptySet, FS_Singleton, Zenon
<1>2. Cardinality({k}) - Cardinality({}) = 1 /\ Cardinality({}) - Cardinality({k}) = -1
  BY <1>1
<1>3. {k} \cup {} = {k} /\ {} \cup {k} = {k}
  OBVIOUS
<1>4. KeyXor({k}) = k /\ HashXor({k}) = KeyHash[k]
  BY SumSmall
<1>5. /\ KeyXor({k} \cup {}) = k /\ HashXor({k} \cup {}) = KeyHash[k]
      /\ KeyXor({} \cup {k}) = k /\ HashXor({} \cup {k}) = KeyHash[k]
  BY <1>3, <1>4, Zenon
<1> QED  BY <1>2, <1>5, Zenon DEF SumBucket

-----------------------------------------------------------------------------
(* The steps of the protocol.                                              *)

\* Facts about the constants that most steps need.
LEMMA Constants ==
    /\ buckets_per_subIBLT \in Nat \ {0} /\ NumHashfns \in Nat \ {0}
    /\ FirstBucket \in [i : 0 .. NumHashfns, j : Slot]
    /\ Key \subseteq Word /\ KeyHash \in [Word -> HashWord]
BY RowNonempty, SizesAssumption, KeyAssumption, HashAssumption DEF FirstBucket, Slot

\* The invariant holds before anything is inserted.
LEMMA Initially == Init => IInv
<1> SUFFICES ASSUME Init PROVE IInv
  OBVIOUS
<1> USE DEF Init
<1>1. TypeOK
  BY EmptyTableFacts, Constants DEF TypeOK, Party
<1>2. Phases
  BY DEF Phases, Party
<1>3. TablesEncodeSets
  BY EmptyTableFacts DEF TablesEncodeSets
<1>4. ~Peeling /\ ~Returned
  BY DEF Peeling, Returned, Party
<1>5. PeeledInDifference /\ QueueIsSound
  BY DEF PeeledInDifference, QueueIsSound
<1>6. ScanIsComplete
  BY DEF ScanIsComplete, Party
<1> QED  BY <1>1, <1>2, <1>3, <1>4, <1>5, <1>6
         DEF IInv, ResidueEncodesRest, ReturnIsFinal, StoppingKept

-----------------------------------------------------------------------------
(* The tables of the two parties.                                          *)

\* insert_key and remove_key keep a table the sum of its set of keys.
LEMMA InsertRemoveTable ==
    ASSUME NEW t \in Table, NEW M \in SUBSET Key, NEW k \in Key, Encodes(t, M, {})
    PROVE  /\ InsertKey(t, k) \in Table /\ RemoveKey(t, k) \in Table
           /\ k \notin M => Encodes(InsertKey(t, k), M \cup {k}, {})
           /\ k \in M => Encodes(RemoveKey(t, k), M \ {k}, {})
<1>1. k \in Word /\ KeyHash[k] \in HashWord
  BY Constants
<1>2. InsertKey(t, k) = Flipped(t, k, 1) /\ RemoveKey(t, k) = Flipped(t, k, -1)
  BY DEF InsertKey, RemoveKey, Flipped, Updated
<1>3. InsertKey(t, k) \in Table /\ RemoveKey(t, k) \in Table
  BY <1>1, <1>2, FlippedType DEF Flipped
<1>4. /\ k \notin M => Flip(1, k, M, {}, M \cup {k}, {})
      /\ k \in M => Flip(-1, k, M, {}, M \ {k}, {})
  BY DEF Flip
<1>5. {} \in SUBSET Key
  OBVIOUS
<1> QED  BY <1>2, <1>3, <1>4, <1>5, FlipTable

\* Filling a table (insert_key, remove_key) keeps the invariant.
LEMMA InsertStep ==
    ASSUME IInv, NEW p \in Party, NEW k \in Key, Insert(p, k) \/ Remove(p, k)
    PROVE  IInv'
<1> DEFINE M == keys'[p]
<1>0. TypeOK /\ Phases /\ TablesEncodeSets /\ pc[p] = "fill"
  BY DEF IInv, Insert, Remove
<1>1. /\ pc["B"] = "fill" /\ UNCHANGED <<wire, pc, residue, cursor, peelable_keys, peeled>>
      /\ peelable_keys = << >>
  <2>1. pc["B"] = "fill"
    BY <1>0 DEF Phases, Party
  <2> QED  BY <1>0, <2>1 DEF Insert, Remove, Phases
<1>2. /\ keys[p] \in SUBSET Key /\ iblt[p] \in Table /\ Encodes(iblt[p], keys[p], {})
  BY <1>0 DEF TypeOK, TablesEncodeSets
<1>3. \E S \in SUBSET Key, t \in Table :
          /\ Encodes(t, S, {})
          /\ keys' = [keys EXCEPT ![p] = S] /\ iblt' = [iblt EXCEPT ![p] = t]
  <2>1. CASE Insert(p, k)
    BY <1>2, <2>1, InsertRemoveTable DEF Insert
  <2>2. CASE Remove(p, k)
    BY <1>2, <2>2, InsertRemoveTable DEF Remove
  <2> QED  BY <2>1, <2>2
<1>4. TypeOK'
  BY <1>0, <1>1, <1>3 DEF TypeOK, peeled
<1>5. TablesEncodeSets'
  <2> SUFFICES ASSUME NEW q \in Party PROVE Encodes(iblt'[q], keys'[q], {})
    BY DEF TablesEncodeSets
  <2>1. CASE q = p
    BY <1>0, <1>3, <2>1 DEF TypeOK
  <2>2. CASE q # p
    BY <1>0, <1>3, <2>2 DEF TypeOK, TablesEncodeSets
  <2> QED  BY <2>1, <2>2
<1>6. Phases'
  <2>1. pc["A"] = "sent" => iblt'["A"] = iblt["A"]
    BY <1>0, <1>3 DEF Phases, TypeOK, Party
  <2> QED  BY <1>0, <1>1, <2>1 DEF Phases, peeled, Serialize
<1>7. ~Peeling' /\ ~Returned'
  BY <1>1 DEF Peeling, Returned
<1>8. PeeledInDifference' /\ QueueIsSound'
  BY <1>0, <1>1 DEF Phases, PeeledInDifference, QueueIsSound, peeled
<1>9. ScanIsComplete'
  BY <1>1 DEF ScanIsComplete
<1> QED  BY <1>4, <1>5, <1>6, <1>7, <1>8, <1>9
         DEF IInv, ResidueEncodesRest, ReturnIsFinal, StoppingKept

\* Sending A's table (send_IBLT_encoding) keeps the invariant.
LEMMA SendStep == ASSUME IInv, Send PROVE IInv'
<1>0. TypeOK /\ Phases /\ TablesEncodeSets /\ pc["A"] = "fill" /\ pc["B"] = "fill"
  BY DEF IInv, Send, Phases
<1>1. /\ UNCHANGED <<keys, iblt, residue, cursor, peelable_keys,
                     my_peeled_keys, cp_peeled_keys>>
      /\ wire' = Serialize(iblt["A"]) /\ pc' = [pc EXCEPT !["A"] = "sent"]
  BY DEF Send, filling, peeled
<1>2. "A" \in Party /\ "B" \in Party
  BY DEF Party
<1>3. wire' \in Message
  <2>1. /\ iblt["A"] \in Table /\ keys["A"] \in SUBSET Key
        /\ Encodes(iblt["A"], keys["A"], {})
    BY <1>0, <1>2 DEF TypeOK, TablesEncodeSets
  <2> QED  BY <1>1, <2>1, RoundTrip
<1>4. pc'["B"] = "fill" /\ pc'["A"] = "sent"
  BY <1>0, <1>1, <1>2 DEF TypeOK
<1>5. TypeOK'
  BY <1>0, <1>1, <1>3 DEF TypeOK
<1>6. TablesEncodeSets'
  BY <1>0, <1>1 DEF TablesEncodeSets
<1>7. Phases'
  <2>1. Serialize(iblt["A"])' = Serialize(iblt["A"])
    BY <1>1 DEF Serialize
  <2> QED  BY <1>0, <1>1, <1>4, <2>1 DEF Phases
<1>8. ~Peeling' /\ ~Returned' /\ ScanIsComplete'
  BY <1>4 DEF Peeling, Returned, ScanIsComplete
<1>9. PeeledInDifference' /\ QueueIsSound'
  BY <1>0, <1>1 DEF Phases, PeeledInDifference, QueueIsSound
<1> QED  BY <1>5, <1>6, <1>7, <1>8, <1>9
         DEF IInv, ResidueEncodesRest, ReturnIsFinal, StoppingKept

\* B's decoding and subtraction (receive_IBLT_encoding) keep the invariant.
LEMMA ReceiveStep == ASSUME IInv, Receive PROVE IInv'
<1>0. /\ TypeOK /\ Phases /\ TablesEncodeSets /\ pc["A"] = "sent" /\ pc["B"] = "fill"
      /\ "A" \in Party /\ "B" \in Party
  BY DEF IInv, Receive, Party
<1>1. /\ UNCHANGED <<keys, iblt, wire, cursor, peelable_keys,
                     my_peeled_keys, cp_peeled_keys>>
      /\ residue' = XORTable(AddTable(EmptyTable, iblt["B"]),
                             Deserialize(EmptyTable, wire))
      /\ pc' = [pc EXCEPT !["B"] = "scan"]
      /\ pc'["B"] = "scan" /\ pc'["A"] = "sent"
  BY <1>0 DEF Receive, filling, peeled, TypeOK
<1>2. /\ my_peeled_keys = {} /\ cp_peeled_keys = {}
      /\ peelable_keys = << >> /\ cursor = FirstBucket
  BY <1>0 DEF Phases
<1>3. \A p \in Party : /\ iblt[p] \in Table /\ keys[p] \in SUBSET Key
                       /\ Encodes(iblt[p], keys[p], {})
  BY <1>0 DEF TypeOK, TablesEncodeSets
<1>4. residue' = XORTable(iblt["B"], iblt["A"])
  BY <1>0, <1>1, <1>3, CopyTable, RoundTrip DEF Phases
<1>5. residue' \in Table /\ Encodes(residue', OnlyMine, OnlyTheirs)
  BY <1>0, <1>3, <1>4, SubtractTables DEF OnlyMine, OnlyTheirs
<1>6. RestMine' = OnlyMine /\ RestTheirs' = OnlyTheirs /\ OnlyMine' = OnlyMine
      /\ OnlyTheirs' = OnlyTheirs
  BY <1>1, <1>2 DEF RestMine, RestTheirs, OnlyMine, OnlyTheirs
<1>7. TypeOK'
  BY <1>0, <1>1, <1>5 DEF TypeOK
<1>8. TablesEncodeSets' /\ Phases'
  <2>1. Serialize(iblt["A"])' = Serialize(iblt["A"])
    BY <1>1 DEF Serialize
  <2> QED  BY <1>0, <1>1, <2>1 DEF TablesEncodeSets, Phases
<1>9. ResidueEncodesRest'
  BY <1>5, <1>6 DEF ResidueEncodesRest
<1>10. PeeledInDifference' /\ QueueIsSound'
  BY <1>1, <1>2 DEF PeeledInDifference, QueueIsSound
<1>11. ScanIsComplete'
  BY <1>1, <1>2, Constants DEF ScanIsComplete, Visited, FirstBucket, Sub, Slot
<1>12. ReturnIsFinal'
  BY <1>1 DEF ReturnIsFinal, Returned
<1>13. StoppingKept'
  BY <1>6 DEF StoppingKept, Rest
<1> QED  BY <1>7, <1>8, <1>9, <1>10, <1>11, <1>12, <1>13 DEF IInv

-----------------------------------------------------------------------------
(* Peeling.                                                                *)

\* A bucket of the residue is the sum of the unreported keys that hit it.
LEMMA ResidueBucket ==
    ASSUME IInv, Peeling \/ Returned, NEW i \in Sub, NEW j \in Slot
    PROVE  LET M == Hits(RestMine, i, j)
               C == Hits(RestTheirs, i, j)
           IN  /\ residue[i][j] = SumBucket(M, C) /\ residue[i][j] \in Bucket
               /\ M \in SUBSET Key /\ C \in SUBSET Key /\ M \cap C = {}
<1>1. keys["A"] \in SUBSET Key /\ keys["B"] \in SUBSET Key /\ residue \in Table
  BY DEF IInv, TypeOK, Party
<1>2. Encodes(residue, RestMine, RestTheirs)
  BY DEF IInv, ResidueEncodesRest
<1> QED  BY <1>1, <1>2
         DEF Encodes, Table, Hits, RestMine, RestTheirs, OnlyMine, OnlyTheirs

\* Visiting a bucket (find_peelable_key) keeps the invariant: with a sound
\* checksum, what is queued is one key, alone in that bucket.
LEMMA ScanStep == ASSUME ChecksumSound, IInv, ScanBucket PROVE IInv'
<1> DEFINE i == cursor.i
           j == cursor.j
           b == residue[i][j]
<1>0. /\ TypeOK /\ i \in Sub /\ j \in Slot /\ pc["B"] = "scan" /\ Peeling
  BY DEF IInv, TypeOK, ScanBucket, Peeling
<1>1. /\ UNCHANGED <<keys, iblt, wire, pc, residue, my_peeled_keys, cp_peeled_keys>>
      /\ cursor' = AfterBucket(cursor)
      /\ peelable_keys' = IF CanPeel(b) THEN Append(peelable_keys, b) ELSE peelable_keys
  BY DEF ScanBucket, filling, peeled
<1>2. b \in Bucket /\ peelable_keys \in Seq(Bucket)
  BY <1>0, ResidueBucket DEF TypeOK
<1>3. CanPeel(b) => QueuedKey(b)
  <2> SUFFICES ASSUME CanPeel(b) PROVE QueuedKey(b)
    OBVIOUS
  <2> DEFINE M == Hits(RestMine, i, j)
             C == Hits(RestTheirs, i, j)
  <2>1. /\ b = SumBucket(M, C) /\ M \in SUBSET Key /\ C \in SUBSET Key
        /\ M \cap C = {}
    BY <1>0, ResidueBucket
  <2>2. PICK k \in Key : OneKey(M, C, k)
    <3> HIDE DEF M, C, b
    <3> QED  BY <2>1, Peelable
  <2>3. /\ b.key_sum = k /\ b.hash_sum = KeyHash[k]
        /\ \/ b.count = 1 /\ M = {k}
           \/ b.count = -1 /\ C = {k}
    <3> HIDE DEF M, C, b
    <3>1. CASE M = {k} /\ C = {}
      <4>1. b = [key_sum |-> k, hash_sum |-> KeyHash[k], count |-> 1]
        BY <2>1, <3>1, OneKeyBucket, Zenon
      <4> QED  BY <3>1, <4>1
    <3>2. CASE M = {} /\ C = {k}
      <4>1. b = [key_sum |-> k, hash_sum |-> KeyHash[k], count |-> -1]
        BY <2>1, <3>2, OneKeyBucket, Zenon
      <4> QED  BY <3>2, <4>1
    <3> QED  BY <2>2, <3>1, <3>2 DEF OneKey
  <2>4. M \cup C = {k}
    <3> HIDE DEF M, C
    <3> QED  BY <2>2 DEF OneKey
  <2>5. Alone(k)
    BY <1>0, <2>4 DEF Alone, Rest, Hits
  <2>6. (M = {k} => k \in OnlyMine) /\ (C = {k} => k \in OnlyTheirs)
    BY DEF Hits, RestMine, RestTheirs
  <2> HIDE DEF M, C, b
  <2> QED  BY <2>3, <2>5, <2>6 DEF QueuedKey
<1>4. /\ cursor' \in [i : 0 .. NumHashfns, j : Slot]
      /\ \A x \in Sub, y \in Slot :
            Visited(x, y)' => Visited(x, y) \/ (x = i /\ y = j)
  <2>1. cursor \in [i : 0 .. NumHashfns, j : Slot]
    BY <1>0 DEF TypeOK
  <2>2. /\ cursor' = AfterBucket(cursor) /\ i < NumHashfns /\ j \in Slot
        /\ NumHashfns \in Nat /\ buckets_per_subIBLT \in Nat \ {0}
    BY <1>0, <1>1, Constants DEF Sub
  <2>3. CASE j + 1 < buckets_per_subIBLT
    BY <2>1, <2>2, <2>3 DEF AfterBucket, Visited, Sub, Slot
  <2>4. CASE ~(j + 1 < buckets_per_subIBLT)
    BY <2>1, <2>2, <2>4 DEF AfterBucket, Visited, Sub, Slot
  <2> QED  BY <2>3, <2>4
<1>5. TypeOK'
  BY <1>0, <1>1, <1>2, <1>4 DEF TypeOK
<1>6. QueueIsSound'
  <2>1. \A c : QueuedKey(c)' <=> QueuedKey(c)
    BY <1>1 DEF QueuedKey, Alone, Rest, RestMine, RestTheirs, OnlyMine, OnlyTheirs
  <2>2. QueueIsSound
    BY DEF IInv
  <2> HIDE DEF b
  <2>3. \A x \in 1 .. Len(peelable_keys') : QueuedKey(peelable_keys'[x])
    BY <1>1, <1>2, <1>3, <2>2 DEF QueueIsSound
  <2> QED  BY <2>1, <2>3 DEF QueueIsSound
<1>7. ScanIsComplete'
  <2>1. peelable_keys' = << >> => peelable_keys = << >> /\ ~CanPeel(b)
    <3> HIDE DEF b
    <3> QED  BY <1>1, <1>2
  <2> QED  BY <1>0, <1>1, <1>4, <2>1 DEF IInv, ScanIsComplete
<1>8. /\ OnlyMine' = OnlyMine /\ OnlyTheirs' = OnlyTheirs
      /\ RestMine' = RestMine /\ RestTheirs' = RestTheirs
      /\ Peeling' = Peeling /\ Returned' = Returned
  BY <1>1 DEF RestMine, RestTheirs, OnlyMine, OnlyTheirs, Peeling, Returned
<1>9. /\ TablesEncodeSets' /\ ResidueEncodesRest' /\ PeeledInDifference'
      /\ StoppingKept'
  BY <1>1, <1>8
     DEF IInv, TablesEncodeSets, ResidueEncodesRest, PeeledInDifference,
         StoppingKept, Rest
<1>10. Phases' /\ ReturnIsFinal'
  <2>1. Serialize(iblt["A"])' = Serialize(iblt["A"])
    BY <1>1 DEF Serialize
  <2> QED  BY <1>0, <1>1, <2>1 DEF IInv, Phases, ReturnIsFinal, Returned
<1> QED  BY <1>5, <1>6, <1>7, <1>9, <1>10 DEF IInv

\* Going on to the deque after a scan that found something keeps the invariant.
LEMMA FoundSomeStep == ASSUME IInv, FoundSome PROVE IInv'
<1>0. TypeOK /\ Phases /\ pc["B"] = "scan" /\ Peeling /\ "B" \in Party
  BY DEF IInv, FoundSome, Peeling, Party
<1>1. /\ UNCHANGED <<keys, iblt, wire, residue, cursor, peelable_keys,
                     my_peeled_keys, cp_peeled_keys>>
      /\ pc' = [pc EXCEPT !["B"] = "drain"] /\ pc'["B"] = "drain" /\ pc'["A"] = pc["A"]
  BY <1>0 DEF FoundSome, filling, peeled, TypeOK
<1>2. /\ OnlyMine' = OnlyMine /\ OnlyTheirs' = OnlyTheirs
      /\ RestMine' = RestMine /\ RestTheirs' = RestTheirs /\ Peeling' /\ ~Returned'
  BY <1>1 DEF RestMine, RestTheirs, OnlyMine, OnlyTheirs, Peeling, Returned
<1>3. TypeOK'
  BY <1>0, <1>1 DEF TypeOK
<1>4. Phases'
  <2>1. Serialize(iblt["A"])' = Serialize(iblt["A"])
    BY <1>1 DEF Serialize
  <2> QED  BY <1>0, <1>1, <2>1 DEF Phases
<1>5. /\ TablesEncodeSets' /\ ResidueEncodesRest' /\ PeeledInDifference'
      /\ StoppingKept'
  BY <1>0, <1>1, <1>2
     DEF IInv, TablesEncodeSets, ResidueEncodesRest, PeeledInDifference,
         StoppingKept, Rest
<1>6. QueueIsSound'
  BY <1>1, <1>2 DEF IInv, QueueIsSound, QueuedKey, Alone, Rest
<1>7. ScanIsComplete' /\ ReturnIsFinal'
  BY <1>1, <1>2 DEF ScanIsComplete, ReturnIsFinal
<1> QED  BY <1>3, <1>4, <1>5, <1>6, <1>7 DEF IInv

\* Starting a new scan with an empty deque keeps the invariant.
LEMMA RescanStep == ASSUME IInv, Rescan PROVE IInv'
<1>0. TypeOK /\ Phases /\ pc["B"] = "drain" /\ Peeling /\ "B" \in Party
  BY DEF IInv, Rescan, Peeling, Party
<1>1. /\ UNCHANGED <<keys, iblt, wire, residue, peelable_keys,
                     my_peeled_keys, cp_peeled_keys>>
      /\ cursor' = FirstBucket
      /\ pc' = [pc EXCEPT !["B"] = "scan"] /\ pc'["B"] = "scan" /\ pc'["A"] = pc["A"]
  BY <1>0 DEF Rescan, filling, peeled, TypeOK
<1>2. /\ OnlyMine' = OnlyMine /\ OnlyTheirs' = OnlyTheirs
      /\ RestMine' = RestMine /\ RestTheirs' = RestTheirs /\ Peeling' /\ ~Returned'
  BY <1>1 DEF RestMine, RestTheirs, OnlyMine, OnlyTheirs, Peeling, Returned
<1>3. TypeOK'
  BY <1>0, <1>1, Constants DEF TypeOK
<1>4. Phases'
  <2>1. Serialize(iblt["A"])' = Serialize(iblt["A"])
    BY <1>1 DEF Serialize
  <2> QED  BY <1>0, <1>1, <2>1 DEF Phases
<1>5. /\ TablesEncodeSets' /\ ResidueEncodesRest' /\ PeeledInDifference'
      /\ StoppingKept'
  BY <1>0, <1>1, <1>2
     DEF IInv, TablesEncodeSets, ResidueEncodesRest, PeeledInDifference,
         StoppingKept, Rest
<1>6. QueueIsSound'
  BY <1>1, <1>2 DEF IInv, QueueIsSound, QueuedKey, Alone, Rest
<1>7. ScanIsComplete' /\ ReturnIsFinal'
  BY <1>1, <1>2, Constants
     DEF ScanIsComplete, ReturnIsFinal, Visited, FirstBucket, Sub, Slot
<1> QED  BY <1>3, <1>4, <1>5, <1>6, <1>7 DEF IInv

\* Returning after a scan that found nothing keeps the invariant.
LEMMA FoundNoneStep == ASSUME IInv, FoundNone PROVE IInv'
<1>0. /\ TypeOK /\ Phases /\ pc["B"] = "scan" /\ Peeling /\ "B" \in Party
      /\ cursor.i \notin Sub /\ peelable_keys = << >>
  BY DEF IInv, FoundNone, Peeling, Party
<1>1. /\ UNCHANGED <<keys, iblt, wire, residue, cursor, peelable_keys,
                     my_peeled_keys, cp_peeled_keys>>
      /\ pc'["B"] = IF IsEmptyTable(residue) THEN "success" ELSE "failure"
      /\ pc' \in [Party -> {"fill", "sent", "scan", "drain", "success", "failure"}]
      /\ pc'["A"] = pc["A"]
  BY <1>0 DEF FoundNone, filling, peeled, TypeOK
<1>2. /\ OnlyMine' = OnlyMine /\ OnlyTheirs' = OnlyTheirs
      /\ RestMine' = RestMine /\ RestTheirs' = RestTheirs /\ ~Peeling' /\ Returned'
  BY <1>1 DEF RestMine, RestTheirs, OnlyMine, OnlyTheirs, Peeling, Returned
<1>3. TypeOK'
  BY <1>0, <1>1 DEF TypeOK
<1>4. Phases'
  <2>1. Serialize(iblt["A"])' = Serialize(iblt["A"])
    BY <1>1 DEF Serialize
  <2> QED  BY <1>0, <1>1, <2>1 DEF Phases
<1>5. /\ TablesEncodeSets' /\ ResidueEncodesRest' /\ PeeledInDifference'
      /\ StoppingKept'
  BY <1>0, <1>1, <1>2
     DEF IInv, TablesEncodeSets, ResidueEncodesRest, PeeledInDifference,
         StoppingKept, Rest
<1>6. QueueIsSound' /\ ScanIsComplete'
  BY <1>0, <1>1 DEF QueueIsSound, ScanIsComplete
<1>7. \A i \in Sub, j \in Slot : ~CanPeel(residue[i][j])
  <2>1. cursor.i = NumHashfns
    BY <1>0, Constants DEF TypeOK, Sub
  <2>2. \A i \in Sub, j \in Slot : Visited(i, j)
    BY <2>1, Constants DEF Visited, Sub
  <2> QED  BY <1>0, <2>2 DEF IInv, ScanIsComplete
<1>8. ReturnIsFinal'
  <2>1. pc'["B"] = "success" <=> IsEmptyTable(residue)
    BY <1>1
  <2>2. IsEmptyTable(residue)' = IsEmptyTable(residue)
    BY <1>1 DEF IsEmptyTable
  <2> QED  BY <1>1, <1>7, <2>1, <2>2 DEF ReturnIsFinal
<1> QED  BY <1>3, <1>4, <1>5, <1>6, <1>8 DEF IInv

\* What taking the front of the deque leaves alone, and what the front is.
LEMMA PopFacts ==
    ASSUME IInv, NEW b, Pop(b)
    PROVE  /\ QueuedKey(b) /\ b \in Bucket /\ Peeling /\ pc["B"] = "drain"
           /\ UNCHANGED <<keys, iblt, wire, pc, cursor>>
           /\ OnlyMine' = OnlyMine /\ OnlyTheirs' = OnlyTheirs
           /\ TablesEncodeSets' /\ Phases'
           /\ ScanIsComplete' /\ ReturnIsFinal'
           /\ peelable_keys' \in Seq(Bucket)
           /\ \A x \in 1 .. Len(peelable_keys') :
                 /\ x + 1 \in 1 .. Len(peelable_keys)
                 /\ peelable_keys'[x] = peelable_keys[x + 1]
<1>0. TypeOK /\ Phases /\ QueueIsSound /\ TablesEncodeSets /\ pc["B"] = "drain" /\ Peeling
  BY DEF IInv, Pop, Peeling
<1>1. /\ UNCHANGED <<keys, iblt, wire, pc, cursor>>
      /\ peelable_keys' = Tail(peelable_keys)
      /\ peelable_keys # << >> /\ b = Head(peelable_keys)
  BY DEF Pop, filling
<1>2. peelable_keys \in Seq(Bucket) /\ 1 \in 1 .. Len(peelable_keys) /\ b = peelable_keys[1]
  BY <1>0, <1>1 DEF TypeOK
<1>3. QueuedKey(b) /\ b \in Bucket
  BY <1>0, <1>2 DEF QueueIsSound
<1>4. OnlyMine' = OnlyMine /\ OnlyTheirs' = OnlyTheirs
  BY <1>1 DEF OnlyMine, OnlyTheirs
<1>5. TablesEncodeSets' /\ Phases' /\ ScanIsComplete' /\ ReturnIsFinal'
  <2>1. Serialize(iblt["A"])' = Serialize(iblt["A"])
    BY <1>1 DEF Serialize
  <2> QED  BY <1>0, <1>1, <2>1
           DEF TablesEncodeSets, Phases, ScanIsComplete, ReturnIsFinal, Returned
<1>6. /\ peelable_keys' \in Seq(Bucket)
      /\ \A x \in 1 .. Len(peelable_keys') :
            /\ x + 1 \in 1 .. Len(peelable_keys)
            /\ peelable_keys'[x] = peelable_keys[x + 1]
  BY <1>1, <1>2
<1> QED  BY <1>0, <1>1, <1>3, <1>4, <1>5, <1>6

\* Reporting a key that was alone in a bucket keeps the others' facts.
LEMMA ReportOne ==
    ASSUME IInv, NEW b, Pop(b), b.key_sum \in Rest, Rest' = Rest \ {b.key_sum}
    PROVE  QueueIsSound' /\ StoppingKept'
<1> DEFINE k == b.key_sum
<1>1. QueueIsSound /\ StoppingKept /\ Alone(k)
  BY PopFacts DEF IInv, QueuedKey
<1>2. QueueIsSound'
  <2> SUFFICES ASSUME NEW x \in 1 .. Len(peelable_keys')
               PROVE  QueuedKey(peelable_keys[x])'
    BY DEF QueueIsSound
  <2>1. QueuedKey(peelable_keys[x + 1]) /\ peelable_keys'[x] = peelable_keys[x + 1]
    BY <1>1, PopFacts DEF QueueIsSound
  <2> QED  BY <2>1, PopFacts DEF QueuedKey, Alone
<1>3. StoppingKept'
  <2> SUFFICES ASSUME NEW S \in SUBSET (OnlyMine \cup OnlyTheirs), Stopping(S)
               PROVE  S \subseteq Rest'
    BY PopFacts DEF StoppingKept
  <2>1. S \subseteq Rest
    BY <1>1, PopFacts DEF StoppingKept
  <2>2. ASSUME k \in S PROVE FALSE
    <3>1. PICK i \in Sub : \A l \in Rest : BucketIndex(l, i) = BucketIndex(k, i) => l = k
      BY <1>1 DEF Alone
    <3>2. PICK l \in S \ {k} : BucketIndex(l, i) = BucketIndex(k, i)
      BY <2>2 DEF Stopping
    <3> QED  BY <2>1, <3>1, <3>2
  <2> QED  BY <2>1, <2>2
<1> QED  BY <1>2, <1>3

\* Peeling a key only B has (peel, peel_key) keeps the invariant.
LEMMA PeelMineStep == ASSUME IInv, NEW b, PeelMine(b) PROVE IInv'
<1> DEFINE k == b.key_sum
<1>0. /\ Pop(b) /\ b.count # -1 /\ k \notin my_peeled_keys
      /\ my_peeled_keys' = my_peeled_keys \cup {k}
      /\ residue' = PeelKey(residue, b) /\ cp_peeled_keys' = cp_peeled_keys
  BY DEF PeelMine
<1>1. /\ k \in Key /\ b.hash_sum = KeyHash[k] /\ b.count = 1 /\ k \in OnlyMine
      /\ k \in RestMine \ RestTheirs
  BY <1>0, PopFacts DEF QueuedKey, RestMine, RestTheirs, OnlyMine, OnlyTheirs
<1>2. /\ RestMine' = RestMine \ {k} /\ RestTheirs' = RestTheirs
      /\ Rest' = Rest \ {k} /\ k \in Rest
  BY <1>0, <1>1, PopFacts DEF RestMine, RestTheirs, Rest
<1>3. /\ residue \in Table /\ Encodes(residue, RestMine, RestTheirs)
      /\ RestMine \in SUBSET Key /\ RestTheirs \in SUBSET Key
  BY <1>0, PopFacts
     DEF IInv, TypeOK, ResidueEncodesRest, RestMine, RestTheirs, OnlyMine, OnlyTheirs, Party
<1>4. residue' = Flipped(residue, k, -1)
  <2>1. \A c : RemoveBucket(c, b) = AddTimes(c, k, KeyHash[k], -1)
    BY <1>1 DEF RemoveBucket
  <2> QED  BY <1>0, <2>1 DEF PeelKey, Flipped, Updated
<1>5. residue' \in Table /\ Encodes(residue', RestMine', RestTheirs')
  <2>1. Flip(-1, k, RestMine, RestTheirs, RestMine', RestTheirs')
    BY <1>1, <1>2 DEF Flip
  <2>2. k \in Word /\ KeyHash[k] \in HashWord /\ -1 \in Int
    BY <1>1, Constants
  <2>3. residue' \in Table
    BY <1>3, <1>4, <2>2, FlippedType DEF Flipped
  <2>4. Encodes(residue', RestMine', RestTheirs')
    BY <1>1, <1>3, <1>4, <2>1, FlipTable
  <2> QED  BY <2>3, <2>4
<1>6. TypeOK'
  BY <1>0, <1>1, <1>5, PopFacts DEF IInv, TypeOK
<1>7. ResidueEncodesRest'
  BY <1>5 DEF ResidueEncodesRest
<1>8. PeeledInDifference'
  BY <1>0, <1>1, PopFacts DEF IInv, PeeledInDifference
<1>9. QueueIsSound' /\ StoppingKept'
  BY <1>0, <1>2, ReportOne
<1> QED  BY <1>0, <1>6, <1>7, <1>8, <1>9, PopFacts DEF IInv

\* Peeling a key only A has (peel, peel_key) keeps the invariant.
LEMMA PeelTheirsStep == ASSUME IInv, NEW b, PeelTheirs(b) PROVE IInv'
<1> DEFINE k == b.key_sum
<1>0. /\ Pop(b) /\ b.count = -1 /\ k \notin cp_peeled_keys
      /\ cp_peeled_keys' = cp_peeled_keys \cup {k}
      /\ residue' = PeelKey(residue, b) /\ my_peeled_keys' = my_peeled_keys
  BY DEF PeelTheirs
<1>1. /\ k \in Key /\ b.hash_sum = KeyHash[k] /\ k \in OnlyTheirs
      /\ k \in RestTheirs \ RestMine
  BY <1>0, PopFacts DEF QueuedKey, RestMine, RestTheirs, OnlyMine, OnlyTheirs
<1>2. /\ RestTheirs' = RestTheirs \ {k} /\ RestMine' = RestMine
      /\ Rest' = Rest \ {k} /\ k \in Rest
  BY <1>0, <1>1, PopFacts DEF RestMine, RestTheirs, Rest
<1>3. /\ residue \in Table /\ Encodes(residue, RestMine, RestTheirs)
      /\ RestMine \in SUBSET Key /\ RestTheirs \in SUBSET Key
  BY <1>0, PopFacts
     DEF IInv, TypeOK, ResidueEncodesRest, RestMine, RestTheirs, OnlyMine, OnlyTheirs, Party
<1>4. residue' = Flipped(residue, k, 1)
  <2>1. \A c : RemoveBucket(c, b) = AddTimes(c, k, KeyHash[k], 1)
    <3>1. (-1) * b.count = 1
      BY <1>0
    <3> QED  BY <1>1, <3>1 DEF RemoveBucket
  <2> QED  BY <1>0, <2>1 DEF PeelKey, Flipped, Updated
<1>5. residue' \in Table /\ Encodes(residue', RestMine', RestTheirs')
  <2>1. Flip(1, k, RestMine, RestTheirs, RestMine', RestTheirs')
    BY <1>1, <1>2 DEF Flip
  <2>2. k \in Word /\ KeyHash[k] \in HashWord /\ 1 \in Int
    BY <1>1, Constants
  <2>3. residue' \in Table
    BY <1>3, <1>4, <2>2, FlippedType DEF Flipped
  <2>4. Encodes(residue', RestMine', RestTheirs')
    BY <1>1, <1>3, <1>4, <2>1, FlipTable
  <2> QED  BY <2>3, <2>4
<1>6. TypeOK'
  BY <1>0, <1>1, <1>5, PopFacts DEF IInv, TypeOK
<1>7. ResidueEncodesRest'
  BY <1>5 DEF ResidueEncodesRest
<1>8. PeeledInDifference'
  BY <1>0, <1>1, PopFacts DEF IInv, PeeledInDifference
<1>9. QueueIsSound' /\ StoppingKept'
  BY <1>0, <1>2, ReportOne
<1> QED  BY <1>0, <1>6, <1>7, <1>8, <1>9, PopFacts DEF IInv

\* Dropping a copy whose key was peeled already keeps the invariant.
LEMMA SkipStep == ASSUME IInv, NEW b, SkipPeeled(b) PROVE IInv'
<1>0. Pop(b) /\ UNCHANGED <<residue, my_peeled_keys, cp_peeled_keys>>
  BY DEF SkipPeeled, peeled
<1>1. RestMine' = RestMine /\ RestTheirs' = RestTheirs /\ Rest' = Rest
  BY <1>0, PopFacts DEF RestMine, RestTheirs, Rest
<1>2. TypeOK'
  BY <1>0, PopFacts DEF IInv, TypeOK
<1>3. ResidueEncodesRest' /\ PeeledInDifference' /\ StoppingKept'
  BY <1>0, <1>1, PopFacts
     DEF IInv, ResidueEncodesRest, PeeledInDifference, StoppingKept, Peeling, Returned
<1>4. QueueIsSound'
  <2> SUFFICES ASSUME NEW x \in 1 .. Len(peelable_keys')
               PROVE  QueuedKey(peelable_keys[x])'
    BY DEF QueueIsSound
  <2>1. QueuedKey(peelable_keys[x + 1]) /\ peelable_keys'[x] = peelable_keys[x + 1]
    BY <1>0, PopFacts DEF IInv, QueueIsSound
  <2> QED  BY <1>0, <1>1, <2>1, PopFacts DEF QueuedKey, Alone
<1> QED  BY <1>0, <1>2, <1>3, <1>4, PopFacts DEF IInv

-----------------------------------------------------------------------------
(* The invariant and what it implies.                                      *)

\* A step that changes nothing keeps the invariant.
LEMMA Stutter == ASSUME IInv, UNCHANGED vars PROVE IInv'
<1>1. UNCHANGED <<keys, iblt, wire, pc, residue, cursor, peelable_keys,
                  my_peeled_keys, cp_peeled_keys>>
  BY DEF vars
<1>2. /\ OnlyMine' = OnlyMine /\ OnlyTheirs' = OnlyTheirs
      /\ RestMine' = RestMine /\ RestTheirs' = RestTheirs /\ Rest' = Rest
      /\ Peeling' = Peeling /\ Returned' = Returned
      /\ Serialize(iblt["A"])' = Serialize(iblt["A"])
      /\ IsEmptyTable(residue)' = IsEmptyTable(residue)
  BY <1>1 DEF RestMine, RestTheirs, OnlyMine, OnlyTheirs, Rest, Peeling, Returned,
              Serialize, IsEmptyTable
<1>3. TypeOK' /\ Phases' /\ TablesEncodeSets' /\ ResidueEncodesRest' /\ PeeledInDifference'
  BY <1>1, <1>2 DEF IInv, TypeOK, Phases, TablesEncodeSets, ResidueEncodesRest,
                    PeeledInDifference
<1>4. QueueIsSound'
  BY <1>1, <1>2 DEF IInv, QueueIsSound, QueuedKey, Alone
<1>5. ScanIsComplete' /\ ReturnIsFinal' /\ StoppingKept'
  BY <1>1, <1>2 DEF IInv, ScanIsComplete, Visited, ReturnIsFinal, StoppingKept
<1> QED  BY <1>3, <1>4, <1>5 DEF IInv

\* Every step keeps the invariant.
LEMMA Inductive == ASSUME ChecksumSound, IInv, [Next]_vars PROVE IInv'
<1>1. ASSUME NEW p \in Party, NEW k \in Key, Insert(p, k) \/ Remove(p, k)
      PROVE  IInv'
  BY <1>1, InsertStep
<1>2. CASE Send       BY <1>2, SendStep
<1>3. CASE Receive    BY <1>3, ReceiveStep
<1>4. CASE ScanBucket BY <1>4, ScanStep
<1>5. CASE FoundSome  BY <1>5, FoundSomeStep
<1>6. CASE FoundNone  BY <1>6, FoundNoneStep
<1>7. CASE Rescan     BY <1>7, RescanStep
<1>8. ASSUME NEW b \in Popped, PeelTheirs(b) \/ PeelMine(b) \/ SkipPeeled(b)
      PROVE  IInv'
  BY <1>8, PeelTheirsStep, PeelMineStep, SkipStep
<1>9. CASE UNCHANGED vars BY <1>9, Stutter
<1> QED  BY <1>1, <1>2, <1>3, <1>4, <1>5, <1>6, <1>7, <1>8, <1>9 DEF Next, Peel

\* The invariant holds in every reachable state (peel and the calls before it).
THEOREM Invariance == ASSUME ChecksumSound PROVE Spec => []IInv
<1>1. Init => IInv
  BY Initially
<1>2. IInv /\ [Next]_vars => IInv'
  BY Inductive
<1> QED  BY <1>1, <1>2, PTL DEF Spec

(***************************************************************************)
(* The variables keep their types: in particular peel reports keys of Key  *)
(* only, never the sum of several keys.                                    *)
(***************************************************************************)
THEOREM TypeCorrect == ASSUME ChecksumSound PROVE Spec => []TypeOK
<1>1. IInv => TypeOK
  BY DEF IInv
<1> QED  BY <1>1, Invariance, PTL

(***************************************************************************)
(* A party's table is at all times the sum of the keys inserted in it and  *)
(* not removed, in whatever order.                                         *)
(***************************************************************************)
THEOREM TablesCorrect == ASSUME ChecksumSound PROVE Spec => []TablesEncodeSets
<1>1. IInv => TablesEncodeSets
  BY DEF IInv
<1> QED  BY <1>1, Invariance, PTL

(***************************************************************************)
(* The table that peel works on, through the message and the subtraction,  *)
(* is at all times the sum of the difference it has not reported.          *)
(***************************************************************************)
THEOREM ResidueCorrect == ASSUME ChecksumSound PROVE Spec => []ResidueEncodesRest
<1>1. IInv => ResidueEncodesRest
  BY DEF IInv
<1> QED  BY <1>1, Invariance, PTL

\* The residue is empty exactly when every key of the difference is reported.
LEMMA EmptyMeansDone ==
    ASSUME ChecksumSound, IInv, Returned
    PROVE  IsEmptyTable(residue) <=> RestMine = {} /\ RestTheirs = {}
<1>1. ASSUME IsEmptyTable(residue), NEW k \in Rest
      PROVE  FALSE
  <2> DEFINE j == BucketIndex(k, 0)
  <2>1. k \in Word /\ 0 \in Sub
    BY Constants DEF IInv, TypeOK, Rest, RestMine, RestTheirs, OnlyMine, OnlyTheirs,
                     Party, Sub
  <2>2. j \in Slot
    BY <2>1, BucketIndexType
  <2> DEFINE M == Hits(RestMine, 0, j)
             C == Hits(RestTheirs, 0, j)
  <2>3. k \in M \cup C
    BY DEF Hits, Rest
  <2> HIDE DEF j
  <2>4. /\ residue[0][j] = SumBucket(M, C)
        /\ M \in SUBSET Key /\ C \in SUBSET Key /\ M \cap C = {}
    BY <2>1, <2>2, ResidueBucket
  <2>5. SumBucket(M, C) = EmptyBucket
    BY <1>1, <2>1, <2>2, <2>4 DEF IsEmptyTable
  <2> HIDE DEF M, C
  <2> QED  BY <2>3, <2>4, <2>5, LooksEmpty
<1>2. ASSUME RestMine = {}, RestTheirs = {}
      PROVE  IsEmptyTable(residue)
  <2> SUFFICES ASSUME NEW i \in Sub, NEW j \in Slot
               PROVE  residue[i][j] = EmptyBucket
    BY DEF IsEmptyTable
  <2>1. Hits(RestMine, i, j) = {} /\ Hits(RestTheirs, i, j) = {}
    BY <1>2 DEF Hits
  <2>2. residue[i][j] = SumBucket(Hits(RestMine, i, j), Hits(RestTheirs, i, j))
    BY ResidueBucket
  <2> QED  BY <2>1, <2>2, EmptySum
<1> QED  BY <1>1, <1>2 DEF Rest

\* A state of the invariant has an exact result.
LEMMA ExactWhenInvariant == ASSUME ChecksumSound, IInv PROVE ResultIsExact
<1> SUFFICES ASSUME Returned
               PROVE  pc["B"] = "success" <=> my_peeled_keys = OnlyMine
                                              /\ cp_peeled_keys = OnlyTheirs
  BY DEF ResultIsExact
<1>1. pc["B"] = "success" <=> RestMine = {} /\ RestTheirs = {}
  BY EmptyMeansDone DEF IInv, ReturnIsFinal
<1>2. my_peeled_keys \subseteq OnlyMine /\ cp_peeled_keys \subseteq OnlyTheirs
  BY DEF IInv, PeeledInDifference
<1> QED  BY <1>1, <1>2 DEF RestMine, RestTheirs

(***************************************************************************)
(* peel returns true exactly when it has reported the whole difference,    *)
(* each key on its own side.                                               *)
(***************************************************************************)
THEOREM Exactness == ASSUME ChecksumSound PROVE Spec => []ResultIsExact
<1>1. IInv => ResultIsExact
  BY ExactWhenInvariant
<1> QED  BY <1>1, Invariance, PTL

(***************************************************************************)
(* When peel returns, what it has not reported is the largest stopping set *)
(* of the difference: the result does not depend on the order of peeling.  *)
(***************************************************************************)
THEOREM CoreRemains == ASSUME ChecksumSound PROVE Spec => []PeelsDownToCore
<1>1. ASSUME IInv PROVE PeelsDownToCore
  <2> SUFFICES ASSUME Returned PROVE PeelsDownToCore
    BY DEF PeelsDownToCore
  <2>1. ASSUME NEW k \in Rest, NEW i \in Sub
        PROVE  \E l \in Rest \ {k} : BucketIndex(l, i) = BucketIndex(k, i)
    <3> DEFINE j == BucketIndex(k, i)
               M == Hits(RestMine, i, j)
               C == Hits(RestTheirs, i, j)
    <3>1. k \in Key
      BY <1>1 DEF IInv, TypeOK, Rest, RestMine, RestTheirs, OnlyMine, OnlyTheirs, Party
    <3>2. j \in Slot
      BY <3>1, BucketIndexType, Constants
    <3>3. k \in M \cup C /\ \A l \in M \cup C : l \in Rest /\ BucketIndex(l, i) = j
      BY DEF Hits, Rest
    <3> HIDE DEF j
    <3>4. /\ residue[i][j] = SumBucket(M, C)
          /\ M \in SUBSET Key /\ C \in SUBSET Key /\ M \cap C = {}
      BY <1>1, <3>2, ResidueBucket
    <3>5. ~CanPeel(SumBucket(M, C))
      BY <1>1, <3>2, <3>4 DEF IInv, ReturnIsFinal
    <3> HIDE DEF M, C
    <3>6. ~OneKey(M, C, k)
      BY <3>1, <3>4, <3>5, Peelable
    <3>7. PICK l \in M \cup C : l # k
      BY <3>3, <3>4, <3>6 DEF OneKey
    <3> QED  BY <3>3, <3>7 DEF j
  <2>2. Stopping(Rest)
    BY <2>1 DEF Stopping
  <2> QED  BY <1>1, <2>2 DEF IInv, StoppingKept, PeelsDownToCore
<1> QED  BY <1>1, Invariance, PTL

-----------------------------------------------------------------------------
(* Refinement.                                                             *)

\* The initial states implement those of the abstract reconciliation.
LEMMA AbstractStart == ASSUME Init PROVE Abstract!Init
BY DEF Init, Abstract!Init, AbstractResult, Party

\* The variables of SetReconciliation under the mapping.
LEMMA MappedUnchanged ==
    ASSUME UNCHANGED <<keys, my_peeled_keys, cp_peeled_keys>>,
           AbstractResult' = AbstractResult
    PROVE  UNCHANGED Abstract!vars
BY DEF Abstract!vars

\* Every step implements a step of the abstract reconciliation, or none.
LEMMA AbstractStep ==
    ASSUME IInv, ResultIsExact', [Next]_vars
    PROVE  Abstract!Next \/ UNCHANGED Abstract!vars
<1>0. /\ keys \in [Party -> SUBSET Key] /\ Phases /\ "A" \in Party /\ "B" \in Party
      /\ pc \in [Party -> {"fill", "sent", "scan", "drain", "success", "failure"}]
  BY DEF IInv, TypeOK, Party
<1>1. ASSUME NEW p \in Party, NEW k \in Key, Insert(p, k) \/ Remove(p, k)
      PROVE  Abstract!Change
  <2>1. /\ pc["B"] = "fill" /\ pc' = pc
        /\ my_peeled_keys' = my_peeled_keys /\ cp_peeled_keys' = cp_peeled_keys
    BY <1>0, <1>1 DEF Insert, Remove, Phases, Party, peeled
  <2>2. keys' \in {[keys EXCEPT ![p] = @ \cup {k}], [keys EXCEPT ![p] = @ \ {k}]}
    BY <1>1 DEF Insert, Remove
  <2>3. AbstractResult = "filling" /\ AbstractResult' = "filling"
    BY <2>1 DEF AbstractResult
  <2>4. CASE p = "A"
    <3>1. keys'["A"] \in {keys["A"] \cup {k}, keys["A"] \ {k}} /\ keys'["B"] = keys["B"]
      BY <1>0, <2>2, <2>4
    <3> QED  BY <2>1, <2>3, <3>1 DEF Abstract!Change
  <2>5. CASE p = "B"
    <3>1. keys'["B"] \in {keys["B"] \cup {k}, keys["B"] \ {k}} /\ keys'["A"] = keys["A"]
      BY <1>0, <2>2, <2>5
    <3> QED  BY <2>1, <2>3, <3>1 DEF Abstract!Change
  <2> QED  BY <2>4, <2>5 DEF Party
<1>2. ASSUME Send PROVE UNCHANGED Abstract!vars
  <2>1. /\ UNCHANGED <<keys, my_peeled_keys, cp_peeled_keys>> /\ pc'["B"] = pc["B"]
    BY <1>0, <1>2 DEF Send, filling, peeled
  <2> QED  BY <2>1, MappedUnchanged DEF AbstractResult, Peeling
<1>3. ASSUME Receive PROVE Abstract!Start
  <2>1. /\ UNCHANGED <<keys, my_peeled_keys, cp_peeled_keys>>
        /\ pc["B"] = "fill" /\ pc'["B"] = "scan"
    BY <1>0, <1>3 DEF Receive, filling, peeled
  <2> QED  BY <2>1 DEF AbstractResult, Peeling, Abstract!Start
<1>4. ASSUME ScanBucket \/ FoundSome \/ Rescan PROVE UNCHANGED Abstract!vars
  <2>1. /\ UNCHANGED <<keys, my_peeled_keys, cp_peeled_keys>>
        /\ pc["B"] \in {"scan", "drain"} /\ pc'["B"] \in {"scan", "drain"}
    BY <1>0, <1>4 DEF ScanBucket, FoundSome, Rescan, filling, peeled
  <2> QED  BY <2>1, MappedUnchanged DEF AbstractResult, Peeling
<1>5. ASSUME FoundNone PROVE Abstract!Finish
  <2>1. /\ UNCHANGED <<keys, my_peeled_keys, cp_peeled_keys>>
        /\ pc["B"] = "scan" /\ pc'["B"] \in {"success", "failure"}
    BY <1>0, <1>5 DEF FoundNone, filling, peeled
  <2>3. pc'["B"] = "success" <=> /\ my_peeled_keys = keys["B"] \ keys["A"]
                                /\ cp_peeled_keys = keys["A"] \ keys["B"]
    BY <2>1 DEF ResultIsExact, Returned, OnlyMine, OnlyTheirs
  <2>4. AbstractResult = "peeling" /\ AbstractResult' = pc'["B"]
    BY <2>1 DEF AbstractResult, Peeling
  <2> QED  BY <2>1, <2>3, <2>4 DEF Abstract!Finish, Abstract!Complete
<1>6. ASSUME NEW b, SkipPeeled(b) PROVE UNCHANGED Abstract!vars
  <2>1. /\ UNCHANGED <<keys, my_peeled_keys, cp_peeled_keys>> /\ pc' = pc
    BY <1>6 DEF SkipPeeled, Pop, filling, peeled
  <2> QED  BY <2>1, MappedUnchanged DEF AbstractResult, Peeling
<1>7. ASSUME NEW b, PeelMine(b) \/ PeelTheirs(b) PROVE Abstract!Learn
  <2>1. Pop(b)
    BY <1>7 DEF PeelMine, PeelTheirs
  <2>2. QueuedKey(b) /\ pc["B"] = "drain" /\ keys' = keys /\ pc' = pc
    BY <2>1, PopFacts
  <2>3. AbstractResult = "peeling" /\ AbstractResult' = "peeling"
    BY <2>2 DEF AbstractResult, Peeling
  <2>4. CASE PeelMine(b)
    <3>1. /\ b.key_sum \in (keys["B"] \ keys["A"]) \ my_peeled_keys
          /\ my_peeled_keys' = my_peeled_keys \cup {b.key_sum}
          /\ cp_peeled_keys' = cp_peeled_keys
      BY <2>2, <2>4 DEF PeelMine, QueuedKey, OnlyMine
    <3> QED  BY <2>2, <2>3, <3>1 DEF Abstract!Learn
  <2>5. CASE PeelTheirs(b)
    <3>1. /\ b.key_sum \in (keys["A"] \ keys["B"]) \ cp_peeled_keys
          /\ cp_peeled_keys' = cp_peeled_keys \cup {b.key_sum}
          /\ my_peeled_keys' = my_peeled_keys
      BY <2>2, <2>5 DEF PeelTheirs, QueuedKey, OnlyTheirs
    <3> QED  BY <2>2, <2>3, <3>1 DEF Abstract!Learn
  <2> QED  BY <1>7, <2>4, <2>5
<1>8. ASSUME UNCHANGED vars PROVE UNCHANGED Abstract!vars
  BY <1>8, MappedUnchanged DEF vars, AbstractResult, Peeling
<1> QED  BY <1>1, <1>2, <1>3, <1>4, <1>5, <1>6, <1>7, <1>8
         DEF Next, Peel, Abstract!Next

(***************************************************************************)
(* The exchange of one table implements set reconciliation: B learns keys  *)
(* of the two differences only, each once, and its result is exact.        *)
(***************************************************************************)
THEOREM Refinement == ASSUME ChecksumSound PROVE Spec => ImplementsReconciliation
<1>1. Init => Abstract!Init
  BY AbstractStart
<1>2. IInv /\ ResultIsExact' /\ [Next]_vars => [Abstract!Next]_(Abstract!vars)
  BY AbstractStep
<1> QED  BY <1>1, <1>2, Invariance, Exactness, PTL
         DEF Spec, ImplementsReconciliation, Abstract!Spec
=============================================================================
