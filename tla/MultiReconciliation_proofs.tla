--------------------- MODULE MultiReconciliation_proofs ---------------------
(***************************************************************************)
(* The inductive invariant of MultiReconciliation and what follows from    *)
(* it, for every modulus, number of parties, table size, hash functions,   *)
(* coefficients and finite set of keys, given that the checksum is sound   *)
(* on those keys (ChecksumSound), and of the driver's trials (Trials);     *)
(* first the facts about the buckets and tables of MultiIBLT, whose sums   *)
(* are sums modulo N.                                                      *)
(***************************************************************************)
EXTENDS Trials, Arithmetic

-----------------------------------------------------------------------------
(* Constants and sums modulo N.                                            *)

\* The constructor leaves at least one bucket in each row (setup).
LEMMA RowNonempty == buckets_per_subIBLT \in Nat \ {0}
<1> DEFINE Good(n) == n # 0 /\ n % NumHashfns = 0
           W == {n \in BucketCount .. BucketCount + NumHashfns : Good(n)}
<1>1. NumHashfns \in Nat /\ NumHashfns > 0 /\ BucketCount \in Nat
  BY MultiSizesAssumption
<1>2. W # {}
  <2>1. CASE BucketCount = 0
    <3>1. NumHashfns % NumHashfns = 0
      BY <1>1
    <3> QED
      BY <1>1, <2>1, <3>1
  <2>2. CASE BucketCount # 0
    <3> DEFINE x == BucketCount + NumHashfns - 1
               q == x \div NumHashfns
               r == x % NumHashfns
    <3>1. x \in Int
      BY <1>1
    <3>2. q \in Int /\ r \in 0 .. NumHashfns - 1 /\ x = NumHashfns * q + r
      <4> HIDE DEF x
      <4> QED
        BY <1>1, <3>1, ModType
    <3> DEFINE m == NumHashfns * q
    <3>3. m \in Int /\ x = m + r
      BY <1>1, <3>2
    <3>4. (m + 0) % NumHashfns = 0
      <4>1. 0 \in 0 .. NumHashfns - 1
        BY <1>1
      <4> HIDE DEF q
      <4> QED
        BY <1>1, <3>2, <4>1, ModUnique
    <3> HIDE DEF m, r, q
    <3>5. m \in BucketCount .. BucketCount + NumHashfns /\ m # 0 /\ m % NumHashfns = 0
      BY <1>1, <2>2, <3>2, <3>3, <3>4
    <3> QED
      BY <3>5
  <2> QED
    BY <2>1, <2>2
<1>3. PICK n \in W : \A m \in W : n <= m
  <2>1. W \in SUBSET Nat
    BY <1>1
  <2> HIDE DEF W
  <2> QED
    BY <1>2, <2>1, LeastNat
<1>4. \A m \in BucketCount .. n - 1 : m = 0 \/ m % NumHashfns # 0
  BY <1>1, <1>3
<1>5. /\ num_buckets \in BucketCount .. BucketCount + NumHashfns
      /\ num_buckets # 0 /\ num_buckets % NumHashfns = 0
  BY <1>3, <1>4 DEF num_buckets
<1>6. /\ num_buckets \div NumHashfns \in Int
      /\ num_buckets = NumHashfns * (num_buckets \div NumHashfns)
                       + (num_buckets % NumHashfns)
  BY <1>1, <1>5, ModType
<1> DEFINE q == num_buckets \div NumHashfns
<1>7. num_buckets \in Nat /\ num_buckets > 0 /\ q \in Int /\ num_buckets = NumHashfns * q
  BY <1>1, <1>5, <1>6
<1> HIDE DEF q
<1>8. q > 0
  BY <1>1, <1>7
<1> QED
  BY <1>7, <1>8 DEF q, buckets_per_subIBLT

\* Facts about the constants that most steps need.
LEMMA Constants ==
    /\ buckets_per_subIBLT \in Nat \ {0} /\ NumHashfns \in Nat \ {0}
    /\ N \in Nat /\ N > 1 /\ Parties \in Nat \ {0} /\ Coefficient \subseteq Int
    /\ FirstBucket \in [i : 0 .. NumHashfns, j : Slot]
    /\ Key \subseteq Word /\ KeyHash \in [Word -> HashWord]
    /\ \A k \in Word, i \in Sub : get_bucket_index(k, i) \in Slot
<1>1. ASSUME NEW k \in Word, NEW i \in Sub PROVE get_bucket_index(k, i) \in Slot
  <2>1. SubHash[i][k] \in Nat
    BY MultiHashAssumption
  <2> QED
    BY <2>1, RowNonempty DEF get_bucket_index, Slot
<1> QED
  BY <1>1, RowNonempty, MultiSizesAssumption, PartiesAssumption, MultiKeyAssumption,
     MultiHashAssumption DEF FirstBucket, Slot

\* Every set of keys is finite, and a sum over it is an integer.
LEMMA KeySums ==
    ASSUME NEW m \in [Key -> Int], NEW S \in SUBSET Key
    PROVE  /\ IsFiniteSet(S) /\ SumFunctionOnSet(m, S) \in Int
           /\ SumFunctionOnSet(m, S) % N \in Digit
<1>1. IsFiniteSet(S)
  BY MultiKeyAssumption, FS_Subset
<1>2. SumFunctionOnSet(m, S) \in Int
  BY <1>1, SumType
<1> QED
  BY <1>1, <1>2, Constants DEF Digit

\* A digit is its own remainder.
LEMMA DigitMod ==
    /\ \A d \in Digit : d \in Int /\ d % N = d
    /\ \A a \in Int : a % N \in Digit
    /\ 0 \in Digit /\ 0 % N = 0
BY Constants DEF Digit

-----------------------------------------------------------------------------
(* Buckets that hold each key m[k] times.                                  *)

LEMMA SumBucketType ==
    ASSUME NEW m \in [Key -> Int], NEW S \in SUBSET Key
    PROVE  SumBucket(S, m) \in Bucket
<1>1. \A P \in SUBSET Key : SumFunctionOnSet(m, P) % N \in Digit
  BY KeySums
<1>2. \A b \in Bit : SumFunctionOnSet(m, {k \in S : b \in k}) % N \in Digit
  BY <1>1
<1>3. \A b \in HashBit : SumFunctionOnSet(m, {k \in S : b \in KeyHash[k]}) % N \in Digit
  BY <1>1
<1>4. SumFunctionOnSet(m, S) % N \in Digit
  BY <1>1
<1> QED
  BY <1>2, <1>3, <1>4 DEF SumBucket, Bucket

SameSums(m, S, n, T) ==
    \A P \in SUBSET Key :
        SumFunctionOnSet(m, P \cap S) % N = SumFunctionOnSet(n, P \cap T) % N

\* A fact about all sums over subsets of S holds of the digits of a bucket.
LEMMA SumBucketSame ==
    ASSUME NEW m, NEW n, NEW S \in SUBSET Key, NEW T \in SUBSET Key,
           SameSums(m, S, n, T)
    PROVE  SumBucket(S, m) = SumBucket(T, n)
<1> USE DEF SameSums
<1>1. ASSUME NEW b \in Bit
      PROVE  SumFunctionOnSet(m, {k \in S : b \in k}) % N
               = SumFunctionOnSet(n, {k \in T : b \in k}) % N
  <2> DEFINE P == {k \in Key : b \in k}
  <2>1. {k \in S : b \in k} = P \cap S /\ {k \in T : b \in k} = P \cap T /\ P \in SUBSET Key
    OBVIOUS
  <2> HIDE DEF P
  <2> QED
    BY <2>1
<1>2. ASSUME NEW b \in HashBit
      PROVE  SumFunctionOnSet(m, {k \in S : b \in KeyHash[k]}) % N
               = SumFunctionOnSet(n, {k \in T : b \in KeyHash[k]}) % N
  <2> DEFINE P == {k \in Key : b \in KeyHash[k]}
  <2>1. /\ {k \in S : b \in KeyHash[k]} = P \cap S
        /\ {k \in T : b \in KeyHash[k]} = P \cap T /\ P \in SUBSET Key
    OBVIOUS
  <2> HIDE DEF P
  <2> QED
    BY <2>1
<1>3. SumFunctionOnSet(m, S) % N = SumFunctionOnSet(n, T) % N
  <2>1. Key \cap S = S /\ Key \cap T = T /\ Key \in SUBSET Key
    OBVIOUS
  <2> QED
    BY <2>1
<1> QED
  BY <1>1, <1>2, <1>3 DEF SumBucket

\* Only the remainders of the multiplicities count.
LEMMA SameBucket ==
    ASSUME NEW m \in [Key -> Int], NEW n \in [Key -> Int], NEW S \in SUBSET Key,
           \A k \in S : m[k] % N = n[k] % N
    PROVE  SumBucket(S, m) = SumBucket(S, n)
<1>1. ASSUME NEW P \in SUBSET Key
      PROVE  SumFunctionOnSet(m, P \cap S) % N = SumFunctionOnSet(n, P \cap S) % N
  <2>1. IsFiniteSet(P \cap S) /\ \A k \in P \cap S : m[k] \in Int /\ n[k] \in Int
    BY KeySums
  <2>2. N \in Nat /\ N > 0
    BY Constants
  <2> QED
    BY <2>1, <2>2, SumMod
<1> QED
  BY <1>1, SumBucketSame DEF SameSums

Only(S, m) == [k \in Key |-> IF k \in S THEN m[k] ELSE 0]

\* Keys that are there no times may be left out.
LEMMA OnlyBucket ==
    ASSUME NEW m \in [Key -> Int], NEW S \in SUBSET Key, NEW T \in SUBSET Key
    PROVE  SumBucket(S, Only(T, m)) = SumBucket(S \cap T, m)
<1> DEFINE n == Only(T, m)
<1>0. n \in [Key -> Int] /\ \A k \in Key : n[k] = IF k \in T THEN m[k] ELSE 0
  BY DEF Only
<1> HIDE DEF n
<1>1. ASSUME NEW P \in SUBSET Key
      PROVE  SumFunctionOnSet(n, P \cap S) % N = SumFunctionOnSet(m, P \cap (S \cap T)) % N
  <2> DEFINE A == P \cap S
             B == P \cap (S \cap T)
  <2>1. /\ IsFiniteSet(A) /\ IsFiniteSet(B) /\ B \in SUBSET A
        /\ \A k \in A : n[k] \in Int
        /\ \A k \in A \ B : n[k] = 0
        /\ \A k \in B : n[k] = m[k]
    BY <1>0, KeySums
  <2> HIDE DEF A, B
  <2>2. SumFunctionOnSet(n, A) = SumFunctionOnSet(n, B)
    BY <2>1, SumNonzero
  <2>3. SumFunctionOnSet(n, B) = SumFunctionOnSet(m, B)
    BY <2>1, SumSame
  <2> QED
    BY <2>2, <2>3 DEF A, B
<1>2. SumBucket(S, n) = SumBucket(S \cap T, m)
  <2> DEFINE V == S \cap T
  <2>1. V \in SUBSET Key /\ SameSums(n, S, m, V)
    BY <1>1 DEF SameSums
  <2> HIDE DEF V
  <2>2. SumBucket(S, n) = SumBucket(V, m)
    BY <1>0, <2>1, SumBucketSame
  <2> QED
    BY <2>2 DEF V
<1> QED
  BY <1>2 DEF n

\* The sum of one key, any number of times, is the key that many times.
LEMMA OneKeyBucket ==
    ASSUME NEW m \in [Key -> Int], NEW k \in Key
    PROVE  /\ SumBucket({k}, m) = Single(k, KeyHash[k], m[k])
           /\ SumBucket({}, m) = EmptyBucket
<1>1. SumFunctionOnSet(m, {}) = 0 /\ SumFunctionOnSet(m, {k}) = m[k]
  <2>1. SumFunctionOnSet(m, {} \cup {k}) = m[k] + SumFunctionOnSet(m, {})
    <3> DEFINE none == {}
    <3>1. IsFiniteSet(none) /\ k \notin none /\ \A y \in none \cup {k} : m[y] \in Int
      BY FS_EmptySet
    <3> HIDE DEF none
    <3>2. SumFunctionOnSet(m, none \cup {k}) = m[k] + SumFunctionOnSet(m, none)
      BY <3>1, SumAdd
    <3> QED
      BY <3>2 DEF none
  <2> QED
    BY <2>1, SumEmpty
<1>2. 0 % N = 0
  BY DigitMod
<1>3. \A b \in Bit : {l \in {k} : b \in l} = IF b \in k THEN {k} ELSE {}
  OBVIOUS
<1>4. \A b \in HashBit : {l \in {k} : b \in KeyHash[l]} = IF b \in KeyHash[k] THEN {k} ELSE {}
  OBVIOUS
<1>5. SumBucket({k}, m) = Single(k, KeyHash[k], m[k])
  BY <1>1, <1>2, <1>3, <1>4 DEF SumBucket, Single, Digits
<1>6. SumBucket({}, m) = EmptyBucket
  <2>1. \A b : {l \in {} : b \in l} = {} /\ {l \in {} : b \in KeyHash[l]} = {}
    OBVIOUS
  <2> QED
    BY <1>1, <1>2, <2>1 DEF SumBucket, EmptyBucket, Single, Digits
<1> QED
  BY <1>5, <1>6

\* add and remove of buckets add and subtract the multiplicities, multiply
\* multiplies them.
LEMMA BucketArithmetic ==
    ASSUME NEW m \in [Key -> Int], NEW n \in [Key -> Int], NEW c \in Int,
           NEW S \in SUBSET Key
    PROVE  /\ AddBucket(SumBucket(S, m), SumBucket(S, n))
                = SumBucket(S, [k \in Key |-> m[k] + n[k]])
           /\ RemoveBucket(SumBucket(S, m), SumBucket(S, n))
                = SumBucket(S, [k \in Key |-> m[k] - n[k]])
           /\ MultiplyBucket(SumBucket(S, m), c) = SumBucket(S, [k \in Key |-> m[k] * c])
<1> DEFINE Total(f, P) == SumFunctionOnSet(f, P)
           plus == [k \in Key |-> m[k] + n[k]]
           minus == [k \in Key |-> m[k] - n[k]]
           times == [k \in Key |-> m[k] * c]
<1>1. plus \in [Key -> Int] /\ minus \in [Key -> Int] /\ times \in [Key -> Int]
  OBVIOUS
<1>2. ASSUME NEW P \in SUBSET Key
      PROVE  /\ field_add(Total(m, P) % N, Total(n, P) % N) = Total(plus, P) % N
             /\ field_add(Total(m, P) % N, (-1) * (Total(n, P) % N)) = Total(minus, P) % N
             /\ field_multiply(Total(m, P) % N, c) = Total(times, P) % N
  <2>1. /\ Total(m, P) \in Int /\ Total(n, P) \in Int /\ Total(minus, P) \in Int
        /\ IsFiniteSet(P) /\ N \in Nat /\ N > 0
    BY <1>1, KeySums, Constants
  <2>2. Total(plus, P) = Total(m, P) + Total(n, P)
    <3>1. \A k \in P : m[k] \in Int /\ n[k] \in Int /\ plus[k] = m[k] + n[k]
      OBVIOUS
    <3> HIDE DEF plus
    <3> QED
      BY <2>1, <3>1, SumPlus
  <2>3. Total(m, P) = Total(minus, P) + Total(n, P)
    <3>1. \A k \in P : minus[k] \in Int /\ n[k] \in Int /\ m[k] = minus[k] + n[k]
      OBVIOUS
    <3> HIDE DEF minus
    <3> QED
      BY <2>1, <3>1, SumPlus
  <2>4. Total(times, P) = Total(m, P) * c
    <3>1. \A k \in P : m[k] \in Int /\ times[k] = m[k] * c
      OBVIOUS
    <3> HIDE DEF times
    <3> QED
      BY <2>1, <3>1, SumTimes
  <2> DEFINE a == Total(m, P)
             b == Total(n, P)
  <2>5. a \in Int /\ b \in Int
    BY <2>1
  <2> HIDE DEF a, b
  <2>6. /\ ((a % N) + (b % N)) % N = (a + b) % N
        /\ ((a % N) + (-1) * (b % N)) % N = (a - b) % N
        /\ ((a % N) * c) % N = (a * c) % N
    BY <2>1, <2>5, ModBoth, ModTimes
  <2>7. Total(minus, P) = a - b
    BY <2>1, <2>3 DEF a, b
  <2> QED
    BY <2>2, <2>4, <2>6, <2>7 DEF a, b, field_add, field_multiply
<1> HIDE DEF plus, minus, times
<1> DEFINE KeyPart(f, b) == SumFunctionOnSet(f, {k \in S : b \in k}) % N
           HashPart(f, b) == SumFunctionOnSet(f, {k \in S : b \in KeyHash[k]}) % N
           CountPart(f) == SumFunctionOnSet(f, S) % N
<1>3. \A b \in Bit :
          /\ field_add(KeyPart(m, b), KeyPart(n, b)) = KeyPart(plus, b)
          /\ field_add(KeyPart(m, b), (-1) * KeyPart(n, b)) = KeyPart(minus, b)
          /\ field_multiply(KeyPart(m, b), c) = KeyPart(times, b)
  <2>1. \A b : {k \in S : b \in k} \in SUBSET Key
    OBVIOUS
  <2> QED
    BY <1>2, <2>1
<1>4. \A b \in HashBit :
          /\ field_add(HashPart(m, b), HashPart(n, b)) = HashPart(plus, b)
          /\ field_add(HashPart(m, b), (-1) * HashPart(n, b)) = HashPart(minus, b)
          /\ field_multiply(HashPart(m, b), c) = HashPart(times, b)
  <2>1. \A b : {k \in S : b \in KeyHash[k]} \in SUBSET Key
    OBVIOUS
  <2> QED
    BY <1>2, <2>1
<1>5. /\ field_add(CountPart(m), CountPart(n)) = CountPart(plus)
      /\ field_add(CountPart(m), (-1) * CountPart(n)) = CountPart(minus)
      /\ field_multiply(CountPart(m), c) = CountPart(times)
  BY <1>2
<1>6. \A f : SumBucket(S, f) = [key_sum  |-> [b \in Bit |-> KeyPart(f, b)],
                               hash_sum |-> [b \in HashBit |-> HashPart(f, b)],
                               count    |-> CountPart(f)]
  BY DEF SumBucket
<1> HIDE DEF KeyPart, HashPart, CountPart
<1>7. AddBucket(SumBucket(S, m), SumBucket(S, n)) = SumBucket(S, plus)
  BY <1>3, <1>4, <1>5, <1>6 DEF AddBucket, AddField
<1>8. RemoveBucket(SumBucket(S, m), SumBucket(S, n)) = SumBucket(S, minus)
  BY <1>3, <1>4, <1>5, <1>6 DEF RemoveBucket, RemoveField
<1>9. MultiplyBucket(SumBucket(S, m), c) = SumBucket(S, times)
  BY <1>3, <1>4, <1>5, <1>6 DEF MultiplyBucket, MultiplyField
<1> QED
  BY <1>7, <1>8, <1>9 DEF plus, minus, times

-----------------------------------------------------------------------------
(* Tables that hold each key m[k] times.                                   *)

Hits(i, j) == {k \in Key : get_bucket_index(k, i) = j}
Holds(t, m) == \A i \in Sub, j \in Slot : t[i][j] = SumBucket(Hits(i, j), m)

\* A table encodes S if it holds the keys of S and no other.
LEMMA HoldsEncodes ==
    ASSUME NEW t, NEW m \in [Key -> Int], NEW S \in SUBSET Key
    PROVE  Encodes(t, S, m) <=> Holds(t, Only(S, m))
<1>1. ASSUME NEW i \in Sub, NEW j \in Slot
      PROVE  SumBucket({k \in S : get_bucket_index(k, i) = j}, m)
               = SumBucket(Hits(i, j), Only(S, m))
  <2>1. {k \in S : get_bucket_index(k, i) = j} = Hits(i, j) \cap S /\ Hits(i, j) \in SUBSET Key
    BY DEF Hits
  <2> QED
    BY <2>1, OnlyBucket
<1> QED
  BY <1>1 DEF Encodes, Holds

\* Only the remainders of the multiplicities count.
LEMMA HoldsSame ==
    ASSUME NEW t, NEW m \in [Key -> Int], NEW n \in [Key -> Int], Holds(t, m),
           \A k \in Key : m[k] % N = n[k] % N
    PROVE  Holds(t, n)
<1> SUFFICES ASSUME NEW i \in Sub, NEW j \in Slot
             PROVE  t[i][j] = SumBucket(Hits(i, j), n)
  BY DEF Holds
<1>1. Hits(i, j) \in SUBSET Key /\ t[i][j] = SumBucket(Hits(i, j), m)
  BY DEF Holds, Hits
<1>2. \A k \in Hits(i, j) : m[k] % N = n[k] % N
  BY <1>1
<1> QED
  BY <1>1, <1>2, SameBucket

\* A function on rows and slots that holds keys is a table.
LEMMA HoldsType ==
    ASSUME NEW m \in [Key -> Int], NEW t, Holds(t, m),
           t = [i \in Sub |-> [j \in Slot |-> t[i][j]]]
    PROVE  t \in Table
<1>1. ASSUME NEW i \in Sub, NEW j \in Slot PROVE t[i][j] \in Bucket
  <2>1. Hits(i, j) \in SUBSET Key /\ t[i][j] = SumBucket(Hits(i, j), m)
    BY DEF Holds, Hits
  <2> QED
    BY <2>1, SumBucketType
<1> QED
  BY <1>1 DEF Table

\* The table the constructor makes holds no keys.
LEMMA EmptyTableFacts == EmptyTable \in Table /\ Holds(EmptyTable, [k \in Key |-> 0])
<1> DEFINE m == [k \in Key |-> 0]
<1>1. m \in [Key -> Int] /\ Only({}, m) = m
  BY DEF Only
<1>2. Holds(EmptyTable, m)
  <2> SUFFICES ASSUME NEW i \in Sub, NEW j \in Slot
               PROVE  EmptyBucket = SumBucket(Hits(i, j), m)
    BY DEF Holds, EmptyTable
  <2> HIDE DEF m
  <2>1. Hits(i, j) \in SUBSET Key /\ {} \in SUBSET Key /\ Hits(i, j) \cap {} = {}
    BY DEF Hits
  <2>2. SumBucket(Hits(i, j), m) = SumBucket({}, m)
    BY <1>1, <2>1, OnlyBucket
  <2>3. SumBucket({}, m) = EmptyBucket
    <3>1. \A b : {l \in {} : b \in l} = {} /\ {l \in {} : b \in KeyHash[l]} = {}
      OBVIOUS
    <3> QED
      BY <3>1, SumEmpty, DigitMod DEF SumBucket, EmptyBucket, Single, Digits
  <2> QED
    BY <2>2, <2>3
<1>3. EmptyTable = [i \in Sub |-> [j \in Slot |-> EmptyTable[i][j]]]
  BY DEF EmptyTable
<1> QED
  BY <1>1, <1>2, <1>3, HoldsType

\* add, remove and multiply of whole tables.
LEMMA TableArithmetic ==
    ASSUME NEW m \in [Key -> Int], NEW n \in [Key -> Int], NEW c \in Int,
           NEW t, NEW u, Holds(t, m), Holds(u, n)
    PROVE  /\ AddTable(t, u) \in Table
           /\ Holds(AddTable(t, u), [k \in Key |-> m[k] + n[k]])
           /\ RemoveTable(t, u) \in Table
           /\ Holds(RemoveTable(t, u), [k \in Key |-> m[k] - n[k]])
           /\ MultiplyTable(t, c) \in Table
           /\ Holds(MultiplyTable(t, c), [k \in Key |-> m[k] * c])
<1> DEFINE plus == [k \in Key |-> m[k] + n[k]]
           minus == [k \in Key |-> m[k] - n[k]]
           times == [k \in Key |-> m[k] * c]
<1>1. plus \in [Key -> Int] /\ minus \in [Key -> Int] /\ times \in [Key -> Int]
  OBVIOUS
<1>2. ASSUME NEW i \in Sub, NEW j \in Slot
      PROVE  /\ AddBucket(t[i][j], u[i][j]) = SumBucket(Hits(i, j), plus)
             /\ RemoveBucket(t[i][j], u[i][j]) = SumBucket(Hits(i, j), minus)
             /\ MultiplyBucket(t[i][j], c) = SumBucket(Hits(i, j), times)
  <2>1. Hits(i, j) \in SUBSET Key
    BY DEF Hits
  <2>2. t[i][j] = SumBucket(Hits(i, j), m) /\ u[i][j] = SumBucket(Hits(i, j), n)
    BY DEF Holds
  <2>3. /\ AddBucket(SumBucket(Hits(i, j), m), SumBucket(Hits(i, j), n))
             = SumBucket(Hits(i, j), plus)
        /\ RemoveBucket(SumBucket(Hits(i, j), m), SumBucket(Hits(i, j), n))
             = SumBucket(Hits(i, j), minus)
        /\ MultiplyBucket(SumBucket(Hits(i, j), m), c) = SumBucket(Hits(i, j), times)
    BY <2>1, BucketArithmetic
  <2> HIDE DEF plus, minus, times
  <2> QED
    BY <2>2, <2>3
<1> HIDE DEF plus, minus, times
<1>3. Holds(AddTable(t, u), plus) /\ AddTable(t, u) \in Table
  <2>1. Holds(AddTable(t, u), plus)
    BY <1>2 DEF Holds, AddTable
  <2>2. AddTable(t, u) = [i \in Sub |-> [j \in Slot |-> AddTable(t, u)[i][j]]]
    BY DEF AddTable
  <2> QED
    BY <1>1, <2>1, <2>2, HoldsType
<1>4. Holds(RemoveTable(t, u), minus) /\ RemoveTable(t, u) \in Table
  <2>1. Holds(RemoveTable(t, u), minus)
    BY <1>2 DEF Holds, RemoveTable
  <2>2. RemoveTable(t, u) = [i \in Sub |-> [j \in Slot |-> RemoveTable(t, u)[i][j]]]
    BY DEF RemoveTable
  <2> QED
    BY <1>1, <2>1, <2>2, HoldsType
<1>5. Holds(MultiplyTable(t, c), times) /\ MultiplyTable(t, c) \in Table
  <2>1. Holds(MultiplyTable(t, c), times)
    BY <1>2 DEF Holds, MultiplyTable
  <2>2. MultiplyTable(t, c) = [i \in Sub |-> [j \in Slot |-> MultiplyTable(t, c)[i][j]]]
    BY DEF MultiplyTable
  <2> QED
    BY <1>1, <2>1, <2>2, HoldsType
<1> QED
  BY <1>3, <1>4, <1>5 DEF plus, minus, times

\* The table with one bucket b added to, or taken from, k's bucket in every row.
Plus(t, k, b) ==
    [i \in Sub |-> [t[i] EXCEPT ![get_bucket_index(k, i)] = AddBucket(@, b)]]
Minus(t, k, b) ==
    [i \in Sub |-> [t[i] EXCEPT ![get_bucket_index(k, i)] = RemoveBucket(@, b)]]

\* Adding a key some number of times, or removing it, in every row
\* (insert_key, remove_key, peel_key).
LEMMA OneKeyTable ==
    ASSUME NEW m \in [Key -> Int], NEW t \in Table, Holds(t, m),
           NEW k \in Key, NEW c \in Int
    PROVE  LET b == Single(k, KeyHash[k], c)
           IN  /\ Plus(t, k, b) \in Table
               /\ Holds(Plus(t, k, b), [m EXCEPT ![k] = @ + c])
               /\ Minus(t, k, b) \in Table
               /\ Holds(Minus(t, k, b), [m EXCEPT ![k] = @ - c])
<1> DEFINE b == Single(k, KeyHash[k], c)
           C == [l \in Key |-> c]
           n == Only({k}, C)
           plus == [m EXCEPT ![k] = @ + c]
           minus == [m EXCEPT ![k] = @ - c]
<1>1. /\ n \in [Key -> Int] /\ C \in [Key -> Int] /\ C[k] = c
      /\ plus \in [Key -> Int] /\ minus \in [Key -> Int]
      /\ plus = [l \in Key |-> m[l] + n[l]] /\ minus = [l \in Key |-> m[l] - n[l]]
      /\ \A l \in Key : l # k => plus[l] = m[l] /\ minus[l] = m[l]
  <2>1. n \in [Key -> Int] /\ \A l \in Key : n[l] = IF l = k THEN c ELSE 0
    BY DEF Only
  <2> HIDE DEF n
  <2>2. /\ plus \in [Key -> Int]
        /\ \A l \in Key : plus[l] = IF l = k THEN m[l] + c ELSE m[l]
    OBVIOUS
  <2>3. /\ minus \in [Key -> Int]
        /\ \A l \in Key : minus[l] = IF l = k THEN m[l] - c ELSE m[l]
    OBVIOUS
  <2>4. C \in [Key -> Int] /\ C[k] = c
    OBVIOUS
  <2> HIDE DEF plus, minus, C
  <2>5. ASSUME NEW l \in Key PROVE plus[l] = m[l] + n[l] /\ minus[l] = m[l] - n[l]
    <3>1. m[l] \in Int
      OBVIOUS
    <3>2. CASE l = k
      BY <2>1, <2>2, <2>3, <3>2
    <3>3. CASE l # k
      <4>1. n[l] = 0 /\ plus[l] = m[l] /\ minus[l] = m[l]
        BY <2>1, <2>2, <2>3, <3>3
      <4> QED
        BY <3>1, <4>1
    <3> QED
      BY <3>2, <3>3
  <2>6. plus = [l \in Key |-> m[l] + n[l]] /\ minus = [l \in Key |-> m[l] - n[l]]
    BY <2>2, <2>3, <2>5
  <2> QED
    BY <2>1, <2>2, <2>3, <2>4, <2>6
<1> HIDE DEF plus, minus
<1>2. ASSUME NEW i \in Sub, NEW j \in Slot
      PROVE  /\ Plus(t, k, b)[i][j] = SumBucket(Hits(i, j), plus)
             /\ Minus(t, k, b)[i][j] = SumBucket(Hits(i, j), minus)
  <2>1. /\ Hits(i, j) \in SUBSET Key /\ t[i][j] = SumBucket(Hits(i, j), m)
        /\ t[i] \in [Slot -> Bucket]
    BY DEF Hits, Holds, Table
  <2>2. CASE get_bucket_index(k, i) = j
    <3>1. b = SumBucket({k}, C)
      <4> HIDE DEF C
      <4> QED
        BY <1>1, OneKeyBucket
    <3>2. SumBucket(Hits(i, j), n) = b
      <4>1. Hits(i, j) \cap {k} = {k} /\ {k} \in SUBSET Key
        BY <2>2 DEF Hits
      <4> HIDE DEF C
      <4> QED
        BY <1>1, <2>1, <3>1, <4>1, OnlyBucket
    <3> HIDE DEF n, b
    <3>3. /\ AddBucket(t[i][j], b) = SumBucket(Hits(i, j), plus)
          /\ RemoveBucket(t[i][j], b) = SumBucket(Hits(i, j), minus)
      <4>1. /\ AddBucket(SumBucket(Hits(i, j), m), SumBucket(Hits(i, j), n))
                 = SumBucket(Hits(i, j), [l \in Key |-> m[l] + n[l]])
            /\ RemoveBucket(SumBucket(Hits(i, j), m), SumBucket(Hits(i, j), n))
                 = SumBucket(Hits(i, j), [l \in Key |-> m[l] - n[l]])
        BY <1>1, <2>1, BucketArithmetic
      <4> QED
        BY <1>1, <2>1, <3>2, <4>1
    <3> QED
      BY <2>1, <2>2, <3>3 DEF Plus, Minus
  <2>3. CASE get_bucket_index(k, i) # j
    <3>1. \A l \in Hits(i, j) : plus[l] % N = m[l] % N /\ minus[l] % N = m[l] % N
      BY <1>1, <2>3 DEF Hits
    <3>2. /\ SumBucket(Hits(i, j), plus) = SumBucket(Hits(i, j), m)
          /\ SumBucket(Hits(i, j), minus) = SumBucket(Hits(i, j), m)
      BY <1>1, <2>1, <3>1, SameBucket
    <3> HIDE DEF b
    <3> QED
      BY <2>1, <2>3, <3>2 DEF Plus, Minus
  <2> QED
    BY <2>2, <2>3
<1> HIDE DEF b, n, C
<1>3. Holds(Plus(t, k, b), plus) /\ Holds(Minus(t, k, b), minus)
  BY <1>2 DEF Holds
<1>4. /\ Plus(t, k, b) = [i \in Sub |-> [j \in Slot |-> Plus(t, k, b)[i][j]]]
      /\ Minus(t, k, b) = [i \in Sub |-> [j \in Slot |-> Minus(t, k, b)[i][j]]]
  BY DEF Plus, Minus, Table
<1>5. Plus(t, k, b) \in Table /\ Minus(t, k, b) \in Table
  BY <1>1, <1>3, <1>4, HoldsType
<1> QED
  BY <1>3, <1>5 DEF b, plus, minus

-----------------------------------------------------------------------------
(* What the tests on a bucket tell when the checksum is sound.             *)

\* A bucket of several keys is no bucket of one word (ChecksumSound, whose
\* multiplicities are functions on the keys of the bucket only).
LEMMA SeveralKeys ==
    ASSUME ChecksumSound, NEW m \in [Key -> Int], NEW S \in SUBSET Key,
           \A k \in S : m[k] \in 1 .. N - 1,
           NEW word \in Word, NEW n \in Digit, SumBucket(S, m) = Single(word, KeyHash[word], n)
    PROVE  S = {} \/ \E k \in S : S = {k}
<1>1. IsFiniteSet(S) /\ Cardinality(S) \in Nat
  BY KeySums, FS_CardinalityType
<1> DEFINE times == [k \in S |-> m[k]]
<1>2. times \in [S -> 1 .. N - 1] /\ \A k \in S : times[k] = m[k]
  OBVIOUS
<1> HIDE DEF times
<1>3. SumBucket(S, times) = SumBucket(S, m)
  <2>1. ASSUME NEW P \in SUBSET Key
        PROVE  SumFunctionOnSet(times, P \cap S) % N = SumFunctionOnSet(m, P \cap S) % N
    <3>1. IsFiniteSet(P \cap S) /\ \A k \in P \cap S : times[k] = m[k]
      BY <1>2, KeySums
    <3>2. SumFunctionOnSet(times, P \cap S) = SumFunctionOnSet(m, P \cap S)
      BY <3>1, SumSame
    <3> QED
      BY <3>2
  <2> QED
    BY <2>1, SumBucketSame DEF SameSums
<1>4. ~(Cardinality(S) >= 2)
  BY <1>2, <1>3 DEF ChecksumSound
<1>5. Cardinality(S) = 0 \/ Cardinality(S) = 1
  BY <1>1, <1>4
<1>6. Cardinality(S) = 0 => S = {}
  BY <1>1, FS_EmptySet
<1>7. Cardinality(S) = 1 => \E k : S = {k}
  BY <1>1, FS_Singleton
<1> QED
  BY <1>5, <1>6, <1>7

\* The parts of a bucket of one word.
LEMMA SingleParts ==
    ASSUME NEW word \in Word, NEW n \in Digit
    PROVE  LET b == Single(word, KeyHash[word], n)
           IN  /\ b.count = n
               /\ n # 0 => can_peel(b) /\ extract_key(b.key_sum) = word
               /\ n = 0 => b = EmptyBucket
<1>1. n % N = n /\ 0 % N = 0 /\ word \subseteq Bit /\ KeyHash[word] \subseteq HashBit
  BY DigitMod, Constants DEF Word, HashWord
<1>2. ASSUME n # 0
      PROVE  can_peel(Single(word, KeyHash[word], n))
               /\ extract_key(Single(word, KeyHash[word], n).key_sum) = word
  <2> DEFINE b == Single(word, KeyHash[word], n)
  <2>1. /\ b.key_sum = [i \in Bit |-> IF i \in word THEN n ELSE 0]
        /\ b.hash_sum = [i \in HashBit |-> IF i \in KeyHash[word] THEN n ELSE 0]
        /\ b.count = n
    BY <1>1 DEF Single, Digits
  <2> HIDE DEF b
  <2>2. extract_key(b.key_sum) = word /\ extract_key(b.hash_sum) = KeyHash[word]
    BY <1>1, <1>2, <2>1 DEF extract_key
  <2>3. can_divide_by(b.key_sum, n) /\ can_divide_by(b.hash_sum, n)
    BY <2>1 DEF can_divide_by
  <2> QED
    BY <1>2, <2>1, <2>2, <2>3 DEF can_peel, b
<1>3. n = 0 => Single(word, KeyHash[word], n) = EmptyBucket
  BY <1>1 DEF EmptyBucket, Single, Digits
<1> QED
  BY <1>1, <1>2, <1>3 DEF Single

\* A bucket that passes can_peel is a bucket of one word.
LEMMA PeelableWord ==
    ASSUME NEW b \in Bucket, can_peel(b)
    PROVE  /\ extract_key(b.key_sum) \in Word
           /\ b = Single(extract_key(b.key_sum), KeyHash[extract_key(b.key_sum)], b.count)
<1> DEFINE word == extract_key(b.key_sum)
           hash == extract_key(b.hash_sum)
<1>1. /\ b.count \in Digit /\ b.count % N = b.count
      /\ b.key_sum \in [Bit -> Digit] /\ b.hash_sum \in [HashBit -> Digit]
  BY DigitMod DEF Bucket
<1>2. word \in Word /\ KeyHash[word] = hash
  BY <1>1 DEF extract_key, Word, can_peel
<1>3. \A i \in Bit : b.key_sum[i] = IF i \in word THEN b.count ELSE 0
  BY <1>1 DEF can_peel, can_divide_by, extract_key
<1>4. \A i \in HashBit : b.hash_sum[i] = IF i \in hash THEN b.count ELSE 0
  BY <1>1 DEF can_peel, can_divide_by, extract_key
<1> HIDE DEF word, hash
<1>5. /\ b.key_sum = Digits(word, Bit, b.count)
      /\ b.hash_sum = Digits(hash, HashBit, b.count)
  BY <1>1, <1>3, <1>4 DEF Digits
<1>6. b = [key_sum |-> b.key_sum, hash_sum |-> b.hash_sum, count |-> b.count]
  BY DEF Bucket
<1>7. b = Single(word, KeyHash[word], b.count)
  BY <1>1, <1>2, <1>5, <1>6 DEF Single
<1> QED
  BY <1>2, <1>7 DEF word

\* can_peel holds of the buckets with one key, however often, and of no others;
\* is_empty of the buckets with no key.
LEMMA Peelable ==
    ASSUME ChecksumSound, NEW m \in [Key -> Int], NEW S \in SUBSET Key,
           \A k \in S : m[k] \in 1 .. N - 1
    PROVE  /\ can_peel(SumBucket(S, m)) <=> \E k \in S : S = {k}
           /\ SumBucket(S, m) = EmptyBucket <=> S = {}
<1> DEFINE b == SumBucket(S, m)
<1>0. b \in Bucket
  BY SumBucketType
<1>1. ASSUME NEW k \in S, S = {k}
      PROVE  b = Single(k, KeyHash[k], m[k]) /\ can_peel(b) /\ b # EmptyBucket
  <2>1. k \in Key /\ k \in Word /\ m[k] \in Digit /\ m[k] # 0
    BY Constants DEF Digit
  <2>2. b = Single(k, KeyHash[k], m[k])
    BY <1>1, <2>1, OneKeyBucket
  <2> HIDE DEF b
  <2>3. can_peel(b) /\ b.count # 0
    BY <2>1, <2>2, SingleParts
  <2>4. EmptyBucket.count = 0
    BY DigitMod DEF EmptyBucket, Single
  <2> QED
    BY <2>2, <2>3, <2>4
<1>2. ASSUME S = {} PROVE b = EmptyBucket /\ ~can_peel(b)
  <2>1. EmptyBucket.count = 0
    BY DigitMod DEF EmptyBucket, Single
  <2>2. b = EmptyBucket
    <3>1. \A c : {l \in {} : c \in l} = {} /\ {l \in {} : c \in KeyHash[l]} = {}
      OBVIOUS
    <3> QED
      BY <1>2, <3>1, SumEmpty, DigitMod DEF SumBucket, EmptyBucket, Single, Digits
  <2> QED
    BY <2>1, <2>2 DEF can_peel
<1>3. ASSUME can_peel(b) PROVE S = {} \/ \E k \in S : S = {k}
  <2> DEFINE word == extract_key(b.key_sum)
             n == b.count
  <2>1. word \in Word /\ b = Single(word, KeyHash[word], n)
    <3> HIDE DEF b
    <3> QED
      BY <1>0, <1>3, PeelableWord
  <2>2. n \in Digit
    <3> HIDE DEF b
    <3> QED
      BY <1>0 DEF Bucket
  <2> HIDE DEF word, n
  <2> QED
    BY <2>1, <2>2, SeveralKeys
<1>4. ASSUME b = EmptyBucket PROVE S = {} \/ \E k \in S : S = {k}
  <2>1. {} \in Word /\ 0 \in Digit
    BY DigitMod DEF Word
  <2>2. EmptyBucket = Single({}, KeyHash[{}], 0)
    BY <2>1, SingleParts
  <2> QED
    BY <1>4, <2>1, <2>2, SeveralKeys
<1> HIDE DEF b
<1>5. can_peel(b) <=> \E k \in S : S = {k}
  BY <1>1, <1>2, <1>3
<1>6. b = EmptyBucket <=> S = {}
  BY <1>1, <1>2, <1>4
<1> QED
  BY <1>5, <1>6 DEF b

-----------------------------------------------------------------------------
(* How often the combination holds each key.                               *)

Part(p) == IF p < Len(coefficient) THEN coefficient[p + 1] ELSE 0
Holders(k) == {p \in Party : k \in keys[p]}

\* The multiplicities are digits, and the difference is where they are not zero.
TimesFacts ==
    /\ Times \in [Key -> Digit] /\ Times \in [Key -> Int]
    /\ \A p \in Party : Part(p) \in Int
    /\ \A k \in Key : IsFiniteSet(Holders(k)) /\ Holders(k) \in SUBSET Party
    /\ \A k \in Key :
           Times[k] = SumFunctionOnSet([p \in Party |-> Part(p)], Holders(k)) % N
    /\ Difference \in SUBSET Key /\ Rest \in SUBSET Difference
    /\ \A k \in Difference : Times[k] \in 1 .. N - 1
    /\ \A k \in Key \ Difference : Times[k] = 0

\* They follow from the types of the variables.
LEMMA TimesType == TypeOK => TimesFacts
<1> SUFFICES ASSUME TypeOK PROVE TimesFacts
  OBVIOUS
<1>1. ASSUME NEW p \in Party PROVE Part(p) \in Int
  <2>1. coefficient \in Seq(Coefficient) /\ Coefficient \subseteq Int /\ p \in Nat
    BY Constants DEF TypeOK, Party
  <2>2. CASE p < Len(coefficient)
    <3>1. p + 1 \in 1 .. Len(coefficient)
      BY <2>1, <2>2
    <3>2. coefficient[p + 1] \in Coefficient
      BY <2>1, <3>1
    <3> QED
      BY <2>1, <2>2, <3>2 DEF Part
  <2>3. CASE ~(p < Len(coefficient))
    BY <2>3 DEF Part
  <2> QED
    BY <2>2, <2>3
<1>2. ASSUME NEW k \in Key PROVE IsFiniteSet(Holders(k)) /\ Holders(k) \in SUBSET Party
  <2>1. IsFiniteSet(0 .. Parties - 1)
    BY Constants, FS_Interval
  <2>2. Holders(k) \in SUBSET Party
    BY DEF Holders
  <2> QED
    BY <2>1, <2>2, FS_Subset DEF Party
<1> DEFINE f == [p \in Party |-> Part(p)]
<1>3. Times = [k \in Key |-> SumFunctionOnSet(f, Holders(k)) % N]
  BY DEF Times, TimesAfter, Part, Holders
<1>4. ASSUME NEW k \in Key PROVE SumFunctionOnSet(f, Holders(k)) % N \in Digit
  <2>1. \A p \in Holders(k) : f[p] \in Int
    BY <1>1, <1>2
  <2> HIDE DEF f
  <2>2. SumFunctionOnSet(f, Holders(k)) \in Int
    BY <1>2, <2>1, SumType
  <2> QED
    BY <2>2, DigitMod
<1> HIDE DEF f
<1>5. Times \in [Key -> Digit] /\ Times \in [Key -> Int]
  BY <1>3, <1>4, DigitMod
<1>6. \A k \in Key : Times[k] = SumFunctionOnSet(f, Holders(k)) % N
  BY <1>3
<1>7. \A k \in Difference : k \in Key /\ Times[k] \in 1 .. N - 1
  BY <1>5, Constants DEF Difference, Digit
<1> QED
  BY <1>1, <1>2, <1>5, <1>6, <1>7 DEF TimesFacts, Difference, Rest, f

\* One more table, with coefficient c, adds c to the keys of its party (Combine).
LEMMA TimesCombine ==
    ASSUME TypeOK, TypeOK', Len(coefficient) < Parties, NEW c \in Coefficient,
           coefficient' = Append(coefficient, c), keys' = keys, NEW k \in Key
    PROVE  Times'[k] % N
             = (Times[k] + (IF k \in keys[Len(coefficient)] THEN c ELSE 0)) % N
<1>0. TimesFacts /\ TimesFacts'
  BY TimesType, PTL
<1> DEFINE n == Len(coefficient)
           f == [p \in Party |-> Part(p)]
           g == [p \in Party |-> Part(p)']
           P == Holders(k)
           d == IF k \in keys[n] THEN c ELSE 0
<1>1. /\ coefficient \in Seq(Coefficient) /\ c \in Int /\ n \in Party
      /\ Len(coefficient') = n + 1 /\ coefficient'[n + 1] = c
      /\ \A x \in 1 .. n : coefficient'[x] = coefficient[x]
  BY Constants DEF TypeOK, Party
<1>2. IsFiniteSet(P) /\ P \in SUBSET Party /\ Holders(k)' = P /\ (n \in P <=> k \in keys[n])
  BY <1>0, <1>1 DEF TimesFacts, Holders
<1>3. \A p \in Party : f[p] \in Int /\ g[p] \in Int
  BY <1>0 DEF TimesFacts
<1>4. f[n] = 0 /\ g[n] = c
  BY <1>1 DEF Part
<1>5. \A p \in Party : p # n => f[p] = g[p]
  <2> SUFFICES ASSUME NEW p \in Party, p # n PROVE Part(p) = Part(p)'
    OBVIOUS
  <2>1. p \in Nat
    BY DEF Party
  <2>2. p < n <=> p < n + 1
    BY <1>1, <2>1
  <2>3. p < n => coefficient'[p + 1] = coefficient[p + 1]
    BY <1>1, <2>1
  <2> QED
    BY <1>1, <2>2, <2>3 DEF Part
<1>6. Times[k] = SumFunctionOnSet(f, P) % N /\ Times'[k] = SumFunctionOnSet(g, P) % N
  <2>1. Times[k] = SumFunctionOnSet(f, P) % N
    BY <1>0 DEF TimesFacts
  <2>2. Times'[k] = SumFunctionOnSet([p \in Party |-> Part(p)'], Holders(k)') % N
    BY <1>0 DEF TimesFacts
  <2> QED
    BY <1>2, <2>1, <2>2
<1> HIDE DEF f, g, P
<1>7. SumFunctionOnSet(f, P) \in Int /\ SumFunctionOnSet(g, P) = SumFunctionOnSet(f, P) + d
  <2>0. SumFunctionOnSet(f, P) \in Int
    BY <1>2, <1>3, SumType
  <2>1. CASE n \in P
    <3> DEFINE R == P \ {n}
    <3>1. IsFiniteSet(R) /\ R \in SUBSET Party /\ \A p \in R : f[p] = g[p] /\ f[p] \in Int
      BY <1>2, <1>3, <1>5, FS_RemoveElement
    <3> HIDE DEF R
    <3>2. SumFunctionOnSet(f, R) = SumFunctionOnSet(g, R) /\ SumFunctionOnSet(f, R) \in Int
      BY <3>1, SumSame, SumType
    <3>3. /\ SumFunctionOnSet(f, P) = f[n] + SumFunctionOnSet(f, R)
          /\ SumFunctionOnSet(g, P) = g[n] + SumFunctionOnSet(g, R)
      <4>1. \A p \in P : f[p] \in Int /\ g[p] \in Int
        BY <1>2, <1>3
      <4> QED
        BY <1>2, <2>1, <4>1, SumTakeOut DEF R
    <3> QED
      BY <1>1, <1>2, <1>4, <2>1, <3>2, <3>3
  <2>2. CASE n \notin P
    <3>1. SumFunctionOnSet(f, P) = SumFunctionOnSet(g, P)
      BY <1>2, <1>5, <2>2, SumSame
    <3> QED
      BY <1>2, <2>0, <2>2, <3>1
  <2> QED
    BY <2>1, <2>2
<1> DEFINE a == SumFunctionOnSet(f, P)
<1>8. a \in Int /\ d \in Int /\ N \in Nat /\ N > 0
  BY <1>1, <1>7, Constants
<1> HIDE DEF d, a
<1>9. ((a % N) + d) % N = (a + d) % N /\ ((a + d) % N) % N = (a + d) % N
  <2>1. ((a % N) + d) % N = (a + d) % N
    BY <1>8, ModPlus
  <2>2. a + d \in Int
    BY <1>8
  <2> QED
    BY <2>1, <2>2, DigitMod
<1> QED
  BY <1>6, <1>7, <1>9 DEF a, d

\* Without any table combined there is nothing (filling).
NothingCombined == coefficient = << >>
NoDifference == Difference = {} /\ Rest = {}
LEMMA NoTimes == TypeOK /\ NothingCombined => NoDifference
<1> SUFFICES ASSUME TypeOK, NothingCombined PROVE NoDifference
  OBVIOUS
<1>0. TimesFacts
  BY TimesType
<1>1. ASSUME NEW k \in Key PROVE Times[k] = 0
  <2> DEFINE f == [p \in Party |-> Part(p)]
             P == Holders(k)
  <2>1. IsFiniteSet(P) /\ P \in SUBSET Party /\ Times[k] = SumFunctionOnSet(f, P) % N
    BY <1>0 DEF TimesFacts
  <2>2. \A p \in P : f[p] = 0
    <3>1. \A p \in Party : p \in Nat
      BY DEF Party
    <3> QED
      BY <2>1, <3>1 DEF Part, NothingCombined
  <2> HIDE DEF f, P
  <2>3. SumFunctionOnSet(f, P) = SumFunctionOnSet(f, {})
    BY <2>1, <2>2, SumNonzero
  <2> QED
    BY <2>1, <2>3, SumEmpty, DigitMod
<1> QED
  BY <1>1 DEF NoDifference, Difference, Rest

\* Keys and coefficients fix the multiplicities.
LEMMA TimesKept ==
    ASSUME keys' = keys, coefficient' = coefficient
    PROVE  Times' = Times /\ Difference' = Difference
           /\ (peeled_keys' = peeled_keys => Rest' = Rest)
BY DEF Times, TimesAfter, Difference, Rest

\* What a table that encodes nothing holds does not depend on the multiplicities.
LEMMA EncodesNothing ==
    ASSUME NEW m, NEW t
    PROVE  Encodes(t, {}, m) <=> \A i \in Sub, j \in Slot : t[i][j] = EmptyBucket
<1>1. SumBucket({}, m) = EmptyBucket
  <2>1. \A b : {l \in {} : b \in l} = {} /\ {l \in {} : b \in KeyHash[l]} = {}
    OBVIOUS
  <2> QED
    BY <2>1, SumEmpty, DigitMod DEF SumBucket, EmptyBucket, Single, Digits
<1>2. \A i, j : {k \in {} : get_bucket_index(k, i) = j} = {}
  OBVIOUS
<1> QED
  BY <1>1, <1>2 DEF Encodes

\* The combination, as a table that holds the rest.
LEMMA ResidueHolds ==
    ASSUME TypeOK
    PROVE  /\ ResidueEncodesRest <=> Holds(resIBLT, Only(Rest, Times))
           /\ Only(Rest, Times) \in [Key -> Int]
<1>1. TimesFacts
  BY TimesType
<1>2. Times \in [Key -> Int] /\ Rest \in SUBSET Key
  BY <1>1 DEF TimesFacts
<1> QED
  BY <1>2, HoldsEncodes DEF ResidueEncodesRest, Only

-----------------------------------------------------------------------------
(* The steps of filling and combining.                                     *)

Once == [k \in Key |-> 1]

\* The invariant holds before anything is inserted.
LEMMA Initially == Init => IInv
<1> SUFFICES ASSUME Init PROVE IInv
  OBVIOUS
<1> USE DEF Init
<1>1. TypeOK
  BY EmptyTableFacts, Constants DEF TypeOK
<1>2. Phases
  BY Constants DEF Phases, Filling
<1>3. \A m : Encodes(EmptyTable, {}, m)
  BY EncodesNothing DEF EmptyTable
<1>4. TablesEncodeKeys
  BY <1>3 DEF TablesEncodeKeys
<1>5. Difference = {} /\ Rest = {}
  BY <1>1, NoTimes DEF NothingCombined, NoDifference
<1>6. ResidueEncodesRest
  BY <1>3, <1>5 DEF ResidueEncodesRest
<1>7. PeeledInDifference /\ QueueIsSound
  BY DEF PeeledInDifference, QueueIsSound
<1>8. ScanIsComplete /\ ReturnIsFinal
  BY DEF ScanIsComplete, ReturnIsFinal, Returned
<1>9. StoppingKept
  BY <1>5 DEF StoppingKept
<1> QED
  BY <1>1, <1>2, <1>4, <1>6, <1>7, <1>8, <1>9 DEF IInv

\* insert_key and remove_key keep a table the sum of its set of keys.
LEMMA InsertRemoveTable ==
    ASSUME NEW t \in Table, NEW M \in SUBSET Key, NEW k \in Key, Encodes(t, M, Once)
    PROVE  /\ insert_key(t, k) \in Table /\ remove_key(t, k) \in Table
           /\ k \notin M => Encodes(insert_key(t, k), M \cup {k}, Once)
           /\ k \in M => Encodes(remove_key(t, k), M \ {k}, Once)
<1> DEFINE m == Only(M, Once)
           b == Single(k, KeyHash[k], 1)
<1>1. Once \in [Key -> Int] /\ m \in [Key -> Int] /\ Holds(t, m)
  BY HoldsEncodes DEF Once, Only
<1>2. /\ k \notin M => [m EXCEPT ![k] = @ + 1] = Only(M \cup {k}, Once)
      /\ k \in M => [m EXCEPT ![k] = @ - 1] = Only(M \ {k}, Once)
  <2>1. \A l \in Key : m[l] = IF l \in M THEN 1 ELSE 0
    BY DEF Only, Once
  <2>2. /\ Only(M \cup {k}, Once) = [l \in Key |-> IF l \in M \cup {k} THEN 1 ELSE 0]
        /\ Only(M \ {k}, Once) = [l \in Key |-> IF l \in M \ {k} THEN 1 ELSE 0]
    BY DEF Only, Once
  <2> HIDE DEF m
  <2>3. ASSUME k \notin M PROVE [m EXCEPT ![k] = @ + 1] = Only(M \cup {k}, Once)
    <3>1. m[k] + 1 = 1
      BY <2>1, <2>3
    <3>2. [m EXCEPT ![k] = 1] = [l \in Key |-> IF l \in M \cup {k} THEN 1 ELSE 0]
      BY <1>1, <2>1
    <3> QED
      BY <2>2, <3>1, <3>2
  <2>4. ASSUME k \in M PROVE [m EXCEPT ![k] = @ - 1] = Only(M \ {k}, Once)
    <3>1. m[k] - 1 = 0
      BY <2>1, <2>4
    <3>2. [m EXCEPT ![k] = 0] = [l \in Key |-> IF l \in M \ {k} THEN 1 ELSE 0]
      BY <1>1, <2>1
    <3> QED
      BY <2>2, <3>1, <3>2
  <2> QED
    BY <2>3, <2>4
<1> HIDE DEF m
<1>3. /\ Plus(t, k, b) \in Table /\ Holds(Plus(t, k, b), [m EXCEPT ![k] = @ + 1])
      /\ Minus(t, k, b) \in Table /\ Holds(Minus(t, k, b), [m EXCEPT ![k] = @ - 1])
  <2>1. 1 \in Int
    OBVIOUS
  <2> QED
    BY <1>1, <2>1, OneKeyTable
<1>4. insert_key(t, k) = Plus(t, k, b) /\ remove_key(t, k) = Minus(t, k, b)
  BY DEF insert_key, remove_key, Plus, Minus
<1>5. M \cup {k} \in SUBSET Key /\ M \ {k} \in SUBSET Key
  OBVIOUS
<1> QED
  BY <1>1, <1>2, <1>3, <1>4, <1>5, HoldsEncodes

\* Filling a table (insert_key, remove_key) keeps the invariant.
LEMMA InsertStep ==
    ASSUME IInv, NEW p \in Party, NEW k \in Key, Insert(p, k) \/ Remove(p, k)
    PROVE  IInv'
<1>0. TypeOK /\ Phases /\ TablesEncodeKeys /\ ResidueEncodesRest /\ pc = "fill"
  BY DEF IInv, Insert, Remove
<1>1. /\ UNCHANGED <<coefficient, resIBLT, pc, cursor, peelable_keys, peeled_keys>>
      /\ coefficient = << >> /\ peelable_keys = << >> /\ peeled_keys = {}
  BY <1>0 DEF Insert, Remove, Phases, Filling
<1>2. keys[p] \in SUBSET Key /\ iblts[p] \in Table /\ Encodes(iblts[p], keys[p], Once)
  BY <1>0 DEF TypeOK, TablesEncodeKeys, Once
<1>3. \E S \in SUBSET Key, t \in Table :
          /\ Encodes(t, S, Once)
          /\ keys' = [keys EXCEPT ![p] = S] /\ iblts' = [iblts EXCEPT ![p] = t]
  <2>1. CASE Insert(p, k)
    BY <1>2, <2>1, InsertRemoveTable DEF Insert
  <2>2. CASE Remove(p, k)
    BY <1>2, <2>2, InsertRemoveTable DEF Remove
  <2> QED
    BY <2>1, <2>2
<1>4. TypeOK'
  BY <1>0, <1>1, <1>3 DEF TypeOK
<1>5. TablesEncodeKeys'
  <2> SUFFICES ASSUME NEW q \in Party PROVE Encodes(iblts'[q], keys'[q], Once)
    BY DEF TablesEncodeKeys, Once
  <2>1. CASE q = p
    BY <1>0, <1>3, <2>1 DEF TypeOK
  <2>2. CASE q # p
    BY <1>0, <1>3, <2>2 DEF TypeOK, TablesEncodeKeys, Once
  <2> QED
    BY <2>1, <2>2
<1>6. Phases'
  BY <1>0, <1>1 DEF Phases, Filling
<1>7. Difference = {} /\ Rest = {} /\ Difference' = {} /\ Rest' = {}
  <2>1. TypeOK /\ NothingCombined /\ TypeOK' /\ NothingCombined'
    BY <1>0, <1>1, <1>4 DEF NothingCombined
  <2>2. NoDifference /\ NoDifference'
    BY <2>1, NoTimes, PTL
  <2> QED
    BY <2>2 DEF NoDifference
<1>8. ResidueEncodesRest'
  BY <1>0, <1>1, <1>7, EncodesNothing DEF ResidueEncodesRest
<1>9. PeeledInDifference' /\ QueueIsSound'
  BY <1>1 DEF PeeledInDifference, QueueIsSound
<1>10. ScanIsComplete' /\ ReturnIsFinal'
  BY <1>0, <1>1 DEF ScanIsComplete, ReturnIsFinal, Returned
<1>11. StoppingKept'
  BY <1>7 DEF StoppingKept
<1> QED
  BY <1>4, <1>5, <1>6, <1>8, <1>9, <1>10, <1>11 DEF IInv

\* Combining one more table keeps the invariant, if the table has entered with
\* the coefficient that is noted.
LEMMA CombineStep ==
    ASSUME IInv, NEW c \in Coefficient, Combine(c), resIBLT' \in Table,
           NEW o \in [Key -> Int], Holds(resIBLT', o),
           \A k \in Key :
               o[k] % N = (Times[k] + (IF k \in keys[Len(coefficient)] THEN c ELSE 0)) % N
    PROVE  IInv'
<1>0. /\ TypeOK /\ Phases /\ TablesEncodeKeys /\ Filling
  BY DEF IInv, Combine, Filling
<1>1. /\ Len(coefficient) < Parties /\ peelable_keys = << >> /\ cursor = FirstBucket
      /\ peeled_keys = {}
  BY <1>0 DEF Phases
<1>2. /\ UNCHANGED <<keys, iblts, cursor, peelable_keys, peeled_keys>>
      /\ coefficient' = Append(coefficient, c)
      /\ pc' = IF Len(coefficient') = Parties THEN "scan" ELSE "combine"
  BY DEF Combine, filling
<1>3. /\ coefficient' \in Seq(Coefficient) /\ Len(coefficient') = Len(coefficient) + 1
      /\ Len(coefficient') <= Parties /\ Len(coefficient) \in Nat /\ Parties \in Nat
  BY <1>0, <1>1, <1>2, Constants DEF TypeOK
<1>4. TypeOK'
  BY <1>0, <1>2, <1>3 DEF TypeOK
<1>5. Phases'
  BY <1>1, <1>2, <1>3 DEF Phases, Filling
<1>6. TablesEncodeKeys'
  BY <1>0, <1>2 DEF TablesEncodeKeys
<1>7. Rest' = Difference' /\ TimesFacts'
  <2>1. TimesFacts'
    BY <1>4, TimesType, PTL
  <2> QED
    BY <1>1, <1>2, <2>1 DEF Rest
<1>8. ResidueEncodesRest'
  <2> DEFINE T == Times'
             R == Rest'
  <2>1. T \in [Key -> Int] /\ R \in SUBSET Key /\ \A k \in Key \ R : T[k] = 0
    BY <1>7 DEF TimesFacts
  <2>2. \A k \in Key : o[k] % N = T[k] % N
    BY <1>0, <1>1, <1>2, <1>4, TimesCombine
  <2> HIDE DEF T, R
  <2>3. Only(R, T) = T
    BY <2>1 DEF Only
  <2>4. Holds(resIBLT', T)
    BY <2>1, <2>2, HoldsSame
  <2>5. Encodes(resIBLT', R, T)
    BY <2>1, <2>3, <2>4, HoldsEncodes
  <2> QED
    BY <2>5 DEF ResidueEncodesRest, T, R
<1>9. PeeledInDifference' /\ QueueIsSound'
  BY <1>1, <1>2 DEF PeeledInDifference, QueueIsSound
<1>10. ScanIsComplete'
  BY <1>1, <1>2, Constants DEF ScanIsComplete, Visited, FirstBucket, Sub, Slot
<1>11. ReturnIsFinal'
  BY <1>2 DEF ReturnIsFinal, Returned
<1>12. StoppingKept'
  BY <1>7 DEF StoppingKept
<1> QED
  BY <1>4, <1>5, <1>6, <1>8, <1>9, <1>10, <1>11, <1>12 DEF IInv

\* add, remove, and multiply and add of the next party's table.
LEMMA CombineSteps ==
    ASSUME IInv, AddIBLT \/ RemoveIBLT \/ \E c \in Coefficient : AddMultiple(c)
    PROVE  IInv'
<1> DEFINE p == Len(coefficient)
           m == Only(Rest, Times)
           n == Only(keys[p], Once)
<1>0. TypeOK /\ TimesFacts /\ Filling /\ p < Parties /\ peeled_keys = {}
  BY TimesType DEF IInv, Phases, Filling, AddIBLT, RemoveIBLT, AddMultiple, Combine
<1>1. p \in Party
  BY <1>0, Constants DEF TypeOK, Party
<1>2. /\ m \in [Key -> Int] /\ Holds(resIBLT, m)
      /\ \A k \in Key : m[k] = Times[k]
  <2>1. m \in [Key -> Int] /\ Holds(resIBLT, m)
    BY <1>0, ResidueHolds DEF IInv
  <2>2. \A k \in Key : m[k] = Times[k]
    BY <1>0 DEF TimesFacts, Only, Rest
  <2> QED
    BY <2>1, <2>2
<1>3. /\ n \in [Key -> Int] /\ Holds(iblts[p], n)
      /\ \A k \in Key : n[k] = IF k \in keys[p] THEN 1 ELSE 0
  <2>1. keys[p] \in SUBSET Key /\ Encodes(iblts[p], keys[p], Once) /\ Once \in [Key -> Int]
    BY <1>0, <1>1 DEF IInv, TypeOK, TablesEncodeKeys, Once
  <2>2. Holds(iblts[p], n)
    BY <2>1, HoldsEncodes
  <2> QED
    BY <2>1, <2>2 DEF Only, Once
<1> HIDE DEF m, n
<1>4. \A k \in Key : Times[k] \in Int /\ m[k] \in Int /\ n[k] \in {0, 1}
  BY <1>2, <1>3
<1>5. CASE AddIBLT
  <2> DEFINE o == [k \in Key |-> m[k] + n[k]]
  <2>1. Combine(1) /\ 1 \in Coefficient /\ resIBLT' = AddTable(resIBLT, iblts[p])
    BY <1>5 DEF AddIBLT, Combine
  <2>2. o \in [Key -> Int] /\ resIBLT' \in Table /\ Holds(resIBLT', o)
    <3>1. o \in [Key -> Int]
      BY <1>4
    <3>2. \A c \in Int : AddTable(resIBLT, iblts[p]) \in Table /\ Holds(AddTable(resIBLT, iblts[p]), o)
      BY <1>2, <1>3, TableArithmetic
    <3>3. 0 \in Int
      OBVIOUS
    <3> QED
      BY <2>1, <3>1, <3>2, <3>3
  <2>3. \A k \in Key : o[k] = Times[k] + (IF k \in keys[p] THEN 1 ELSE 0)
    BY <1>2, <1>3
  <2> HIDE DEF o
  <2> QED
    BY <2>1, <2>2, <2>3, CombineStep
<1>6. CASE RemoveIBLT
  <2> DEFINE o == [k \in Key |-> m[k] - n[k]]
  <2>1. Combine(-1) /\ -1 \in Coefficient /\ resIBLT' = RemoveTable(resIBLT, iblts[p])
    BY <1>6 DEF RemoveIBLT, Combine
  <2>2. o \in [Key -> Int] /\ resIBLT' \in Table /\ Holds(resIBLT', o)
    <3>1. o \in [Key -> Int]
      BY <1>4
    <3>2. \A c \in Int : RemoveTable(resIBLT, iblts[p]) \in Table /\ Holds(RemoveTable(resIBLT, iblts[p]), o)
      BY <1>2, <1>3, TableArithmetic
    <3>3. 0 \in Int
      OBVIOUS
    <3> QED
      BY <2>1, <3>1, <3>2, <3>3
  <2>3. \A k \in Key : o[k] = Times[k] + (IF k \in keys[p] THEN -1 ELSE 0)
    BY <1>2, <1>3, <1>4
  <2> HIDE DEF o
  <2> QED
    BY <2>1, <2>2, <2>3, CombineStep
<1>7. ASSUME NEW c \in Coefficient, AddMultiple(c) PROVE IInv'
  <2> DEFINE message == AddTable(EmptyTable, iblts[p])
             z == [k \in Key |-> 0]
             a == [k \in Key |-> z[k] + n[k]]
             b == [k \in Key |-> a[k] * c]
             o == [k \in Key |-> m[k] + b[k]]
  <2>1. /\ Combine(c) /\ c \in Int
        /\ resIBLT' = AddTable(resIBLT, MultiplyTable(message, c))
    BY <1>7, Constants DEF AddMultiple
  <2>2. z \in [Key -> Int] /\ Holds(EmptyTable, z)
    BY EmptyTableFacts
  <2>3. a \in [Key -> Int] /\ \A k \in Key : a[k] = n[k]
    BY <1>3, <2>2
  <2>4. Holds(message, a)
    <3> HIDE DEF z
    <3> QED
      BY <1>3, <2>1, <2>2, TableArithmetic
  <2> HIDE DEF a, message
  <2>5. b \in [Key -> Int] /\ Holds(MultiplyTable(message, c), b)
    <3>1. b \in [Key -> Int]
      BY <2>1, <2>3
    <3>2. Holds(MultiplyTable(message, c), b)
      BY <2>1, <2>3, <2>4, TableArithmetic
    <3> QED
      BY <3>1, <3>2
  <2>6. \A k \in Key : b[k] = IF k \in keys[p] THEN c ELSE 0
    BY <1>3, <2>1, <2>3
  <2> HIDE DEF b
  <2>7. o \in [Key -> Int] /\ resIBLT' \in Table /\ Holds(resIBLT', o)
    <3>1. o \in [Key -> Int]
      BY <1>4, <2>5
    <3>2. /\ AddTable(resIBLT, MultiplyTable(message, c)) \in Table
          /\ Holds(AddTable(resIBLT, MultiplyTable(message, c)), o)
      BY <1>2, <2>1, <2>5, TableArithmetic
    <3> QED
      BY <2>1, <3>1, <3>2
  <2>8. \A k \in Key : o[k] = Times[k] + (IF k \in keys[p] THEN c ELSE 0)
    BY <1>2, <2>6
  <2> HIDE DEF o
  <2> QED
    BY <2>1, <2>7, <2>8, CombineStep
<1> QED
  BY <1>5, <1>6, <1>7

-----------------------------------------------------------------------------
(* The steps of peeling.                                                   *)

RestHits(i, j) == Hits(i, j) \cap Rest

\* A bucket of the combination is the sum of the unreported keys that hit it:
\* it is peelable when there is one and empty when there is none.
LEMMA ResidueBucket ==
    ASSUME ChecksumSound, TypeOK, ResidueEncodesRest, NEW i \in Sub, NEW j \in Slot
    PROVE  /\ resIBLT[i][j] = SumBucket(RestHits(i, j), Times)
           /\ resIBLT[i][j] \in Bucket
           /\ can_peel(resIBLT[i][j]) <=> \E k \in RestHits(i, j) : RestHits(i, j) = {k}
           /\ resIBLT[i][j] = EmptyBucket <=> RestHits(i, j) = {}
<1>1. TimesFacts
  BY TimesType
<1>2. /\ Times \in [Key -> Int] /\ RestHits(i, j) \in SUBSET Key
      /\ \A k \in RestHits(i, j) : Times[k] \in 1 .. N - 1
  BY <1>1 DEF TimesFacts, RestHits, Hits
<1>3. resIBLT[i][j] = SumBucket(RestHits(i, j), Times)
  <2>1. {k \in Rest : get_bucket_index(k, i) = j} = RestHits(i, j)
    BY <1>1 DEF TimesFacts, RestHits, Hits
  <2> QED
    BY <2>1 DEF ResidueEncodesRest, Encodes
<1>4. resIBLT[i][j] \in Bucket
  BY DEF TypeOK, Table
<1>5. /\ can_peel(SumBucket(RestHits(i, j), Times))
            <=> \E k \in RestHits(i, j) : RestHits(i, j) = {k}
      /\ SumBucket(RestHits(i, j), Times) = EmptyBucket <=> RestHits(i, j) = {}
  BY <1>2, Peelable
<1> QED
  BY <1>3, <1>4, <1>5

\* What a step of peel leaves alone.
LEMMA PeelKeeps ==
    ASSUME IInv, pc \in {"scan", "drain"}, keys' = keys, iblts' = iblts,
           coefficient' = coefficient
    PROVE  /\ Times' = Times /\ Difference' = Difference /\ TablesEncodeKeys'
           /\ Len(coefficient') = Parties
           /\ peeled_keys' = peeled_keys => Rest' = Rest /\ PeeledInDifference' /\ StoppingKept'
           /\ peeled_keys' = peeled_keys /\ resIBLT' = resIBLT => ResidueEncodesRest'
           /\ \A b : peeled_keys' = peeled_keys => (QueuedKey(b)' <=> QueuedKey(b))
<1>1. Times' = Times /\ Difference' = Difference /\ (peeled_keys' = peeled_keys => Rest' = Rest)
  BY TimesKept
<1>2. TablesEncodeKeys' /\ Len(coefficient') = Parties
  BY DEF IInv, TablesEncodeKeys, Phases, Filling
<1>3. peeled_keys' = peeled_keys => PeeledInDifference' /\ StoppingKept'
  BY <1>1 DEF IInv, PeeledInDifference, StoppingKept
<1>4. peeled_keys' = peeled_keys /\ resIBLT' = resIBLT => ResidueEncodesRest'
  BY <1>1 DEF IInv, ResidueEncodesRest
<1>5. \A b : peeled_keys' = peeled_keys => (QueuedKey(b)' <=> QueuedKey(b))
  BY <1>1 DEF QueuedKey, Alone
<1> QED
  BY <1>1, <1>2, <1>3, <1>4, <1>5

\* Visiting a bucket (find_peelable_key) keeps the invariant: with a sound
\* checksum, what is queued is one key, alone in that bucket.
LEMMA ScanStep == ASSUME ChecksumSound, IInv, ScanBucket PROVE IInv'
<1> DEFINE i == cursor.i
           j == cursor.j
           b == resIBLT[i][j]
<1>0. /\ TypeOK /\ TimesFacts /\ i \in Sub /\ j \in Slot /\ pc = "scan"
      /\ Phases /\ ResidueEncodesRest
  BY TimesType DEF IInv, TypeOK, ScanBucket
<1>1. /\ UNCHANGED <<keys, iblts, coefficient, resIBLT, pc, peeled_keys>>
      /\ cursor' = AfterBucket(cursor)
      /\ peelable_keys' = IF can_peel(b) THEN Append(peelable_keys, b) ELSE peelable_keys
  BY DEF ScanBucket, filling
<1>2. b \in Bucket /\ peelable_keys \in Seq(Bucket)
  BY <1>0, ResidueBucket DEF TypeOK
<1>3. can_peel(b) => QueuedKey(b)
  <2> SUFFICES ASSUME can_peel(b) PROVE QueuedKey(b)
    OBVIOUS
  <2> DEFINE S == RestHits(i, j)
  <2>1. PICK k \in S : S = {k}
    BY <1>0, ResidueBucket
  <2>2. k \in Key /\ k \in Rest /\ k \in Difference /\ Times \in [Key -> Int]
    BY <1>0, <2>1 DEF TimesFacts, RestHits, Hits
  <2>3. b = SumBucket({k}, Times)
    <3>1. b = SumBucket(S, Times)
      BY <1>0, ResidueBucket
    <3> HIDE DEF b, S
    <3> QED
      BY <2>1, <3>1
  <2>4. b = Single(k, KeyHash[k], Times[k])
    BY <2>2, <2>3, OneKeyBucket
  <2>5. Alone(k)
    <3>1. \A l \in Rest : l \in Key
      BY <1>0 DEF TimesFacts
    <3> QED
      BY <1>0, <2>1, <3>1 DEF Alone, RestHits, Hits
  <2> HIDE DEF b
  <2> QED
    BY <2>2, <2>4, <2>5 DEF QueuedKey
<1>4. /\ cursor' \in [i : 0 .. NumHashfns, j : Slot]
      /\ \A x \in Sub, y \in Slot :
            Visited(x, y)' => Visited(x, y) \/ (x = i /\ y = j)
  <2>1. cursor \in [i : 0 .. NumHashfns, j : Slot]
    BY <1>0 DEF TypeOK
  <2>2. /\ cursor' = AfterBucket(cursor) /\ i < NumHashfns /\ j \in Slot
        /\ NumHashfns \in Nat /\ buckets_per_subIBLT \in Nat \ {0}
    BY <1>0, <1>1, Constants DEF Sub
  <2>3. CASE j + 1 < buckets_per_subIBLT
    BY <2>1, <2>2, <2>3 DEF AfterBucket, Visited, Sub, Slot
  <2>4. CASE ~(j + 1 < buckets_per_subIBLT)
    BY <2>1, <2>2, <2>4 DEF AfterBucket, Visited, Sub, Slot
  <2> QED
    BY <2>3, <2>4
<1>5. TypeOK'
  BY <1>0, <1>1, <1>2, <1>4 DEF TypeOK
<1>6. QueueIsSound'
  <2>1. \A c : QueuedKey(c)' <=> QueuedKey(c)
    BY <1>0, <1>1, PeelKeeps
  <2>2. QueueIsSound
    BY DEF IInv
  <2> HIDE DEF b
  <2>3. \A x \in 1 .. Len(peelable_keys') : QueuedKey(peelable_keys'[x])
    BY <1>1, <1>2, <1>3, <2>2 DEF QueueIsSound
  <2> QED
    BY <2>1, <2>3 DEF QueueIsSound
<1>7. ScanIsComplete'
  <2>1. peelable_keys' = << >> => peelable_keys = << >> /\ ~can_peel(b)
    <3> HIDE DEF b
    <3> QED
      BY <1>1, <1>2
  <2> QED
    BY <1>0, <1>1, <1>4, <2>1 DEF IInv, ScanIsComplete
<1>8. Phases' /\ ReturnIsFinal'
  BY <1>0, <1>1 DEF Phases, Filling, ReturnIsFinal, Returned
<1>9. TablesEncodeKeys' /\ ResidueEncodesRest' /\ PeeledInDifference' /\ StoppingKept'
  BY <1>0, <1>1, PeelKeeps
<1> QED
  BY <1>5, <1>6, <1>7, <1>8, <1>9 DEF IInv

\* The end of a scan keeps the invariant: peel goes on to the deque or returns.
LEMMA EndScanStep == ASSUME IInv, EndScan PROVE IInv'
<1>0. TypeOK /\ Phases /\ pc = "scan" /\ cursor.i \notin Sub
  BY DEF IInv, EndScan
<1>1. /\ UNCHANGED <<keys, iblts, coefficient, resIBLT, cursor, peelable_keys, peeled_keys>>
      /\ pc' = IF peelable_keys # << >> THEN "drain"
               ELSE IF is_empty(resIBLT) THEN "success" ELSE "failure"
  BY DEF EndScan, filling
<1>2. TypeOK'
  BY <1>0, <1>1 DEF TypeOK
<1>3. Phases'
  BY <1>0, <1>1 DEF Phases, Filling
<1>4. /\ TablesEncodeKeys' /\ ResidueEncodesRest' /\ PeeledInDifference' /\ StoppingKept'
      /\ \A b : QueuedKey(b)' <=> QueuedKey(b)
  BY <1>0, <1>1, PeelKeeps
<1>5. QueueIsSound'
  BY <1>1, <1>4 DEF IInv, QueueIsSound
<1>6. ScanIsComplete'
  BY <1>1 DEF ScanIsComplete
<1>7. ReturnIsFinal'
  <2> SUFFICES ASSUME peelable_keys = << >> PROVE ReturnIsFinal'
    BY <1>1 DEF ReturnIsFinal, Returned
  <2>1. cursor.i = NumHashfns
    BY <1>0, Constants DEF TypeOK, Sub
  <2>2. \A i \in Sub, j \in Slot : Visited(i, j)
    BY <2>1, Constants DEF Visited, Sub
  <2>3. \A i \in Sub, j \in Slot : ~can_peel(resIBLT[i][j])
    BY <1>0, <2>2 DEF IInv, ScanIsComplete
  <2>4. is_empty(resIBLT)' = is_empty(resIBLT)
    BY <1>1 DEF is_empty
  <2>5. pc' = "success" <=> is_empty(resIBLT)
    BY <1>1
  <2> QED
    BY <1>1, <2>3, <2>4, <2>5 DEF ReturnIsFinal
<1> QED
  BY <1>2, <1>3, <1>4, <1>5, <1>6, <1>7 DEF IInv

\* Starting a new scan with an empty deque keeps the invariant.
LEMMA RescanStep == ASSUME IInv, Rescan PROVE IInv'
<1>0. TypeOK /\ Phases /\ pc = "drain"
  BY DEF IInv, Rescan
<1>1. /\ UNCHANGED <<keys, iblts, coefficient, resIBLT, peelable_keys, peeled_keys>>
      /\ cursor' = FirstBucket /\ pc' = "scan"
  BY DEF Rescan, filling
<1>2. TypeOK'
  BY <1>0, <1>1, Constants DEF TypeOK
<1>3. Phases'
  BY <1>0, <1>1 DEF Phases, Filling
<1>4. /\ TablesEncodeKeys' /\ ResidueEncodesRest' /\ PeeledInDifference' /\ StoppingKept'
      /\ \A b : QueuedKey(b)' <=> QueuedKey(b)
  BY <1>0, <1>1, PeelKeeps
<1>5. QueueIsSound'
  BY <1>1, <1>4 DEF IInv, QueueIsSound
<1>6. ScanIsComplete' /\ ReturnIsFinal'
  BY <1>1, Constants DEF ScanIsComplete, Visited, FirstBucket, Sub, Slot, ReturnIsFinal, Returned
<1> QED
  BY <1>2, <1>3, <1>4, <1>5, <1>6 DEF IInv

\* A key of the difference is read back from its queued copy.
LEMMA QueuedWord ==
    ASSUME TypeOK, NEW k \in Difference
    PROVE  extract_key(Single(k, KeyHash[k], Times[k]).key_sum) = k
<1>1. k \in Word /\ Times[k] \in Digit /\ Times[k] # 0
  BY TimesType, Constants DEF TimesFacts, Digit
<1> QED
  BY <1>1, SingleParts

\* What taking the front of the deque leaves alone, and what the front is.
LEMMA PopFacts ==
    ASSUME IInv, Drain
    PROVE  /\ TypeOK /\ TimesFacts /\ pc = "drain"
           /\ UNCHANGED <<keys, iblts, coefficient, pc, cursor>>
           /\ Times' = Times /\ Difference' = Difference
           /\ QueuedKey(Head(peelable_keys))
           /\ TablesEncodeKeys' /\ Phases' /\ ScanIsComplete' /\ ReturnIsFinal'
           /\ peelable_keys' \in Seq(Bucket)
           /\ \A x \in 1 .. Len(peelable_keys') :
                 /\ x + 1 \in 1 .. Len(peelable_keys)
                 /\ peelable_keys'[x] = peelable_keys[x + 1]
<1>0. TypeOK /\ TimesFacts /\ Phases /\ QueueIsSound /\ pc = "drain"
  BY TimesType DEF IInv, Drain
<1>1. /\ UNCHANGED <<keys, iblts, coefficient, pc, cursor>>
      /\ peelable_keys' = Tail(peelable_keys) /\ peelable_keys # << >>
  BY DEF Drain, filling
<1>2. /\ peelable_keys \in Seq(Bucket) /\ 1 \in 1 .. Len(peelable_keys)
      /\ Head(peelable_keys) = peelable_keys[1]
  BY <1>0, <1>1 DEF TypeOK
<1>3. QueuedKey(Head(peelable_keys))
  BY <1>0, <1>2 DEF QueueIsSound
<1>4. Times' = Times /\ Difference' = Difference /\ TablesEncodeKeys'
  BY <1>0, <1>1, PeelKeeps
<1>5. Phases' /\ ScanIsComplete' /\ ReturnIsFinal'
  BY <1>0, <1>1 DEF Phases, Filling, ScanIsComplete, ReturnIsFinal, Returned
<1>6. /\ peelable_keys' \in Seq(Bucket)
      /\ \A x \in 1 .. Len(peelable_keys') :
            /\ x + 1 \in 1 .. Len(peelable_keys)
            /\ peelable_keys'[x] = peelable_keys[x + 1]
  BY <1>1, <1>2
<1> QED
  BY <1>0, <1>1, <1>3, <1>4, <1>5, <1>6

\* Taking a queued copy (peel, peel_key) keeps the invariant: if its key was not
\* reported, the key leaves the table with its whole multiplicity.
LEMMA DrainStep == ASSUME IInv, Drain PROVE IInv'
<1> DEFINE b == Head(peelable_keys)
<1>0. PICK k \in Difference : b = Single(k, KeyHash[k], Times[k]) /\ (k \in Rest => Alone(k))
  BY PopFacts DEF QueuedKey
<1>1. extract_key(b.key_sum) = k /\ k \in Key /\ Times[k] \in Int /\ Times \in [Key -> Int]
  BY <1>0, PopFacts, QueuedWord DEF TimesFacts
<1>2. CASE k \in peeled_keys
  <2>1. UNCHANGED <<peeled_keys, resIBLT>>
    BY <1>1, <1>2 DEF Drain
  <2>2. /\ Rest' = Rest /\ PeeledInDifference' /\ StoppingKept' /\ ResidueEncodesRest'
        /\ \A c : QueuedKey(c)' <=> QueuedKey(c)
    BY <2>1, PopFacts, PeelKeeps
  <2>3. QueueIsSound'
    BY <2>2, PopFacts DEF IInv, QueueIsSound
  <2>4. TypeOK'
    BY <2>1, PopFacts DEF TypeOK
  <2> QED
    BY <2>2, <2>3, <2>4, PopFacts DEF IInv
<1>3. CASE k \notin peeled_keys
  <2>1. peeled_keys' = peeled_keys \cup {k} /\ resIBLT' = peel_key(resIBLT, b)
    BY <1>1, <1>3 DEF Drain
  <2>2. k \in Rest /\ Alone(k) /\ Rest' = Rest \ {k}
    BY <1>0, <1>3, <2>1, PopFacts DEF Rest
  <2>3. resIBLT' \in Table /\ ResidueEncodesRest'
    <3> DEFINE m == Only(Rest, Times)
    <3>1. m \in [Key -> Int] /\ Holds(resIBLT, m) /\ resIBLT \in Table
      BY PopFacts, ResidueHolds DEF IInv, TypeOK
    <3>2. resIBLT' = Minus(resIBLT, k, Single(k, KeyHash[k], Times[k]))
      <4> HIDE DEF b
      <4> QED
        BY <1>0, <1>1, <2>1 DEF peel_key, Minus
    <3>3. [m EXCEPT ![k] = @ - Times[k]] = Only(Rest \ {k}, Times)
      <4>1. m[k] - Times[k] = 0 /\ \A l \in Key : m[l] = IF l \in Rest THEN Times[l] ELSE 0
        BY <1>1, <2>2 DEF Only
      <4>2. Only(Rest \ {k}, Times) = [l \in Key |-> IF l \in Rest \ {k} THEN Times[l] ELSE 0]
        BY DEF Only
      <4> HIDE DEF m
      <4>3. [m EXCEPT ![k] = 0] = [l \in Key |-> IF l \in Rest \ {k} THEN Times[l] ELSE 0]
        BY <3>1, <4>1
      <4> QED
        BY <4>1, <4>2, <4>3
    <3> HIDE DEF m
    <3>4. resIBLT' \in Table /\ Holds(resIBLT', Only(Rest \ {k}, Times))
      <4> DEFINE c == Times[k]
      <4>1. /\ Minus(resIBLT, k, Single(k, KeyHash[k], c)) \in Table
            /\ Holds(Minus(resIBLT, k, Single(k, KeyHash[k], c)), [m EXCEPT ![k] = @ - c])
        <5>1. c \in Int
          BY <1>1
        <5> HIDE DEF c
        <5> QED
          BY <1>1, <3>1, <5>1, OneKeyTable
      <4> QED
        BY <3>2, <3>3, <4>1
    <3>5. Rest \ {k} \in SUBSET Key
      BY PopFacts DEF TimesFacts
    <3>6. Encodes(resIBLT', Rest \ {k}, Times)
      BY <1>1, <3>4, <3>5, HoldsEncodes
    <3> QED
      BY <2>2, <3>4, <3>6, PopFacts DEF ResidueEncodesRest
  <2>4. TypeOK'
    BY <1>1, <2>1, <2>3, PopFacts DEF TypeOK
  <2>5. PeeledInDifference'
    BY <1>0, <2>1, PopFacts DEF IInv, PeeledInDifference
  <2>6. QueueIsSound'
    <3> SUFFICES ASSUME NEW x \in 1 .. Len(peelable_keys') PROVE QueuedKey(peelable_keys[x])'
      BY DEF QueueIsSound
    <3>1. QueuedKey(peelable_keys[x + 1]) /\ peelable_keys'[x] = peelable_keys[x + 1]
      BY PopFacts DEF IInv, QueueIsSound
    <3> QED
      BY <2>2, <3>1, PopFacts DEF QueuedKey, Alone
  <2>7. StoppingKept'
    <3> SUFFICES ASSUME NEW S \in SUBSET Difference, Stopping(S) PROVE S \subseteq Rest'
      BY PopFacts DEF StoppingKept
    <3>1. S \subseteq Rest
      BY DEF IInv, StoppingKept
    <3>2. ASSUME k \in S PROVE FALSE
      <4>1. PICK i \in Sub : \A l \in Rest :
                get_bucket_index(l, i) = get_bucket_index(k, i) => l = k
        BY <2>2 DEF Alone
      <4>2. PICK l \in S \ {k} : get_bucket_index(l, i) = get_bucket_index(k, i)
        BY <3>2 DEF Stopping
      <4> QED
        BY <3>1, <4>1, <4>2
    <3> QED
      BY <2>2, <3>1, <3>2
  <2> QED
    BY <2>3, <2>4, <2>5, <2>6, <2>7, PopFacts DEF IInv
<1> QED
  BY <1>2, <1>3

-----------------------------------------------------------------------------
(* The invariant and what it implies.                                      *)

\* A step that changes nothing keeps the invariant.
LEMMA Stutter == ASSUME IInv, UNCHANGED vars PROVE IInv'
<1>1. UNCHANGED <<keys, iblts, coefficient, resIBLT, pc, cursor, peelable_keys, peeled_keys>>
  BY DEF vars
<1>2. Times' = Times /\ Difference' = Difference /\ Rest' = Rest
  BY <1>1, TimesKept
<1>3. TypeOK' /\ Phases' /\ TablesEncodeKeys' /\ ResidueEncodesRest' /\ PeeledInDifference'
  BY <1>1, <1>2 DEF IInv, TypeOK, Phases, Filling, TablesEncodeKeys, ResidueEncodesRest,
                    PeeledInDifference
<1>4. QueueIsSound'
  BY <1>1, <1>2 DEF IInv, QueueIsSound, QueuedKey, Alone
<1>5. ScanIsComplete' /\ StoppingKept'
  BY <1>1, <1>2 DEF IInv, ScanIsComplete, Visited, StoppingKept
<1>6. ReturnIsFinal'
  <2>1. is_empty(resIBLT)' = is_empty(resIBLT)
    BY <1>1 DEF is_empty
  <2> QED
    BY <1>1, <2>1 DEF IInv, ReturnIsFinal, Returned
<1> QED
  BY <1>3, <1>4, <1>5, <1>6 DEF IInv

\* Every step keeps the invariant.
LEMMA Inductive == ASSUME ChecksumSound, IInv, [Next]_vars PROVE IInv'
<1>1. ASSUME NEW p \in Party, NEW k \in Key, Insert(p, k) \/ Remove(p, k)
      PROVE  IInv'
  BY <1>1, InsertStep
<1>2. CASE AddIBLT \/ RemoveIBLT \/ \E c \in Coefficient : AddMultiple(c)
  BY <1>2, CombineSteps
<1>3. CASE ScanBucket
  BY <1>3, ScanStep
<1>4. CASE EndScan
  BY <1>4, EndScanStep
<1>5. CASE Drain
  BY <1>5, DrainStep
<1>6. CASE Rescan
  BY <1>6, RescanStep
<1>7. CASE UNCHANGED vars
  BY <1>7, Stutter
<1> QED
  BY <1>1, <1>2, <1>3, <1>4, <1>5, <1>6, <1>7 DEF Next, Peel

\* The invariant holds in every reachable state, from the first insertion on.
THEOREM Invariance == ASSUME ChecksumSound PROVE Spec => []IInv
<1>1. Init => IInv
  BY Initially
<1>2. IInv /\ [Next]_vars => IInv'
  BY Inductive
<1> QED
  BY <1>1, <1>2, PTL DEF Spec

(***************************************************************************)
(* The variables keep their types; in particular peel reports keys of Key  *)
(* only, never the sum of several keys.                                    *)
(***************************************************************************)
THEOREM TypeCorrect == ASSUME ChecksumSound PROVE Spec => []TypeOK
<1>1. IInv => TypeOK
  BY DEF IInv
<1> QED
  BY <1>1, Invariance, PTL

(***************************************************************************)
(* The combination of any number of tables, each added, removed or         *)
(* multiplied by any coefficient, is at all times the sum of the keys not  *)
(* reported yet, each as often as its coefficients add up to modulo N.     *)
(***************************************************************************)
THEOREM ResidueCorrect == ASSUME ChecksumSound PROVE Spec => []ResidueEncodesRest
<1>1. IInv => ResidueEncodesRest
  BY DEF IInv
<1> QED
  BY <1>1, Invariance, PTL

\* The combination is empty exactly when every key of the difference is reported.
LEMMA EmptyMeansDone ==
    ASSUME ChecksumSound, IInv
    PROVE  is_empty(resIBLT) <=> Rest = {}
<1>0. TypeOK /\ TimesFacts /\ ResidueEncodesRest
  BY TimesType DEF IInv
<1>1. ASSUME is_empty(resIBLT), NEW k \in Rest PROVE FALSE
  <2> DEFINE j == get_bucket_index(k, 0)
  <2>1. k \in Key /\ 0 \in Sub /\ j \in Slot
    BY <1>0, Constants DEF TimesFacts, Sub
  <2>2. k \in RestHits(0, j)
    BY <2>1 DEF RestHits, Hits
  <2>3. resIBLT[0][j] = EmptyBucket
    BY <1>1, <2>1 DEF is_empty
  <2> QED
    BY <1>0, <2>1, <2>2, <2>3, ResidueBucket
<1>2. ASSUME Rest = {} PROVE is_empty(resIBLT)
  <2>1. \A i \in Sub, j \in Slot : RestHits(i, j) = {}
    BY <1>2 DEF RestHits
  <2> QED
    BY <1>0, <2>1, ResidueBucket DEF is_empty
<1> QED
  BY <1>1, <1>2

\* A state of the invariant has an exact result.
LEMMA ExactWhenInvariant == ASSUME ChecksumSound, IInv PROVE ResultIsExact
<1>1. Returned => (pc = "success" <=> Rest = {})
  BY EmptyMeansDone DEF IInv, ReturnIsFinal
<1> QED
  BY <1>1 DEF IInv, PeeledInDifference, Rest, ResultIsExact

(***************************************************************************)
(* peel returns true exactly when every key whose coefficients do not      *)
(* cancel has been reported, and no other.                                 *)
(***************************************************************************)
THEOREM Exactness == ASSUME ChecksumSound PROVE Spec => []ResultIsExact
<1>1. IInv => ResultIsExact
  BY ExactWhenInvariant
<1> QED
  BY <1>1, Invariance, PTL

(***************************************************************************)
(* A peel that fails has left the largest stopping set, whatever the       *)
(* multiplicities are and in whatever order it peeled.                     *)
(***************************************************************************)
THEOREM CoreRemains == ASSUME ChecksumSound PROVE Spec => []PeelsDownToCore
<1>1. ASSUME IInv PROVE PeelsDownToCore
  <2> SUFFICES ASSUME Returned PROVE PeelsDownToCore
    BY DEF PeelsDownToCore
  <2>0. TypeOK /\ TimesFacts /\ ResidueEncodesRest
    BY <1>1, TimesType DEF IInv
  <2>1. ASSUME NEW k \in Rest, NEW i \in Sub
        PROVE  \E l \in Rest \ {k} : get_bucket_index(l, i) = get_bucket_index(k, i)
    <3> DEFINE j == get_bucket_index(k, i)
    <3>1. k \in Key /\ j \in Slot /\ k \in RestHits(i, j)
      BY <2>0, Constants DEF TimesFacts, RestHits, Hits
    <3>2. ~can_peel(resIBLT[i][j])
      BY <1>1, <3>1 DEF IInv, ReturnIsFinal
    <3>3. RestHits(i, j) # {k}
      BY <2>0, <3>1, <3>2, ResidueBucket
    <3>4. PICK l \in RestHits(i, j) : l # k
      BY <3>1, <3>3
    <3> QED
      BY <3>4 DEF RestHits, Hits
  <2>2. Stopping(Rest)
    BY <2>1 DEF Stopping
  <2> QED
    BY <1>1, <2>2 DEF IInv, StoppingKept, PeelsDownToCore
<1> QED
  BY <1>1, Invariance, PTL

-----------------------------------------------------------------------------
(* Refinement: as many parties as the modulus, each added once.            *)

OneEach == N = Parties /\ Coefficient = {1}

Combined == Len(coefficient) = Parties

\* Once all tables are added a key counts as often as parties hold it, so what
\* remains modulo N are the keys that some hold and some do not.
LEMMA CountsAreHolders ==
    ASSUME OneEach
    PROVE  TypeOK /\ Combined =>
               /\ \A k \in Key : Times[k] = Cardinality(Holders(k)) % N
               /\ \A k \in Key : k \in Difference <=> Cardinality(Holders(k)) \in 1 .. N - 1
               /\ Difference = Abstract!NotInAll
<1> SUFFICES ASSUME TypeOK, Combined
             PROVE  /\ \A k \in Key : Times[k] = Cardinality(Holders(k)) % N
                    /\ \A k \in Key : k \in Difference <=> Cardinality(Holders(k)) \in 1 .. N - 1
                    /\ Difference = Abstract!NotInAll
  OBVIOUS
<1>0. TimesFacts /\ N \in Nat /\ N > 1 /\ Party = 0 .. N - 1
  BY TimesType, Constants DEF OneEach, Party
<1>1. \A p \in Party : Part(p) = 1
  <2> SUFFICES ASSUME NEW p \in Party PROVE Part(p) = 1
    OBVIOUS
  <2>1. /\ coefficient \in Seq(Coefficient) /\ Coefficient = {1}
        /\ p \in Nat /\ p < Len(coefficient) /\ Len(coefficient) \in Nat
    BY <1>0 DEF TypeOK, Combined, OneEach
  <2>2. p + 1 \in 1 .. Len(coefficient)
    BY <2>1
  <2>3. coefficient[p + 1] \in Coefficient
    BY <2>1, <2>2
  <2> QED
    BY <2>1, <2>3 DEF Part
<1>2. ASSUME NEW k \in Key
      PROVE  /\ Times[k] = Cardinality(Holders(k)) % N
             /\ Cardinality(Holders(k)) \in 0 .. N
             /\ Cardinality(Holders(k)) = 0 <=> Holders(k) = {}
             /\ Cardinality(Holders(k)) = N <=> Holders(k) = Party
  <2> DEFINE f == [p \in Party |-> Part(p)]
             P == Holders(k)
  <2>1. IsFiniteSet(P) /\ P \in SUBSET Party /\ Times[k] = SumFunctionOnSet(f, P) % N
    BY <1>0 DEF TimesFacts
  <2>2. \A p \in P : f[p] = 1
    BY <1>1, <2>1
  <2> HIDE DEF f, P
  <2>3. SumFunctionOnSet(f, P) = Cardinality(P)
    BY <2>1, <2>2, SumOnes
  <2>4. IsFiniteSet(Party) /\ Cardinality(Party) = N
    BY <1>0, FS_Interval
  <2>5. /\ Cardinality(P) \in Nat /\ Cardinality(P) <= N
        /\ Cardinality(P) = N => P = Party
    BY <2>1, <2>4, FS_Subset, FS_CardinalityType
  <2>6. Cardinality(P) = 0 <=> P = {}
    BY <2>1, FS_EmptySet
  <2> QED
    BY <1>0, <2>1, <2>3, <2>4, <2>5, <2>6 DEF P
<1>3. ASSUME NEW k \in Key
      PROVE  k \in Difference <=> Cardinality(Holders(k)) \in 1 .. N - 1
  <2> DEFINE n == Cardinality(Holders(k))
  <2>1. n \in 0 .. N /\ Times[k] = n % N
    BY <1>2
  <2> HIDE DEF n
  <2>2. n % N = 0 <=> n = 0 \/ n = N
    <3>1. CASE n = N
      BY <1>0, <3>1
    <3>2. CASE n # N
      <4>1. n \in Digit
        BY <1>0, <2>1, <3>2 DEF Digit
      <4> QED
        BY <3>2, <4>1, DigitMod
    <3> QED
      BY <3>1, <3>2
  <2>3. k \in Difference <=> n % N # 0
    BY <2>1 DEF Difference
  <2> QED
    BY <1>0, <2>1, <2>2, <2>3 DEF n
<1>4. \A k \in Key : k \in Difference <=> Holders(k) # {} /\ Holders(k) # Party
  BY <1>0, <1>2, <1>3
<1>5. \A k \in Key : k \in Abstract!NotInAll <=> Holders(k) # {} /\ Holders(k) # Party
  BY DEF Abstract!NotInAll, Holders
<1>6. Difference \subseteq Key /\ Abstract!NotInAll \subseteq Key
  BY DEF Difference, Abstract!NotInAll
<1> QED
  BY <1>2, <1>3, <1>4, <1>5, <1>6

\* How many parties hold a key, and when that is none or all of them.
LEMMA HoldersCount ==
    ASSUME OneEach, NEW k \in Key
    PROVE  /\ N \in Nat /\ N > 1 /\ Party = 0 .. N - 1
           /\ Holders(k) \in SUBSET Party
           /\ Cardinality(Holders(k)) \in 0 .. N
           /\ Cardinality(Holders(k)) \in 1 .. N - 1
                <=> Holders(k) # {} /\ Holders(k) # Party
<1>1. N \in Nat /\ N > 1 /\ Party = 0 .. N - 1
  BY Constants DEF OneEach, Party
<1>2. IsFiniteSet(Party) /\ Cardinality(Party) = N
  BY <1>1, FS_Interval
<1> DEFINE P == Holders(k)
<1>3. P \in SUBSET Party
  BY DEF Holders
<1> HIDE DEF P
<1>4. /\ IsFiniteSet(P) /\ Cardinality(P) \in Nat /\ Cardinality(P) <= N
      /\ Cardinality(P) = N => P = Party
      /\ P = Party => Cardinality(P) = N
  BY <1>2, <1>3, FS_Subset, FS_CardinalityType
<1>5. Cardinality(P) = 0 <=> P = {}
  BY <1>4, FS_EmptySet
<1> QED
  BY <1>1, <1>3, <1>4, <1>5 DEF P

\* The variables of MultiSetReconciliation under the mapping.
LEMMA MappedUnchanged ==
    ASSUME UNCHANGED <<keys, peeled_keys>>, AbstractResult' = AbstractResult
    PROVE  UNCHANGED Abstract!vars
BY DEF Abstract!vars

\* Every step implements a step of the abstract reconciliation, or none.
LEMMA AbstractStep ==
    ASSUME OneEach, IInv, IInv', ResultIsExact', [Next]_vars
    PROVE  Abstract!Next \/ UNCHANGED Abstract!vars
<1>0. TypeOK /\ Phases /\ TypeOK'
  BY DEF IInv
<1>1. ASSUME NEW p \in Party, NEW k \in Key, Insert(p, k) \/ Remove(p, k)
      PROVE  Abstract!Change
  <2>1. AbstractResult = "filling" /\ AbstractResult' = "filling" /\ peeled_keys' = peeled_keys
    BY <1>1 DEF Insert, Remove, AbstractResult
  <2>2. keys' \in {[keys EXCEPT ![p] = @ \cup {k}], [keys EXCEPT ![p] = @ \ {k}]}
    BY <1>1 DEF Insert, Remove
  <2> QED
    BY <2>1, <2>2 DEF Abstract!Change
<1>2. ASSUME NEW c \in Int, Combine(c) PROVE Abstract!Start \/ UNCHANGED Abstract!vars
  <2>1. /\ UNCHANGED <<keys, peeled_keys>> /\ AbstractResult = "filling"
        /\ pc' \in {"scan", "combine"}
    BY <1>2 DEF Combine, filling, AbstractResult
  <2>2. CASE pc' = "combine"
    BY <2>1, <2>2, MappedUnchanged DEF AbstractResult
  <2>3. CASE pc' = "scan"
    <3>1. AbstractResult' = "peeling"
      BY <2>3 DEF AbstractResult, Peeling
    <3> QED
      BY <2>1, <3>1 DEF Abstract!Start
  <2> QED
    BY <2>1, <2>2, <2>3
<1>3. ASSUME AddIBLT \/ RemoveIBLT \/ \E c \in Coefficient : AddMultiple(c)
      PROVE  Abstract!Start \/ UNCHANGED Abstract!vars
  BY <1>2, <1>3, Constants DEF AddIBLT, RemoveIBLT, AddMultiple
<1>4. ASSUME ScanBucket \/ Rescan PROVE UNCHANGED Abstract!vars
  <2>1. /\ UNCHANGED <<keys, peeled_keys>>
        /\ pc \in {"scan", "drain"} /\ pc' \in {"scan", "drain"}
    BY <1>4 DEF ScanBucket, Rescan, filling
  <2> QED
    BY <2>1, MappedUnchanged DEF AbstractResult, Peeling
<1>5. ASSUME EndScan PROVE Abstract!Finish \/ UNCHANGED Abstract!vars
  <2>1. /\ UNCHANGED <<keys, coefficient, peeled_keys>> /\ pc = "scan"
        /\ pc' \in {"drain", "success", "failure"}
    BY <1>5 DEF EndScan, filling
  <2>2. AbstractResult = "peeling"
    BY <2>1 DEF AbstractResult, Peeling
  <2>3. CASE pc' = "drain"
    BY <2>1, <2>2, <2>3, MappedUnchanged DEF AbstractResult, Peeling
  <2>4. CASE pc' \in {"success", "failure"}
    <3>1. AbstractResult' = pc'
      BY <2>4 DEF AbstractResult, Peeling
    <3>2. Difference' = Difference /\ Difference = Abstract!NotInAll
      BY <1>0, <2>1, CountsAreHolders, TimesKept DEF Phases, Filling, Combined
    <3>3. pc' = "success" <=> peeled_keys = Difference
      BY <2>1, <2>4, <3>2 DEF ResultIsExact, Returned
    <3> QED
      BY <2>1, <2>2, <2>4, <3>1, <3>2, <3>3 DEF Abstract!Finish
  <2> QED
    BY <2>1, <2>3, <2>4
<1>6. ASSUME Drain PROVE Abstract!Learn \/ UNCHANGED Abstract!vars
  <2> DEFINE k == extract_key(Head(peelable_keys).key_sum)
  <2>1. /\ UNCHANGED <<keys, coefficient, pc>> /\ pc = "drain"
        /\ AbstractResult = "peeling" /\ AbstractResult' = "peeling"
    BY <1>6 DEF Drain, filling, AbstractResult, Peeling
  <2>2. Difference = Abstract!NotInAll
    BY <1>0, <2>1, CountsAreHolders DEF Phases, Filling, Combined
  <2>3. CASE k \in peeled_keys
    <3>1. peeled_keys' = peeled_keys
      BY <1>6, <2>3 DEF Drain
    <3> QED
      BY <2>1, <3>1, MappedUnchanged
  <2>4. CASE k \notin peeled_keys
    <3>1. peeled_keys' = peeled_keys \cup {k}
      BY <1>6, <2>4 DEF Drain
    <3>2. k \in Difference
      BY <1>6, <3>1, PopFacts, QueuedWord DEF QueuedKey
    <3> QED
      BY <2>1, <2>2, <2>4, <3>1, <3>2 DEF Abstract!Learn
  <2> QED
    BY <2>3, <2>4
<1>7. ASSUME UNCHANGED vars PROVE UNCHANGED Abstract!vars
  BY <1>7, MappedUnchanged DEF vars, AbstractResult, Peeling
<1> QED
  BY <1>1, <1>3, <1>4, <1>5, <1>6, <1>7 DEF Next, Peel, Abstract!Next

(***************************************************************************)
(* With as many parties as the modulus, each table added once, the parties *)
(* implement the reconciliation of several sets: only keys that some have  *)
(* and some lack are learned, each once, and the result is exact.          *)
(***************************************************************************)
THEOREM Refinement ==
    ASSUME ChecksumSound, OneEach PROVE Spec => ImplementsMultiSetReconciliation
<1>1. Init => Abstract!Init
  BY DEF Init, Abstract!Init, AbstractResult
<1>2. IInv /\ IInv' /\ ResultIsExact' /\ [Next]_vars => [Abstract!Next]_(Abstract!vars)
  BY AbstractStep
<1> QED
  BY <1>1, <1>2, Invariance, Exactness, PTL
     DEF Spec, ImplementsMultiSetReconciliation, Abstract!Spec

-----------------------------------------------------------------------------
(* The test driver.                                                        *)

\* The sets of keys that the drivers compute from an assignment agree.
LEMMA ExpectedAgree == ASSUME OneEach, TypeOK PROVE ExpectedKeysAgree
<1> DEFINE key_sets == transform_keys(key_assignments, N)
           expected == set_difference_assigned(N, key_assignments)
<1>0. N \in Nat /\ N > 1 /\ Party = 0 .. N - 1
  BY Constants DEF OneEach, Party
<1>1. key_assignments = [k \in Key |-> Holders(k)]
  BY DEF key_assignments, Holders
<1>2. \A k \in Key : /\ Cardinality(Holders(k)) \in 1 .. N - 1
                           <=> Holders(k) # {} /\ Holders(k) # Party
                     /\ Holders(k) \in SUBSET Party
  BY HoldersCount
<1>3. /\ expected \subseteq Key
      /\ \A k \in Key : k \in expected <=> Holders(k) # {} /\ Holders(k) # Party
  BY <1>1, <1>2 DEF set_difference_assigned
<1>4. /\ DOMAIN key_sets = 1 .. N
      /\ \A i \in 1 .. N : key_sets[i] \subseteq Key
      /\ \A i \in 1 .. N, k \in Key : k \in key_sets[i] <=> i - 1 \in Holders(k)
  BY <1>1 DEF transform_keys
<1>5. key_sets \in Seq(SUBSET Key) /\ Len(key_sets) = N
  BY <1>0, <1>1 DEF transform_keys
<1> HIDE DEF key_sets, expected
<1>6. distinct_keys(key_sets) = expected
  <2>1. set_union(key_sets) \subseteq Key
    BY <1>4 DEF set_union
  <2>2. ASSUME NEW k \in Key
        PROVE  /\ k \in set_union(key_sets) <=> Holders(k) # {}
               /\ k \in set_intersection(key_sets) <=> Holders(k) = Party
    <3>1. k \in set_union(key_sets) <=> \E i \in 1 .. N : i - 1 \in Holders(k)
      BY <1>4 DEF set_union
    <3>2. k \in set_intersection(key_sets) <=> \A i \in 1 .. N : i - 1 \in Holders(k)
      <4>1. 1 \in 1 .. N /\ 2 .. N \subseteq 1 .. N
            /\ \A i \in 1 .. N : i = 1 \/ i \in 2 .. N
        BY <1>0
      <4>2. k \in set_intersection(key_sets)
              <=> k \in key_sets[1] /\ \A i \in 2 .. N : k \in key_sets[i]
        BY <1>5 DEF set_intersection
      <4> QED
        BY <1>4, <4>1, <4>2
    <3>3. \A p \in Party : p + 1 \in 1 .. N /\ (p + 1) - 1 = p
      BY <1>0
    <3>4. \A i \in 1 .. N : i - 1 \in Party
      BY <1>0
    <3>5. (\E i \in 1 .. N : i - 1 \in Holders(k)) <=> Holders(k) # {}
      BY <1>2, <3>3
    <3>6. (\A i \in 1 .. N : i - 1 \in Holders(k)) <=> Holders(k) = Party
      BY <1>2, <3>3, <3>4
    <3> QED
      BY <3>1, <3>2, <3>5, <3>6
  <2> QED
    BY <1>3, <2>1, <2>2 DEF distinct_keys, set_difference
<1>7. {k \in Key : set_counts(key_assignments)[k] \in 1 .. N - 1} = expected
  BY <1>1, <1>2, <1>3 DEF set_counts
<1>8. distinct_keys2(key_sets[1], key_sets[2]) \subseteq expected
  <2>1. 1 \in 1 .. N /\ 2 \in 1 .. N /\ 0 \in Party /\ 1 \in Party
    BY <1>0
  <2>2. \A k \in Key : (k \in key_sets[1] <=> 0 \in Holders(k))
                       /\ (k \in key_sets[2] <=> 1 \in Holders(k))
    BY <1>4, <2>1
  <2> QED
    BY <1>3, <1>4, <2>1, <2>2 DEF distinct_keys2, set_difference
<1> QED
  BY <1>6, <1>7, <1>8 DEF ExpectedKeysAgree, key_sets, expected

VerdictIsRight ==
    /\ verdict \in {"none", "same", "failed to peel"}
    /\ verdict # "none" => Returned
    /\ verdict = "failed to peel" => Rest # {}

\* The driver's steps keep the invariant, and its verdict right.
LEMMA TrialStep ==
    ASSUME ChecksumSound, OneEach, IInv, VerdictIsRight, [TrialNext]_<<vars, verdict>>
    PROVE  IInv' /\ VerdictIsRight'
<1>0. TypeOK /\ TimesFacts /\ ResultIsExact
  BY TimesType, ExactWhenInvariant DEF IInv
<1>1. ASSUME Next, UNCHANGED verdict PROVE IInv' /\ VerdictIsRight'
  <2>1. ~Returned
    BY <1>1 DEF Next, Insert, Remove, AddIBLT, RemoveIBLT, AddMultiple, Combine,
                Peel, ScanBucket, EndScan, Drain, Rescan, Returned
  <2>2. verdict' = "none"
    BY <1>1, <2>1 DEF VerdictIsRight
  <2> QED
    BY <1>1, <2>2, Inductive DEF VerdictIsRight
<1>2. ASSUME UNCHANGED vars
      PROVE  IInv' /\ pc' = pc /\ Rest' = Rest /\ Returned' = Returned
  <2>1. UNCHANGED <<keys, coefficient, peeled_keys, pc>>
    BY <1>2 DEF vars
  <2> QED
    BY <1>2, <2>1, Stutter, TimesKept DEF Returned
<1>3. ASSUME Check PROVE IInv' /\ VerdictIsRight'
  <2>1. /\ Returned /\ UNCHANGED vars
        /\ verdict' = IF pc = "failure" THEN "failed to peel"
                      ELSE checkResults(set_difference_assigned(N, key_assignments),
                                        peeled_keys)
    BY <1>3 DEF Check
  <2>2. Combined
    BY <2>1 DEF IInv, Phases, Filling, Combined, Returned
  <2>3. peeled_keys = Difference <=> Rest = {}
    BY DEF IInv, PeeledInDifference, Rest
  <2>4. CASE pc = "failure"
    BY <1>0, <1>2, <2>1, <2>3, <2>4 DEF ResultIsExact, VerdictIsRight
  <2>5. CASE pc # "failure"
    <3>1. peeled_keys = Difference
      BY <1>0, <2>1, <2>5 DEF ResultIsExact, Returned
    <3>2. set_difference_assigned(N, key_assignments) = Difference
      <4>1. \A k \in Key : k \in Difference <=> Cardinality(Holders(k)) \in 1 .. N - 1
        BY <1>0, <2>2, CountsAreHolders
      <4>2. key_assignments = [k \in Key |-> Holders(k)]
        BY DEF key_assignments, Holders
      <4> QED
        BY <1>0, <4>1, <4>2 DEF set_difference_assigned, TimesFacts
    <3>3. verdict' = "same"
      BY <2>1, <2>5, <3>1, <3>2 DEF checkResults
    <3> QED
      BY <1>2, <2>1, <3>3 DEF VerdictIsRight
  <2> QED
    BY <2>4, <2>5
<1>4. ASSUME UNCHANGED <<vars, verdict>> PROVE IInv' /\ VerdictIsRight'
  BY <1>2, <1>4 DEF VerdictIsRight
<1> QED
  BY <1>1, <1>3, <1>4 DEF TrialNext

(***************************************************************************)
(* A trial of the test driver ends in one of two ways: the peeled keys are *)
(* those that the assignment says, or peel said that it failed and keys    *)
(* are missing; and every way of computing the expected keys agrees.       *)
(***************************************************************************)
THEOREM TrialsPass == ASSUME ChecksumSound, OneEach PROVE TrialSpec => []TrialPasses
<1>1. TrialInit => IInv /\ VerdictIsRight
  BY Initially DEF TrialInit, VerdictIsRight
<1>2. IInv /\ VerdictIsRight /\ [TrialNext]_<<vars, verdict>> => IInv' /\ VerdictIsRight'
  BY TrialStep
<1>3. IInv /\ VerdictIsRight => TrialPasses
  BY ExpectedAgree DEF IInv, VerdictIsRight, TrialPasses
<1> QED
  BY <1>1, <1>2, <1>3, PTL DEF TrialSpec

=============================================================================
