----------------------------- MODULE Arithmetic -----------------------------
(***************************************************************************)
(* Facts about numbers that the proofs of several components need:         *)
(* induction, recursion, least elements, remainders, and sums over finite  *)
(* sets.  The sums are SumFunctionOnSet of the community modules, a        *)
(* recursion over subsets; induction is by the well-foundedness of the     *)
(* naturals, with sets in the place of predicates.                         *)
(***************************************************************************)
EXTENDS Integers, FiniteSets, Functions, FiniteSetTheorems, WellFoundedInduction, TLAPS

-----------------------------------------------------------------------------
(* Induction.                                                              *)

\* A nonempty set of naturals has a least member.
LEMMA LeastNat ==
    ASSUME NEW S \in SUBSET Nat, S # {}
    PROVE  \E b \in S : \A c \in S : b <= c
<1> DEFINE R == OpToRel(<, Nat)
<1>1. \E b \in S : \A c \in S : <<c, b>> \notin R
  <2> HIDE DEF R
  <2>1. IsWellFoundedOn(R, Nat)
    BY NatLessThanWellFounded DEF R
  <2> QED
    BY <2>1, WFMin, Zenon
<1>2. \A b, c \in Nat : <<c, b>> \notin R => b <= c
  BY DEF OpToRel
<1> QED
  BY <1>1, <1>2

\* A set with 0 that is closed under successors has all naturals.
LEMMA NatsByInduction ==
    ASSUME NEW S, 0 \in S, \A n \in Nat : n \in S => n + 1 \in S
    PROVE  Nat \subseteq S
<1> DEFINE Missing == {n \in Nat : n \notin S}
<1>1. CASE Missing # {}
  <2>1. PICK b \in Missing : \A c \in Missing : b <= c
    <3>1. Missing \in SUBSET Nat
      OBVIOUS
    <3> HIDE DEF Missing
    <3> QED
      BY <1>1, <3>1, LeastNat
  <2>2. b # 0 /\ b \in Nat /\ b - 1 \in Nat
    BY <2>1
  <2>3. b - 1 \in S
    <3>1. CASE b - 1 \in Missing
      <4>1. b <= b - 1
        BY <2>1, <3>1
      <4> QED
        BY <2>2, <4>1
    <3> QED
      BY <2>2, <3>1
  <2> QED
    BY <2>1, <2>2, <2>3
<1> QED
  BY <1>1

\* A set that has a number whenever it has all smaller ones has all naturals.
LEMMA StrongInduction ==
    ASSUME NEW S, \A n \in Nat : (\A k \in Nat : k < n => k \in S) => n \in S
    PROVE  \A n \in Nat : n \in S
<1> DEFINE Missing == {n \in Nat : n \notin S}
<1>1. CASE Missing # {}
  <2>1. PICK b \in Missing : \A c \in Missing : b <= c
    <3>1. Missing \in SUBSET Nat
      OBVIOUS
    <3> HIDE DEF Missing
    <3> QED
      BY <1>1, <3>1, LeastNat
  <2>2. \A k \in Nat : k < b => k \in S
    BY <2>1
  <2> QED
    BY <2>1, <2>2
<1> QED
  BY <1>1

\* Among the places of a least value one is the last.
LEMMA RightmostMinimum ==
    ASSUME NEW x \in Int, NEW S, S # {}, \A i \in S : i \in Int /\ i <= x,
           NEW v, \A i \in S : v[i] \in Nat
    PROVE  \E m \in S : /\ \A i \in S : v[m] <= v[i]
                        /\ \A i \in S : i > m => v[m] < v[i]
<1> DEFINE Values == {v[i] : i \in S}
<1>1. PICK u \in Values : \A z \in Values : u <= z
  <2>1. Values \in SUBSET Nat /\ Values # {}
    OBVIOUS
  <2> HIDE DEF Values
  <2> QED
    BY <2>1, LeastNat
<1> DEFINE Steps == {j \in Nat : \E i \in S : v[i] = u /\ j = x - i}
<1>2. PICK j \in Steps : \A i \in Steps : j <= i
  <2>1. PICK i \in S : v[i] = u
    BY <1>1
  <2>2. x - i \in Steps
    BY <2>1
  <2>3. Steps \in SUBSET Nat /\ Steps # {}
    BY <2>2
  <2> HIDE DEF Steps
  <2> QED
    BY <2>3, LeastNat
<1>3. PICK m \in S : v[m] = u /\ j = x - m
  BY <1>2
<1>4. \A i \in S : u <= v[i]
  BY <1>1
<1>5. ASSUME NEW i \in S, i > m PROVE v[i] # u
  <2>1. CASE v[i] = u
    <3>1. x - i \in Steps
      BY <2>1
    <3> QED
      BY <1>2, <1>3, <1>5, <3>1
  <2> QED
    BY <2>1
<1>6. \A i \in S : i > m => u < v[i]
  <2>1. u \in Nat
    BY <1>3
  <2> QED
    BY <1>4, <1>5, <2>1
<1> QED
  BY <1>3, <1>4, <1>6

\* A function that is given at 0, and at every number from the one before, exists.
IsRecursion(G, V, v0, F) ==
    /\ G \in [Nat -> V] /\ G[0] = v0
    /\ \A n \in Nat : G[n + 1] = F[<<n, G[n]>>]

LEMMA NatRecursion ==
    ASSUME NEW V, NEW v0 \in V, NEW F \in [Nat \X V -> V]
    PROVE  \E G : IsRecursion(G, V, v0, F)
<1> DEFINE Upto(g, n) == /\ g \in [0 .. n -> V] /\ g[0] = v0
                         /\ \A i \in 0 .. n - 1 : g[i + 1] = F[<<i, g[i]>>]
           Reached == {n \in Nat : \E g : Upto(g, n)}
<1>1. Nat \subseteq Reached
  <2>1. 0 \in Reached
    <3>1. Upto([i \in 0 .. 0 |-> v0], 0)
      OBVIOUS
    <3> QED
      BY <3>1
  <2>2. ASSUME NEW n \in Nat, n \in Reached PROVE n + 1 \in Reached
    <3>1. PICK g : Upto(g, n)
      BY <2>2
    <3> DEFINE e == [i \in 0 .. n + 1 |-> IF i <= n THEN g[i] ELSE F[<<n, g[n]>>]]
    <3>2. F[<<n, g[n]>>] \in V
      BY <3>1
    <3>3. e \in [0 .. n + 1 -> V] /\ e[0] = v0
      BY <3>1, <3>2
    <3>4. ASSUME NEW i \in 0 .. n PROVE e[i + 1] = F[<<i, e[i]>>]
      <4>1. CASE i = n
        <5>1. e[n + 1] = F[<<n, g[n]>>] /\ e[n] = g[n]
          OBVIOUS
        <5> HIDE DEF e
        <5> QED
          BY <4>1, <5>1
      <4>2. CASE i # n
        <5>1. i \in 0 .. n - 1 /\ i + 1 <= n /\ i + 1 \in 0 .. n + 1 /\ i \in 0 .. n + 1
          BY <4>2
        <5>2. e[i + 1] = g[i + 1] /\ e[i] = g[i]
          BY <5>1
        <5> QED
          BY <3>1, <5>1, <5>2
      <4> QED
        BY <4>1, <4>2
    <3>5. Upto(e, n + 1)
      <4>1. n + 1 - 1 = n
        OBVIOUS
      <4> HIDE DEF e
      <4> QED
        BY <3>3, <3>4, <4>1
    <3> HIDE DEF Upto
    <3> QED
      BY <3>5
  <2> HIDE DEF Reached
  <2> QED
    BY <2>1, <2>2, NatsByInduction
<1>2. ASSUME NEW g, NEW e, NEW n \in Nat, NEW m \in Nat, Upto(g, n), Upto(e, m)
      PROVE  \A i \in Nat : i <= n /\ i <= m => g[i] = e[i]
  <2> DEFINE Agree == {i \in Nat : i <= n /\ i <= m => g[i] = e[i]}
  <2>1. 0 \in Agree
    BY <1>2
  <2>2. ASSUME NEW i \in Nat, i \in Agree PROVE i + 1 \in Agree
    <3> SUFFICES ASSUME i + 1 <= n, i + 1 <= m PROVE g[i + 1] = e[i + 1]
      OBVIOUS
    <3>1. i \in 0 .. n - 1 /\ i \in 0 .. m - 1 /\ g[i] = e[i]
      BY <2>2
    <3> QED
      BY <1>2, <3>1
  <2>3. Nat \subseteq Agree
    <3> HIDE DEF Agree
    <3> QED
      BY <2>1, <2>2, NatsByInduction
  <2> QED
    BY <2>3
<1> DEFINE Some(n) == CHOOSE g : Upto(g, n)
           G == [n \in Nat |-> Some(n)[n]]
<1>3. \A n \in Nat : Upto(Some(n), n)
  <2> HIDE DEF Upto
  <2> QED
    BY <1>1
<1> HIDE DEF Some
<1>4. G \in [Nat -> V] /\ G[0] = v0
  BY <1>3
<1>5. ASSUME NEW n \in Nat PROVE G[n + 1] = F[<<n, G[n]>>]
  <2>1. Upto(Some(n), n) /\ Upto(Some(n + 1), n + 1)
    BY <1>3
  <2>2. Some(n)[n] = Some(n + 1)[n]
    <3> HIDE DEF Upto
    <3> QED
      BY <1>2, <2>1
  <2>3. Some(n + 1)[n + 1] = F[<<n, Some(n + 1)[n]>>]
    BY <2>1
  <2> QED
    BY <2>2, <2>3
<1>6. IsRecursion(G, V, v0, F)
  <2> HIDE DEF G
  <2> QED
    BY <1>4, <1>5 DEF IsRecursion
<1> HIDE DEF G
<1> QED
  BY <1>6

\* A functional whose value at x depends only on the values at smaller measure.
Contracts(F, D, V, mu) ==
    /\ V # {} /\ mu \in [D -> Nat]
    /\ \A g \in [D -> V] : F[g] \in [D -> V]
    /\ \A g, h \in [D -> V], x \in D :
          (\A y \in D : mu[y] < mu[x] => g[y] = h[y]) => F[g][x] = F[h][x]
IsFixedPoint(f, F, D, V) == f \in [D -> V] /\ f = F[f]

\* Such a functional has a fixed point: a recursive function of which every call is on
\* an argument of smaller measure is defined.
LEMMA MeasuredRecursion ==
    ASSUME NEW D, NEW V, NEW mu, NEW F, Contracts(F, D, V, mu)
    PROVE  \E f : IsFixedPoint(f, F, D, V)
<1> DEFINE W == [D -> V]
           S == [p \in Nat \X W |-> F[p[2]]]
<1>1. /\ V # {} /\ mu \in [D -> Nat]
      /\ \A g \in [D -> V] : F[g] \in [D -> V]
  BY DEF Contracts
<1>2. \A x \in D : mu[x] \in Nat /\ mu[x] + 1 \in Nat
  BY <1>1
<1>3. PICK v : v \in V
  BY <1>1
<1>4. PICK g0 : g0 \in W
  <2>1. [x \in D |-> v] \in W
    BY <1>3
  <2> QED
    BY <2>1
<1>5. PICK A : IsRecursion(A, W, g0, S)
  <2>1. S \in [Nat \X W -> W]
    <3>1. \A p \in Nat \X W : F[p[2]] \in W
      BY <1>1
    <3> HIDE DEF W
    <3> QED
      BY <3>1
  <2> HIDE DEF W, S
  <2> QED
    BY <1>4, <2>1, NatRecursion
<1>6. \A n \in Nat : A[n] \in W /\ A[n + 1] = F[A[n]]
  <2>1. \A n \in Nat : A[n] \in W /\ A[n + 1] = S[<<n, A[n]>>]
    <3> HIDE DEF W, S
    <3> QED
      BY <1>5 DEF IsRecursion
  <2>2. \A n \in Nat : A[n] \in W => S[<<n, A[n]>>] = F[A[n]]
    <3> HIDE DEF W
    <3> QED
      OBVIOUS
  <2> HIDE DEF W, S
  <2> QED
    BY <2>1, <2>2
<1> DEFINE Settled(n) == \A x \in D : mu[x] < n => A[n][x] = A[n + 1][x]
           Settles == {n \in Nat : Settled(n)}
<1>7. \A n \in Nat : Settled(n)
  <2>1. 0 \in Settles
    BY <1>2
  <2>2. ASSUME NEW n \in Nat, n \in Settles PROVE n + 1 \in Settles
    <3>1. ASSUME NEW x \in D, mu[x] < n + 1 PROVE A[n + 1][x] = A[n + 1 + 1][x]
      <4>1. A[n + 1] = F[A[n]] /\ A[n + 1 + 1] = F[A[n + 1]] /\ A[n] \in W /\ A[n + 1] \in W
        <5> HIDE DEF W
        <5> QED
          BY <1>6
      <4>2. \A y \in D : mu[y] < mu[x] => A[n][y] = A[n + 1][y]
        BY <1>2, <2>2, <3>1
      <4>3. F[A[n]][x] = F[A[n + 1]][x]
        BY <4>1, <4>2 DEF Contracts
      <4> QED
        BY <4>1, <4>3
    <3> QED
      BY <3>1
  <2> HIDE DEF Settled
  <2>3. Nat \subseteq Settles
    <3> HIDE DEF Settles
    <3> QED
      BY <2>1, <2>2, NatsByInduction
  <2> QED
    BY <2>3
<1>8. ASSUME NEW x \in D, NEW n \in Nat, mu[x] < n PROVE \A k \in Nat : A[n + k][x] = A[n][x]
  <2> DEFINE Same == {k \in Nat : A[n + k][x] = A[n][x]}
  <2>1. 0 \in Same
    OBVIOUS
  <2>2. ASSUME NEW k \in Nat, k \in Same PROVE k + 1 \in Same
    <3>1. n + k \in Nat /\ mu[x] < n + k /\ n + k + 1 = n + (k + 1)
      BY <1>8, <1>2
    <3>2. A[n + k][x] = A[n + k + 1][x]
      BY <1>7, <3>1
    <3> QED
      BY <2>2, <3>1, <3>2
  <2>3. Nat \subseteq Same
    <3> HIDE DEF Same
    <3> QED
      BY <2>1, <2>2, NatsByInduction
  <2> QED
    BY <2>3
<1> DEFINE f == [x \in D |-> A[mu[x] + 1][x]]
<1>9. f \in W
  <2>1. \A x \in D : A[mu[x] + 1][x] \in V
    BY <1>6, <1>2
  <2> QED
    BY <2>1
<1>10. ASSUME NEW x \in D PROVE f[x] = F[f][x]
  <2>1. f[x] = F[A[mu[x]]][x]
    BY <1>6, <1>2
  <2>2. ASSUME NEW y \in D, mu[y] < mu[x] PROVE A[mu[x]][y] = f[y]
    <3> DEFINE k == mu[x] - (mu[y] + 1)
    <3>1. k \in Nat /\ mu[y] + 1 + k = mu[x] /\ mu[y] < mu[y] + 1
      BY <1>2, <2>2
    <3> HIDE DEF k
    <3>2. A[mu[y] + 1 + k][y] = A[mu[y] + 1][y]
      BY <1>8, <1>2, <3>1
    <3> QED
      BY <3>1, <3>2
  <2>3. A[mu[x]] \in W
    <3> HIDE DEF W
    <3> QED
      BY <1>6, <1>2
  <2> HIDE DEF f
  <2> QED
    BY <1>9, <2>1, <2>2, <2>3 DEF Contracts
<1> HIDE DEF f
<1>11. f = F[f]
  <2>1. F[f] \in W /\ f \in W
    BY <1>1, <1>9
  <2> QED
    BY <1>10, <2>1
<1> QED
  BY <1>9, <1>11 DEF IsFixedPoint

\* Induction along a measure; every solution of such a recursion is of the same type.
LEMMA MeasuredInduction ==
    ASSUME NEW D, NEW mu \in [D -> Nat], NEW S,
           \A x \in D : (\A y \in D : mu[y] < mu[x] => y \in S) => x \in S
    PROVE  D \subseteq S
<1> DEFINE Levels == {n \in Nat : \A x \in D : mu[x] = n => x \in S}
<1>1. ASSUME NEW n \in Nat, \A k \in Nat : k < n => k \in Levels PROVE n \in Levels
  BY <1>1
<1>2. \A n \in Nat : n \in Levels
  <2> HIDE DEF Levels
  <2> QED
    BY <1>1, StrongInduction
<1> QED
  BY <1>2

Follows(g, f, D, mu) ==
    /\ g = [x \in D |-> g[x]] /\ mu \in [D -> Nat]
    /\ \A x \in D : (\A y \in D : mu[y] < mu[x] => f[y] = g[y]) => f[x] = g[x]

LEMMA SameSolution ==
    ASSUME NEW D, NEW V, NEW mu, NEW f \in [D -> V], NEW g, Follows(g, f, D, mu)
    PROVE  g \in [D -> V]
<1> USE DEF Follows
<1> DEFINE S == {x \in D : f[x] = g[x]}
<1>1. ASSUME NEW x \in D, \A y \in D : mu[y] < mu[x] => y \in S PROVE x \in S
  BY <1>1
<1>2. D \subseteq S
  <2> HIDE DEF S
  <2> QED
    BY <1>1, MeasuredInduction
<1>3. \A x \in D : g[x] \in V
  BY <1>2
<1> QED
  BY <1>3

\* A set of subsets of S that has the empty set, and with a subset all those with one
\* more element, has S.
LEMMA FiniteByInduction ==
    ASSUME NEW S, IsFiniteSet(S), NEW Q, {} \in Q,
           \A T \in SUBSET S, x \in S : T \in Q /\ x \notin T => T \cup {x} \in Q
    PROVE  S \in Q
<1> DEFINE Sizes == {n \in Nat : \A T \in SUBSET S : Cardinality(T) = n => T \in Q}
<1>1. 0 \in Sizes
  <2>1. \A T \in SUBSET S : Cardinality(T) = 0 => T = {}
    BY FS_EmptySet, FS_Subset
  <2> QED
    BY <2>1
<1>2. ASSUME NEW n \in Nat, n \in Sizes PROVE n + 1 \in Sizes
  <2> SUFFICES ASSUME NEW T \in SUBSET S, Cardinality(T) = n + 1 PROVE T \in Q
    OBVIOUS
  <2>1. IsFiniteSet(T) /\ T # {}
    BY FS_Subset, FS_EmptySet
  <2>2. PICK x : x \in T
    BY <2>1
  <2>3. Cardinality(T \ {x}) = n
    <3>1. Cardinality(T \ {x}) = Cardinality(T) - 1
      BY <2>1, <2>2, FS_RemoveElement
    <3> QED
      BY <3>1
  <2>4. T \ {x} \in Q
    BY <1>2, <2>3
  <2>5. (T \ {x}) \cup {x} = T
    BY <2>2
  <2> QED
    BY <2>2, <2>4, <2>5
<1>3. Nat \subseteq Sizes
  <2> HIDE DEF Sizes
  <2> QED
    BY <1>1, <1>2, NatsByInduction
<1>4. Cardinality(S) \in Nat
  BY FS_CardinalityType
<1> QED
  BY <1>3, <1>4

-----------------------------------------------------------------------------
(* Remainders, of any integer by a positive number.                        *)

LEMMA ModType ==
    ASSUME NEW N \in Nat, N > 0, NEW a \in Int
    PROVE  /\ a % N \in 0 .. N - 1 /\ a % N \in Int
           /\ a \div N \in Int /\ a = N * (a \div N) + (a % N)
OBVIOUS

\* A multiple greater than another is greater by the factor at least.
LEMMA MultiplesApart ==
    ASSUME NEW N \in Nat, N > 0, NEW p \in Int, NEW q \in Int, p < q
    PROVE  N * p + N <= N * q
<1>1. PICK d \in Nat : d > 0 /\ q = p + d
  <2>1. q - p \in Nat /\ q - p > 0 /\ q = p + (q - p)
    OBVIOUS
  <2> QED
    BY <2>1
<1>2. N * q = N * p + N * d
  BY <1>1
<1>3. N * d >= N
  BY <1>1
<1> QED
  BY <1>2, <1>3

LEMMA ModUnique ==
    ASSUME NEW N \in Nat, N > 0, NEW q \in Int, NEW r \in 0 .. N - 1
    PROVE  (N * q + r) % N = r
<1> DEFINE a == N * q + r
           s == a % N
           p == a \div N
<1>1. N * q \in Int /\ r \in Int /\ a \in Int
  OBVIOUS
<1>2. p \in Int /\ s \in 0 .. N - 1 /\ a = N * p + s
  <2> HIDE DEF a
  <2> QED
    BY <1>1, ModType
<1>3. N * p \in Int /\ N * p + s = N * q + r
  BY <1>2
<1> HIDE DEF a, s, p
<1>4. ASSUME p < q PROVE FALSE
  <2>1. N * p + N <= N * q
    BY <1>2, <1>4, MultiplesApart
  <2> QED
    BY <1>1, <1>2, <1>3, <2>1
<1>5. ASSUME q < p PROVE FALSE
  <2>1. N * q + N <= N * p
    BY <1>2, <1>5, MultiplesApart
  <2> QED
    BY <1>1, <1>2, <1>3, <2>1
<1>6. p = q
  BY <1>2, <1>4, <1>5
<1>7. s = r
  BY <1>1, <1>2, <1>3, <1>6
<1> QED
  BY <1>7 DEF s, a

\* A number below the modulus is its own remainder.
LEMMA ModSmall ==
    ASSUME NEW N \in Nat, N > 0, NEW r \in 0 .. N - 1 PROVE r % N = r
<1>1. 0 \in Int /\ N * 0 + r = r
  OBVIOUS
<1>2. (N * 0 + r) % N = r
  BY <1>1, ModUnique
<1> QED
  BY <1>1, <1>2

\* Equal remainders are equal up to a multiple.
LEMMA ModSame ==
    ASSUME NEW N \in Nat, N > 0, NEW a \in Int, NEW q \in Int
    PROVE  (N * q + a) % N = a % N
<1>1. a % N \in 0 .. N - 1 /\ a \div N \in Int /\ a = N * (a \div N) + (a % N)
  BY ModType
<1> DEFINE d == a \div N
           s == a % N
<1>2. s \in 0 .. N - 1 /\ s \in Int /\ d \in Int /\ a = N * d + s
  BY <1>1
<1> HIDE DEF d, s
<1>3. N * (q + d) = N * q + N * d
  BY <1>2
<1>4. N * q + a = N * (q + d) + s
  BY <1>2, <1>3
<1>5. (N * (q + d) + s) % N = s
  BY <1>2, ModUnique
<1> QED
  BY <1>4, <1>5 DEF s

LEMMA ModPlus ==
    ASSUME NEW N \in Nat, N > 0, NEW a \in Int, NEW b \in Int
    PROVE  ((a % N) + b) % N = (a + b) % N
<1> DEFINE d == a \div N
           s == a % N
<1>1. s \in Int /\ d \in Int /\ a = N * d + s
  BY ModType
<1> HIDE DEF d, s
<1>2. N * d \in Int /\ a + b = N * d + (s + b) /\ s + b \in Int
  BY <1>1
<1>3. (N * d + (s + b)) % N = (s + b) % N
  BY <1>1, <1>2, ModSame
<1> QED
  BY <1>2, <1>3 DEF s

LEMMA ModTimes ==
    ASSUME NEW N \in Nat, N > 0, NEW a \in Int, NEW c \in Int
    PROVE  ((a % N) * c) % N = (a * c) % N
<1> DEFINE d == a \div N
           s == a % N
<1>1. s \in Int /\ d \in Int /\ a = N * d + s
  BY ModType
<1> HIDE DEF d, s
<1>2. d * c \in Int /\ s * c \in Int /\ (N * d + s) * c = N * (d * c) + s * c
  BY <1>1
<1>3. (N * (d * c) + s * c) % N = (s * c) % N
  BY <1>2, ModSame
<1> QED
  BY <1>1, <1>2, <1>3 DEF s

LEMMA ModBoth ==
    ASSUME NEW N \in Nat, N > 0, NEW a \in Int, NEW b \in Int
    PROVE  /\ ((a % N) + (b % N)) % N = (a + b) % N
           /\ ((a % N) + (-1) * (b % N)) % N = (a - b) % N
           /\ (a + (-1) * (b % N)) % N = (a - b) % N
<1> DEFINE s == a % N
           t == b % N
<1>1. s \in Int /\ t \in Int
  BY ModType
<1>2. (t + a) % N = (b + a) % N
  BY ModPlus
<1>3. (s + t) % N = (a + t) % N
  BY <1>1, ModPlus
<1>4. (t * (-1)) % N = (b * (-1)) % N
  <2>1. \A c \in Int : ((b % N) * c) % N = (b * c) % N
    BY ModTimes
  <2> QED
    BY <2>1
<1>5. (s + (-1) * t) % N = (a + (-1) * t) % N
  <2> DEFINE u == (-1) * t
  <2>1. u \in Int
    BY <1>1
  <2> HIDE DEF u
  <2>2. (s + u) % N = (a + u) % N
    BY <2>1, ModPlus
  <2> QED
    BY <2>2 DEF u
<1>6. (a + (-1) * t) % N = (a - b) % N
  <2> DEFINE u == t * (-1)
             v == b * (-1)
  <2>1. u \in Int /\ v \in Int
    BY <1>1
  <2>2. u % N = v % N
    BY <1>4
  <2> HIDE DEF u, v
  <2>3. ((u % N) + a) % N = (u + a) % N /\ ((v % N) + a) % N = (v + a) % N
    BY <2>1, ModPlus
  <2>4. (u + a) % N = (v + a) % N
    BY <2>2, <2>3
  <2>5. u + a = a + (-1) * t /\ v + a = a - b
    BY <1>1 DEF u, v
  <2> QED
    BY <2>4, <2>5
<1>7. a + t = t + a /\ b + a = a + b
  BY <1>1
<1> HIDE DEF s, t
<1>8. (s + t) % N = (a + b) % N
  BY <1>2, <1>3, <1>7
<1> QED
  BY <1>5, <1>6, <1>8 DEF s, t

-----------------------------------------------------------------------------
(* The recursion of SumFunctionOnSet.                                      *)

Element(s) == CHOOSE x \in s : TRUE

\* g sums f over every subset of S, one element after the other.
Sums(g, f, S) ==
    g = [s \in SUBSET S |-> IF s = {} THEN 0 ELSE f[Element(s)] + g[s \ {Element(s)}]]

LEMMA ElementIsMember == ASSUME NEW s, s # {} PROVE Element(s) \in s
BY DEF Element

LEMMA SumsExist ==
    ASSUME NEW f, NEW S, IsFiniteSet(S)
    PROVE  \E g : Sums(g, f, S)
<1> DEFINE Small(n) == {s \in SUBSET S : Cardinality(s) <= n}
           Summing(g, n) ==
               g = [s \in Small(n) |-> IF s = {} THEN 0 ELSE f[Element(s)] + g[s \ {Element(s)}]]
           Sizes == {n \in Nat : \E g : Summing(g, n)}
<1>1. \A s \in SUBSET S : IsFiniteSet(s) /\ Cardinality(s) \in Nat
  BY FS_Subset, FS_CardinalityType
<1>2. 0 \in Sizes
  <2>1. Small(0) = {{}}
    BY <1>1, FS_EmptySet
  <2>2. Summing([s \in {{}} |-> 0], 0)
    BY <2>1
  <2> HIDE DEF Summing
  <2> QED
    BY <2>2
<1>3. ASSUME NEW n \in Nat, n \in Sizes PROVE n + 1 \in Sizes
  <2>1. PICK g : Summing(g, n)
    BY <1>3
  <2> DEFINE e == [s \in Small(n + 1) |-> IF s = {} THEN 0 ELSE f[Element(s)] + g[s \ {Element(s)}]]
  <2>2. \A s \in Small(n) : s \in Small(n + 1) /\ e[s] = g[s]
    <3>1. \A s \in Small(n) : s \in Small(n + 1)
      BY <1>1
    <3>2. \A s \in Small(n) : g[s] = IF s = {} THEN 0 ELSE f[Element(s)] + g[s \ {Element(s)}]
      <4> HIDE DEF Small
      <4> QED
        BY <2>1
    <3> HIDE DEF Small
    <3> QED
      BY <3>1, <3>2
  <2>3. \A s \in Small(n + 1) : s # {} => s \ {Element(s)} \in Small(n)
    <3> SUFFICES ASSUME NEW s \in Small(n + 1), s # {} PROVE s \ {Element(s)} \in Small(n)
      OBVIOUS
    <3>1. Element(s) \in s /\ IsFiniteSet(s) /\ Cardinality(s) \in Nat
      BY <1>1, ElementIsMember
    <3>2. Cardinality(s \ {Element(s)}) = Cardinality(s) - 1
      BY <3>1, FS_RemoveElement
    <3> QED
      BY <3>1, <3>2
  <2>4. Summing(e, n + 1)
    <3> HIDE DEF Small
    <3> QED
      BY <2>2, <2>3
  <2> HIDE DEF Summing
  <2> QED
    BY <2>4
<1>4. Nat \subseteq Sizes
  <2> HIDE DEF Sizes
  <2> QED
    BY <1>2, <1>3, NatsByInduction
<1>5. PICK g : Summing(g, Cardinality(S))
  BY <1>1, <1>4
<1>6. Small(Cardinality(S)) = SUBSET S
  BY FS_Subset
<1> QED
  BY <1>5, <1>6 DEF Sums

LEMMA SumsSum ==
    ASSUME NEW f, NEW S, IsFiniteSet(S)
    PROVE  \E g : Sums(g, f, S) /\ SumFunctionOnSet(f, S) = g[S]
<1> DEFINE g == CHOOSE g : Sums(g, f, S)
<1>1. Sums(g, f, S)
  BY SumsExist
<1>2. SumFunctionOnSet(f, S) = g[S]
  BY DEF SumFunctionOnSet, FoldFunctionOnSet, MapThenFoldSet, Element, Sums
<1> QED
  BY <1>1, <1>2

\* Two sums agree where the functions do.
LEMMA SumsAgree ==
    ASSUME NEW f, NEW e, NEW S, NEW T, IsFiniteSet(S), NEW g, NEW h,
           Sums(g, f, S), Sums(h, e, T), NEW U \in SUBSET S, U \in SUBSET T,
           \A x \in U : f[x] = e[x]
    PROVE  g[U] = h[U]
<1> DEFINE Sizes == {n \in Nat : \A s \in SUBSET U : Cardinality(s) = n => g[s] = h[s]}
<1>1. \A s \in SUBSET U : IsFiniteSet(s) /\ Cardinality(s) \in Nat
  BY FS_Subset, FS_CardinalityType
<1>2. \A s \in SUBSET U :
          /\ g[s] = IF s = {} THEN 0 ELSE f[Element(s)] + g[s \ {Element(s)}]
          /\ h[s] = IF s = {} THEN 0 ELSE e[Element(s)] + h[s \ {Element(s)}]
  BY DEF Sums
<1>3. 0 \in Sizes
  BY <1>1, <1>2, FS_EmptySet
<1>4. ASSUME NEW n \in Nat, n \in Sizes PROVE n + 1 \in Sizes
  <2> SUFFICES ASSUME NEW s \in SUBSET U, Cardinality(s) = n + 1 PROVE g[s] = h[s]
    OBVIOUS
  <2>1. s # {} /\ IsFiniteSet(s)
    BY <1>1, FS_EmptySet
  <2>2. Element(s) \in s
    BY <2>1, ElementIsMember
  <2>3. Cardinality(s \ {Element(s)}) = Cardinality(s) - 1
    BY <2>1, <2>2, FS_RemoveElement
  <2>4. g[s \ {Element(s)}] = h[s \ {Element(s)}]
    BY <1>4, <2>3
  <2> QED
    BY <1>2, <2>1, <2>2, <2>4
<1>5. Nat \subseteq Sizes
  <2> HIDE DEF Sizes
  <2> QED
    BY <1>3, <1>4, NatsByInduction
<1> QED
  BY <1>1, <1>5

\* Whichever element is taken out first, the sum is the same.
LEMMA SumsTakeOut ==
    ASSUME NEW f, NEW S, IsFiniteSet(S), NEW g, Sums(g, f, S), \A x \in S : f[x] \in Int
    PROVE  \A s \in SUBSET S : g[s] \in Int /\ \A x \in s : g[s] = f[x] + g[s \ {x}]
<1> DEFINE Good(s) == g[s] \in Int /\ \A x \in s : g[s] = f[x] + g[s \ {x}]
           Sizes == {n \in Nat : \A s \in SUBSET S : Cardinality(s) <= n => Good(s)}
<1>1. \A s \in SUBSET S : IsFiniteSet(s) /\ Cardinality(s) \in Nat
  BY FS_Subset, FS_CardinalityType
<1>2. \A s \in SUBSET S : g[s] = IF s = {} THEN 0 ELSE f[Element(s)] + g[s \ {Element(s)}]
  BY DEF Sums
<1>3. Good({})
  BY <1>2
<1>4. 0 \in Sizes
  <2>1. \A s \in SUBSET S : Cardinality(s) <= 0 => s = {}
    BY <1>1, FS_EmptySet
  <2> HIDE DEF Good
  <2> QED
    BY <1>3, <2>1
<1>5. ASSUME NEW n \in Nat, n \in Sizes PROVE n + 1 \in Sizes
  <2> SUFFICES ASSUME NEW s \in SUBSET S, Cardinality(s) <= n + 1, s # {} PROVE Good(s)
    <3> HIDE DEF Good
    <3> QED
      BY <1>3
  <2> DEFINE y == Element(s)
  <2>1. IsFiniteSet(s)
    BY <1>1
  <2>2. y \in s
    BY ElementIsMember
  <2>3. g[s] = f[y] + g[s \ {y}]
    BY <1>2
  <2> HIDE DEF y
  <2>4. \A x \in s : Good(s \ {x})
    <3> SUFFICES ASSUME NEW x \in s PROVE Good(s \ {x})
      OBVIOUS
    <3>1. Cardinality(s \ {x}) = Cardinality(s) - 1
      BY <2>1, FS_RemoveElement
    <3>2. Cardinality(s \ {x}) <= n
      BY <1>1, <3>1
    <3> HIDE DEF Good
    <3> QED
      BY <1>5, <3>2
  <2>5. g[s] \in Int
    <3>1. Good(s \ {y})
      <4> HIDE DEF Good
      <4> QED
        BY <2>2, <2>4
    <3>2. g[s \ {y}] \in Int /\ f[y] \in Int
      BY <2>2, <3>1
    <3> QED
      BY <2>3, <3>2
  <2>6. ASSUME NEW x \in s, x # y PROVE g[s] = f[x] + g[s \ {x}]
    <3>1. g[s \ {y}] = f[x] + g[(s \ {y}) \ {x}]
      BY <2>2, <2>4, <2>6
    <3>2. g[s \ {x}] = f[y] + g[(s \ {x}) \ {y}]
      BY <2>2, <2>4, <2>6
    <3>3. (s \ {x}) \ {y} = (s \ {y}) \ {x}
      OBVIOUS
    <3>4. f[x] \in Int /\ f[y] \in Int
      BY <2>2
    <3>5. g[(s \ {y}) \ {x}] \in Int
      <4>1. /\ Cardinality(s \ {y}) = Cardinality(s) - 1
            /\ Cardinality((s \ {y}) \ {x}) = Cardinality(s \ {y}) - 1
        BY <2>1, <2>2, <2>6, FS_RemoveElement
      <4>2. Cardinality((s \ {y}) \ {x}) <= n
        BY <1>1, <4>1
      <4>3. Good((s \ {y}) \ {x})
        <5> HIDE DEF Good
        <5> QED
          BY <1>5, <4>2
      <4> QED
        BY <4>3
    <3> DEFINE gs == g[s]
               gx == g[s \ {x}]
               gy == g[s \ {y}]
               gxy == g[(s \ {y}) \ {x}]
    <3>6. gs = f[y] + gy /\ gy = f[x] + gxy /\ gx = f[y] + gxy /\ gxy \in Int
      BY <2>3, <3>1, <3>2, <3>3, <3>5
    <3> HIDE DEF gs, gx, gy, gxy
    <3>7. gs = f[x] + gx
      BY <3>4, <3>6
    <3> QED
      BY <3>7 DEF gs, gx
  <2> QED
    BY <2>3, <2>5, <2>6
<1>6. Nat \subseteq Sizes
  <2> HIDE DEF Sizes
  <2> QED
    BY <1>4, <1>5, NatsByInduction
<1>7. \A s \in SUBSET S : Good(s)
  <2> HIDE DEF Good
  <2>1. \A s \in SUBSET S : Cardinality(s) \in Sizes /\ Cardinality(s) <= Cardinality(s)
    BY <1>1, <1>6
  <2> QED
    BY <2>1
<1> QED
  BY <1>7

-----------------------------------------------------------------------------
(* Sums.                                                                   *)

LEMMA SumEmpty == ASSUME NEW f PROVE SumFunctionOnSet(f, {}) = 0
<1>1. PICK g : Sums(g, f, {}) /\ SumFunctionOnSet(f, {}) = g[{}]
  BY FS_EmptySet, SumsSum
<1> QED
  BY <1>1 DEF Sums

LEMMA SumType ==
    ASSUME NEW f, NEW S, IsFiniteSet(S), \A x \in S : f[x] \in Int
    PROVE  SumFunctionOnSet(f, S) \in Int
<1>1. PICK g : Sums(g, f, S) /\ SumFunctionOnSet(f, S) = g[S]
  BY SumsSum
<1> QED
  BY <1>1, SumsTakeOut

LEMMA SumSame ==
    ASSUME NEW f, NEW e, NEW S, IsFiniteSet(S), \A x \in S : f[x] = e[x]
    PROVE  SumFunctionOnSet(f, S) = SumFunctionOnSet(e, S)
<1>1. PICK g : Sums(g, f, S) /\ SumFunctionOnSet(f, S) = g[S]
  BY SumsSum
<1>2. PICK h : Sums(h, e, S) /\ SumFunctionOnSet(e, S) = h[S]
  BY SumsSum
<1>3. \A U \in SUBSET S : (\A x \in U : f[x] = e[x]) => g[U] = h[U]
  BY <1>1, <1>2, SumsAgree
<1> QED
  BY <1>1, <1>2, <1>3

LEMMA SumTakeOut ==
    ASSUME NEW f, NEW S, IsFiniteSet(S), \A y \in S : f[y] \in Int, NEW x \in S
    PROVE  SumFunctionOnSet(f, S) = f[x] + SumFunctionOnSet(f, S \ {x})
<1>1. PICK h : Sums(h, f, S) /\ SumFunctionOnSet(f, S) = h[S]
  BY SumsSum
<1>2. S \in SUBSET S
  OBVIOUS
<1>3. h[S] = f[x] + h[S \ {x}]
  BY <1>1, <1>2, SumsTakeOut
<1>4. IsFiniteSet(S \ {x})
  BY FS_RemoveElement
<1>5. PICK g : Sums(g, f, S \ {x}) /\ SumFunctionOnSet(f, S \ {x}) = g[S \ {x}]
  BY <1>4, SumsSum
<1>6. g[S \ {x}] = h[S \ {x}]
  <2>1. S \ {x} \in SUBSET S /\ S \ {x} \in SUBSET (S \ {x})
    OBVIOUS
  <2> QED
    BY <1>1, <1>4, <1>5, <2>1, SumsAgree
<1> QED
  BY <1>1, <1>3, <1>5, <1>6

LEMMA SumAdd ==
    ASSUME NEW f, NEW S, IsFiniteSet(S), NEW x, x \notin S,
           \A y \in S \cup {x} : f[y] \in Int
    PROVE  SumFunctionOnSet(f, S \cup {x}) = f[x] + SumFunctionOnSet(f, S)
<1>1. PICK T : T = S \cup {x}
  OBVIOUS
<1>2. IsFiniteSet(T) /\ x \in T /\ T \ {x} = S /\ \A y \in T : f[y] \in Int
  BY <1>1, FS_AddElement
<1>3. SumFunctionOnSet(f, T) = f[x] + SumFunctionOnSet(f, T \ {x})
  BY <1>2, SumTakeOut
<1> QED
  BY <1>1, <1>2, <1>3

\* The sum of sums.
LEMMA SumPlus ==
    ASSUME NEW f, NEW e, NEW g, NEW S, IsFiniteSet(S),
           \A x \in S : f[x] \in Int /\ e[x] \in Int /\ g[x] = f[x] + e[x]
    PROVE  SumFunctionOnSet(g, S) = SumFunctionOnSet(f, S) + SumFunctionOnSet(e, S)
<1> DEFINE Q == {T \in SUBSET S :
                     SumFunctionOnSet(g, T) = SumFunctionOnSet(f, T) + SumFunctionOnSet(e, T)}
<1>1. {} \in Q
  BY SumEmpty
<1>2. ASSUME NEW T \in SUBSET S, NEW x \in S, T \in Q, x \notin T
      PROVE  T \cup {x} \in Q
  <2> DEFINE a == SumFunctionOnSet(f, T)
             b == SumFunctionOnSet(e, T)
             c == SumFunctionOnSet(g, T)
  <2>1. IsFiniteSet(T) /\ \A y \in T \cup {x} : f[y] \in Int /\ e[y] \in Int /\ g[y] \in Int
    BY FS_Subset
  <2>2. a \in Int /\ b \in Int /\ c = a + b
    BY <1>2, <2>1, SumType
  <2>3. /\ SumFunctionOnSet(f, T \cup {x}) = f[x] + a
        /\ SumFunctionOnSet(e, T \cup {x}) = e[x] + b
        /\ SumFunctionOnSet(g, T \cup {x}) = g[x] + c
    BY <1>2, <2>1, SumAdd
  <2> HIDE DEF a, b, c
  <2>4. SumFunctionOnSet(g, T \cup {x})
            = SumFunctionOnSet(f, T \cup {x}) + SumFunctionOnSet(e, T \cup {x})
    BY <2>1, <2>2, <2>3
  <2> QED
    BY <2>4
<1>3. S \in Q
  <2> HIDE DEF Q
  <2> QED
    BY <1>1, <1>2, FiniteByInduction
<1> QED
  BY <1>3

\* The sum of multiples.
LEMMA SumTimes ==
    ASSUME NEW f, NEW g, NEW c \in Int, NEW S, IsFiniteSet(S),
           \A x \in S : f[x] \in Int /\ g[x] = f[x] * c
    PROVE  SumFunctionOnSet(g, S) = SumFunctionOnSet(f, S) * c
<1> DEFINE Q == {T \in SUBSET S : SumFunctionOnSet(g, T) = SumFunctionOnSet(f, T) * c}
<1>1. {} \in Q
  BY SumEmpty
<1>2. ASSUME NEW T \in SUBSET S, NEW x \in S, T \in Q, x \notin T
      PROVE  T \cup {x} \in Q
  <2> DEFINE a == SumFunctionOnSet(f, T)
             b == SumFunctionOnSet(g, T)
  <2>1. IsFiniteSet(T) /\ \A y \in T \cup {x} : f[y] \in Int /\ g[y] \in Int
    BY FS_Subset
  <2>2. a \in Int /\ b = a * c
    BY <1>2, <2>1, SumType
  <2>3. /\ SumFunctionOnSet(f, T \cup {x}) = f[x] + a
        /\ SumFunctionOnSet(g, T \cup {x}) = f[x] * c + b
    BY <1>2, <2>1, SumAdd
  <2> HIDE DEF a, b
  <2>4. (f[x] + a) * c = f[x] * c + a * c
    BY <2>1, <2>2
  <2>5. SumFunctionOnSet(g, T \cup {x}) = SumFunctionOnSet(f, T \cup {x}) * c
    BY <2>2, <2>3, <2>4
  <2> QED
    BY <2>5
<1>3. S \in Q
  <2> HIDE DEF Q
  <2> QED
    BY <1>1, <1>2, FiniteByInduction
<1> QED
  BY <1>3

\* Equal remainders give sums with equal remainders.
LEMMA SumMod ==
    ASSUME NEW N \in Nat, N > 0, NEW f, NEW g, NEW S, IsFiniteSet(S),
           \A x \in S : f[x] \in Int /\ g[x] \in Int /\ f[x] % N = g[x] % N
    PROVE  SumFunctionOnSet(f, S) % N = SumFunctionOnSet(g, S) % N
<1> DEFINE Q == {T \in SUBSET S : SumFunctionOnSet(f, T) % N = SumFunctionOnSet(g, T) % N}
<1>1. {} \in Q
  BY SumEmpty
<1>2. ASSUME NEW T \in SUBSET S, NEW x \in S, T \in Q, x \notin T
      PROVE  T \cup {x} \in Q
  <2> DEFINE a == SumFunctionOnSet(f, T)
             b == SumFunctionOnSet(g, T)
  <2>1. IsFiniteSet(T) /\ \A y \in T \cup {x} : f[y] \in Int /\ g[y] \in Int
    BY FS_Subset
  <2>2. a \in Int /\ b \in Int /\ a % N = b % N
    BY <1>2, <2>1, SumType
  <2>3. /\ SumFunctionOnSet(f, T \cup {x}) = f[x] + a
        /\ SumFunctionOnSet(g, T \cup {x}) = g[x] + b
    BY <1>2, <2>1, SumAdd
  <2> HIDE DEF a, b
  <2>4. f[x] \in Int /\ g[x] \in Int /\ f[x] % N = g[x] % N
    OBVIOUS
  <2>5. /\ ((f[x] % N) + (a % N)) % N = (f[x] + a) % N
        /\ ((g[x] % N) + (b % N)) % N = (g[x] + b) % N
    BY <2>2, <2>4, ModBoth
  <2>6. SumFunctionOnSet(f, T \cup {x}) % N = SumFunctionOnSet(g, T \cup {x}) % N
    BY <2>2, <2>3, <2>4, <2>5
  <2>7. T \cup {x} \in SUBSET S
    OBVIOUS
  <2> QED
    BY <2>6, <2>7
<1>3. S \in Q
  <2> HIDE DEF Q
  <2> QED
    BY <1>1, <1>2, FiniteByInduction
<1> QED
  BY <1>3

\* Only what is not zero counts.
LEMMA SumNonzero ==
    ASSUME NEW f, NEW S, IsFiniteSet(S), \A x \in S : f[x] \in Int,
           NEW T \in SUBSET S, \A x \in S \ T : f[x] = 0
    PROVE  SumFunctionOnSet(f, S) = SumFunctionOnSet(f, T)
<1> DEFINE Q == {U \in SUBSET S : SumFunctionOnSet(f, U) = SumFunctionOnSet(f, U \cap T)}
<1>1. {} \in Q
  BY SumEmpty
<1>2. ASSUME NEW U \in SUBSET S, NEW x \in S, U \in Q, x \notin U
      PROVE  U \cup {x} \in Q
  <2>1. IsFiniteSet(U) /\ IsFiniteSet(U \cap T)
    BY FS_Subset
  <2>2. SumFunctionOnSet(f, U \cup {x}) = f[x] + SumFunctionOnSet(f, U)
    BY <1>2, <2>1, SumAdd
  <2>3. SumFunctionOnSet(f, U) \in Int
    BY <2>1, SumType
  <2>4. x \in T => SumFunctionOnSet(f, U \cup {x}) = SumFunctionOnSet(f, (U \cup {x}) \cap T)
    <3> SUFFICES ASSUME x \in T
                 PROVE  SumFunctionOnSet(f, U \cup {x}) = SumFunctionOnSet(f, (U \cup {x}) \cap T)
      OBVIOUS
    <3>1. (U \cup {x}) \cap T = (U \cap T) \cup {x}
      OBVIOUS
    <3>2. SumFunctionOnSet(f, (U \cap T) \cup {x}) = f[x] + SumFunctionOnSet(f, U \cap T)
      BY <1>2, <2>1, SumAdd
    <3> QED
      BY <1>2, <2>2, <3>1, <3>2
  <2>5. x \notin T => SumFunctionOnSet(f, U \cup {x}) = SumFunctionOnSet(f, (U \cup {x}) \cap T)
    <3> SUFFICES ASSUME x \notin T
                 PROVE  SumFunctionOnSet(f, U \cup {x}) = SumFunctionOnSet(f, (U \cup {x}) \cap T)
      OBVIOUS
    <3>1. (U \cup {x}) \cap T = U \cap T /\ f[x] = 0
      OBVIOUS
    <3>2. SumFunctionOnSet(f, U \cup {x}) = SumFunctionOnSet(f, U)
      BY <2>2, <2>3, <3>1
    <3>3. SumFunctionOnSet(f, U) = SumFunctionOnSet(f, U \cap T)
      BY <1>2
    <3> QED
      BY <3>1, <3>2, <3>3
  <2>6. SumFunctionOnSet(f, U \cup {x}) = SumFunctionOnSet(f, (U \cup {x}) \cap T)
    BY <2>4, <2>5
  <2>7. U \cup {x} \in SUBSET S
    OBVIOUS
  <2> QED
    BY <2>6, <2>7
<1>3. S \in Q
  <2> HIDE DEF Q
  <2> QED
    BY <1>1, <1>2, FiniteByInduction
<1>4. S \cap T = T
  OBVIOUS
<1> QED
  BY <1>3, <1>4

\* The sum of ones.
LEMMA SumOnes ==
    ASSUME NEW f, NEW S, IsFiniteSet(S), \A x \in S : f[x] = 1
    PROVE  SumFunctionOnSet(f, S) = Cardinality(S)
<1> DEFINE Q == {T \in SUBSET S : SumFunctionOnSet(f, T) = Cardinality(T)}
<1>1. {} \in Q
  BY SumEmpty, FS_EmptySet
<1>2. ASSUME NEW T \in SUBSET S, NEW x \in S, T \in Q, x \notin T
      PROVE  T \cup {x} \in Q
  <2>1. IsFiniteSet(T) /\ \A y \in T \cup {x} : f[y] = 1
    BY FS_Subset
  <2>2. SumFunctionOnSet(f, T \cup {x}) = 1 + SumFunctionOnSet(f, T)
    BY <1>2, <2>1, SumAdd
  <2>3. Cardinality(T \cup {x}) = Cardinality(T) + 1 /\ Cardinality(T) \in Nat
    BY <1>2, <2>1, FS_AddElement, FS_CardinalityType
  <2>4. SumFunctionOnSet(f, T \cup {x}) = Cardinality(T \cup {x})
    BY <1>2, <2>2, <2>3
  <2> QED
    BY <2>4
<1>3. S \in Q
  <2> HIDE DEF Q
  <2> QED
    BY <1>1, <1>2, FiniteByInduction
<1> QED
  BY <1>3

=============================================================================
