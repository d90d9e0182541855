-------------------------- MODULE Winnowing_proofs --------------------------
(***************************************************************************)
(* For every file, window and k-gram: the rolling hash is that of its      *)
(* k-gram whatever wraps around, the loop of winnow pushes the rightmost   *)
(* minima of all windows, in order and each once, and therefore cuts equal *)
(* stretches at equal places, and similar files alike.                     *)
(***************************************************************************)
EXTENDS SimilarFiles, Arithmetic, SequenceTheorems

-----------------------------------------------------------------------------
(* Hashes and windows of a file.                                           *)

LEMMA WindowType == w \in Nat /\ w > 0
BY SizeAssumption DEF w

Window(x) == {i \in 1 .. x : i > x - w}

\* m is the rightmost minimum of the window of f that ends at x.
IsWindowMin(f, m, x) ==
    /\ m \in Window(x)
    /\ \A i \in Window(x) : NextHash(f, m) <= NextHash(f, i)
    /\ \A i \in Window(x) : i > m => NextHash(f, m) < NextHash(f, i)

\* What is hashed at a position is a k-gram, or the beginning of the file.
Start(x) == IF x > Kgrams THEN x - Kgrams + 1 ELSE 1

LEMMA GramAt ==
    ASSUME NEW f \in Content, NEW x \in 1 .. Len(f)
    PROVE  /\ SubSeq(f, Start(x), x) \in Gram
           /\ Start(x) \in 1 .. x /\ f \in Seq(Char) /\ Len(f) \in Nat
<1>1. PICK n \in 0 .. MaxSize : f \in [1 .. n -> Char]
  BY SizeAssumption DEF Content, StringOf
<1>2. f \in Seq(Char) /\ Len(f) = n /\ Kgrams \in Nat /\ Kgrams > 0
  BY <1>1, SizeAssumption
<1> DEFINE start == Start(x)
           g == SubSeq(f, start, x)
<1>3. /\ start \in Int /\ 1 <= start /\ start <= x /\ x - start + 1 <= Kgrams
      /\ x \in Int /\ x <= n
  BY <1>2 DEF Start
<1> HIDE DEF start
<1>4. g \in [1 .. x - start + 1 -> Char]
  <2>1. \A i \in start .. x : f[i] \in Char
    BY <1>1, <1>3
  <2>2. g \in Seq(Char) /\ Len(g) = x - start + 1
    BY <1>3, <2>1, SubSeqProperties
  <2> HIDE DEF g
  <2> QED
    BY <1>3, <2>2
<1>5. g \in Gram
  <2>1. x - start + 1 \in 1 .. Kgrams
    BY <1>2, <1>3
  <2> HIDE DEF g
  <2> QED
    BY <1>4, <2>1 DEF Gram, StringOf
<1> QED
  BY <1>2, <1>3, <1>5 DEF start

\* Every position has a hash, which is no greater than what the window is filled with.
LEMMA HashesInRange ==
    ASSUME NEW f \in Content, NEW x \in 1 .. Len(f)
    PROVE  NextHash(f, x) \in 0 .. MaxHash
<1>1. SubSeq(f, Start(x), x) \in Gram
  BY GramAt
<1>2. GramHash[SubSeq(f, Start(x), x)] \in 0 .. MaxHash
  BY <1>1, HashAssumption
<1> QED
  BY <1>2 DEF NextHash, Start

LEMMA WindowMinUnique ==
    ASSUME NEW f \in Content, NEW x \in 1 .. Len(f), NEW m, IsWindowMin(f, m, x)
    PROVE  WindowMin(f, x) = m
<1>1. f \in Seq(Char)
  BY SizeAssumption DEF Content, StringOf
<1>2. \A i \in Window(x) : i \in Int /\ NextHash(f, i) \in Int
  BY <1>1, HashesInRange, HashAssumption DEF Window
<1>3. ASSUME NEW n, IsWindowMin(f, n, x) PROVE n = m
  BY <1>2, <1>3 DEF IsWindowMin
<1>4. WindowMin(f, x) = CHOOSE n : IsWindowMin(f, n, x)
  BY DEF WindowMin, IsWindowMin, Window
<1> QED
  BY <1>3, <1>4

LEMMA WindowMinExists ==
    ASSUME NEW f \in Content, NEW x \in 1 .. Len(f)
    PROVE  \E m : IsWindowMin(f, m, x)
<1>1. f \in Seq(Char) /\ x \in Int
  BY SizeAssumption DEF Content, StringOf
<1>2. /\ \A i \in Window(x) : i \in Int /\ i <= x /\ NextHash(f, i) \in Nat
      /\ x \in Window(x)
  BY <1>1, WindowType, HashesInRange, HashAssumption DEF Window
<1> DEFINE v == [i \in Window(x) |-> NextHash(f, i)]
<1>3. \A i \in Window(x) : v[i] = NextHash(f, i) /\ v[i] \in Nat
  BY <1>2
<1> HIDE DEF v
<1>4. PICK m \in Window(x) : /\ \A i \in Window(x) : v[m] <= v[i]
                             /\ \A i \in Window(x) : i > m => v[m] < v[i]
  BY <1>1, <1>2, <1>3, RightmostMinimum
<1> QED
  BY <1>3, <1>4 DEF IsWindowMin

-----------------------------------------------------------------------------
(* The rolling hash.                                                       *)

LEMMA HashSizePositive ==
    /\ HashSize \in Nat /\ HashSize > 0 /\ p \in Int
    /\ \A x \in Int : x % HashSize \in Int /\ (x % HashSize) % HashSize = x % HashSize
<1>1. HashSize \in Nat /\ HashSize > 0 /\ p \in Int
  BY RollingAssumption
<1>2. ASSUME NEW x \in Int
      PROVE  x % HashSize \in Int /\ (x % HashSize) % HashSize = x % HashSize
  <2>1. x % HashSize \in 0 .. HashSize - 1
    BY <1>1
  <2>2. \A y \in 0 .. HashSize - 1 : y % HashSize = y
    BY <1>1
  <2> QED
    BY <2>1, <2>2
<1> QED
  BY <1>1, <1>2

\* G[n] is the hash of the n characters of f from a on.
Hashing(G, f, a) ==
    /\ G \in [Nat -> Int] /\ G[0] = 0
    /\ \A n \in Nat : a + n <= Len(f) => G[n + 1] = (G[n] * p + f[a + n]) % HashSize

LEMMA HashingExists ==
    ASSUME NEW f \in Seq(Int), NEW a \in Nat, a > 0
    PROVE  \E G : Hashing(G, f, a)
<1> DEFINE Step == [x \in Nat \X Int |->
                      IF a + x[1] <= Len(f) THEN (x[2] * p + f[a + x[1]]) % HashSize ELSE 0]
<1>1. ASSUME NEW n \in Nat, NEW v \in Int
      PROVE  /\ Step[<<n, v>>] \in Int
             /\ a + n <= Len(f) => Step[<<n, v>>] = (v * p + f[a + n]) % HashSize
  <2>1. Step[<<n, v>>] = IF a + n <= Len(f) THEN (v * p + f[a + n]) % HashSize ELSE 0
    OBVIOUS
  <2>2. CASE a + n <= Len(f)
    <3>1. f[a + n] \in Int /\ v * p \in Int
      BY <2>2, HashSizePositive
    <3>2. v * p + f[a + n] \in Int
      BY <3>1
    <3> QED
      BY <2>1, <2>2, <3>2, HashSizePositive
  <2> QED
    BY <2>1, <2>2
<1>2. Step \in [Nat \X Int -> Int]
  <2>1. \A x \in Nat \X Int : Step[x] \in Int
    BY <1>1
  <2> QED
    BY <2>1
<1> HIDE DEF Step
<1>3. PICK G : IsRecursion(G, Int, 0, Step)
  <2> DEFINE V == Int
             none == 0
  <2>1. none \in V /\ Step \in [Nat \X V -> V]
    BY <1>2
  <2> HIDE DEF V, none
  <2>2. \E G : IsRecursion(G, V, none, Step)
    BY <2>1, NatRecursion
  <2> QED
    BY <2>2 DEF V, none
<1>4. ASSUME NEW n \in Nat, a + n <= Len(f)
      PROVE  G[n + 1] = (G[n] * p + f[a + n]) % HashSize
  BY <1>1, <1>3, <1>4 DEF IsRecursion
<1>5. Hashing(G, f, a)
  BY <1>3, <1>4 DEF IsRecursion, Hashing
<1> QED
  BY <1>5

\* HashOf is what the loop of hash(substr, n) computes.
LEMMA HashOfStretch ==
    ASSUME NEW f \in Seq(Int), NEW a \in 1 .. Len(f), NEW b \in a .. Len(f),
           NEW G, Hashing(G, f, a)
    PROVE  HashOf(SubSeq(f, a, b)) = G[b - a + 1]
<1> DEFINE s == SubSeq(f, a, b)
           L == b - a + 1
           IsSum(g) == g = [n \in 0 .. Len(s) |->
                              IF n = 0 THEN 0 ELSE (g[n - 1] * p + s[n]) % HashSize]
<1>1. /\ L \in Nat /\ Len(s) = L /\ Len(f) \in Nat
      /\ \A n \in 1 .. L : s[n] = f[a + n - 1] /\ a + (n - 1) <= Len(f) /\ n - 1 \in Nat
  BY SubSeqProperties
<1>2. HashOf(s) = (CHOOSE g : IsSum(g))[Len(s)]
  BY DEF HashOf
<1>3. IsSum([n \in 0 .. L |-> G[n]])
  <2> DEFINE g == [n \in 0 .. L |-> G[n]]
  <2>1. ASSUME NEW n \in 0 .. L
        PROVE  g[n] = IF n = 0 THEN 0 ELSE (g[n - 1] * p + s[n]) % HashSize
    <3>1. CASE n = 0
      BY <3>1 DEF Hashing
    <3>2. CASE n # 0
      <4>1. n \in 1 .. L /\ n - 1 \in 0 .. L /\ (n - 1) + 1 = n /\ a + (n - 1) = a + n - 1
        BY <1>1, <3>2
      <4>2. G[(n - 1) + 1] = (G[n - 1] * p + f[a + (n - 1)]) % HashSize
        BY <1>1, <4>1 DEF Hashing
      <4>3. g[n] = G[n] /\ g[n - 1] = G[n - 1]
        BY <4>1
      <4> QED
        BY <1>1, <3>2, <4>1, <4>2, <4>3
    <3> QED
      BY <3>1, <3>2
  <2>2. g = [n \in 0 .. L |-> g[n]]
    OBVIOUS
  <2> HIDE DEF g, s, L
  <2> QED
    BY <1>1, <2>1, <2>2 DEF g
<1>4. PICK g : IsSum(g) /\ HashOf(s) = g[L]
  <2> HIDE DEF IsSum, s, L
  <2> QED
    BY <1>1, <1>2, <1>3
<1> DEFINE Agree == {n \in Nat : n <= L => g[n] = G[n]}
<1>5. 0 \in Agree
  BY <1>1, <1>4 DEF Hashing
<1>6. ASSUME NEW n \in Nat, n \in Agree PROVE n + 1 \in Agree
  <2> SUFFICES ASSUME n + 1 <= L PROVE g[n + 1] = G[n + 1]
    OBVIOUS
  <2>1. /\ n + 1 \in 0 .. L /\ n + 1 \in 1 .. L /\ n + 1 # 0 /\ (n + 1) - 1 = n
        /\ g[n] = G[n]
    <3> HIDE DEF L
    <3>1. n + 1 \in 0 .. L /\ n + 1 \in 1 .. L /\ n + 1 # 0 /\ (n + 1) - 1 = n
      BY <1>1
    <3>2. n <= L
      BY <1>1
    <3> QED
      BY <1>6, <3>1, <3>2
  <2>2. s[n + 1] = f[a + n] /\ a + n <= Len(f)
    <3>1. s[n + 1] = f[a + (n + 1) - 1] /\ a + ((n + 1) - 1) <= Len(f)
      BY <1>1, <2>1
    <3>2. a + (n + 1) - 1 = a + n
      OBVIOUS
    <3> HIDE DEF s
    <3> QED
      BY <2>1, <3>1, <3>2
  <2>3. g[n + 1] = (g[n] * p + s[n + 1]) % HashSize
    <3>1. g = [i \in 0 .. L |-> IF i = 0 THEN 0 ELSE (g[i - 1] * p + s[i]) % HashSize]
      BY <1>1, <1>4
    <3> HIDE DEF s, L
    <3> QED
      BY <2>1, <3>1
  <2> HIDE DEF s
  <2> QED
    BY <2>1, <2>2, <2>3 DEF Hashing
<1>7. L \in Agree
  <2> HIDE DEF Agree, L
  <2> QED
    BY <1>1, <1>5, <1>6, NatsByInduction
<1> QED
  BY <1>4, <1>7

\* P[n] is the n-th power of p.
Powers(P) == /\ P \in [Nat -> Int] /\ P[0] = 1
             /\ \A n \in Nat : P[n + 1] = P[n] * p

LEMMA PowersExist == \E P : Powers(P)
<1> DEFINE Step == [x \in Nat \X Int |-> x[2] * p]
           V == Int
           one == 1
<1>1. \A n \in Nat, v \in Int : Step[<<n, v>>] = v * p /\ v * p \in Int
  BY HashSizePositive
<1>2. one \in V /\ Step \in [Nat \X V -> V]
  BY HashSizePositive
<1> HIDE DEF Step, V, one
<1>3. PICK P : IsRecursion(P, V, one, Step)
  BY <1>2, NatRecursion
<1>4. Powers(P)
  BY <1>1, <1>3 DEF IsRecursion, Powers, V, one
<1> QED
  BY <1>4

LEMMA PowersAdd ==
    ASSUME NEW P, Powers(P), NEW m \in Nat, NEW n \in Nat
    PROVE  P[m + n] = P[m] * P[n]
<1> DEFINE Good == {i \in Nat : P[m + i] = P[m] * P[i]}
<1>1. 0 \in Good
  BY DEF Powers
<1>2. ASSUME NEW i \in Nat, i \in Good PROVE i + 1 \in Good
  <2>1. /\ P[(m + i) + 1] = P[m + i] * p /\ P[i + 1] = P[i] * p
        /\ P[m] \in Int /\ P[i] \in Int /\ p \in Int
    BY HashSizePositive DEF Powers
  <2>2. m + (i + 1) = (m + i) + 1
    OBVIOUS
  <2>3. P[m + (i + 1)] = (P[m] * P[i]) * p
    BY <1>2, <2>1, <2>2
  <2>4. \A x, y, z \in Int : (x * y) * z = x * (y * z)
    OBVIOUS
  <2> QED
    BY <2>1, <2>3, <2>4
<1>3. n \in Good
  <2> HIDE DEF Good
  <2> QED
    BY <1>1, <1>2, NatsByInduction
<1> QED
  BY <1>3

\* Factors may be replaced by equal remainders.
LEMMA FactorsModulo ==
    ASSUME NEW a \in Int, NEW b \in Int, NEW c \in Int, a % HashSize = b % HashSize
    PROVE  (a * c) % HashSize = (b * c) % HashSize
<1>1. /\ ((a % HashSize) * c) % HashSize = (a * c) % HashSize
      /\ ((b % HashSize) * c) % HashSize = (b * c) % HashSize
  BY ModTimes, HashSizePositive
<1> QED
  BY <1>1

LEMMA TermsModulo ==
    ASSUME NEW a \in Int, NEW b \in Int, NEW c \in Int, a % HashSize = b % HashSize
    PROVE  (a + c) % HashSize = (b + c) % HashSize
<1>1. /\ ((a % HashSize) + c) % HashSize = (a + c) % HashSize
      /\ ((b % HashSize) + c) % HashSize = (b + c) % HashSize
  BY ModPlus, HashSizePositive
<1> QED
  BY <1>1

\* The squaring step of myPow.
Squared(tmp, n) == (IF n % 2 = 0 THEN tmp * tmp ELSE p * tmp * tmp) % HashSize
PowBody(g, n) == IF n = 0 THEN 1 ELSE IF n = 1 THEN p ELSE Squared(g[n \div 2], n)

LEMMA MyPowUnfolds == \A n \in 0 .. Kgrams : myPow[n] = PowBody(myPow, n)
<1> DEFINE IsPow(g, N) == g = [n \in 0 .. N |-> PowBody(g, n)]
           Reached == {N \in Nat : \E g : IsPow(g, N)}
<1>1. \A n \in Nat : n # 0 /\ n # 1 => n \div 2 \in Nat /\ n \div 2 < n
  OBVIOUS
<1>2. 0 \in Reached
  <2>1. IsPow([n \in 0 .. 0 |-> 1], 0)
    BY DEF PowBody
  <2> QED
    BY <2>1
<1>3. ASSUME NEW N \in Nat, N \in Reached PROVE N + 1 \in Reached
  <2>1. PICK g : IsPow(g, N)
    BY <1>3
  <2> DEFINE e == [n \in 0 .. N + 1 |-> IF n <= N THEN g[n] ELSE PowBody(g, N + 1)]
  <2>2. ASSUME NEW n \in 0 .. N + 1 PROVE e[n] = PowBody(e, n)
    <3>1. e[n] = PowBody(g, n)
      <4>1. CASE n <= N
        <5>1. n \in 0 .. N /\ e[n] = g[n]
          BY <4>1
        <5> HIDE DEF e
        <5> QED
          BY <2>1, <5>1
      <4>2. CASE n = N + 1
        <5>1. e[N + 1] = PowBody(g, N + 1)
          OBVIOUS
        <5> HIDE DEF e
        <5> QED
          BY <4>2, <5>1
      <4> QED
        BY <4>1, <4>2
    <3>2. n # 0 /\ n # 1 => e[n \div 2] = g[n \div 2]
      <4> SUFFICES ASSUME n # 0, n # 1 PROVE e[n \div 2] = g[n \div 2]
        OBVIOUS
      <4>1. n \in Nat /\ n \div 2 \in Nat /\ n \div 2 < n
        BY <1>1
      <4>2. n \div 2 \in 0 .. N + 1 /\ n \div 2 <= N
        BY <4>1
      <4> QED
        BY <4>2
    <3> HIDE DEF e
    <3> QED
      BY <3>1, <3>2 DEF PowBody
  <2>3. e = [n \in 0 .. N + 1 |-> e[n]]
    OBVIOUS
  <2> HIDE DEF e
  <2>4. IsPow(e, N + 1)
    BY <2>2, <2>3
  <2> QED
    BY <2>4
<1>4. Kgrams \in Reached
  <2> HIDE DEF Reached
  <2>1. Kgrams \in Nat
    BY SizeAssumption
  <2> QED
    BY <1>2, <1>3, <2>1, NatsByInduction
<1>5. myPow = CHOOSE g : IsPow(g, Kgrams)
  BY DEF myPow, PowBody, Squared
<1>6. IsPow(myPow, Kgrams)
  <2> HIDE DEF IsPow
  <2> QED
    BY <1>4, <1>5
<1> QED
  BY <1>6

\* myPow is the power, but for the remainder.
LEMMA MyPowIsPower ==
    ASSUME NEW P, Powers(P), NEW n \in 0 .. Kgrams
    PROVE  myPow[n] \in Int /\ myPow[n] % HashSize = P[n] % HashSize
<1> DEFINE Right(i) == myPow[i] \in Int /\ myPow[i] % HashSize = P[i] % HashSize
           Good == {N \in Nat : \A i \in 0 .. N : i <= Kgrams => Right(i)}
<1>1. Kgrams \in Nat /\ p \in Int /\ \A i \in Nat : P[i] \in Int
  BY SizeAssumption, HashSizePositive DEF Powers
<1>2. Right(0) /\ (1 <= Kgrams => Right(1))
  <2>1. P[0] = 1 /\ P[1] = p
    <3>1. P[0 + 1] = P[0] * p
      BY DEF Powers
    <3> QED
      BY <1>1, <3>1 DEF Powers
  <2>2. myPow[0] = 1 /\ (1 <= Kgrams => myPow[1] = p)
    BY <1>1, MyPowUnfolds DEF PowBody
  <2> QED
    BY <1>1, <2>1, <2>2
<1>3. 0 \in Good
  BY <1>2
<1>4. ASSUME NEW N \in Nat, N \in Good PROVE N + 1 \in Good
  <2> SUFFICES ASSUME N + 1 <= Kgrams PROVE Right(N + 1)
    BY <1>4
  <2> DEFINE k == N + 1
             i == k \div 2
             t == myPow[i]
             q == P[i]
  <2>1. CASE N = 0
    BY <1>2, <2>1
  <2>2. CASE N # 0
    <3>1. /\ k \in Nat /\ i \in Nat /\ i <= N /\ i <= Kgrams /\ k # 0 /\ k # 1
          /\ k % 2 = 0 => k = i + i
          /\ k % 2 # 0 => k = (i + i) + 1
      BY <1>1, <2>2
    <3> HIDE DEF i, Right
    <3>2. Right(i)
      BY <1>4, <3>1
    <3>3. t \in Int /\ q \in Int /\ t % HashSize = q % HashSize
      BY <1>1, <3>1, <3>2 DEF Right
    <3>4. myPow[k] = Squared(t, k)
      BY <1>1, <3>1, MyPowUnfolds DEF PowBody, i
    <3>5. P[i + i] = q * q /\ P[(i + i) + 1] = (q * q) * p
      <4>1. P[i + i] = q * q
        BY <3>1, PowersAdd
      <4>2. P[(i + i) + 1] = P[i + i] * p
        BY <3>1 DEF Powers
      <4> QED
        BY <4>1, <4>2
    <3> HIDE DEF t, q, k
    <3>6. t * t \in Int /\ q * q \in Int /\ t * q \in Int
          /\ (t * t) * p \in Int /\ (q * q) * p \in Int
      BY <1>1, <3>3
    <3>7. (t * t) % HashSize = (q * q) % HashSize
      <4>1. (t * t) % HashSize = (q * t) % HashSize
        BY <3>3, FactorsModulo
      <4>2. (t * q) % HashSize = (q * q) % HashSize
        BY <3>3, FactorsModulo
      <4>3. q * t = t * q
        BY <3>3
      <4> QED
        BY <4>1, <4>2, <4>3
    <3>8. ((t * t) * p) % HashSize = ((q * q) * p) % HashSize
      BY <1>1, <3>6, <3>7, FactorsModulo
    <3>9. p * t * t = (t * t) * p
      BY <1>1, <3>3
    <3>10. CASE k % 2 = 0
      <4>1. myPow[k] = (t * t) % HashSize /\ P[k] = q * q
        BY <3>1, <3>4, <3>5, <3>10 DEF Squared
      <4> QED
        BY <3>6, <3>7, <4>1, HashSizePositive DEF Right, k
    <3>11. CASE k % 2 # 0
      <4>1. myPow[k] = ((t * t) * p) % HashSize /\ P[k] = (q * q) * p
        BY <3>1, <3>4, <3>5, <3>9, <3>11 DEF Squared
      <4> QED
        BY <3>6, <3>8, <4>1, HashSizePositive DEF Right, k
    <3> QED
      BY <3>10, <3>11
  <2> QED
    BY <2>1, <2>2
<1>5. n \in Good /\ n \in 0 .. n
  <2> HIDE DEF Good
  <2> QED
    BY <1>1, <1>3, <1>4, NatsByInduction
<1> QED
  BY <1>5

\* The first character of a stretch weighs as much as the power of what follows it.
LEMMA FirstCharacter ==
    ASSUME NEW f \in Seq(Int), NEW a \in 1 .. Len(f),
           NEW G, Hashing(G, f, a), NEW D, Hashing(D, f, a + 1), NEW P, Powers(P),
           NEW m \in Nat, a + m <= Len(f)
    PROVE  G[m + 1] % HashSize = (f[a] * P[m] + D[m]) % HashSize
<1> DEFINE Good == {i \in Nat : a + i <= Len(f) =>
                        G[i + 1] % HashSize = (f[a] * P[i] + D[i]) % HashSize}
<1>1. Len(f) \in Nat /\ \A i \in 1 .. Len(f) : f[i] \in Int
  OBVIOUS
<1>2. 0 \in Good
  <2>1. G[0 + 1] = (G[0] * p + f[a + 0]) % HashSize /\ G[0] = 0
    BY <1>1 DEF Hashing
  <2>2. P[0] = 1 /\ D[0] = 0 /\ p \in Int
    BY HashSizePositive DEF Powers, Hashing
  <2>3. G[0 + 1] = f[a] % HashSize /\ f[a] * P[0] + D[0] = f[a] /\ f[a] \in Int
    BY <1>1, <2>1, <2>2
  <2> QED
    BY <2>3, HashSizePositive
<1>3. ASSUME NEW i \in Nat, i \in Good PROVE i + 1 \in Good
  <2> SUFFICES ASSUME a + (i + 1) <= Len(f)
               PROVE  G[(i + 1) + 1] % HashSize
                        = (f[a] * P[i + 1] + D[i + 1]) % HashSize
    OBVIOUS
  <2> DEFINE c == f[a + (i + 1)]
             g == G[i + 1]
             q == P[i]
             d == D[i]
             b == f[a]
  <2>1. c \in Int /\ b \in Int /\ g \in Int /\ q \in Int /\ d \in Int /\ p \in Int
    <3>1. a + (i + 1) \in 1 .. Len(f) /\ i + 1 \in Nat
      BY <1>1
    <3>2. c \in Int /\ b \in Int
      BY <1>1, <3>1
    <3> QED
      BY <3>1, <3>2, HashSizePositive DEF Hashing, Powers
  <2>2. G[(i + 1) + 1] = (g * p + c) % HashSize
    BY DEF Hashing
  <2>3. D[i + 1] = (d * p + c) % HashSize
    <3>1. (a + 1) + i = a + (i + 1)
      OBVIOUS
    <3> QED
      BY <1>1, <3>1 DEF Hashing
  <2>4. P[i + 1] = q * p
    BY DEF Powers
  <2>5. g % HashSize = (b * q + d) % HashSize
    <3>1. a + i <= Len(f)
      BY <1>1
    <3> QED
      BY <1>3, <3>1
  <2> HIDE DEF c, g, q, d
  <2>6. /\ b * q + d \in Int /\ g * p \in Int /\ (b * q + d) * p \in Int
        /\ g * p + c \in Int /\ d * p + c \in Int /\ b * (q * p) \in Int
    <3> HIDE DEF b
    <3> QED
      BY <2>1
  <2>7. (g * p) % HashSize = ((b * q + d) * p) % HashSize
    <3> DEFINE e == b * q + d
    <3>1. e \in Int /\ g % HashSize = e % HashSize
      BY <2>5, <2>6
    <3> HIDE DEF e
    <3>2. (g * p) % HashSize = (e * p) % HashSize
      BY <2>1, <3>1, FactorsModulo
    <3> QED
      BY <3>2 DEF e
  <2>8. (g * p + c) % HashSize = ((b * q + d) * p + c) % HashSize
    <3> DEFINE x == g * p
               y == (b * q + d) * p
    <3>1. x \in Int /\ y \in Int /\ c \in Int /\ x % HashSize = y % HashSize
      BY <2>1, <2>6, <2>7
    <3> HIDE DEF x, y, Good
    <3>2. (x + c) % HashSize = (y + c) % HashSize
      BY <3>1, TermsModulo
    <3> QED
      BY <3>2 DEF x, y
  <2>9. (b * q + d) * p + c = (d * p + c) + b * (q * p)
    <3> HIDE DEF b
    <3> QED
      BY <2>1
  <2>10. ((d * p + c) + b * (q * p)) % HashSize
           = (((d * p + c) % HashSize) + b * (q * p)) % HashSize
    <3>1. /\ ((d * p + c) % HashSize) \in Int
          /\ ((d * p + c) % HashSize) % HashSize = (d * p + c) % HashSize
      BY <2>6, HashSizePositive
    <3> HIDE DEF b
    <3> QED
      BY <2>6, <3>1, TermsModulo
  <2>11. b * (q * p) + D[i + 1] = ((d * p + c) % HashSize) + b * (q * p)
    <3>1. ((d * p + c) % HashSize) \in Int
      BY <2>6, HashSizePositive
    <3> HIDE DEF b
    <3> QED
      BY <2>3, <2>6, <3>1
  <2>12. G[(i + 1) + 1] % HashSize = (g * p + c) % HashSize
    BY <2>2, <2>6, HashSizePositive
  <2> HIDE DEF b
  <2>13. (g * p + c) % HashSize = (b * P[i + 1] + D[i + 1]) % HashSize
    BY <2>4, <2>8, <2>9, <2>10, <2>11
  <2> QED
    BY <2>12, <2>13 DEF b
<1>4. m \in Good
  <2> HIDE DEF Good
  <2> QED
    BY <1>2, <1>3, NatsByInduction
<1> QED
  BY <1>4

-----------------------------------------------------------------------------
(* Slots and windows.                                                      *)

\* Two positions in one window have different slots.
LEMMA SlotsDiffer ==
    ASSUME NEW x \in Int, NEW y \in Int, x < y, y - x < w
    PROVE  /\ x % w \in 0 .. w - 1 /\ y % w \in 0 .. w - 1
           /\ x % w # y % w
<1>1. w \in Nat /\ w > 0
  BY WindowType
<1>2. /\ x % w \in 0 .. w - 1 /\ x = w * (x \div w) + (x % w) /\ x \div w \in Int
      /\ y % w \in 0 .. w - 1 /\ y = w * (y \div w) + (y % w) /\ y \div w \in Int
  BY <1>1
<1>3. ASSUME x % w = y % w PROVE FALSE
  <2> DEFINE d == (y \div w) - (x \div w)
  <2>1. d \in Int /\ y - x = w * d
    BY <1>1, <1>2, <1>3
  <2> HIDE DEF d
  <2>2. CASE d <= 0
    BY <1>1, <2>1, <2>2
  <2>3. CASE d >= 1
    BY <1>1, <2>1, <2>3
  <2> QED
    BY <2>1, <2>2, <2>3
<1> QED
  BY <1>2, <1>3

\* The rightmost minimum of a window stays it when a greater hash comes in and it has
\* not left; a hash that is no greater takes its place.
LEMMA WindowMoves ==
    ASSUME NEW f \in Content, NEW x \in 1 .. Len(f), x + 1 \in 1 .. Len(f),
           NEW m, IsWindowMin(f, m, x)
    PROVE  /\ NextHash(f, x + 1) <= NextHash(f, m) => IsWindowMin(f, x + 1, x + 1)
           /\ (m > x + 1 - w /\ ~(NextHash(f, x + 1) <= NextHash(f, m)))
                  => IsWindowMin(f, m, x + 1)
<1>1. f \in Seq(Char) /\ x \in Int
  BY SizeAssumption DEF Content, StringOf
<1>2. \A i \in Window(x) \cup {x + 1} : i \in Int /\ i <= x + 1 /\ NextHash(f, i) \in Int
  BY <1>1, HashesInRange, HashAssumption DEF Window
<1>3. \A i \in Window(x + 1) : i \in Window(x) \/ i = x + 1
  BY <1>1, WindowType DEF Window
<1>4. x + 1 \in Window(x + 1)
  BY <1>1, WindowType DEF Window
<1>5. m \in Window(x) /\ m > x + 1 - w => m \in Window(x + 1)
  BY <1>1, WindowType DEF Window
<1>6. \A i \in Window(x) : i < x + 1
  BY <1>1 DEF Window
<1>7. CASE NextHash(f, x + 1) <= NextHash(f, m)
  BY <1>2, <1>3, <1>4, <1>6, <1>7 DEF IsWindowMin
<1>8. CASE m > x + 1 - w /\ ~(NextHash(f, x + 1) <= NextHash(f, m))
  BY <1>2, <1>3, <1>5, <1>6, <1>8 DEF IsWindowMin
<1> QED
  BY <1>7, <1>8

-----------------------------------------------------------------------------
(* The inductive invariant.                                                *)

Counters ==
    /\ buf \in Content /\ DOMAIN h = 0 .. w - 1
    /\ r \in Nat /\ 1 <= r /\ r - 1 <= Len(buf) /\ curr_pos = r - 1
    /\ hashes \in Seq(Int) /\ min \in Int

\* One call of next_hash: the hash of a k-gram becomes that of the next.
LEMMA CallRollsOn ==
    ASSUME Counters, NextHashCall, RollingHashIsLocal
    PROVE  RollingHashIsLocal'
<1> DEFINE c == curr_pos
           K == Kgrams
           a == c - K + 1
<1>1. /\ w \in Nat /\ K \in Nat /\ K > 0 /\ buf \in Content /\ c \in Nat
      /\ c + 1 = r /\ r < Len(buf) - w
      /\ last_hash' = next_hash /\ curr_pos' = c + 1 /\ buf' = buf
  BY WindowType, SizeAssumption DEF Counters, NextHashCall
<1>2. buf \in Seq(Int) /\ Len(buf) \in Nat /\ \A i \in 1 .. Len(buf) : buf[i] \in Int
  <2>1. buf \in Seq(Char)
    BY <1>1, SizeAssumption DEF Content, StringOf
  <2>2. Len(buf) \in Nat /\ \A i \in 1 .. Len(buf) : buf[i] \in Char
    BY <2>1
  <2>3. \A i \in 1 .. Len(buf) : buf[i] \in Int
    BY <2>2, RollingAssumption
  <2>4. buf \in [1 .. Len(buf) -> Int]
    BY <2>1, <2>3
  <2> QED
    BY <2>2, <2>3, <2>4
<1>3. c + 1 \in 1 .. Len(buf) /\ (c > 0 => c \in 1 .. Len(buf))
  BY <1>1, <1>2
<1>4. \A x \in 1 .. Len(buf) : NextHash(buf, x) = HashOf(SubSeq(buf, Start(x), x))
  BY <1>1, GramAt, RollingAssumption DEF NextHash, Start
<1>5. last_hash' = NextHash(buf, c + 1)
  <2>1. CASE c < K
    <3>1. Start(c + 1) = 1
      BY <1>1, <2>1 DEF Start
    <3>2. next_hash = HashOf(SubSeq(buf, 1, c + 1))
      BY <2>1 DEF next_hash
    <3> QED
      BY <1>1, <1>3, <1>4, <3>1, <3>2
  <2>2. CASE c >= K
    <3>1. /\ Start(c) = a /\ Start(c + 1) = a + 1 /\ c > 0
          /\ a \in 1 .. Len(buf) /\ a + 1 \in 1 .. Len(buf) /\ a \in Nat
          /\ c \in a .. Len(buf) /\ c + 1 \in a + 1 .. Len(buf)
          /\ c - a + 1 = K /\ (c + 1) - (a + 1) + 1 = K /\ a + K = c + 1
          /\ a + K <= Len(buf) /\ (a + 1) + (K - 1) <= Len(buf) /\ K - 1 \in Nat
      BY <1>1, <1>3, <2>2 DEF Start
    <3>2. PICK G : Hashing(G, buf, a)
      <4> HIDE DEF a
      <4> QED
        BY <1>2, <3>1, HashingExists
    <3>3. PICK D : Hashing(D, buf, a + 1)
      <4> DEFINE a1 == a + 1
      <4>1. a1 \in Nat /\ a1 > 0
        <5> HIDE DEF a
        <5> QED
          BY <3>1
      <4> HIDE DEF a1
      <4>2. \E D : Hashing(D, buf, a1)
        BY <1>2, <4>1, HashingExists
      <4> QED
        BY <4>2 DEF a1
    <3>4. PICK P : Powers(P)
      BY PowersExist
    <3> DEFINE b == buf[a]
               e == buf[c + 1]
               g == G[K]
               d == D[K]
               q == P[K]
               t == myPow[K]
    <3>5. last_hash = g /\ NextHash(buf, c + 1) = d
      <4>1. HashOf(SubSeq(buf, a, c)) = G[c - a + 1]
        <5> HIDE DEF a, c
        <5> QED
          BY <1>2, <3>1, <3>2, HashOfStretch
      <4>2. HashOf(SubSeq(buf, a + 1, c + 1)) = D[(c + 1) - (a + 1) + 1]
        <5> DEFINE a1 == a + 1
                   c1 == c + 1
        <5>1. a1 \in 1 .. Len(buf) /\ c1 \in a1 .. Len(buf) /\ Hashing(D, buf, a1)
          BY <3>1, <3>3
        <5> HIDE DEF a1, c1
        <5>2. HashOf(SubSeq(buf, a1, c1)) = D[c1 - a1 + 1]
          BY <1>2, <5>1, HashOfStretch
        <5> QED
          BY <5>2 DEF a1, c1
      <4>3. last_hash = NextHash(buf, c)
        BY <3>1 DEF RollingHashIsLocal
      <4> QED
        BY <1>3, <1>4, <3>1, <4>1, <4>2, <4>3
    <3>6. /\ b \in Int /\ e \in Int /\ g \in Int /\ d \in Int /\ q \in Int
          /\ t \in Int /\ p \in Int /\ t % HashSize = q % HashSize
      <4>1. b \in Int /\ e \in Int
        BY <1>2, <1>3, <3>1
      <4>2. g \in Int /\ d \in Int /\ q \in Int
        BY <1>1, <3>2, <3>3, <3>4 DEF Hashing, Powers
      <4>3. t \in Int /\ t % HashSize = q % HashSize
        BY <1>1, <3>4, MyPowIsPower
      <4> QED
        BY <4>1, <4>2, <4>3, HashSizePositive
    <3>7. next_hash = (g * p - b * t + e) % HashSize
      <4>1. ~(curr_pos < Kgrams) /\ curr_pos - Kgrams + 1 = a /\ curr_pos + 1 = c + 1
        BY <1>1, <2>2
      <4> QED
        BY <3>5, <4>1 DEF next_hash, Char0
    <3>8. (g * p + e) % HashSize = (b * q + d) % HashSize
      <4>1. G[K + 1] = (G[K] * p + buf[a + K]) % HashSize
        BY <1>1, <3>1, <3>2 DEF Hashing
      <4>2. G[K + 1] % HashSize = (buf[a] * P[K] + D[K]) % HashSize
        <5>1. K \in Nat /\ a \in 1 .. Len(buf) /\ a + K <= Len(buf)
          BY <1>1, <3>1
        <5> HIDE DEF a, K
        <5> QED
          BY <1>2, <3>2, <3>3, <3>4, <5>1, FirstCharacter
      <4>3. G[K + 1] = (g * p + e) % HashSize
        BY <3>1, <4>1
      <4>4. g * p + e \in Int
        BY <3>6
      <4> QED
        BY <4>2, <4>3, <4>4, HashSizePositive
    <3>9. d % HashSize = d
      <4>1. D[(K - 1) + 1] = (D[K - 1] * p + buf[(a + 1) + (K - 1)]) % HashSize
        BY <3>1, <3>3 DEF Hashing
      <4>2. (K - 1) + 1 = K /\ (a + 1) + (K - 1) = c + 1
        BY <1>1, <3>1
      <4>3. D[K - 1] * p + e \in Int
        <5>1. D[K - 1] \in Int
          BY <3>1, <3>3 DEF Hashing
        <5> QED
          BY <3>6, <5>1
      <4> QED
        BY <4>1, <4>2, <4>3, HashSizePositive
    <3> HIDE DEF b, e, g, d, q, t
    <3>10. (g * p - b * t + e) % HashSize = d
      <4> DEFINE u == g * p + e
                 v == b * q + d
                 x == (-1) * (b * t)
                 y == (-1) * (b * q)
      <4>1. /\ u \in Int /\ v \in Int /\ x \in Int /\ y \in Int /\ d \in Int
            /\ u + x = g * p - b * t + e /\ v + y = d
            /\ u % HashSize = v % HashSize
        BY <3>6, <3>8
      <4>2. x % HashSize = y % HashSize
        <5> DEFINE k == (-1) * b
        <5>1. \A i, j \in Int : i * ((-1) * j) = (-1) * (j * i)
          OBVIOUS
        <5>2. k \in Int /\ t * k = x /\ q * k = y
          BY <3>6, <5>1
        <5> HIDE DEF k, x, y
        <5>3. (t * k) % HashSize = (q * k) % HashSize
          BY <3>6, <5>2, FactorsModulo
        <5> QED
          BY <5>2, <5>3
      <4> HIDE DEF u, v, x, y
      <4>3. (u + x) % HashSize = (v + x) % HashSize
        BY <4>1, TermsModulo
      <4>4. (x + v) % HashSize = (y + v) % HashSize
        BY <4>1, <4>2, TermsModulo
      <4>5. v + x = x + v /\ v + y = y + v
        BY <4>1
      <4> QED
        BY <3>9, <4>1, <4>3, <4>4, <4>5
    <3> QED
      BY <1>1, <3>5, <3>7, <3>10
  <2> QED
    BY <1>1, <2>1, <2>2
<1> QED
  BY <1>1, <1>5 DEF RollingHashIsLocal

\* Each position of the current window has its hash in its slot.
WindowHolds ==
    /\ r = 1 => h[0] = MaxHash
    /\ \A x \in Window(r - 1) : h[x % w] = NextHash(buf, x)

\* min is the rightmost minimum of the current window, and was pushed last.
MinIsRightmost ==
    IF r = 1 THEN min = 0 /\ hashes = << >>
    ELSE /\ IsWindowMin(buf, min, r - 1)
         /\ hashes # << >> /\ hashes[Len(hashes)] = min

IInv ==
    /\ Counters /\ RollingHashIsLocal
    /\ WindowHolds /\ MinIsRightmost /\ CutsAreWindowMinima

LEMMA InitHolds == Init => IInv
<1> SUFFICES ASSUME Init PROVE IInv
  OBVIOUS
<1>1. w \in Nat /\ w > 0
  BY WindowType
<1>2. buf \in Seq(Char)
  BY SizeAssumption DEF Init, Content, StringOf
<1>3. Counters
  <2>1. buf \in Content
    BY SizeAssumption DEF Init
  <2> QED
    BY <1>1, <1>2, <2>1 DEF Init, Counters
<1>4. WindowHolds
  BY <1>1 DEF Init, WindowHolds, Window
<1>5. MinIsRightmost
  BY DEF Init, MinIsRightmost
<1>6. CutsAreWindowMinima
  BY DEF Init, CutsAreWindowMinima
<1>7. RollingHashIsLocal
  BY DEF Init, RollingHashIsLocal
<1> QED
  BY <1>3, <1>4, <1>5, <1>6, <1>7 DEF IInv

\* A call of next_hash fills the slot of r, and spares those of the window's rest.
LEMMA CallFillsSlot ==
    ASSUME IInv, NextHashCall
    PROVE  /\ r \in 1 .. Len(buf) /\ buf' = buf /\ r' = r + 1
           /\ r % w \in 0 .. w - 1
           /\ h'[r % w] = NextHash(buf, r)
           /\ \A x \in Window(r) : h'[x % w] = NextHash(buf, x)
           /\ \A x \in Window(r - 1) : x % w # r % w => h'[x % w] = h[x % w]
           /\ r = 1 /\ w > 1 => h'[0] = MaxHash
           /\ curr_pos' = r /\ DOMAIN h' = 0 .. w - 1
           /\ RollingHashIsLocal'
<1>1. w \in Nat /\ w > 0
  BY WindowType
<1>2. /\ r \in Nat /\ 1 <= r /\ curr_pos = r - 1 /\ DOMAIN h = 0 .. w - 1
      /\ buf \in Seq(Char)
  BY SizeAssumption DEF IInv, Counters, Content, StringOf
<1>3. /\ r < Len(buf) - w /\ buf' = buf /\ r' = r + 1 /\ curr_pos' = r
      /\ h' = [h EXCEPT ![r % w] = last_hash']
  BY <1>2 DEF NextHashCall
<1>4. r \in 1 .. Len(buf)
  BY <1>1, <1>2, <1>3
<1>5. r % w \in 0 .. w - 1
  BY <1>1, <1>2
<1>6. RollingHashIsLocal'
  BY CallRollsOn DEF IInv
<1>7. last_hash' = NextHash(buf, r)
  BY <1>2, <1>3, <1>6 DEF RollingHashIsLocal
<1>8. h'[r % w] = NextHash(buf, r) /\ DOMAIN h' = 0 .. w - 1
  BY <1>2, <1>3, <1>5, <1>7
<1>9. \A n \in DOMAIN h : n # r % w => h'[n] = h[n]
  BY <1>3
<1>10. ASSUME NEW x \in Window(r), x # r
      PROVE  h'[x % w] = NextHash(buf, x)
  <2>1. x \in Window(r - 1) /\ x \in Int /\ x < r /\ r - x < w
    BY <1>1, <1>2, <1>10 DEF Window
  <2>2. x % w \in 0 .. w - 1 /\ x % w # r % w
    BY <1>2, <2>1, SlotsDiffer
  <2> QED
    BY <1>2, <1>9, <2>1, <2>2 DEF IInv, WindowHolds
<1>11. ASSUME NEW x \in Window(r - 1), x % w # r % w
       PROVE  h'[x % w] = h[x % w]
  <2>1. x % w \in 0 .. w - 1
    BY <1>1, <1>2 DEF Window
  <2> QED
    BY <1>2, <1>9, <1>11, <2>1
<1>12. ASSUME r = 1, w > 1 PROVE h'[0] = MaxHash
  <2>1. 1 % w = 1 /\ 0 \in 0 .. w - 1
    BY <1>1, <1>12
  <2> QED
    BY <1>2, <1>9, <1>12, <2>1 DEF IInv, WindowHolds
<1> QED
  BY <1>3, <1>4, <1>5, <1>8, <1>10, <1>11, <1>12, <1>6

\* The scan of the window finds its rightmost minimum.
LEMMA ScanFindsMinimum ==
    ASSUME IInv, r \in 1 .. Len(buf), r >= w, NEW win,
           \A x \in Window(r) : win[x % w] = NextHash(buf, x)
    PROVE  IsWindowMin(buf, RightmostMin(win), r)
<1> DEFINE Found(j) == /\ \A i \in 0 .. w - 1 : win[(r - j) % w] <= win[(r - i) % w]
                       /\ \A i \in 0 .. j - 1 : win[(r - j) % w] < win[(r - i) % w]
<1>1. w \in Nat /\ w > 0 /\ r \in Nat /\ buf \in Content
  BY WindowType DEF IInv, Counters
<1>2. \A i \in 0 .. w - 1 : r - i \in Window(r) /\ win[(r - i) % w] = NextHash(buf, r - i)
  <2>1. \A i \in 0 .. w - 1 : r - i \in Window(r)
    BY <1>1 DEF Window
  <2> QED
    BY <2>1
<1>3. \A x \in Window(r) : x \in Int /\ r - x \in 0 .. w - 1 /\ r - (r - x) = x
  BY <1>1 DEF Window
<1>4. \A i \in 0 .. w - 1 : Found(i) <=> IsWindowMin(buf, r - i, r)
  <2> TAKE i \in 0 .. w - 1
  <2>1. ASSUME Found(i) PROVE IsWindowMin(buf, r - i, r)
    <3>1. \A x \in Window(r) : NextHash(buf, r - i) <= NextHash(buf, x)
      BY <1>2, <1>3, <2>1
    <3>2. ASSUME NEW x \in Window(r), x > r - i
          PROVE  NextHash(buf, r - i) < NextHash(buf, x)
      <4>1. r - x \in 0 .. i - 1
        BY <1>1, <1>3, <3>2
      <4>2. win[(r - i) % w] < win[(r - (r - x)) % w]
        BY <2>1, <4>1
      <4> QED
        BY <1>2, <1>3, <4>2
    <3> QED
      BY <1>2, <3>1, <3>2 DEF IsWindowMin
  <2>2. ASSUME IsWindowMin(buf, r - i, r) PROVE Found(i)
    <3>1. \A k \in 0 .. w - 1 : win[(r - i) % w] <= win[(r - k) % w]
      BY <1>2, <2>2 DEF IsWindowMin
    <3>2. ASSUME NEW k \in 0 .. i - 1
          PROVE  win[(r - i) % w] < win[(r - k) % w]
      <4>1. k \in 0 .. w - 1 /\ r - k > r - i
        BY <1>1
      <4> QED
        BY <1>2, <2>2, <4>1 DEF IsWindowMin
    <3> QED
      BY <3>1, <3>2
  <2> QED
    BY <2>1, <2>2
<1>5. PICK m : IsWindowMin(buf, m, r)
  BY <1>1, WindowMinExists
<1>6. r - m \in 0 .. w - 1 /\ r - (r - m) = m
  BY <1>3, <1>5 DEF IsWindowMin
<1>7. \E j \in 0 .. w - 1 : Found(j)
  BY <1>4, <1>5, <1>6
<1>8. PICK j \in 0 .. w - 1 : Found(j) /\ RightmostMin(win) = r - j
  BY <1>7 DEF RightmostMin
<1> QED
  BY <1>4, <1>8

\* Pushing the rightmost minimum of the window that ends at r.
LEMMA PushKeepsOrder ==
    ASSUME IInv, NextHashCall, NEW m, Push(m),
           IsWindowMin(buf, m, r), r > 1 => m > min
    PROVE  IInv'
<1>1. /\ r \in Nat /\ 1 <= r /\ r \in 1 .. Len(buf) /\ buf \in Content
      /\ hashes \in Seq(Int) /\ min \in Int
  BY CallFillsSlot DEF IInv, Counters
<1>2. /\ buf' = buf /\ r' = r + 1 /\ curr_pos' = r' - 1 /\ r' - 1 = r
      /\ DOMAIN h' = 0 .. w - 1
  BY <1>1, CallFillsSlot
<1>3. m \in Int /\ min' = m /\ hashes' = Append(hashes, m)
  BY <1>1 DEF Push, IsWindowMin, Window
<1>4. /\ Len(hashes) \in Nat /\ Len(hashes') = Len(hashes) + 1
      /\ hashes' \in Seq(Int) /\ hashes'[Len(hashes) + 1] = m
      /\ \A i \in 1 .. Len(hashes) : hashes'[i] = hashes[i]
  BY <1>1, <1>3
<1>5. Counters'
  BY <1>1, <1>2, <1>3, <1>4 DEF Counters
<1>6. WindowHolds'
  <2>1. r' # 1
    BY <1>1, <1>2
  <2>2. \A x \in Window(r) : h'[x % w] = NextHash(buf, x)
    BY CallFillsSlot
  <2> QED
    BY <1>2, <2>1, <2>2 DEF WindowHolds, Window
<1>7. MinIsRightmost'
  <2>1. r' # 1 /\ hashes' # << >>
    BY <1>1, <1>2, <1>4
  <2> QED
    BY <1>2, <1>3, <1>4, <2>1 DEF MinIsRightmost, IsWindowMin, Window
<1>8. WindowMin(buf, r) = m
  BY <1>1, WindowMinUnique
<1>9. {hashes'[i] : i \in DOMAIN hashes'} = {WindowMin(buf', x) : x \in 1 .. r' - 1}
  <2>1. {hashes'[i] : i \in DOMAIN hashes'} = {hashes[i] : i \in DOMAIN hashes} \cup {m}
    <3>1. DOMAIN hashes = 1 .. Len(hashes) /\ DOMAIN hashes' = 1 .. Len(hashes) + 1
      BY <1>1, <1>4
    <3>2. 1 .. Len(hashes) + 1 = (1 .. Len(hashes)) \cup {Len(hashes) + 1}
      BY <1>4
    <3> QED
      BY <1>4, <3>1, <3>2
  <2>2. 1 .. r' - 1 = (1 .. r - 1) \cup {r}
    BY <1>1, <1>2
  <2>3. {hashes[i] : i \in DOMAIN hashes} = {WindowMin(buf, x) : x \in 1 .. r - 1}
    BY DEF IInv, CutsAreWindowMinima
  <2> QED
    BY <1>2, <1>8, <2>1, <2>2, <2>3
<1>10. \A i \in 2 .. Len(hashes') : hashes'[i - 1] < hashes'[i]
  <2>1. \A i \in 2 .. Len(hashes) : hashes[i - 1] < hashes[i]
    BY DEF IInv, CutsAreWindowMinima
  <2>2. Len(hashes) >= 1 => hashes[Len(hashes)] < m
    BY <1>1, <1>3 DEF IInv, MinIsRightmost
  <2> TAKE i \in 2 .. Len(hashes')
  <2>3. CASE i = Len(hashes) + 1
    <3>1. i - 1 = Len(hashes) /\ i - 1 \in 1 .. Len(hashes) /\ Len(hashes) >= 1
      BY <1>4, <2>3
    <3> QED
      BY <1>4, <2>2, <2>3, <3>1
  <2>4. CASE i # Len(hashes) + 1
    <3>1. i \in 2 .. Len(hashes) /\ i - 1 \in 1 .. Len(hashes) /\ i \in 1 .. Len(hashes)
      BY <1>4, <2>4
    <3> QED
      BY <1>4, <2>1, <3>1
  <2> QED
    BY <2>3, <2>4
<1>11. RollingHashIsLocal'
  BY <1>1, CallFillsSlot
<1> QED
  BY <1>5, <1>6, <1>7, <1>9, <1>10, <1>11 DEF IInv, CutsAreWindowMinima

\* The slot of r is that of min: the minimum has left, and the window is full.
LEMMA MinimumLeaves ==
    ASSUME IInv, min % w = r % w
    PROVE  r >= w /\ (r > 1 => min = r - w)
<1>1. w \in Nat /\ w > 0 /\ r \in Nat /\ 1 <= r
  BY WindowType DEF IInv, Counters
<1>2. CASE r = 1
  <2>1. min = 0
    BY <1>2 DEF IInv, MinIsRightmost
  <2>2. CASE w > 1
    BY <1>1, <1>2, <2>1, <2>2, SlotsDiffer
  <2> QED
    BY <1>1, <1>2, <2>2
<1>3. CASE r > 1
  <2>1. min \in Int /\ 1 <= min /\ min < r /\ r - min <= w
    BY <1>1, <1>3 DEF IInv, MinIsRightmost, IsWindowMin, Window
  <2>2. CASE r - min < w
    BY <1>1, <2>1, <2>2, SlotsDiffer
  <2> QED
    BY <1>1, <2>1, <2>2
<1> QED
  BY <1>1, <1>2, <1>3

LEMMA RescanHolds ==
    ASSUME IInv, Rescan
    PROVE  IInv'
<1> DEFINE m == RightmostMin(h')
<1>1. NextHashCall /\ min % w = r % w /\ Push(m)
  BY DEF Rescan
<1>2. /\ w \in Nat /\ w > 0 /\ r \in Nat
      /\ r >= w /\ (r > 1 => min = r - w)
  BY <1>1, MinimumLeaves, WindowType DEF IInv, Counters
<1>3. r \in 1 .. Len(buf) /\ \A x \in Window(r) : h'[x % w] = NextHash(buf, x)
  BY <1>1, CallFillsSlot
<1>4. IsWindowMin(buf, m, r)
  BY <1>2, <1>3, ScanFindsMinimum
<1> HIDE DEF m
<1>5. r > 1 => m > min
  BY <1>2, <1>4 DEF IsWindowMin, Window
<1> QED
  BY <1>1, <1>4, <1>5, PushKeepsOrder

\* While min is in the window its slot holds its hash, except before the first.
LEMMA MinimumStays ==
    ASSUME IInv, NextHashCall, min % w # r % w, r > 1
    PROVE  /\ h'[min % w] = NextHash(buf, min) /\ h'[r % w] = NextHash(buf, r)
           /\ min > r - w /\ min < r
           /\ r - 1 \in 1 .. Len(buf) /\ IsWindowMin(buf, min, r - 1)
<1>1. w \in Nat /\ w > 0 /\ r \in Nat /\ min \in Int
  BY WindowType DEF IInv, Counters
<1>2. IsWindowMin(buf, min, r - 1)
  BY <1>1 DEF IInv, MinIsRightmost
<1>3. min \in Window(r - 1)
  BY <1>2 DEF IsWindowMin
<1>4. h[min % w] = NextHash(buf, min)
  BY <1>3 DEF IInv, WindowHolds
<1>5. h'[min % w] = h[min % w] /\ h'[r % w] = NextHash(buf, r) /\ r \in 1 .. Len(buf)
  BY <1>3, CallFillsSlot
<1>6. min \in Int /\ 1 <= min /\ min < r /\ r - min <= w
  BY <1>1, <1>3 DEF Window
<1>7. CASE r - min = w
  <2>1. r % w = min % w
    <3>1. /\ min % w \in 0 .. w - 1 /\ min = w * (min \div w) + (min % w)
          /\ r % w \in 0 .. w - 1 /\ r = w * (r \div w) + (r % w)
          /\ min \div w \in Int /\ r \div w \in Int
      BY <1>1
    <3> DEFINE d == (r \div w) - (min \div w)
    <3>2. d \in Int /\ w = w * d + ((r % w) - (min % w))
      BY <1>1, <1>7, <3>1
    <3> HIDE DEF d
    <3>3. CASE d <= 0
      BY <1>1, <3>1, <3>2, <3>3
    <3>4. CASE d >= 2
      BY <1>1, <3>1, <3>2, <3>4
    <3>5. CASE d = 1
      BY <1>1, <3>1, <3>2, <3>5
    <3> QED
      BY <3>2, <3>3, <3>4, <3>5
  <2> QED
    BY <2>1
<1> QED
  BY <1>1, <1>2, <1>4, <1>5, <1>6, <1>7

LEMMA NewMinimumHolds ==
    ASSUME IInv, NewMinimum
    PROVE  IInv'
<1>1. NextHashCall /\ min % w # r % w /\ h'[r % w] <= h'[min % w] /\ Push(r)
  BY DEF NewMinimum, IsNewMinimum
<1>2. /\ w \in Nat /\ w > 0 /\ r \in Nat /\ 1 <= r /\ buf \in Content
      /\ r \in 1 .. Len(buf)
  BY <1>1, WindowType, CallFillsSlot DEF IInv, Counters
<1>3. CASE r = 1
  <2>1. Window(1) = {1}
    BY <1>2 DEF Window
  <2>2. NextHash(buf, 1) \in Nat
    BY <1>2, <1>3, HashesInRange, HashAssumption
  <2>3. IsWindowMin(buf, r, r)
    BY <1>3, <2>1, <2>2 DEF IsWindowMin
  <2> QED
    BY <1>1, <1>3, <2>3, PushKeepsOrder
<1>4. CASE r > 1
  <2>1. /\ NextHash(buf, r) <= NextHash(buf, min) /\ min < r
        /\ r - 1 \in 1 .. Len(buf) /\ IsWindowMin(buf, min, r - 1)
    BY <1>1, <1>4, MinimumStays
  <2>2. r - 1 + 1 = r
    BY <1>2
  <2>3. IsWindowMin(buf, r, r)
    BY <1>2, <2>1, <2>2, WindowMoves
  <2> QED
    BY <1>1, <2>1, <2>3, PushKeepsOrder
<1> QED
  BY <1>2, <1>3, <1>4

LEMMA KeepMinimumHolds ==
    ASSUME IInv, KeepMinimum
    PROVE  IInv'
<1>1. /\ NextHashCall /\ min % w # r % w /\ ~(h'[r % w] <= h'[min % w])
      /\ min' = min /\ hashes' = hashes
  BY DEF KeepMinimum, IsNewMinimum
<1>2. /\ w \in Nat /\ w > 0 /\ r \in Nat /\ 1 <= r /\ buf \in Content
      /\ r \in 1 .. Len(buf)
  BY <1>1, WindowType, CallFillsSlot DEF IInv, Counters
<1>3. r > 1
  <2>1. CASE r = 1
    <3>1. min = 0 /\ 0 % w = 0
      BY <1>2, <2>1 DEF IInv, MinIsRightmost
    <3>2. w > 1
      <4>1. CASE w = 1
        BY <1>1, <1>2, <4>1 DEF IInv, Counters
      <4> QED
        BY <1>2, <4>1
    <3>3. h'[min % w] = MaxHash /\ h'[r % w] = NextHash(buf, r)
      BY <1>1, <2>1, <3>1, <3>2, CallFillsSlot
    <3>4. NextHash(buf, r) \in 0 .. MaxHash /\ MaxHash \in Int
      BY <1>2, HashesInRange, HashAssumption
    <3> QED
      BY <1>1, <3>3, <3>4
  <2> QED
    BY <1>2, <2>1
<1>4. /\ ~(NextHash(buf, r) <= NextHash(buf, min)) /\ min > r - w
      /\ r - 1 \in 1 .. Len(buf) /\ IsWindowMin(buf, min, r - 1)
  BY <1>1, <1>3, MinimumStays
<1>5. IsWindowMin(buf, min, r)
  <2>1. r - 1 + 1 = r
    BY <1>2
  <2> QED
    BY <1>2, <1>4, <2>1, WindowMoves
<1>6. /\ buf' = buf /\ r' = r + 1 /\ curr_pos' = r' - 1 /\ r' - 1 = r
      /\ DOMAIN h' = 0 .. w - 1
  BY <1>1, <1>2, CallFillsSlot
<1>7. Counters'
  <2>1. hashes \in Seq(Int) /\ min \in Int
    BY DEF IInv, Counters
  <2>2. Len(buf) \in Nat
    BY <1>2, SizeAssumption DEF Content, StringOf
  <2> QED
    BY <1>1, <1>2, <1>6, <2>1, <2>2 DEF Counters
<1>8. WindowHolds'
  <2>1. \A x \in Window(r) : h'[x % w] = NextHash(buf, x)
    BY <1>1, CallFillsSlot
  <2> QED
    BY <1>2, <1>6, <2>1 DEF WindowHolds, Window
<1>9. MinIsRightmost'
  BY <1>1, <1>2, <1>3, <1>5, <1>6 DEF IInv, MinIsRightmost, IsWindowMin, Window
<1>10. CutsAreWindowMinima'
  <2>1. WindowMin(buf, r) = WindowMin(buf, r - 1)
    <3>1. WindowMin(buf, r) = min
      BY <1>2, <1>5, WindowMinUnique
    <3> QED
      BY <1>2, <1>4, <3>1, WindowMinUnique
  <2>2. 1 .. r' - 1 = (1 .. r - 1) \cup {r} /\ r - 1 \in 1 .. r - 1
    BY <1>2, <1>3, <1>6
  <2>3. {WindowMin(buf, x) : x \in 1 .. r - 1} = {WindowMin(buf', x) : x \in 1 .. r' - 1}
    BY <1>6, <2>1, <2>2
  <2> QED
    BY <1>1, <2>3 DEF IInv, CutsAreWindowMinima
<1>11. RollingHashIsLocal'
  BY <1>1, CallFillsSlot
<1> QED
  BY <1>7, <1>8, <1>9, <1>10, <1>11 DEF IInv

LEMMA NextHolds ==
    ASSUME IInv, [Next]_vars
    PROVE  IInv'
<1>1. CASE UNCHANGED vars
  BY <1>1 DEF vars, IInv, Counters, RollingHashIsLocal, WindowHolds, MinIsRightmost,
              CutsAreWindowMinima, IsWindowMin, Window
<1> QED
  BY <1>1, RescanHolds, NewMinimumHolds, KeepMinimumHolds DEF Next

\* The loop of winnow (fingerprinting.hpp): the window and its minimum are what the loop
\* takes them for.
THEOREM Invariance == Spec => []IInv
<1>1. Init => IInv
  BY InitHolds
<1>2. IInv /\ [Next]_vars => IInv'
  BY NextHolds
<1> QED
  BY <1>1, <1>2, PTL DEF Spec

\* However many characters were rolled in and out of it, last_hash is the hash of the last
\* Kgrams characters alone, although myPow and every step of next_hash wrap around.
THEOREM HashIsLocal == Spec => []RollingHashIsLocal
<1>1. IInv => RollingHashIsLocal
  BY DEF IInv
<1> QED
  BY <1>1, Invariance, PTL

\* The positions that winnow pushes are, in order and each once, the rightmost minima
\* of all the windows it has seen.
THEOREM PushesWindowMinima == Spec => []CutsAreWindowMinima
<1>1. IInv => CutsAreWindowMinima
  BY DEF IInv
<1> QED
  BY <1>1, Invariance, PTL

-----------------------------------------------------------------------------
(* Equal stretches are cut at equal places.                                *)

Stretch(x) == SubSeq(buf, x - w - Kgrams + 2, x)

\* A full k-gram at an equal place of equal stretches has an equal hash.
LEMMA EqualHashes ==
    ASSUME buf \in Content,
           NEW x \in w + Kgrams - 1 .. Len(buf), NEW y \in w + Kgrams - 1 .. Len(buf),
           Stretch(x) = Stretch(y), NEW a \in 0 .. w - 1
    PROVE  NextHash(buf, x - a) = NextHash(buf, y - a)
<1>1. /\ w \in Nat /\ w > 0 /\ Kgrams \in Nat /\ Kgrams > 0
      /\ x \in Int /\ y \in Int /\ a \in Int
  BY WindowType, SizeAssumption
<1>2. buf \in Seq(Char) /\ Len(buf) \in Nat
  BY SizeAssumption DEF Content, StringOf
<1> DEFINE m == w - a
           n == w - a + Kgrams - 1
<1>3. m \in 1 .. w + Kgrams - 1 /\ n \in 1 .. w + Kgrams - 1
  BY <1>1
<1>4. ASSUME NEW z \in w + Kgrams - 1 .. Len(buf)
      PROVE  NextHash(buf, z - a) = GramHash[SubSeq(Stretch(z), m, n)]
  <2>1. /\ z - w - Kgrams + 2 \in 1 .. Len(buf) /\ z \in 1 .. Len(buf)
        /\ z - (z - w - Kgrams + 2) + 1 = w + Kgrams - 1
    BY <1>1, <1>2
  <2>2. SubSeq(Stretch(z), m, n)
          = SubSeq(buf, (z - w - Kgrams + 2) + m - 1, (z - w - Kgrams + 2) + n - 1)
    <3> DEFINE i == z - w - Kgrams + 2
    <3>1. m \in 1 .. z - i + 1 /\ n \in 1 .. z - i + 1
      BY <1>3, <2>1
    <3> HIDE DEF i, m, n
    <3>2. i \in 1 .. Len(buf) /\ z \in 1 .. Len(buf)
      BY <2>1 DEF i
    <3>3. SubSeq(SubSeq(buf, i, z), m, n) = SubSeq(buf, i + m - 1, i + n - 1)
      BY <1>2, <3>1, <3>2
    <3> QED
      BY <3>3 DEF Stretch, i
  <2>3. /\ (z - w - Kgrams + 2) + m - 1 = z - a - Kgrams + 1
        /\ (z - w - Kgrams + 2) + n - 1 = z - a
    BY <1>1, <2>1
  <2>4. z - a >= Kgrams
    BY <1>1
  <2>5. (IF z - a > Kgrams THEN z - a - Kgrams + 1 ELSE 1) = z - a - Kgrams + 1
    BY <1>1, <2>4
  <2> HIDE DEF m, n
  <2> QED
    BY <2>2, <2>3, <2>5 DEF NextHash
<1> QED
  BY <1>4

LEMMA EqualMinima ==
    ASSUME buf \in Content,
           NEW x \in w + Kgrams - 1 .. Len(buf), NEW y \in w + Kgrams - 1 .. Len(buf),
           Stretch(x) = Stretch(y), NEW m, IsWindowMin(buf, m, x)
    PROVE  IsWindowMin(buf, m + (y - x), y)
<1>1. /\ w \in Nat /\ w > 0 /\ Kgrams \in Nat /\ Kgrams > 0
      /\ x \in Int /\ y \in Int /\ x >= w /\ y >= w
  BY WindowType, SizeAssumption
<1>2. m \in Window(x)
  BY DEF IsWindowMin
<1>3. m \in Int /\ m + (y - x) \in Window(y)
  BY <1>1, <1>2 DEF Window
<1>4. ASSUME NEW i \in Window(y)
      PROVE  /\ i - (y - x) \in Window(x) /\ i \in Int
             /\ NextHash(buf, i) = NextHash(buf, i - (y - x))
  <2>1. y - i \in 0 .. w - 1 /\ y - (y - i) = i /\ x - (y - i) = i - (y - x)
        /\ i \in Int
    BY <1>1 DEF Window
  <2>2. NextHash(buf, x - (y - i)) = NextHash(buf, y - (y - i))
    BY <2>1, EqualHashes
  <2> QED
    BY <1>1, <2>1, <2>2 DEF Window
<1>5. NextHash(buf, m + (y - x)) = NextHash(buf, m)
  <2>1. m + (y - x) - (y - x) = m
    BY <1>1, <1>3
  <2> QED
    BY <1>3, <1>4, <2>1
<1>6. \A i \in Window(y) : NextHash(buf, m) <= NextHash(buf, i)
  BY <1>4 DEF IsWindowMin
<1>7. ASSUME NEW i \in Window(y), i > m + (y - x)
      PROVE  NextHash(buf, m) < NextHash(buf, i)
  <2>1. i - (y - x) > m
    BY <1>1, <1>3, <1>4, <1>7
  <2> QED
    BY <1>4, <2>1 DEF IsWindowMin
<1> QED
  BY <1>3, <1>5, <1>6, <1>7 DEF IsWindowMin

LEMMA MinimaAreLocal == IInv => CutsAreLocal
<1> SUFFICES ASSUME IInv,
                    NEW x \in w + Kgrams - 1 .. r - 1, NEW y \in w + Kgrams - 1 .. r - 1,
                    Stretch(x) = Stretch(y)
             PROVE  \E i, j \in DOMAIN hashes :
                        /\ hashes[i] \in x - w + 1 .. x
                        /\ hashes[j] \in y - w + 1 .. y
                        /\ x - hashes[i] = y - hashes[j]
  BY DEF CutsAreLocal, Stretch
<1>1. /\ w \in Nat /\ w > 0 /\ Kgrams \in Nat /\ Kgrams > 0
      /\ r \in Nat /\ r - 1 <= Len(buf) /\ buf \in Content
  BY WindowType, SizeAssumption DEF IInv, Counters
<1>2. Len(buf) \in Nat
  BY <1>1, SizeAssumption DEF Content, StringOf
<1>3. /\ x \in Int /\ y \in Int /\ x >= w /\ y >= w
      /\ x \in 1 .. r - 1 /\ y \in 1 .. r - 1
      /\ x \in 1 .. Len(buf) /\ y \in 1 .. Len(buf)
      /\ x \in w + Kgrams - 1 .. Len(buf) /\ y \in w + Kgrams - 1 .. Len(buf)
  BY <1>1, <1>2
<1>4. PICK m : IsWindowMin(buf, m, x)
  BY <1>1, <1>3, WindowMinExists
<1>5. IsWindowMin(buf, m + (y - x), y)
  BY <1>1, <1>3, <1>4, EqualMinima
<1>6. WindowMin(buf, x) = m /\ WindowMin(buf, y) = m + (y - x)
  BY <1>1, <1>3, <1>4, <1>5, WindowMinUnique
<1>7. {hashes[i] : i \in DOMAIN hashes} = {WindowMin(buf, z) : z \in 1 .. r - 1}
  BY DEF IInv, CutsAreWindowMinima
<1>8. PICK i \in DOMAIN hashes : hashes[i] = m
  BY <1>3, <1>6, <1>7
<1>9. PICK j \in DOMAIN hashes : hashes[j] = m + (y - x)
  BY <1>3, <1>6, <1>7
<1>10. m \in x - w + 1 .. x /\ m + (y - x) \in y - w + 1 .. y /\ m \in Int
  BY <1>1, <1>3, <1>4, <1>5 DEF IsWindowMin, Window
<1>11. x - m = y - (m + (y - x))
  BY <1>3, <1>10
<1> QED
  BY <1>8, <1>9, <1>10, <1>11

\* What winnowing is for: wherever two windows of k-grams hold the same characters,
\* winnow cuts them at the same place.
THEOREM EqualStretchesCutAlike == Spec => []CutsAreLocal
BY Invariance, MinimaAreLocal, PTL

-----------------------------------------------------------------------------
(* What a change to the file changes.                                      *)

\* Equal characters from a to b make equal stretches.
LEMMA EqualStretch ==
    ASSUME NEW f \in Seq(Char), NEW g \in Seq(Char), NEW a \in Int, NEW b \in Int,
           \A j \in a .. b : f[j] = g[j]
    PROVE  SubSeq(f, a, b) = SubSeq(g, a, b)
<1>1. \A k \in 1 .. b - a + 1 : a + k - 1 \in a .. b
  OBVIOUS
<1>2. /\ SubSeq(f, a, b) = [k \in 1 .. b - a + 1 |-> f[a + k - 1]]
      /\ SubSeq(g, a, b) = [k \in 1 .. b - a + 1 |-> g[a + k - 1]]
  OBVIOUS
<1> QED
  BY <1>1, <1>2

\* A cut that is not near a change stays.
LEMMA CutStays ==
    ASSUME NEW f \in Content, NEW g \in Content, Len(g) = Len(f),
           NEW X, \A i \in X : i \in Int,
           \A i \in 1 .. Len(f) : i \notin X => f[i] = g[i],
           NEW x \in Cuts(f), x \notin Near(X)
    PROVE  x \in Cuts(g)
<1>1. /\ f \in Seq(Char) /\ g \in Seq(Char) /\ Len(f) \in Nat
      /\ w \in Nat /\ w > 0 /\ Kgrams \in Nat /\ Kgrams > 0
  BY SizeAssumption, WindowType DEF Content, StringOf
<1>2. PICK s \in 1 .. Len(f) - w - 1 : x = WindowMin(f, s)
  BY DEF Cuts
<1>3. s \in 1 .. Len(f) /\ s \in 1 .. Len(g) /\ s \in Int
  BY <1>1
<1>4. IsWindowMin(f, x, s)
  <2>1. PICK m : IsWindowMin(f, m, s)
    BY <1>3, WindowMinExists
  <2> QED
    BY <1>2, <1>3, <2>1, WindowMinUnique
<1>5. x \in Int /\ x > s - w /\ x <= s
  BY <1>1, <1>3, <1>4 DEF IsWindowMin, Window
<1>6. ASSUME NEW i \in Window(s)
      PROVE  NextHash(f, i) = NextHash(g, i)
  <2>1. i \in Int /\ i > s - w /\ i <= s /\ i \in 1 .. Len(f)
    BY <1>1, <1>3 DEF Window
  <2>2. /\ Start(i) \in Int /\ 1 <= Start(i) /\ i - Kgrams + 1 <= Start(i)
        /\ Start(i) <= i
    BY <1>1, <2>1 DEF Start
  <2>3. ASSUME NEW j \in Start(i) .. i PROVE f[j] = g[j]
    <3>1. j \in Int /\ j \in 1 .. Len(f) /\ i - Kgrams + 1 <= j /\ j <= i
      BY <1>1, <2>1, <2>2
    <3>2. x \in j - w + 1 .. j + w + Kgrams - 2
      BY <1>1, <1>3, <1>5, <2>1, <3>1
    <3>3. j \notin X
      BY <3>2 DEF Near
    <3> QED
      BY <3>1, <3>3
  <2>4. SubSeq(f, Start(i), i) = SubSeq(g, Start(i), i)
    BY <1>1, <2>1, <2>2, <2>3, EqualStretch
  <2> QED
    BY <2>4 DEF NextHash, Start
<1>7. IsWindowMin(g, x, s)
  BY <1>4, <1>6 DEF IsWindowMin
<1>8. WindowMin(g, s) = x
  BY <1>3, <1>7, WindowMinUnique
<1> QED
  BY <1>2, <1>8 DEF Cuts

LEMMA CutsStay ==
    ASSUME NEW f \in Content, NEW g \in Content, Len(g) = Len(f),
           NEW X, \A i \in X : i \in Int,
           \A i \in 1 .. Len(f) : i \notin X => f[i] = g[i]
    PROVE  Stays(f, g, X)
<1>1. \A x \in Cuts(f) : x \notin Near(X) => x \in Cuts(g)
  BY CutStays
<1>2. \A x \in Cuts(g) : x \notin Near(X) => x \in Cuts(f)
  BY CutStays
<1> QED
  BY <1>1, <1>2 DEF Stays

\* Both files of the test driver are files of the old length, changed where it says.
LEMMA ChangedFile ==
    ASSUME NEW f \in Content, NEW g, NEW X,
           g = [i \in DOMAIN f |-> IF i \in X THEN Changed(f[i]) ELSE f[i]]
    PROVE  /\ g \in Content /\ Len(g) = Len(f)
           /\ \A i \in 1 .. Len(f) : i \notin X => f[i] = g[i]
<1>1. PICK n \in 0 .. MaxSize : f \in [1 .. n -> Char]
  BY DEF Content, StringOf
<1>2. n \in Nat /\ DOMAIN f = 1 .. n /\ Len(f) = n
  BY <1>1, SizeAssumption
<1>3. \A i \in 1 .. n : Changed(f[i]) \in Char /\ f[i] \in Char
  BY <1>1, CharAssumption
<1>4. \A i \in 1 .. n : g[i] = IF i \in X THEN Changed(f[i]) ELSE f[i]
  BY <1>2
<1>5. g \in [1 .. n -> Char]
  BY <1>2, <1>3
<1>6. Len(g) = n
  BY <1>2, <1>5
<1> QED
  BY <1>1, <1>2, <1>4, <1>5, <1>6 DEF Content, StringOf

\* The loop over the starts, a block at a time, covers no more than the blocks.
BlockBody(g, L, S, b, c) ==
    IF c >= L THEN {} ELSE IF c \in S THEN (c + 1 .. c + b) \cup g[c + b] ELSE g[c + 1]

IsBlockLoop(g, L, S, b) == g = [c \in 0 .. L |-> BlockBody(g, L, S, b, c)]

LEMMA BlockLoop ==
    ASSUME NEW L \in Nat, NEW b \in Nat \ {0}, NEW S, \A s \in S : s + b <= L
    PROVE  \E g : IsBlockLoop(g, L, S, b)
<1> DEFINE Body(g, c) == BlockBody(g, L, S, b, c)
           IsLoop(g, N) == g = [c \in L - N .. L |-> Body(g, c)]
           Reached == {N \in Nat : \E g : IsLoop(g, N)}
<1>1. 0 \in Reached
  <2>1. \A c \in L - 0 .. L : \A g : Body(g, c) = {}
    BY DEF BlockBody
  <2>2. IsLoop([c \in L - 0 .. L |-> {}], 0)
    <3> HIDE DEF Body
    <3> QED
      BY <2>1
  <2> QED
    BY <2>2
<1>2. ASSUME NEW N \in Nat, N \in Reached PROVE N + 1 \in Reached
  <2>1. PICK g : IsLoop(g, N)
    BY <1>2
  <2> DEFINE e == [c \in L - (N + 1) .. L |-> IF c >= L - N THEN g[c] ELSE Body(g, c)]
  <2>2. \A c \in L - N .. L : e[c] = g[c] /\ g[c] = Body(g, c)
    <3>1. \A c \in L - N .. L : c \in L - (N + 1) .. L /\ c >= L - N
      OBVIOUS
    <3>2. \A c \in L - N .. L : g[c] = Body(g, c)
      <4> HIDE DEF Body
      <4> QED
        BY <2>1
    <3>3. \A c \in L - N .. L : e[c] = g[c]
      <4> HIDE DEF Body
      <4> QED
        BY <3>1
    <3> QED
      BY <3>2, <3>3
  <2>3. \A c \in L - (N + 1) .. L : e[c] = Body(g, c)
    <3> TAKE c \in L - (N + 1) .. L
    <3>1. CASE c >= L - N
      <4>1. c \in L - N .. L
        BY <3>1
      <4> QED
        BY <2>2, <4>1
    <3>2. CASE ~(c >= L - N)
      <4> HIDE DEF Body
      <4> QED
        BY <3>2
    <3> QED
      BY <3>1, <3>2
  <2> HIDE DEF e
  <2>4. ASSUME NEW c \in L - (N + 1) .. L PROVE Body(g, c) = Body(e, c)
    <3>1. CASE c >= L
      BY <3>1 DEF BlockBody
    <3>2. CASE c < L
      <4>1. c + 1 \in L - N .. L /\ (c \in S => c + b \in L - N .. L)
        BY <3>2
      <4>2. e[c + 1] = g[c + 1] /\ (c \in S => e[c + b] = g[c + b])
        BY <2>2, <4>1
      <4> QED
        BY <4>2 DEF BlockBody
    <3> QED
      BY <3>1, <3>2
  <2>5. IsLoop(e, N + 1)
    <3>1. e = [c \in L - (N + 1) .. L |-> e[c]]
      BY DEF e
    <3> HIDE DEF Body
    <3> QED
      BY <2>3, <2>4, <3>1
  <2> QED
    BY <2>5
<1>3. L \in Reached
  <2> HIDE DEF Reached
  <2> QED
    BY <1>1, <1>2, NatsByInduction
<1>4. PICK g : IsLoop(g, L)
  BY <1>3
<1>5. L - L = 0
  OBVIOUS
<1> QED
  BY <1>4, <1>5 DEF IsBlockLoop

LEMMA CoveredIsBlocks ==
    ASSUME NEW f, Len(f) \in Nat, NEW b \in Nat \ {0}, NEW S \in SUBSET Starts(f, b)
    PROVE  Covered(f, S, b) \subseteq UNION {s + 1 .. s + b : s \in S}
<1> DEFINE L == Len(f)
           All == UNION {s + 1 .. s + b : s \in S}
           IsLoop(g) == IsBlockLoop(g, L, S, b)
<1>1. L \in Nat /\ \A s \in S : s \in Nat /\ s + b <= L
  BY DEF Starts
<1>2. Covered(f, S, b) = (CHOOSE g : IsLoop(g))[0]
  BY DEF Covered, BlockBody, IsBlockLoop
<1>3. \E g : IsLoop(g)
  <2> HIDE DEF L
  <2> QED
    BY <1>1, BlockLoop
<1>4. PICK g : IsLoop(g) /\ Covered(f, S, b) = g[0]
  <2> HIDE DEF IsLoop
  <2> QED
    BY <1>2, <1>3
<1>5. \A c \in 0 .. L : g[c] = BlockBody(g, L, S, b, c)
  <2> HIDE DEF L
  <2> QED
    BY <1>4 DEF IsBlockLoop
<1> HIDE DEF L
<1> DEFINE Good == {N \in Nat : \A c \in 0 .. L : L - c <= N => g[c] \subseteq All}
<1>6. 0 \in Good
  <2>1. \A c \in 0 .. L : L - c <= 0 => c >= L
    BY <1>1
  <2>2. \A c \in 0 .. L : L - c <= 0 => g[c] = {}
    BY <1>5, <2>1 DEF BlockBody
  <2> QED
    BY <2>2
<1>7. ASSUME NEW N \in Nat, N \in Good PROVE N + 1 \in Good
  <2> SUFFICES ASSUME NEW c \in 0 .. L, L - c <= N + 1 PROVE g[c] \subseteq All
    OBVIOUS
  <2>1. \A d \in 0 .. L : L - d <= N => g[d] \subseteq All
    BY <1>7
  <2> HIDE DEF All
  <2>2. CASE c >= L
    BY <1>5, <2>2 DEF BlockBody
  <2>3. CASE c < L /\ c \in S
    <3>1. c + b \in 0 .. L /\ L - (c + b) <= N
      BY <1>1, <2>3
    <3>2. g[c] = (c + 1 .. c + b) \cup g[c + b]
      <4>1. ~(c >= L) /\ g[c] = BlockBody(g, L, S, b, c)
        BY <1>1, <1>5, <2>3
      <4> QED
        BY <2>3, <4>1 DEF BlockBody
    <3>3. (c + 1 .. c + b) \subseteq All
      BY <2>3 DEF All
    <3> QED
      BY <2>1, <3>1, <3>2, <3>3
  <2>4. CASE c < L /\ c \notin S
    <3>1. c + 1 \in 0 .. L /\ L - (c + 1) <= N
      BY <1>1, <2>4
    <3>2. g[c] = g[c + 1]
      <4>1. ~(c >= L) /\ g[c] = BlockBody(g, L, S, b, c)
        BY <1>1, <1>5, <2>4
      <4> QED
        BY <2>4, <4>1 DEF BlockBody
    <3> QED
      BY <2>1, <3>1, <3>2
  <2> QED
    BY <1>1, <2>2, <2>3, <2>4
<1>8. L \in Good
  <2> HIDE DEF Good
  <2> QED
    BY <1>1, <1>6, <1>7, NatsByInduction
<1>9. 0 \in 0 .. L /\ L - 0 <= L
  BY <1>1
<1> QED
  BY <1>4, <1>8, <1>9

\* Whichever characters or blocks are drawn.
LEMMA SimilarFileStays ==
    ASSUME NEW f \in Content, NEW X \in SUBSET DOMAIN f
    PROVE  Stays(f, generate_similar_file(f, DOMAIN f \ X), X)
<1> DEFINE g == generate_similar_file(f, DOMAIN f \ X)
<1>1. g = [i \in DOMAIN f |-> IF i \in X THEN Changed(f[i]) ELSE f[i]]
  BY DEF generate_similar_file
<1>2. \A i \in X : i \in Int
  BY DEF Content, StringOf
<1> HIDE DEF g
<1>3. /\ g \in Content /\ Len(g) = Len(f)
      /\ \A i \in 1 .. Len(f) : i \notin X => f[i] = g[i]
  BY <1>1, ChangedFile
<1>4. Stays(f, g, X)
  BY <1>2, <1>3, CutsStay
<1> QED
  BY <1>4 DEF g

LEMMA BlockChangedFileStays ==
    ASSUME NEW f \in Content, NEW b \in Nat \ {0}, NEW S \in SUBSET Starts(f, b)
    PROVE  Stays(f, generate_block_changed_file(f, S, b), UNION {s + 1 .. s + b : s \in S})
<1> DEFINE g == generate_block_changed_file(f, S, b)
           X == Covered(f, S, b)
           All == UNION {s + 1 .. s + b : s \in S}
<1>1. g = [i \in DOMAIN f |-> IF i \in X THEN Changed(f[i]) ELSE f[i]]
  BY DEF generate_block_changed_file
<1>2. Len(f) \in Nat
  BY SizeAssumption DEF Content, StringOf
<1>3. X \subseteq All /\ \A i \in All : i \in Int
  BY <1>2, CoveredIsBlocks
<1> HIDE DEF g, X, All
<1>4. /\ g \in Content /\ Len(g) = Len(f)
      /\ \A i \in 1 .. Len(f) : i \notin X => f[i] = g[i]
  BY <1>1, ChangedFile
<1>5. Stays(f, g, All)
  BY <1>3, <1>4, CutsStay
<1> QED
  BY <1>5 DEF g, All

\* The files that the test driver makes of a file are cut as the file is, but for the
\* windows of hashes that a changed character reaches.
THEOREM SimilarFilesCutAlike == Spec => []ChangesStayLocal
<1>1. IInv => ChangesStayLocal
  <2> SUFFICES ASSUME IInv PROVE ChangesStayLocal
    OBVIOUS
  <2>1. buf \in Content
    BY DEF IInv, Counters
  <2> DEFINE drawn == {curr_pos, curr_pos + 4} \cap DOMAIN buf
  <2>2. Stays(buf, generate_similar_file(buf, DOMAIN buf \ drawn), drawn)
    <3>1. drawn \in SUBSET DOMAIN buf
      OBVIOUS
    <3> HIDE DEF drawn
    <3> QED
      BY <2>1, <3>1, SimilarFileStays
  <2>3. ASSUME NEW S \in SUBSET Starts(buf, 2)
        PROVE  Stays(buf, generate_block_changed_file(buf, S, 2),
                     UNION {{s + 1, s + 2} : s \in S})
    <3> DEFINE b == 2
               All == UNION {s + 1 .. s + b : s \in S}
    <3>1. b \in Nat \ {0} /\ S \in SUBSET Starts(buf, b)
      OBVIOUS
    <3>2. All = UNION {{s + 1, s + 2} : s \in S}
      <4>1. \A s \in S : s \in Int
        BY DEF Starts
      <4>2. \A s \in S : s + 1 .. s + 2 = {s + 1, s + 2}
        BY <4>1
      <4> QED
        BY <4>2
    <3> HIDE DEF b, All
    <3>3. Stays(buf, generate_block_changed_file(buf, S, b), All)
      BY <2>1, <3>1, BlockChangedFileStays DEF All
    <3> QED
      BY <3>2, <3>3 DEF b
  <2> QED
    BY <2>2, <2>3 DEF ChangesStayLocal
<1> QED
  BY <1>1, Invariance, PTL

=============================================================================
