-------------------------- MODULE FileSync_proofs --------------------------
(***************************************************************************)
(* For every two files: the ends agree on the shared hashes, every index   *)
(* leads to the chunk that was meant, and what is written is B's file.     *)
(* Chunk hashes are injective (ChunkHashAssumption).                       *)
(***************************************************************************)
EXTENDS FileSync, Arithmetic, SequenceTheorems

-----------------------------------------------------------------------------
(* Hashes and cuts of a file.                                              *)

LEMMA WindowType == w \in Nat /\ w > 0
BY SizeAssumption DEF w

\* What is hashed at a position is a k-gram, or the beginning of the file.
Start(x) == IF x > Kgrams THEN x - Kgrams + 1 ELSE 1

LEMMA GramAt ==
    ASSUME NEW f \in File, NEW x \in 1 .. Len(f)
    PROVE  /\ SubSeq(f, Start(x), x) \in Gram
           /\ Start(x) \in 1 .. x /\ f \in Seq(Char) /\ Len(f) \in Nat
<1>1. PICK n \in 0 .. MaxSize : f \in [1 .. n -> Char]
  BY SizeAssumption DEF Content, StringOf
<1>2. f \in Seq(Char) /\ Len(f) = n /\ Kgrams \in Nat /\ Kgrams > 0
  BY <1>1, SizeAssumption
<1> DEFINE start == Start(x)
           g == SubSeq(f, start, x)
<1>3. /\ start \in Int /\ 1 <= start /\ start <= x /\ x - start + 1 <= Kgrams
      /\ x \in Int /\ x <= n
  BY <1>2 DEF Start
<1> HIDE DEF start
<1>4. g \in [1 .. x - start + 1 -> Char]
  <2>1. \A i \in start .. x : f[i] \in Char
    BY <1>1, <1>3
  <2>2. g \in Seq(Char) /\ Len(g) = x - start + 1
    BY <1>3, <2>1, SubSeqProperties
  <2> HIDE DEF g
  <2> QED
    BY <1>3, <2>2
<1>5. g \in Gram
  <2>1. x - start + 1 \in 1 .. Kgrams
    BY <1>2, <1>3
  <2> HIDE DEF g
  <2> QED
    BY <1>4, <2>1 DEF Gram, StringOf
<1> QED
  BY <1>2, <1>3, <1>5 DEF start

\* Every position has a hash, which is no greater than what the window is filled with.
LEMMA HashesInRange ==
    ASSUME NEW f \in File, NEW x \in 1 .. Len(f)
    PROVE  NextHash(f, x) \in 0 .. MaxHash
<1>1. SubSeq(f, Start(x), x) \in Gram
  BY GramAt
<1>2. GramHash[SubSeq(f, Start(x), x)] \in 0 .. MaxHash
  BY <1>1, HashAssumption
<1> QED
  BY <1>2 DEF NextHash, Start

\* A window has a rightmost minimum, so that a cut lies in its window.
LEMMA CutInWindow ==
    ASSUME NEW f \in File, NEW x \in 1 .. Len(f)
    PROVE  WindowMin(f, x) \in 1 .. x
<1> DEFINE Window == {i \in 1 .. x : i > x - w}
           v == [i \in Window |-> NextHash(f, i)]
<1>1. x \in Int /\ x \in Window /\ Len(f) \in Nat
  BY WindowType, GramAt
<1>2. \A i \in Window : i \in 1 .. Len(f) /\ i \in Int /\ i <= x
  BY <1>1
<1>3. \A i \in Window : v[i] = NextHash(f, i) /\ v[i] \in Nat
  BY <1>2, HashesInRange, HashAssumption
<1>4. WindowMin(f, x) = CHOOSE m \in Window :
          /\ \A i \in Window : NextHash(f, m) <= NextHash(f, i)
          /\ \A i \in Window : i > m => NextHash(f, m) < NextHash(f, i)
  BY DEF WindowMin
<1>5. \A m \in Window : m \in 1 .. x
  OBVIOUS
<1> HIDE DEF v, Window
<1>6. \E m \in Window : /\ \A i \in Window : v[m] <= v[i]
                        /\ \A i \in Window : i > m => v[m] < v[i]
  BY <1>1, <1>2, <1>3, RightmostMinimum
<1>7. \E m \in Window : /\ \A i \in Window : NextHash(f, m) <= NextHash(f, i)
                        /\ \A i \in Window : i > m => NextHash(f, m) < NextHash(f, i)
  BY <1>3, <1>6
<1> QED
  BY <1>4, <1>5, <1>7

-----------------------------------------------------------------------------
(* Positions in a sorted vector.                                           *)

LEMMA RankFacts ==
    ASSUME NEW S \in SUBSET Int, IsFiniteSet(S)
    PROVE  /\ \A x \in S : Rank(S, x) \in 0 .. Cardinality(S) - 1
           /\ \A x, y \in S : x < y => Rank(S, x) < Rank(S, y)
<1> DEFINE Below(x) == {y \in S : y < x}
<1>1. Cardinality(S) \in Nat
  BY FS_CardinalityType
<1>2. ASSUME NEW x \in S
      PROVE  /\ IsFiniteSet(Below(x)) /\ Rank(S, x) = Cardinality(Below(x))
             /\ Rank(S, x) \in 0 .. Cardinality(S) - 1
  <2>1. IsFiniteSet(S \ {x}) /\ Cardinality(S \ {x}) = Cardinality(S) - 1
    BY FS_RemoveElement
  <2>2. Below(x) \in SUBSET (S \ {x})
    OBVIOUS
  <2>3. Rank(S, x) = Cardinality(Below(x))
    BY DEF Rank
  <2> HIDE DEF Below
  <2>4. IsFiniteSet(Below(x)) /\ Cardinality(Below(x)) <= Cardinality(S) - 1
    BY <2>1, <2>2, FS_Subset
  <2>5. Cardinality(Below(x)) \in Nat
    BY <2>4, FS_CardinalityType
  <2> QED
    BY <1>1, <2>3, <2>4, <2>5
<1>3. ASSUME NEW x \in S, NEW y \in S, x < y
      PROVE  Rank(S, x) < Rank(S, y)
  <2>1. Below(x) \cup {x} \subseteq Below(y) /\ x \notin Below(x)
    <3>1. \A z \in S : z \in Int
      OBVIOUS
    <3>2. \A z \in S : z < x => z < y
      BY <1>3, <3>1
    <3>3. x \notin Below(x)
      BY <3>1
    <3>4. \A z \in Below(x) \cup {x} : z \in Below(y)
      BY <1>3, <3>2
    <3> QED
      BY <3>3, <3>4
  <2> HIDE DEF Below
  <2>2. Cardinality(Below(x) \cup {x}) = Cardinality(Below(x)) + 1
    BY <1>2, <2>1, FS_AddElement
  <2>3. Cardinality(Below(x) \cup {x}) <= Cardinality(Below(y))
    BY <1>2, <2>1, FS_Subset
  <2> QED
    BY <1>2, <2>2, <2>3
<1> QED
  BY <1>2, <1>3

\* Every position below the length of the vector holds a member, each its own.
LEMMA AtFacts ==
    ASSUME NEW S \in SUBSET Int, IsFiniteSet(S)
    PROVE  /\ \A x \in S : At(S, Rank(S, x)) = x
           /\ \A i \in 0 .. Cardinality(S) - 1 : At(S, i) \in S /\ Rank(S, At(S, i)) = i
<1>1. \A x, y \in S : Rank(S, x) = Rank(S, y) => x = y
  <2>1. \A x, y \in S : x \in Int /\ y \in Int /\ (x < y \/ y < x \/ x = y)
    OBVIOUS
  <2> QED
    BY <2>1, RankFacts
<1>2. \A x \in S : At(S, Rank(S, x)) = x
  BY <1>1 DEF At
<1>3. Cardinality(S) \in Nat
  BY FS_CardinalityType
<1> DEFINE Positions == 0 .. Cardinality(S) - 1
           f == [x \in S |-> Rank(S, x)]
<1>4. f \in Injection(S, Positions)
  <2>1. f \in [S -> Positions]
    BY RankFacts
  <2>2. \A x, y \in S : f[x] = f[y] => x = y
    BY <1>1
  <2> HIDE DEF f, Positions
  <2> QED
    BY <2>1, <2>2 DEF Injection, IsInjective
<1>5. IsFiniteSet(Positions) /\ Cardinality(Positions) = Cardinality(S)
  <2> DEFINE n == Cardinality(S)
  <2>1. n \in Nat /\ n - 1 \in Int
    BY <1>3
  <2> HIDE DEF n
  <2>2. IsFiniteSet(0 .. n - 1) /\ Cardinality(0 .. n - 1) = n
    BY <2>1, FS_Interval
  <2> QED
    BY <2>2 DEF n
<1>6. f \in Surjection(S, Positions)
  <2> HIDE DEF f, Positions
  <2> QED
    BY <1>4, <1>5, FS_Injection
<1>7. \A i \in Positions : \E x \in S : Rank(S, x) = i
  <2>1. \A i \in Positions : \E x \in S : f[x] = i
    <3> HIDE DEF f, Positions
    <3> QED
      BY <1>6 DEF Surjection
  <2> QED
    BY <2>1
<1> QED
  BY <1>2, <1>7 DEF At

-----------------------------------------------------------------------------
(* Digests.                                                                *)

\* The characters that the hash of the i-th chunk covers.
Hashed(f, ov, D, i) ==
    SubSeq(f, D[i].pos + 1, D[i].pos + D[i].len + IF i = Len(D) THEN 0 ELSE ov)

End(D, i) == IF i = 0 THEN 0 ELSE D[i].pos + D[i].len

\* The chunks D follow each other from the beginning of the file to its end, a whole
\* window and a character before the last cut, and the hashes are those of the characters.
IsDigest(f, ov, D) ==
    /\ D \in Seq([pos : Nat, len : Nat \ {0}, hash : Nat])
    /\ Len(D) >= 1 /\ End(D, Len(D)) = Len(f)
    /\ \A i \in 1 .. Len(D) : D[i].pos = End(D, i - 1) /\ End(D, i) <= Len(f)
    /\ \A i \in 1 .. Len(D) - 1 : End(D, i) + w + 1 <= Len(f)
    /\ \A i \in 1 .. Len(D) : /\ Hashed(f, ov, D, i) \in Content
                              /\ D[i].hash = ChunkHash[Hashed(f, ov, D, i)]

LEMMA FileType ==
    ASSUME NEW f \in File
    PROVE  f \in Seq(Char) /\ Len(f) \in Nat /\ Len(f) <= MaxSize /\ Len(f) >= w
BY SizeAssumption DEF Content, StringOf

LEMMA SubSeqContent ==
    ASSUME NEW f \in File, NEW a \in Nat, NEW b \in Nat, a <= b, b <= Len(f)
    PROVE  /\ SubSeq(f, a + 1, b) \in Content /\ Len(SubSeq(f, a + 1, b)) = b - a
           /\ \A i \in 1 .. b - a : SubSeq(f, a + 1, b)[i] = f[a + i]
<1>1. f \in Seq(Char) /\ Len(f) \in Nat /\ Len(f) <= MaxSize /\ MaxSize \in Nat
  BY FileType, SizeAssumption
<1> DEFINE g == SubSeq(f, a + 1, b)
<1>2. g = [i \in 1 .. b - a |-> f[a + i]]
  BY <1>1
<1>3. \A i \in 1 .. b - a : f[a + i] \in Char
  BY <1>1
<1>4. g \in [1 .. b - a -> Char] /\ Len(g) = b - a
  <2>1. b - a \in Nat
    OBVIOUS
  <2>2. g \in [1 .. b - a -> Char]
    BY <1>2, <1>3
  <2> HIDE DEF g
  <2> QED
    BY <2>1, <2>2
<1>5. b - a \in 0 .. MaxSize
  BY <1>1
<1> QED
  BY <1>2, <1>4, <1>5 DEF Content, StringOf

LEMMA SubSeqLength ==
    ASSUME NEW f \in File, NEW a \in Nat, NEW n \in Nat, a + n <= Len(f)
    PROVE  /\ SubSeq(f, a + 1, a + n) \in Content /\ Len(SubSeq(f, a + 1, a + n)) = n
           /\ \A i \in 1 .. n : SubSeq(f, a + 1, a + n)[i] = f[a + i]
<1> DEFINE b == a + n
<1>1. b \in Nat /\ a <= b /\ b <= Len(f) /\ b - a = n
  OBVIOUS
<1> HIDE DEF b
<1>2. /\ SubSeq(f, a + 1, b) \in Content /\ Len(SubSeq(f, a + 1, b)) = n
      /\ \A i \in 1 .. n : SubSeq(f, a + 1, b)[i] = f[a + i]
  BY <1>1, SubSeqContent
<1> QED
  BY <1>2 DEF b

LEMMA DigestType ==
    ASSUME NEW f, NEW ov, NEW D, IsDigest(f, ov, D)
    PROVE  /\ Len(D) \in Nat /\ DOMAIN D = 1 .. Len(D)
           /\ \A i \in 1 .. Len(D) :
                  D[i].pos \in Nat /\ D[i].len \in Nat \ {0} /\ D[i].hash \in Nat
<1> DEFINE T == [pos : Nat, len : Nat \ {0}, hash : Nat]
<1>1. D \in Seq(T)
  BY DEF IsDigest
<1>2. \A c \in T : c.pos \in Nat /\ c.len \in Nat \ {0} /\ c.hash \in Nat
  OBVIOUS
<1> HIDE DEF T
<1>3. Len(D) \in Nat /\ DOMAIN D = 1 .. Len(D) /\ \A i \in 1 .. Len(D) : D[i] \in T
  BY <1>1
<1> QED
  BY <1>2, <1>3

LEMMA CutsInFile ==
    ASSUME NEW f \in File
    PROVE  Cuts(f) \subseteq 1 .. Len(f) - w - 1
<1>1. w \in Nat /\ Len(f) \in Nat
  BY FileType, WindowType
<1>2. ASSUME NEW r \in 1 .. Len(f) - w - 1
      PROVE  WindowMin(f, r) \in 1 .. r
  <2>1. r \in 1 .. Len(f)
    BY <1>1
  <2> QED
    BY <2>1, CutInWindow
<1>3. \A r \in 1 .. Len(f) - w - 1 : WindowMin(f, r) \in 1 .. Len(f) - w - 1
  BY <1>1, <1>2
<1> QED
  BY <1>3 DEF Cuts

Bounds(f) == {0, Len(f)} \cup Cuts(f)

LEMMA BoundsFacts ==
    ASSUME NEW f \in File
    PROVE  /\ Bounds(f) \in SUBSET Int /\ IsFiniteSet(Bounds(f))
           /\ \A x \in Bounds(f) : x \in Nat /\ x <= Len(f)
           /\ Cardinality(Bounds(f)) \in Nat /\ Cardinality(Bounds(f)) >= 2
           /\ At(Bounds(f), 0) = 0 /\ At(Bounds(f), Cardinality(Bounds(f)) - 1) = Len(f)
           /\ \A x \in Bounds(f) : x # 0 /\ x # Len(f) => x + w + 1 <= Len(f)
<1>1. w \in Nat /\ w > 0 /\ Len(f) \in Nat /\ Len(f) >= w
  BY FileType, WindowType
<1>2. \A x \in Cuts(f) : x \in Nat /\ 1 <= x /\ x + w + 1 <= Len(f)
  BY <1>1, CutsInFile
<1>3. /\ \A x \in Bounds(f) : x \in Nat /\ x <= Len(f)
      /\ \A x \in Bounds(f) : x # 0 /\ x # Len(f) => x + w + 1 <= Len(f)
      /\ 0 \in Bounds(f) /\ Len(f) \in Bounds(f) /\ Len(f) # 0
  BY <1>1, <1>2 DEF Bounds
<1>4. Bounds(f) \in SUBSET Nat /\ Bounds(f) \in SUBSET Int
  BY <1>3
<1>5. IsFiniteSet(Bounds(f))
  BY <1>1, <1>3, <1>4, FS_BoundedSetOfNaturals
<1>6. Cardinality(Bounds(f)) \in Nat /\ \A x \in Bounds(f) : Rank(Bounds(f), x) \in 0 .. Cardinality(Bounds(f)) - 1
  BY <1>4, <1>5, FS_CardinalityType, RankFacts
<1>7. Rank(Bounds(f), 0) = 0
  <2>1. {y \in Bounds(f) : y < 0} = {}
    BY <1>3
  <2> QED
    BY <2>1, FS_EmptySet DEF Rank
<1>8. Rank(Bounds(f), Len(f)) = Cardinality(Bounds(f)) - 1
  <2>1. \A y \in Bounds(f) : y < Len(f) <=> y # Len(f)
    BY <1>1, <1>3
  <2>2. {y \in Bounds(f) : y < Len(f)} = Bounds(f) \ {Len(f)}
    BY <2>1, Zenon
  <2>3. Cardinality(Bounds(f) \ {Len(f)}) = Cardinality(Bounds(f)) - 1
    BY <1>3, <1>5, FS_RemoveElement
  <2> QED
    BY <2>2, <2>3 DEF Rank
<1>9. Cardinality(Bounds(f)) >= 2
  <2>1. Rank(Bounds(f), 0) < Rank(Bounds(f), Len(f))
    BY <1>1, <1>3, <1>4, <1>5, RankFacts
  <2> QED
    BY <1>6, <1>7, <1>8, <2>1
<1>10. At(Bounds(f), 0) = 0 /\ At(Bounds(f), Cardinality(Bounds(f)) - 1) = Len(f)
  BY <1>3, <1>4, <1>5, <1>7, <1>8, AtFacts
<1> QED
  BY <1>3, <1>4, <1>5, <1>6, <1>9, <1>10

LEMMA DigestIsDigest ==
    ASSUME NEW f \in File, NEW ov \in 1 .. w + 1
    PROVE  IsDigest(f, ov, Digest(f, ov))
<1> DEFINE B == Bounds(f)
           n == Cardinality(B) - 1
           Covered(i) == IF i = n THEN At(B, i) ELSE At(B, i) + ov
           D == [i \in 1 .. n |->
                    [pos |-> At(B, i - 1), len |-> At(B, i) - At(B, i - 1),
                     hash |-> ChunkHash[SubSeq(f, At(B, i - 1) + 1, Covered(i))]]]
<1>1. Digest(f, ov) = D
  BY DEF Digest, Bounds
<1>2. w \in Nat /\ Len(f) \in Nat /\ ov \in Nat /\ ov <= w + 1
  BY FileType, WindowType
<1> HIDE DEF B
<1>3. /\ B \in SUBSET Int /\ IsFiniteSet(B)
      /\ \A x \in B : x \in Nat /\ x <= Len(f)
      /\ Cardinality(B) \in Nat /\ Cardinality(B) >= 2
      /\ At(B, 0) = 0 /\ At(B, Cardinality(B) - 1) = Len(f)
      /\ \A x \in B : x # 0 /\ x # Len(f) => x + w + 1 <= Len(f)
  BY BoundsFacts DEF B
<1>4. n \in Nat /\ n >= 1 /\ n + 1 = Cardinality(B)
  BY <1>3
<1> HIDE DEF n
<1>5. /\ \A i \in 0 .. n : At(B, i) \in B /\ At(B, i) \in Nat /\ At(B, i) <= Len(f)
      /\ \A i \in 0 .. n : Rank(B, At(B, i)) = i
      /\ At(B, 0) = 0 /\ At(B, n) = Len(f)
  BY <1>3, <1>4, AtFacts DEF n
<1>6. ASSUME NEW i \in 0 .. n, NEW j \in 0 .. n, i < j
      PROVE  At(B, i) < At(B, j)
  <2>1. CASE At(B, j) < At(B, i)
    <3>1. Rank(B, At(B, j)) < Rank(B, At(B, i))
      BY <1>3, <1>5, <2>1, RankFacts
    <3> QED
      BY <1>4, <1>5, <1>6, <3>1
  <2>2. CASE At(B, j) = At(B, i)
    BY <1>5, <1>6, <2>2
  <2> QED
    BY <1>5, <2>1, <2>2
<1>7. ASSUME NEW i \in 1 .. n
      PROVE  /\ i \in 0 .. n /\ i - 1 \in 0 .. n /\ At(B, i - 1) < At(B, i)
             /\ i < n => At(B, i) + w + 1 <= Len(f)
  <2>1. i \in 0 .. n /\ i - 1 \in 0 .. n /\ i - 1 < i /\ 0 < i /\ 0 \in 0 .. n /\ n \in 0 .. n
    BY <1>4
  <2>2. At(B, i - 1) < At(B, i) /\ At(B, 0) < At(B, i)
    BY <1>6, <2>1
  <2>3. i < n => At(B, i) < At(B, n)
    BY <1>6, <2>1
  <2> QED
    BY <1>3, <1>5, <2>1, <2>2, <2>3
<1>8. ASSUME NEW i \in 1 .. n
      PROVE  /\ Covered(i) \in Nat /\ At(B, i - 1) <= Covered(i) /\ Covered(i) <= Len(f)
             /\ SubSeq(f, At(B, i - 1) + 1, Covered(i)) \in Content
  <2>2. At(B, i - 1) \in Nat /\ At(B, i) \in Nat /\ At(B, i) <= Len(f)
    BY <1>5, <1>7
  <2>1. Covered(i) \in Nat /\ At(B, i - 1) <= Covered(i) /\ Covered(i) <= Len(f)
    <3>1. CASE i = n
      BY <1>7, <2>2, <3>1
    <3>2. CASE i # n
      <4>1. i < n
        BY <1>4, <3>2
      <4>2. Covered(i) = At(B, i) + ov
        BY <3>2
      <4> HIDE DEF Covered
      <4> QED
        BY <1>2, <1>7, <2>2, <4>1, <4>2
    <3> QED
      BY <3>1, <3>2
  <2> HIDE DEF Covered
  <2> QED
    BY <2>1, <2>2, SubSeqContent
<1>9. \A i \in 1 .. n : D[i] \in [pos : Nat, len : Nat \ {0}, hash : Nat]
  <2> TAKE i \in 1 .. n
  <2>1. At(B, i - 1) \in Nat /\ At(B, i) - At(B, i - 1) \in Nat \ {0}
    BY <1>5, <1>7
  <2>2. ChunkHash[SubSeq(f, At(B, i - 1) + 1, Covered(i))] \in Nat
    BY <1>8, ChunkHashAssumption
  <2> HIDE DEF Covered
  <2> QED
    BY <2>1, <2>2
<1>10. /\ D \in Seq([pos : Nat, len : Nat \ {0}, hash : Nat])
       /\ Len(D) = n
  <2> DEFINE T == [pos : Nat, len : Nat \ {0}, hash : Nat]
  <2>1. D \in [1 .. n -> T]
    BY <1>9
  <2> HIDE DEF D, T
  <2>2. D \in Seq(T) /\ Len(D) = n
    BY <1>4, <2>1
  <2> QED
    BY <2>2 DEF T
<1>11. \A i \in 1 .. n :
           /\ D[i].pos = At(B, i - 1) /\ D[i].pos + D[i].len = At(B, i)
           /\ D[i].hash = ChunkHash[SubSeq(f, At(B, i - 1) + 1, Covered(i))]
  <2> HIDE DEF Covered
  <2> TAKE i \in 1 .. n
  <2>1. /\ D[i].pos = At(B, i - 1) /\ D[i].len = At(B, i) - At(B, i - 1)
        /\ D[i].hash = ChunkHash[SubSeq(f, At(B, i - 1) + 1, Covered(i))]
    OBVIOUS
  <2>2. At(B, i - 1) \in Nat /\ At(B, i) \in Nat
    BY <1>5, <1>7
  <2>3. At(B, i - 1) + (At(B, i) - At(B, i - 1)) = At(B, i)
    BY <2>2
  <2> QED
    BY <2>1, <2>3
<1> HIDE DEF D
<1>12. \A i \in 0 .. n : End(D, i) = At(B, i)
  BY <1>4, <1>5, <1>11 DEF End
<1>13. \A i \in 1 .. n : Hashed(f, ov, D, i) = SubSeq(f, At(B, i - 1) + 1, Covered(i))
  <2> TAKE i \in 1 .. n
  <2>1. D[i].pos + D[i].len + (IF i = Len(D) THEN 0 ELSE ov) = Covered(i)
    BY <1>2, <1>5, <1>7, <1>10, <1>11
  <2> QED
    BY <1>11, <2>1 DEF Hashed
<1>14. \A i \in 1 .. n : D[i].pos = End(D, i - 1) /\ End(D, i) <= Len(f)
  BY <1>5, <1>7, <1>11, <1>12
<1>15. \A i \in 1 .. n - 1 : End(D, i) + w + 1 <= Len(f)
  BY <1>4, <1>7, <1>12
<1>16. \A i \in 1 .. n : /\ Hashed(f, ov, D, i) \in Content
                         /\ D[i].hash = ChunkHash[Hashed(f, ov, D, i)]
  <2> HIDE DEF Covered
  <2> QED
    BY <1>8, <1>11, <1>13
<1> QED
  BY <1>1, <1>4, <1>5, <1>10, <1>12, <1>14, <1>15, <1>16 DEF IsDigest

\* What a hash covers begins with its chunk and is at least as long as the overlap.
LEMMA HashedFacts ==
    ASSUME NEW f \in File, NEW ov \in 1 .. w + 1, ov <= Len(f), NEW D, IsDigest(f, ov, D),
           NEW i \in 1 .. Len(D)
    PROVE  /\ D[i].pos \in Nat /\ D[i].len \in Nat \ {0} /\ D[i].hash \in Nat
           /\ D[i].pos + D[i].len <= Len(f)
           /\ Len(Hashed(f, ov, D, i)) = D[i].len + IF i = Len(D) THEN 0 ELSE ov
           /\ Len(Hashed(f, ov, D, i)) >= ov
           /\ \A k \in 1 .. Len(Hashed(f, ov, D, i)) : Hashed(f, ov, D, i)[k] = f[D[i].pos + k]
<1> DEFINE more == IF i = Len(D) THEN 0 ELSE ov
<1>1. w \in Nat /\ Len(f) \in Nat /\ ov \in Nat /\ ov <= w + 1 /\ Len(D) \in Nat
  <2>1. w \in Nat /\ Len(f) \in Nat
    BY FileType, WindowType
  <2>2. Len(D) \in Nat
    BY DigestType
  <2> QED
    BY <2>1, <2>2
<1>2. D[i].pos \in Nat /\ D[i].len \in Nat \ {0} /\ D[i].hash \in Nat
  BY DigestType
<1>3. D[i].pos = End(D, i - 1) /\ End(D, i) = D[i].pos + D[i].len /\ End(D, i) <= Len(f)
  BY <1>1 DEF IsDigest, End
<1>4. CASE i = Len(D)
  <2>1. End(D, i) = Len(f) /\ more = 0
    BY <1>4 DEF IsDigest
  <2>2. D[i].len >= ov
    <3>1. CASE i = 1
      BY <1>1, <1>2, <1>3, <2>1, <3>1 DEF End
    <3>2. CASE i # 1
      <4>1. i - 1 \in 1 .. Len(D) - 1
        BY <1>1, <1>4, <3>2
      <4>2. End(D, i - 1) + w + 1 <= Len(f)
        BY <4>1 DEF IsDigest
      <4> QED
        BY <1>1, <1>2, <1>3, <2>1, <4>2
    <3> QED
      BY <3>1, <3>2
  <2>3. Hashed(f, ov, D, i) = SubSeq(f, D[i].pos + 1, D[i].pos + D[i].len)
    <3>1. D[i].pos + D[i].len + more = D[i].pos + D[i].len
      BY <1>2, <2>1
    <3> QED
      BY <3>1 DEF Hashed
  <2>4. /\ Len(Hashed(f, ov, D, i)) = D[i].len
        /\ \A k \in 1 .. D[i].len : Hashed(f, ov, D, i)[k] = f[D[i].pos + k]
    <3>1. /\ D[i].pos \in Nat /\ D[i].len \in Nat /\ D[i].pos + D[i].len <= Len(f)
      BY <1>2, <1>3
    <3>2. /\ Len(SubSeq(f, D[i].pos + 1, D[i].pos + D[i].len)) = D[i].len
          /\ \A k \in 1 .. D[i].len :
                SubSeq(f, D[i].pos + 1, D[i].pos + D[i].len)[k] = f[D[i].pos + k]
      BY <3>1, SubSeqLength
    <3> QED
      BY <2>3, <3>2
  <2> QED
    BY <1>2, <1>3, <1>4, <2>2, <2>4
<1>5. CASE i # Len(D)
  <2>1. i \in 1 .. Len(D) - 1
    BY <1>1, <1>5
  <2>2. End(D, i) + w + 1 <= Len(f)
    BY <2>1 DEF IsDigest
  <2>3. Hashed(f, ov, D, i) = SubSeq(f, D[i].pos + 1, D[i].pos + D[i].len + ov)
    BY <1>5 DEF Hashed
  <2>4. D[i].pos + D[i].len + ov <= Len(f) /\ D[i].pos + D[i].len + ov \in Nat
    <3>1. D[i].pos + D[i].len \in Nat /\ D[i].pos + D[i].len + w + 1 <= Len(f)
      BY <1>2, <1>3, <2>2
    <3> QED
      BY <1>1, <3>1
  <2>5. /\ Len(Hashed(f, ov, D, i)) = D[i].len + ov
        /\ \A k \in 1 .. D[i].len + ov : Hashed(f, ov, D, i)[k] = f[D[i].pos + k]
    <3> DEFINE n == D[i].len + ov
    <3>1. n \in Nat /\ D[i].pos + n = D[i].pos + D[i].len + ov
      BY <1>1, <1>2
    <3> HIDE DEF n
    <3>2. /\ Len(SubSeq(f, D[i].pos + 1, D[i].pos + n)) = n
          /\ \A k \in 1 .. n : SubSeq(f, D[i].pos + 1, D[i].pos + n)[k] = f[D[i].pos + k]
      BY <1>2, <2>4, <3>1, SubSeqLength
    <3> QED
      BY <2>3, <3>1, <3>2 DEF n
  <2> QED
    BY <1>1, <1>2, <1>3, <1>5, <2>5
<1> QED
  BY <1>4, <1>5

\* Chunks of a file that share a hash have the same characters and the same length, and
\* the last one shares its hash with no other: else the program has exited.
LEMMA SameHash ==
    ASSUME NEW f \in File, NEW ov \in 1 .. w + 1, ov <= Len(f), NEW D, IsDigest(f, ov, D),
           ~Clashes(f, D), NEW i \in 1 .. Len(D), NEW j \in 1 .. Len(D), D[i].hash = D[j].hash
    PROVE  /\ D[i].len = D[j].len /\ (i = Len(D) <=> j = Len(D))
           /\ Hashed(f, ov, D, i) = Hashed(f, ov, D, j)
<1>1. Hashed(f, ov, D, i) = Hashed(f, ov, D, j)
  BY ChunkHashAssumption DEF IsDigest
<1>2. SubSeq(f, D[i].pos + 1, D[i].pos + D[i].len) = SubSeq(f, D[j].pos + 1, D[j].pos + D[j].len)
  <2>1. i \in DOMAIN D /\ j \in DOMAIN D
    BY DigestType
  <2> QED
    BY <2>1 DEF Clashes
<1>3. \A k \in {i, j} :
         /\ D[k].pos \in Nat /\ D[k].len \in Nat \ {0} /\ D[k].pos + D[k].len <= Len(f)
         /\ Len(Hashed(f, ov, D, k)) = D[k].len + IF k = Len(D) THEN 0 ELSE ov
  <2> TAKE k \in {i, j}
  <2>1. k \in 1 .. Len(D)
    OBVIOUS
  <2> QED
    BY <2>1, HashedFacts
<1>4. \A k \in {i, j} : Len(SubSeq(f, D[k].pos + 1, D[k].pos + D[k].len)) = D[k].len
  <2> TAKE k \in {i, j}
  <2>1. /\ D[k].pos \in Nat /\ D[k].len \in Nat /\ D[k].pos + D[k].len <= Len(f)
    BY <1>3
  <2> QED
    BY <2>1, SubSeqLength
<1>5. D[i].len = D[j].len
  BY <1>2, <1>4
<1>6. ov \in Nat /\ ov >= 1
  BY WindowType
<1> QED
  BY <1>1, <1>3, <1>5, <1>6

-----------------------------------------------------------------------------
(* A party's chunks and hashes.                                            *)

Digested(q) == /\ file[q] \in File
               /\ IsDigest(file[q], overlap(q), hashes[q])
               /\ ~Clashes(file[q], hashes[q])

LEMMA OverlapType ==
    ASSUME NEW q, file[q] \in File
    PROVE  /\ overlap(q) \in 1 .. w + 1 /\ overlap(q) <= Len(file[q])
           /\ overlap(q) \in Nat /\ overlap(q) >= 1
BY OverlapAssumption, WindowType DEF overlap

\* The first chunk with a hash.
LEMMA FirstChunk ==
    ASSUME NEW q, Digested(q), NEW i \in 1 .. Len(hashes[q])
    PROVE  \E j \in 1 .. Len(hashes[q]) : /\ hashes[q][j].hash = hashes[q][i].hash
                                          /\ Chunk(q, hashes[q][i].hash) = hashes[q][j]
<1> DEFINE h == hashes[q][i].hash
           First(j) == /\ hashes[q][j].hash = h
                       /\ \A k \in 1 .. j - 1 : hashes[q][k].hash # h
           Same == {k \in Nat : k \in 1 .. Len(hashes[q]) /\ hashes[q][k].hash = h}
<1>1. Len(hashes[q]) \in Nat /\ DOMAIN hashes[q] = 1 .. Len(hashes[q])
  BY DigestType DEF Digested
<1>2. PICK j \in Same : \A k \in Same : j <= k
  <2>1. i \in Same /\ Same \in SUBSET Nat
    BY <1>1
  <2> HIDE DEF Same
  <2> QED
    BY <2>1, LeastNat
<1>3. j \in DOMAIN hashes[q] /\ First(j)
  <2>1. j \in 1 .. Len(hashes[q]) /\ hashes[q][j].hash = h
    BY <1>2
  <2>2. \A k \in 1 .. j - 1 : k \in Nat /\ k \in 1 .. Len(hashes[q]) /\ k < j
    BY <1>1, <2>1
  <2>3. \A k \in 1 .. j - 1 : hashes[q][k].hash # h
    BY <1>2, <2>2
  <2> QED
    BY <1>1, <2>1, <2>3
<1>4. Chunk(q, h) = hashes[q][CHOOSE k \in DOMAIN hashes[q] : First(k)]
  BY DEF Chunk
<1> HIDE DEF First
<1>5. PICK k \in DOMAIN hashes[q] : First(k) /\ Chunk(q, h) = hashes[q][k]
  BY <1>3, <1>4
<1> QED
  BY <1>1, <1>5 DEF First

LEMMA ContentsFacts ==
    ASSUME NEW q, Digested(q), NEW i \in 1 .. Len(hashes[q]),
           NEW h, h = hashes[q][i].hash
    PROVE  /\ Contents(q, h) = Hashed(file[q], overlap(q), hashes[q], i)
           /\ Chunk(q, h).len = hashes[q][i].len
           /\ Chars(q, h) = SubSeq(file[q], hashes[q][i].pos + 1,
                                   hashes[q][i].pos + hashes[q][i].len)
           /\ IsLast(q, h) <=> i = Len(hashes[q])
<1> DEFINE f == file[q]
           ov == overlap(q)
           D == hashes[q]
<1>1. /\ f \in File /\ ov \in 1 .. w + 1 /\ ov <= Len(f) /\ IsDigest(f, ov, D)
      /\ ~Clashes(f, D)
  BY OverlapType DEF Digested
<1>2. Len(D) \in Nat /\ DOMAIN D = 1 .. Len(D) /\ Len(D) \in 1 .. Len(D)
  BY <1>1, DigestType DEF IsDigest
<1>3. PICK j \in 1 .. Len(D) : D[j].hash = h /\ Chunk(q, h) = D[j]
  BY FirstChunk
<1> HIDE DEF f, ov, D
<1>4. /\ D[i].len = D[j].len /\ (i = Len(D) <=> j = Len(D))
      /\ Hashed(f, ov, D, i) = Hashed(f, ov, D, j)
  BY <1>1, <1>3, SameHash DEF D
<1>5. D[i].hash = D[Len(D)].hash => i = Len(D)
  BY <1>1, <1>2, SameHash DEF D
<1>6. IsLast(q, h) <=> i = Len(D)
  BY <1>5 DEF IsLast, D
<1>7. Contents(q, h) = Hashed(f, ov, D, j)
  <2>1. IsLast(q, h) <=> j = Len(D)
    BY <1>4, <1>6
  <2> QED
    BY <1>3, <2>1 DEF Contents, Hashed, f, ov
<1>8. Chars(q, h) = SubSeq(f, D[i].pos + 1, D[i].pos + D[i].len)
  <2>1. SubSeq(f, D[i].pos + 1, D[i].pos + D[i].len)
            = SubSeq(f, D[j].pos + 1, D[j].pos + D[j].len)
    BY <1>1, <1>2, <1>3 DEF Clashes, D
  <2> QED
    BY <1>3, <2>1 DEF Chars, f
<1> QED
  BY <1>3, <1>4, <1>6, <1>7, <1>8 DEF f, ov, D

\* The characters a hash stands for, of which it is the hash: they begin with the chunk,
\* and both ends of a shared hash have the same.
LEMMA HashFacts ==
    ASSUME NEW q, Digested(q), NEW h \in Keys(q)
    PROVE  /\ h \in Nat /\ Contents(q, h) \in Content /\ ChunkHash[Contents(q, h)] = h
           /\ Len(Contents(q, h)) >= overlap(q)
           /\ Len(Contents(q, h)) = Chunk(q, h).len + IF IsLast(q, h) THEN 0 ELSE overlap(q)
           /\ Chunk(q, h).len \in Nat \ {0}
           /\ Chars(q, h) = SubSeq(Contents(q, h), 1, Chunk(q, h).len)
<1> DEFINE f == file[q]
           ov == overlap(q)
           D == hashes[q]
<1>1. /\ f \in File /\ ov \in 1 .. w + 1 /\ ov <= Len(f) /\ IsDigest(f, ov, D)
      /\ f \in Seq(Char) /\ Len(f) \in Nat /\ ov \in Nat
  BY OverlapType, FileType DEF Digested
<1>2. PICK i \in 1 .. Len(D) : h = D[i].hash
  <2>1. DOMAIN D = 1 .. Len(D)
    BY <1>1, DigestType
  <2> QED
    BY <2>1 DEF Keys
<1>3. /\ Contents(q, h) = Hashed(f, ov, D, i) /\ Chunk(q, h).len = D[i].len
      /\ Chars(q, h) = SubSeq(f, D[i].pos + 1, D[i].pos + D[i].len)
      /\ IsLast(q, h) <=> i = Len(D)
  BY <1>2, ContentsFacts
<1> HIDE DEF f, ov, D
<1>4. /\ D[i].pos \in Nat /\ D[i].len \in Nat \ {0} /\ D[i].hash \in Nat
      /\ D[i].pos + D[i].len <= Len(f)
      /\ Len(Hashed(f, ov, D, i)) = D[i].len + IF i = Len(D) THEN 0 ELSE ov
      /\ Len(Hashed(f, ov, D, i)) >= ov
      /\ \A k \in 1 .. Len(Hashed(f, ov, D, i)) : Hashed(f, ov, D, i)[k] = f[D[i].pos + k]
  BY <1>1, <1>2, HashedFacts
<1>5. Hashed(f, ov, D, i) \in Content /\ D[i].hash = ChunkHash[Hashed(f, ov, D, i)]
  BY <1>1, <1>2 DEF IsDigest
<1>6. Chars(q, h) = SubSeq(Contents(q, h), 1, Chunk(q, h).len)
  <2> DEFINE n == D[i].len
             g == Hashed(f, ov, D, i)
             a == D[i].pos
  <2>1. SubSeq(f, a + 1, a + n) = [k \in 1 .. n |-> f[a + k]]
    <3>1. a \in Nat /\ n \in Nat
      BY <1>4
    <3> HIDE DEF a, n, g
    <3> QED
      BY <1>1, <3>1
  <2>2. n <= Len(g)
    BY <1>1, <1>4
  <2>3. SubSeq(g, 1, n) = [k \in 1 .. n |-> g[k]]
    BY <1>4
  <2>4. \A k \in 1 .. n : k \in 1 .. Len(g) /\ g[k] = f[a + k]
    BY <1>1, <1>4, <2>2
  <2> HIDE DEF n, g, a
  <2>5. SubSeq(f, a + 1, a + n) = SubSeq(g, 1, n)
    BY <2>1, <2>3, <2>4
  <2> QED
    BY <1>3, <2>5 DEF n, g, a
<1> QED
  BY <1>2, <1>3, <1>4, <1>5, <1>6 DEF ov

LEMMA KeysFacts ==
    ASSUME NEW q, Digested(q)
    PROVE  /\ Keys(q) \in SUBSET Int /\ IsFiniteSet(Keys(q)) /\ Cardinality(Keys(q)) \in Nat
           /\ \A i \in 1 .. Len(hashes[q]) : hashes[q][i].hash \in Keys(q)
<1> DEFINE f == [i \in 1 .. Len(hashes[q]) |-> hashes[q][i].hash]
<1>1. Len(hashes[q]) \in Nat /\ DOMAIN hashes[q] = 1 .. Len(hashes[q])
  BY DigestType DEF Digested
<1>2. \A i \in 1 .. Len(hashes[q]) : hashes[q][i].hash \in Keys(q)
  BY <1>1 DEF Keys
<1>3. f \in Surjection(1 .. Len(hashes[q]), Keys(q))
  <2>1. f \in [1 .. Len(hashes[q]) -> Keys(q)]
    BY <1>2
  <2>2. \A h \in Keys(q) : \E i \in 1 .. Len(hashes[q]) : f[i] = h
    BY <1>1 DEF Keys
  <2> HIDE DEF f
  <2> QED
    BY <2>1, <2>2 DEF Surjection
<1>4. IsFiniteSet(1 .. Len(hashes[q]))
  BY <1>1, FS_Interval
<1> HIDE DEF f
<1>5. IsFiniteSet(Keys(q)) /\ Cardinality(Keys(q)) \in Nat
  BY <1>3, <1>4, FS_Surjection, FS_CardinalityType
<1>6. \A h \in Keys(q) : h \in Int
  BY HashFacts
<1> QED
  BY <1>2, <1>5, <1>6

Both == Keys("A") \cap Keys("B")

LEMMA SharedContents ==
    ASSUME Digested("A"), Digested("B"), NEW h \in Both
    PROVE  Contents("A", h) = Contents("B", h)
BY HashFacts, ChunkHashAssumption DEF Both

\* A chunk ends with the characters the next one starts with.
LEMMA EndsAsNextStarts ==
    ASSUME NEW q, Digested(q), NEW i \in 1 .. Len(hashes[q]) - 1
    PROVE  EndChars(q, hashes[q][i].hash) = StartChars(q, hashes[q][i + 1].hash)
<1> DEFINE f == file[q]
           ov == overlap(q)
           D == hashes[q]
           s == Contents(q, D[i].hash)
           t == Contents(q, D[i + 1].hash)
<1>1. /\ f \in File /\ ov \in 1 .. w + 1 /\ ov <= Len(f) /\ IsDigest(f, ov, D) /\ ov \in Nat
      /\ Len(D) \in Nat
  BY OverlapType, DigestType DEF Digested
<1>2. i \in 1 .. Len(D) /\ i + 1 \in 1 .. Len(D) /\ i # Len(D) /\ i + 1 - 1 = i /\ i # 0
  BY <1>1
<1>3. s = Hashed(f, ov, D, i) /\ t = Hashed(f, ov, D, i + 1)
  BY <1>2, ContentsFacts
<1> HIDE DEF f, ov, D, s, t
<1>0. \A x \in 1 .. Len(D) :
          /\ D[x].pos \in Nat /\ D[x].len \in Nat
          /\ Len(Hashed(f, ov, D, x)) = D[x].len + IF x = Len(D) THEN 0 ELSE ov
          /\ Len(Hashed(f, ov, D, x)) >= ov
          /\ \A k \in 1 .. Len(Hashed(f, ov, D, x)) :
                Hashed(f, ov, D, x)[k] = f[D[x].pos + k]
  BY <1>1, HashedFacts
<1>4. /\ D[i].pos \in Nat /\ D[i].len \in Nat
      /\ Len(s) = D[i].len + ov
      /\ \A k \in 1 .. Len(s) : s[k] = f[D[i].pos + k]
  BY <1>0, <1>2, <1>3
<1>5. Len(t) >= ov /\ Len(t) \in Nat /\ \A k \in 1 .. Len(t) : t[k] = f[D[i + 1].pos + k]
  <2>1. /\ D[i + 1].len \in Nat /\ Len(t) >= ov
        /\ Len(t) = D[i + 1].len + IF i + 1 = Len(D) THEN 0 ELSE ov
        /\ \A k \in 1 .. Len(t) : t[k] = f[D[i + 1].pos + k]
    BY <1>0, <1>2, <1>3
  <2> QED
    BY <1>1, <2>1
<1>6. D[i + 1].pos = D[i].pos + D[i].len
  BY <1>1, <1>2 DEF IsDigest, End
<1>7. \A k \in 1 .. ov : s[D[i].len + k] = t[k]
  <2> TAKE k \in 1 .. ov
  <2>1. /\ D[i].len + k \in 1 .. Len(s) /\ k \in 1 .. Len(t)
        /\ D[i].pos + (D[i].len + k) = D[i + 1].pos + k
    <3> DEFINE a == D[i].pos
               n == D[i].len
               b == D[i + 1].pos
    <3>1. a \in Nat /\ n \in Nat /\ Len(s) = n + ov /\ b = a + n
      BY <1>4, <1>6
    <3> HIDE DEF a, n, b
    <3>2. n + k \in 1 .. Len(s) /\ k \in 1 .. Len(t) /\ a + (n + k) = b + k
      BY <1>1, <1>5, <3>1
    <3> QED
      BY <3>2 DEF a, n, b
  <2>2. s[D[i].len + k] = f[D[i].pos + (D[i].len + k)] /\ t[k] = f[D[i + 1].pos + k]
    BY <1>4, <1>5, <2>1
  <2> QED
    BY <2>1, <2>2
<1>8. SubSeq(s, Len(s) - ov + 1, Len(s)) = [k \in 1 .. ov |-> s[D[i].len + k]]
  <2> DEFINE n == D[i].len
  <2>1. n \in Nat /\ Len(s) = n + ov
    BY <1>4
  <2> HIDE DEF n
  <2>2. Len(s) - ov + 1 = n + 1
    BY <1>1, <2>1
  <2>3. SubSeq(s, n + 1, n + ov) = [k \in 1 .. ov |-> s[n + k]]
    BY <1>1, <2>1
  <2> QED
    BY <2>1, <2>2, <2>3 DEF n
<1>9. SubSeq(t, 1, ov) = [k \in 1 .. ov |-> t[k]]
  BY <1>1
<1>10. SubSeq(s, Len(s) - ov + 1, Len(s)) = SubSeq(t, 1, ov)
  BY <1>7, <1>8, <1>9
<1> QED
  BY <1>10 DEF EndChars, StartChars, s, t, D, ov

-----------------------------------------------------------------------------
(* What B's description of its k-th chunk should be, and what A makes of it. *)

IsShared(k) == hashes["B"][k].hash \in Keys("A")

IndexOf(k) ==
    LET h == hashes["B"][k].hash
    IN  IF k > 1 /\ IsShared(k - 1)
        THEN Rank(StartingWith("B", Both, StartChars("B", h)), h)
        ELSE Rank(Keys("A"), h)

\* How many of the first k positions are in S.
Upto(S, k) == Cardinality({j \in 1 .. k : j \in S})

LEMMA UptoFacts ==
    ASSUME NEW S
    PROVE  /\ Upto(S, 0) = 0
           /\ \A k \in Nat : /\ Upto(S, k) \in 0 .. k
                             /\ Upto(S, k + 1) = Upto(S, k) + IF k + 1 \in S THEN 1 ELSE 0
           /\ \A k, m \in Nat : k <= m => Upto(S, k) <= Upto(S, m)
<1> DEFINE P(k) == {j \in 1 .. k : j \in S}
<1>1. Upto(S, 0) = 0
  <2>1. P(0) = {}
    OBVIOUS
  <2> QED
    BY <2>1, FS_EmptySet DEF Upto
<1>2. \A k \in Nat : IsFiniteSet(P(k)) /\ Cardinality(P(k)) \in 0 .. k
  <2> TAKE k \in Nat
  <2>1. IsFiniteSet(1 .. k) /\ Cardinality(1 .. k) = k
    BY FS_Interval
  <2>2. IsFiniteSet(P(k)) /\ Cardinality(P(k)) <= k /\ Cardinality(P(k)) \in Nat
    BY <2>1, FS_Subset, FS_CardinalityType
  <2> QED
    BY <2>2
<1>3. ASSUME NEW k \in Nat
      PROVE  Upto(S, k + 1) = Upto(S, k) + IF k + 1 \in S THEN 1 ELSE 0
  <2>1. k + 1 \notin P(k) /\ P(k + 1) = IF k + 1 \in S THEN P(k) \cup {k + 1} ELSE P(k)
    <3>1. 1 .. k + 1 = (1 .. k) \cup {k + 1} /\ k + 1 \notin 1 .. k
      OBVIOUS
    <3> QED
      BY <3>1
  <2>2. Upto(S, k) = Cardinality(P(k)) /\ Upto(S, k + 1) = Cardinality(P(k + 1))
    BY DEF Upto
  <2> HIDE DEF P
  <2> QED
    BY <1>2, <2>1, <2>2, FS_AddElement
<1>4. ASSUME NEW k \in Nat, NEW m \in Nat, k <= m
      PROVE  Upto(S, k) <= Upto(S, m)
  <2>1. P(k) \in SUBSET P(m)
    BY <1>4
  <2>2. Cardinality(P(k)) <= Cardinality(P(m))
    <3> HIDE DEF P
    <3> QED
      BY <1>2, <2>1, FS_Subset
  <2> QED
    BY <2>2 DEF Upto
<1> QED
  BY <1>1, <1>2, <1>3, <1>4 DEF Upto

LEMMA UptoSum ==
    ASSUME NEW S, NEW k \in Nat
    PROVE  Upto(S, k) + Upto(Nat \ S, k) = k
<1> DEFINE P == {j \in 1 .. k : j \in S}
           Q == {j \in 1 .. k : j \in Nat \ S}
<1>1. P \cup Q = 1 .. k /\ P \cap Q = {}
  OBVIOUS
<1>2. IsFiniteSet(1 .. k) /\ Cardinality(1 .. k) = k
  BY FS_Interval
<1>3. P \in SUBSET (1 .. k) /\ Q \in SUBSET (1 .. k)
  OBVIOUS
<1> HIDE DEF P, Q
<1>4. /\ IsFiniteSet(P) /\ IsFiniteSet(Q) /\ Cardinality(P) \in Nat /\ Cardinality(Q) \in Nat
  BY <1>2, <1>3, FS_Subset, FS_CardinalityType
<1>5. Cardinality(P \cup Q) = Cardinality(P) + Cardinality(Q) - Cardinality(P \cap Q)
  BY <1>4, FS_Union
<1>6. Cardinality(P \cap Q) = 0
  BY <1>1, FS_EmptySet
<1>7. k = Cardinality(P) + Cardinality(Q)
  <2> DEFINE a == Cardinality(P)
             b == Cardinality(Q)
  <2>1. a \in Nat /\ b \in Nat /\ k = a + b - 0
    BY <1>1, <1>2, <1>4, <1>5, <1>6
  <2> HIDE DEF a, b
  <2>2. k = a + b
    BY <2>1
  <2> QED
    BY <2>2 DEF a, b
<1>8. Upto(S, k) = Cardinality(P) /\ Upto(Nat \ S, k) = Cardinality(Q)
  BY DEF Upto, P, Q
<1> QED
  BY <1>7, <1>8

\* How many of the first k chunks A has, and how many it has not.
Shared == {k \in Nat : IsShared(k)}
Count(k) == Upto(Shared, k)
CountNew(k) == Upto(Nat \ Shared, k)

LEMMA CountFacts ==
    /\ Count(0) = 0 /\ CountNew(0) = 0
    /\ \A k \in Nat :
         /\ Count(k) \in 0 .. k /\ CountNew(k) \in 0 .. k /\ Count(k) + CountNew(k) = k
         /\ Count(k + 1) = Count(k) + IF IsShared(k + 1) THEN 1 ELSE 0
         /\ CountNew(k + 1) = CountNew(k) + IF IsShared(k + 1) THEN 0 ELSE 1
    /\ \A k, m \in Nat : k <= m => Count(k) <= Count(m) /\ CountNew(k) <= CountNew(m)
<1>1. \A k \in Nat : k + 1 \in Nat /\ (k + 1 \in Shared <=> IsShared(k + 1))
  BY DEF Shared
<1> DEFINE New == Nat \ Shared
<1>2. \A k \in Nat : k + 1 \in New <=> ~IsShared(k + 1)
  BY <1>1
<1> HIDE DEF New
<1>3. /\ Upto(Shared, 0) = 0
      /\ \A k \in Nat : /\ Upto(Shared, k) \in 0 .. k
                        /\ Upto(Shared, k + 1)
                             = Upto(Shared, k) + IF k + 1 \in Shared THEN 1 ELSE 0
      /\ \A k, m \in Nat : k <= m => Upto(Shared, k) <= Upto(Shared, m)
  BY UptoFacts
<1>4. /\ Upto(New, 0) = 0
      /\ \A k \in Nat : /\ Upto(New, k) \in 0 .. k
                        /\ Upto(New, k + 1) = Upto(New, k) + IF k + 1 \in New THEN 1 ELSE 0
      /\ \A k, m \in Nat : k <= m => Upto(New, k) <= Upto(New, m)
  BY UptoFacts
<1>5. \A k \in Nat : Upto(Shared, k) + Upto(New, k) = k
  BY UptoSum DEF New
<1>6. \A k : Count(k) = Upto(Shared, k) /\ CountNew(k) = Upto(New, k)
  BY DEF Count, CountNew, New
<1>7. \A k \in Nat : /\ Count(k + 1) = Count(k) + IF IsShared(k + 1) THEN 1 ELSE 0
                     /\ CountNew(k + 1) = CountNew(k) + IF IsShared(k + 1) THEN 0 ELSE 1
  BY <1>1, <1>2, <1>3, <1>4, <1>6
<1> QED
  BY <1>3, <1>4, <1>5, <1>6, <1>7

Agreeing == overlap("A") = overlap("B") \/ Unaliased

\* If the overlaps differ, only the last chunk can be shared.
LEMMA SharedLast ==
    ASSUME Digested("A"), Digested("B"), Unaliased, overlap("A") # overlap("B"),
           NEW k \in 1 .. Len(hashes["B"]), IsShared(k)
    PROVE  k = Len(hashes["B"])
<1> DEFINE h == hashes["B"][k].hash
<1>1. h \in Keys("A") /\ h \in Keys("B") /\ h \in Both
  BY KeysFacts DEF IsShared, Both
<1>2. Contents("A", h) = Contents("B", h) /\ Chunk("A", h).len = Chunk("B", h).len
  BY <1>1, SharedContents DEF Unaliased, Both
<1>3. IsLast("B", h) <=> k = Len(hashes["B"])
  BY ContentsFacts
<1>4. /\ Chunk("A", h).len \in Nat /\ Chunk("B", h).len \in Nat
      /\ Len(Contents("A", h)) = Chunk("A", h).len + IF IsLast("A", h) THEN 0 ELSE overlap("A")
      /\ Len(Contents("B", h)) = Chunk("B", h).len + IF IsLast("B", h) THEN 0 ELSE overlap("B")
  BY <1>1, HashFacts
<1>5. \A q \in {"A", "B"} : overlap(q) \in Nat /\ overlap(q) >= 1
  BY OverlapType DEF Digested
<1> HIDE DEF h
<1>6. IsLast("B", h)
  BY <1>2, <1>4, <1>5
<1> QED
  BY <1>3, <1>6

\* Where the index leads.
Found(k, last) ==
    IF k > 1 /\ IsShared(k - 1)
    THEN StartingWith("A", Both, IF last \in Both THEN EndChars("A", last) ELSE << >>)
    ELSE Keys("A")

LEMMA IndexLeadsToChunk ==
    ASSUME Digested("A"), Digested("B"), Agreeing,
           NEW k \in 1 .. Len(hashes["B"]), IsShared(k), NEW last,
           k > 1 /\ IsShared(k - 1) => last = hashes["B"][k - 1].hash
    PROVE  /\ IndexOf(k) < Cardinality(Found(k, last))
           /\ At(Found(k, last), IndexOf(k)) = hashes["B"][k].hash
<1> DEFINE h == hashes["B"][k].hash
<1>1. /\ h \in Both /\ h \in Keys("A") /\ Len(hashes["B"]) \in Nat
      /\ Keys("A") \in SUBSET Int /\ IsFiniteSet(Keys("A"))
  BY KeysFacts, DigestType DEF IsShared, Both, Digested
<1>2. ASSUME NEW S \in SUBSET Keys("A"), h \in S
      PROVE  Rank(S, h) < Cardinality(S) /\ At(S, Rank(S, h)) = h
  <2>1. S \in SUBSET Int /\ IsFiniteSet(S) /\ Cardinality(S) \in Nat
    BY <1>1, FS_Subset, FS_CardinalityType
  <2>2. Rank(S, h) \in 0 .. Cardinality(S) - 1 /\ At(S, Rank(S, h)) = h
    <3> HIDE DEF h
    <3> QED
      BY <1>2, <2>1, RankFacts, AtFacts
  <2> HIDE DEF h
  <2> QED
    BY <2>1, <2>2
<1>3. CASE ~(k > 1 /\ IsShared(k - 1))
  BY <1>1, <1>2, <1>3 DEF IndexOf, Found
<1>4. CASE k > 1 /\ IsShared(k - 1)
  <2>1. k - 1 \in 1 .. Len(hashes["B"]) - 1 /\ k - 1 + 1 = k
        /\ k - 1 \in 1 .. Len(hashes["B"]) /\ k - 1 # Len(hashes["B"])
    BY <1>1, <1>4
  <2>2. overlap("A") = overlap("B")
    BY <1>4, <2>1, SharedLast DEF Agreeing
  <2>3. last = hashes["B"][k - 1].hash /\ last \in Both
    BY <1>4, <2>1, KeysFacts DEF IsShared, Both
  <2>4. EndChars("A", last) = StartChars("B", h)
    <3>1. EndChars("A", last) = EndChars("B", last)
      BY <2>2, <2>3, SharedContents DEF EndChars
    <3>2. EndChars("B", last) = StartChars("B", h)
      BY <2>1, <2>3, EndsAsNextStarts
    <3> QED
      BY <3>1, <3>2
  <2>5. \A g \in Both : StartChars("A", g) = StartChars("B", g)
    BY <2>2, SharedContents DEF StartChars
  <2> DEFINE S == StartingWith("B", Both, StartChars("B", h))
  <2>6. Found(k, last) = S
    BY <1>4, <2>3, <2>4, <2>5 DEF Found, StartingWith
  <2>7. S \in SUBSET Keys("A") /\ h \in S
    BY <1>1 DEF StartingWith, Both
  <2>8. IndexOf(k) = Rank(S, h)
    BY <1>4 DEF IndexOf
  <2> HIDE DEF S, h
  <2>9. Rank(S, h) < Cardinality(S) /\ At(S, Rank(S, h)) = h
    BY <1>2, <2>7
  <2> QED
    BY <2>6, <2>8, <2>9 DEF h
<1> QED
  BY <1>3, <1>4

LEMMA IndexType ==
    ASSUME Digested("A"), Digested("B"),
           NEW k \in 1 .. Len(hashes["B"]), IsShared(k)
    PROVE  /\ IndexOf(k) \in Nat
           /\ \A last : Cardinality(Found(k, last)) \in Nat
<1> DEFINE h == hashes["B"][k].hash
<1>1. /\ h \in Both /\ h \in Keys("A")
      /\ Keys("A") \in SUBSET Int /\ IsFiniteSet(Keys("A"))
  BY KeysFacts DEF IsShared, Both
<1>2. ASSUME NEW S \in SUBSET Keys("A")
      PROVE  Cardinality(S) \in Nat /\ (h \in S => Rank(S, h) \in Nat)
  <2>1. S \in SUBSET Int /\ IsFiniteSet(S) /\ Cardinality(S) \in Nat
    BY <1>1, FS_Subset, FS_CardinalityType
  <2> HIDE DEF h
  <2>2. h \in S => Rank(S, h) \in 0 .. Cardinality(S) - 1
    BY <2>1, RankFacts
  <2> QED
    BY <2>1, <2>2
<1>3. IndexOf(k) \in Nat
  <2> DEFINE S == StartingWith("B", Both, StartChars("B", h))
  <2>1. S \in SUBSET Keys("A") /\ h \in S
    BY <1>1 DEF StartingWith, Both
  <2>2. Rank(S, h) \in Nat /\ Rank(Keys("A"), h) \in Nat
    <3> HIDE DEF S
    <3> QED
      BY <1>1, <1>2, <2>1
  <2> QED
    BY <2>2 DEF IndexOf
<1>4. \A last : Found(k, last) \in SUBSET Keys("A")
  BY DEF Found, StartingWith, Both
<1> QED
  BY <1>2, <1>3, <1>4

LEMMA SharedFit ==
    ASSUME NEW q, Digested(q), NEW S \in SUBSET Keys(q)
    PROVE  OverlapsFit(q, S)
BY HashFacts DEF OverlapsFit

LEMMA SharedChars ==
    ASSUME Digested("A"), Digested("B"), Unaliased, NEW h \in Both
    PROVE  Chars("A", h) = Chars("B", h)
<1>1. h \in Keys("A") /\ h \in Keys("B")
  BY DEF Both
<1>2. Chunk("A", h).len = Chunk("B", h).len
  BY <1>1 DEF Unaliased
<1>3. Contents("A", h) = Contents("B", h)
  BY SharedContents
<1>4. \A q \in {"A", "B"} : Chars(q, h) = SubSeq(Contents(q, h), 1, Chunk(q, h).len)
  BY <1>1, HashFacts
<1> QED
  BY <1>2, <1>3, <1>4

\* The file up to the end of its k-th chunk.
Text(k) == SubSeq(file["B"], 1, End(hashes["B"], k))

LEMMA TextFacts ==
    ASSUME Digested("B")
    PROVE  /\ Text(0) = << >> /\ Text(Len(hashes["B"])) = file["B"]
           /\ \A k \in 0 .. Len(hashes["B"]) : End(hashes["B"], k) \in 0 .. Len(file["B"])
           /\ \A k \in 0 .. Len(hashes["B"]) - 1 :
                  Text(k) \o Chars("B", hashes["B"][k + 1].hash) = Text(k + 1)
<1> DEFINE f == file["B"]
           D == hashes["B"]
<1>1. /\ f \in File /\ f \in Seq(Char) /\ Len(f) \in Nat /\ IsDigest(f, overlap("B"), D)
      /\ Len(D) \in Nat
  BY FileType, DigestType DEF Digested
<1> HIDE DEF f, D
<1>2. \A i \in 1 .. Len(D) : D[i].pos \in Nat /\ D[i].len \in Nat
  BY <1>1, DigestType
<1>3. End(D, 0) = 0 /\ \A i \in 1 .. Len(D) : /\ D[i].pos = End(D, i - 1)
                                             /\ End(D, i) = D[i].pos + D[i].len
                                             /\ End(D, i) <= Len(f)
  BY <1>1 DEF IsDigest, End
<1>4. \A k \in 0 .. Len(D) : End(D, k) \in 0 .. Len(f)
  <2> TAKE k \in 0 .. Len(D)
  <2>1. CASE k = 0
    BY <1>1, <1>3, <2>1
  <2>2. CASE k # 0
    <3>1. k \in 1 .. Len(D)
      BY <2>2
    <3>2. D[k].pos \in Nat /\ D[k].len \in Nat
      BY <1>2, <3>1
    <3>3. End(D, k) = D[k].pos + D[k].len /\ End(D, k) <= Len(f)
      BY <1>3, <3>1
    <3> QED
      BY <1>1, <3>2, <3>3
  <2> QED
    BY <2>1, <2>2
<1>5. Text(0) = << >>
  BY <1>1, <1>3 DEF Text, f, D
<1>6. Text(Len(D)) = f
  <2>1. End(D, Len(D)) = Len(f)
    BY <1>1 DEF IsDigest
  <2>2. SubSeq(f, 1, Len(f)) = f
    BY <1>1
  <2> QED
    BY <2>1, <2>2 DEF Text, f, D
<1>7. ASSUME NEW k \in 0 .. Len(D) - 1
      PROVE  Text(k) \o Chars("B", D[k + 1].hash) = Text(k + 1)
  <2> DEFINE a == End(D, k)
             n == D[k + 1].len
  <2>1. k + 1 \in 1 .. Len(D) /\ k + 1 - 1 = k /\ k \in 0 .. Len(D) /\ k + 1 \in 0 .. Len(D)
    BY <1>1
  <2>2. Chars("B", D[k + 1].hash) = SubSeq(f, D[k + 1].pos + 1, D[k + 1].pos + n)
    BY <2>1, ContentsFacts DEF f, D
  <2>3. D[k + 1].pos = a /\ End(D, k + 1) = a + n
    BY <1>3, <2>1
  <2>4. a \in Nat /\ n \in Nat /\ a + n <= Len(f)
    BY <1>2, <1>4, <2>1, <2>3
  <2> HIDE DEF a, n
  <2>5. SubSeq(f, 1, a) \o SubSeq(f, a + 1, a + n) = SubSeq(f, 1, a + n)
    BY <1>1, <2>4
  <2> QED
    BY <2>2, <2>3, <2>5 DEF Text, a, f, D
<1> QED
  BY <1>4, <1>5, <1>6, <1>7 DEF f, D

\* A reads the bits of hash_exists in the order of its own hashes, as B wrote them.
LEMMA BitsRead ==
    ASSUME NEW S \in SUBSET Int, IsFiniteSet(S), NEW T
    PROVE  /\ Len(HashExists(S, T)) = Cardinality(S)
           /\ {At(S, i - 1) : i \in {j \in 1 .. Cardinality(S) : HashExists(S, T)[j]}} = S \ T
<1>1. Cardinality(S) \in Nat
  BY FS_CardinalityType
<1> DEFINE n == Cardinality(S)
           bits == [i \in 1 .. n |-> At(S, i - 1) \notin T]
<1>2. HashExists(S, T) = bits
  BY DEF HashExists
<1>3. Len(bits) = n
  BY <1>1
<1>4. \A i \in 1 .. n : At(S, i - 1) \in S
  <2> TAKE i \in 1 .. n
  <2>1. i - 1 \in 0 .. n - 1
    BY <1>1
  <2> QED
    BY <2>1, AtFacts
<1>5. \A x \in S : \E i \in 1 .. n : At(S, i - 1) = x
  <2> TAKE x \in S
  <2>1. Rank(S, x) \in 0 .. n - 1 /\ At(S, Rank(S, x)) = x
    BY RankFacts, AtFacts
  <2>2. Rank(S, x) + 1 \in 1 .. n /\ Rank(S, x) + 1 - 1 = Rank(S, x)
    BY <1>1, <2>1
  <2> QED
    BY <2>1, <2>2
<1>6. {At(S, i - 1) : i \in {j \in 1 .. n : bits[j]}} = S \ T
  <2> HIDE DEF n
  <2> QED
    BY <1>4, <1>5
<1> QED
  BY <1>2, <1>3, <1>6

-----------------------------------------------------------------------------
(* The inductive invariant.                                                *)

Encoding == pc["B"] \in {"encoding", "sent_rd2"}
Writing == pc["A"] \in {"writing", "done", "mismatch", "undefined"}

Shapes ==
    /\ pc \in [Party -> {"new", "exit", "ready", "sent_strata", "sent_estimate", "sent_iblt",
                         "encoding", "sent_rd2", "writing", "done", "mismatch", "undefined"}]
    /\ DOMAIN hashes = Party /\ DOMAIN shared_keys = Party
    /\ rd2 \in [chunk_exists : Seq(BOOLEAN), hash_exists : Seq(BOOLEAN),
                SHAHash : File \cup {<< >>}, new_chunk_info : Seq(Content),
                existing_chunk_encoding : Seq(Nat)]
    /\ existing_chunk \in Nat /\ new_chunk \in Nat

Phases ==
    /\ Encoding => pc["A"] = "sent_iblt" \/ Writing
    /\ Writing => pc["B"] = "sent_rd2"

Digests == \A q \in Party : /\ file[q] \in File
                            /\ pc[q] \notin {"new", "exit"} => Digested(q)

Differences ==
    Encoding => /\ my_distinct_keys = Keys("B") \ Keys("A")
                /\ cp_distinct_keys = Keys("A") \ Keys("B")
                /\ shared_keys["B"] = Both
                /\ rd2.hash_exists = HashExists(Keys("A"), Keys("A") \ Keys("B"))

\* B has described its first chunks.
Described ==
    LET m == Len(rd2.chunk_exists)
    IN  IF Encoding
        THEN /\ m <= Len(hashes["B"])
             /\ Len(rd2.existing_chunk_encoding) = Count(m)
             /\ Len(rd2.new_chunk_info) = CountNew(m)
             /\ \A k \in 1 .. m :
                  /\ rd2.chunk_exists[k] <=> IsShared(k)
                  /\ IsShared(k) => rd2.existing_chunk_encoding[Count(k)] = IndexOf(k)
                  /\ ~IsShared(k) =>
                        rd2.new_chunk_info[CountNew(k)] = Chars("B", hashes["B"][k].hash)
             /\ pc["B"] = "sent_rd2" => m = Len(hashes["B"]) /\ rd2.SHAHash = file["B"]
        ELSE rd2 = EmptyRd2

\* A has written the chunks up to Written.
Reconstructed ==
    IF Writing
    THEN /\ shared_keys["A"] = Both
         /\ Written <= Len(rd2.chunk_exists) /\ existing_chunk = Count(Written)
         /\ Agreeing => /\ pc["A"] # "undefined"
                        /\ LastExists(Written) => last_hash = hashes["B"][Written].hash
         /\ Unaliased => pc["A"] # "mismatch" /\ temp = Text(Written)
    ELSE existing_chunk = 0 /\ new_chunk = 0 /\ temp = << >>

IInv == /\ Shapes /\ Phases /\ Digests
        /\ Differences /\ Described /\ Reconstructed

-----------------------------------------------------------------------------
(* What depends on the files and their digests alone.                      *)

LEMMA Unmoved ==
    ASSUME UNCHANGED digests
    PROVE  /\ \A q : /\ overlap(q)' = overlap(q) /\ Keys(q)' = Keys(q)
                     /\ Digested(q)' = Digested(q)
           /\ \A q, h : Chars(q, h)' = Chars(q, h)
           /\ Both' = Both /\ Unaliased' = Unaliased /\ Agreeing' = Agreeing
           /\ \A k : /\ IsShared(k)' = IsShared(k) /\ IndexOf(k)' = IndexOf(k)
                     /\ Count(k)' = Count(k) /\ CountNew(k)' = CountNew(k)
                     /\ Text(k)' = Text(k)
<1>1. file' = file /\ hashes' = hashes
  BY DEF digests
<1>2. \A q : /\ overlap(q)' = overlap(q) /\ Keys(q)' = Keys(q)
  BY <1>1 DEF overlap, Keys
<1>3. \A q : Digested(q)' = Digested(q)
  BY <1>1, <1>2 DEF Digested
<1>4. \A q, h : /\ Chunk(q, h)' = Chunk(q, h) /\ IsLast(q, h)' = IsLast(q, h)
  BY <1>1 DEF Chunk, IsLast
<1>5. \A q, h : /\ Chars(q, h)' = Chars(q, h) /\ Contents(q, h)' = Contents(q, h)
  BY <1>1, <1>2, <1>4 DEF Chars, Contents
<1>6. Both' = Both
  BY <1>2 DEF Both
<1>7. Unaliased' = Unaliased
  BY <1>2, <1>4 DEF Unaliased
<1>8. Agreeing' = Agreeing
  BY <1>2, <1>7 DEF Agreeing
<1>9. \A k : IsShared(k)' = IsShared(k)
  BY <1>1, <1>2 DEF IsShared
<1>10. \A q, h : StartChars(q, h)' = StartChars(q, h)
  BY <1>2, <1>5 DEF StartChars
<1>11. \A q, S, c : StartingWith(q, S, c)' = StartingWith(q, S, c)
  BY <1>10 DEF StartingWith
<1>12. \A k : IndexOf(k)' = IndexOf(k)
  BY <1>1, <1>2, <1>6, <1>9, <1>10 DEF IndexOf, StartingWith
<1>13. Shared' = Shared
  BY <1>9 DEF Shared
<1>14. \A k : Count(k)' = Count(k) /\ CountNew(k)' = CountNew(k)
  BY <1>13 DEF Count, CountNew
<1>15. \A k : Text(k)' = Text(k)
  BY <1>1 DEF Text
<1> QED
  BY <1>2, <1>3, <1>5, <1>6, <1>7, <1>8, <1>9, <1>12, <1>14, <1>15

-----------------------------------------------------------------------------
(* The steps.                                                              *)

LEMMA InitInv == Init => IInv
<1> SUFFICES ASSUME Init PROVE IInv
  OBVIOUS
<1>1. /\ pc = [q \in Party |-> "new"] /\ pc["A"] = "new" /\ pc["B"] = "new"
      /\ ~Encoding /\ ~Writing
  BY DEF Init, Party, Encoding, Writing
<1>2. \A q \in Party : file[q] \in File
  BY FileAssumption DEF Init
<1>3. Shapes
  BY <1>1 DEF Init, Shapes, EmptyRd2
<1>4. Described
  BY <1>1 DEF Init, Described
<1>5. Phases /\ Differences /\ Reconstructed
  BY <1>1 DEF Init, Phases, Differences, Reconstructed
<1>6. Digests
  BY <1>1, <1>2 DEF Digests
<1> QED
  BY <1>3, <1>4, <1>5, <1>6 DEF IInv

\* Before the differences are known.
LEMMA EarlyStep ==
    ASSUME IInv, ~Encoding, ~Writing, NEW q \in Party,
           NEW s \in {"exit", "ready", "sent_strata", "sent_estimate", "sent_iblt"},
           pc' = [pc EXCEPT ![q] = s], s # "exit" => Digested(q)',
           \A r \in Party \ {q} : Digested(r)' = Digested(r),
           DOMAIN hashes' = Party,
           UNCHANGED <<file, differences, shared_keys, rd2, reconstruction>>
    PROVE  IInv'
<1>1. /\ pc'[q] = s /\ \A r \in Party \ {q} : pc'[r] = pc[r]
      /\ ~Encoding' /\ ~Writing'
  BY DEF IInv, Shapes, Encoding, Writing, Party
<1>2. Shapes'
  <2>1. pc' \in [Party -> {"new", "exit", "ready", "sent_strata", "sent_estimate", "sent_iblt",
                         "encoding", "sent_rd2", "writing", "done", "mismatch", "undefined"}]
    BY DEF IInv, Shapes
  <2> QED
    BY <2>1 DEF IInv, Shapes, reconstruction
<1>3. Phases' /\ Differences'
  BY <1>1 DEF Phases, Differences
<1>4. Described' /\ Reconstructed'
  BY <1>1 DEF IInv, Described, Reconstructed, reconstruction
<1>5. Digests'
  BY <1>1 DEF IInv, Digests
<1> QED
  BY <1>2, <1>3, <1>4, <1>5 DEF IInv

LEMMA ProcessFileStep ==
    ASSUME IInv, NEW p \in Party, ProcessFile(p)
    PROVE  IInv'
<1>1. /\ pc[p] = "new" /\ file[p] \in File /\ DOMAIN hashes = Party
  BY DEF ProcessFile, IInv, Digests, Shapes
<1>2. ~Encoding /\ ~Writing
  BY <1>1 DEF IInv, Phases, Encoding, Writing, Party
<1>3. /\ overlap(p) \in 1 .. w + 1 /\ \A r : overlap(r)' = overlap(r)
  BY <1>1, OverlapType DEF overlap, ProcessFile
<1>4. /\ hashes'[p] = Digest(file[p], overlap(p)) /\ DOMAIN hashes' = Party
      /\ \A r \in Party \ {p} : hashes'[r] = hashes[r]
  BY <1>1 DEF ProcessFile
<1> DEFINE s == IF Clashes(file[p], hashes'[p]) THEN "exit" ELSE "ready"
<1>5. s # "exit" => Digested(p)'
  <2>1. IsDigest(file[p], overlap(p), hashes'[p])
    BY <1>1, <1>3, <1>4, DigestIsDigest
  <2> QED
    BY <1>1, <1>3, <2>1 DEF Digested, ProcessFile
<1>6. \A r \in Party \ {p} : Digested(r)' = Digested(r)
  BY <1>3, <1>4 DEF Digested, ProcessFile
<1>7. /\ s \in {"exit", "ready"} /\ pc' = [pc EXCEPT ![p] = s]
      /\ UNCHANGED <<file, differences, shared_keys, rd2, reconstruction>>
  BY DEF ProcessFile
<1> HIDE DEF s
<1> QED
  BY <1>2, <1>4, <1>5, <1>6, <1>7, EarlyStep

LEMMA ExchangeStep ==
    ASSUME IInv, SendStrata \/ ReceiveStrata \/ SendIBLT \/ FailToPeel
    PROVE  IInv'
<1>1. ~Encoding /\ ~Writing
  BY DEF IInv, Phases, Encoding, Writing, SendStrata, ReceiveStrata, SendIBLT, FailToPeel
<1>2. \A q : Digested(q)' = Digested(q)
  BY Unmoved DEF SendStrata, ReceiveStrata, SendIBLT, FailToPeel
<1>3. UNCHANGED <<file, hashes, differences, shared_keys, rd2, reconstruction>>
  BY DEF SendStrata, ReceiveStrata, SendIBLT, FailToPeel, digests
<1>4. DOMAIN hashes' = Party
  BY <1>3 DEF IInv, Shapes
<1>5. PICK q \in Party,
           s \in {"exit", "ready", "sent_strata", "sent_estimate", "sent_iblt"} :
           /\ pc' = [pc EXCEPT ![q] = s]
           /\ s # "exit" => pc[q] \notin {"new", "exit"}
  BY DEF SendStrata, ReceiveStrata, SendIBLT, FailToPeel, Party
<1>6. s # "exit" => Digested(q)'
  BY <1>2, <1>5 DEF IInv, Digests
<1> QED
  BY <1>1, <1>2, <1>3, <1>4, <1>5, <1>6, EarlyStep

LEMMA BothDigested ==
    ASSUME IInv, pc["A"] = "sent_iblt" \/ Writing \/ Encoding,
                 pc["B"] = "sent_estimate" \/ Writing \/ Encoding
    PROVE  /\ Digested("A") /\ Digested("B")
           /\ Keys("A") \in SUBSET Int /\ IsFiniteSet(Keys("A"))
<1>1. Digested("A") /\ Digested("B")
  BY DEF IInv, Phases, Digests, Encoding, Writing, Party
<1> QED
  BY <1>1, KeysFacts

LEMMA DigestsKept ==
    ASSUME IInv, UNCHANGED digests,
           \A q \in Party : pc'[q] = pc[q] \/ pc[q] \notin {"new", "exit"}
    PROVE  Digests'
<1>1. \A q : Digested(q)' = Digested(q)
  BY Unmoved
<1> QED
  BY <1>1 DEF IInv, Digests, digests

LEMMA ReceiveIBLTStep ==
    ASSUME IInv, ReceiveIBLT
    PROVE  IInv'
<1>1. /\ UNCHANGED digests /\ pc["A"] = "sent_iblt" /\ pc["B"] = "sent_estimate"
      /\ existing_chunk' = existing_chunk /\ new_chunk' = new_chunk /\ temp' = temp
  BY DEF ReceiveIBLT, reconstruction
<1>2. ~Encoding /\ ~Writing
  BY <1>1 DEF Encoding, Writing
<1>3. Digested("A") /\ Digested("B") /\ Keys("A") \in SUBSET Int /\ IsFiniteSet(Keys("A"))
  BY <1>1, BothDigested
<1> DEFINE mine == Keys("B") \ Keys("A")
           theirs == Keys("A") \ Keys("B")
<1>4. Keys("B") \ mine = Both
  BY DEF Both
<1>5. CounterpartyHashes(mine, theirs) = Keys("A")
  BY DEF CounterpartyHashes
<1>6. OverlapsFit("B", Both)
  BY <1>3, SharedFit DEF Both
<1> DEFINE bits == HashExists(Keys("A"), theirs)
<1>7. /\ my_distinct_keys' = mine /\ cp_distinct_keys' = theirs
      /\ shared_keys' = [shared_keys EXCEPT !["B"] = Both]
      /\ pc' = [pc EXCEPT !["B"] = "encoding"]
      /\ rd2' = [rd2 EXCEPT !.hash_exists = bits]
  BY <1>4, <1>5, <1>6 DEF ReceiveIBLT
<1>8. bits \in Seq(BOOLEAN)
  <2>1. Cardinality(Keys("A")) \in Nat
    BY <1>3, FS_CardinalityType
  <2>2. bits \in [1 .. Cardinality(Keys("A")) -> BOOLEAN]
    BY DEF HashExists
  <2> HIDE DEF bits
  <2> QED
    BY <2>1, <2>2
<1> HIDE DEF bits
<1>9. /\ pc'["A"] = "sent_iblt" /\ pc'["B"] = "encoding" /\ shared_keys'["B"] = Both
      /\ DOMAIN shared_keys' = Party
  BY <1>1, <1>7 DEF IInv, Shapes, Party
<1>10. /\ rd2 = EmptyRd2 /\ rd2'.hash_exists = bits /\ rd2'.chunk_exists = << >>
       /\ rd2'.existing_chunk_encoding = << >> /\ rd2'.new_chunk_info = << >>
       /\ rd2'.SHAHash = << >>
  BY <1>2, <1>7 DEF IInv, Described, EmptyRd2
<1>11. Encoding' /\ ~Writing'
  BY <1>9 DEF Encoding, Writing
<1>12. Shapes'
  <2>1. pc' \in [Party -> {"new", "exit", "ready", "sent_strata", "sent_estimate", "sent_iblt",
                         "encoding", "sent_rd2", "writing", "done", "mismatch", "undefined"}]
    BY <1>7 DEF IInv, Shapes
  <2>2. rd2' \in [chunk_exists : Seq(BOOLEAN), hash_exists : Seq(BOOLEAN),
                SHAHash : File \cup {<< >>}, new_chunk_info : Seq(Content),
                existing_chunk_encoding : Seq(Nat)]
    BY <1>7, <1>8 DEF IInv, Shapes
  <2> QED
    BY <1>1, <1>9, <2>1, <2>2 DEF IInv, Shapes, digests
<1>13. Phases'
  BY <1>9, <1>11 DEF Phases
<1>14. Digests'
  <2>1. \A q \in Party : pc'[q] = pc[q] \/ pc[q] \notin {"new", "exit"}
    BY <1>1 DEF Party
  <2> QED
    BY <1>1, <2>1, DigestsKept
<1>15. Differences'
  <2>1. Keys("A")' = Keys("A") /\ Keys("B")' = Keys("B") /\ Both' = Both
    BY <1>1, Unmoved
  <2> QED
    BY <1>7, <1>9, <1>10, <2>1 DEF Differences, bits
<1>16. Described'
  <2>1. Len(hashes["B"]) \in Nat /\ hashes' = hashes
    BY <1>1, <1>3, DigestType DEF Digested, digests
  <2>2. Count(0)' = 0 /\ CountNew(0)' = 0
    BY <1>1, Unmoved, CountFacts
  <2>3. Len(rd2'.chunk_exists) = 0
    BY <1>10
  <2> QED
    BY <1>9, <1>10, <1>11, <2>1, <2>2, <2>3 DEF Described
<1>17. Reconstructed'
  BY <1>1, <1>2, <1>11 DEF IInv, Reconstructed
<1> QED
  BY <1>12, <1>13, <1>14, <1>15, <1>16, <1>17 DEF IInv

LEMMA SendRd2Step ==
    ASSUME IInv, SendRd2
    PROVE  IInv'
<1>1. /\ UNCHANGED digests /\ pc["B"] = "encoding" /\ pc'["B"] = "sent_rd2"
      /\ pc' = [pc EXCEPT !["B"] = "sent_rd2"] /\ pc'["A"] = pc["A"]
      /\ UNCHANGED <<differences, shared_keys, reconstruction>>
      /\ rd2' = [rd2 EXCEPT !.SHAHash = file["B"]]
      /\ Len(rd2.chunk_exists) = Len(hashes["B"])
  BY DEF SendRd2, IInv, Shapes, Party
<1>2. Encoding /\ Encoding' /\ ~Writing /\ ~Writing' /\ pc["A"] = "sent_iblt"
  BY <1>1 DEF IInv, Phases, Encoding, Writing
<1>3. /\ rd2'.chunk_exists = rd2.chunk_exists /\ rd2'.hash_exists = rd2.hash_exists
      /\ rd2'.existing_chunk_encoding = rd2.existing_chunk_encoding
      /\ rd2'.new_chunk_info = rd2.new_chunk_info /\ rd2'.SHAHash = file["B"]
  BY <1>1 DEF IInv, Shapes
<1>4. file["B"] \in File /\ file' = file /\ hashes' = hashes
  BY <1>1 DEF IInv, Digests, Party, digests
<1>5. Shapes'
  <2>1. pc' \in [Party -> {"new", "exit", "ready", "sent_strata", "sent_estimate", "sent_iblt",
                         "encoding", "sent_rd2", "writing", "done", "mismatch", "undefined"}]
    BY <1>1 DEF IInv, Shapes
  <2>2. rd2' \in [chunk_exists : Seq(BOOLEAN), hash_exists : Seq(BOOLEAN),
                SHAHash : File \cup {<< >>}, new_chunk_info : Seq(Content),
                existing_chunk_encoding : Seq(Nat)]
    BY <1>1, <1>4 DEF IInv, Shapes
  <2> QED
    BY <1>1, <1>4, <2>1, <2>2 DEF IInv, Shapes, reconstruction
<1>6. Phases'
  BY <1>1, <1>2 DEF Phases
<1>7. Digests'
  <2>1. \A q \in Party : pc'[q] = pc[q] \/ pc[q] \notin {"new", "exit"}
    BY <1>1 DEF Party
  <2> QED
    BY <1>1, <2>1, DigestsKept
<1>8. Differences'
  <2>1. Keys("A")' = Keys("A") /\ Keys("B")' = Keys("B") /\ Both' = Both
    BY <1>1, Unmoved
  <2> QED
    BY <1>1, <1>2, <1>3, <2>1 DEF IInv, Differences, differences
<1>9. Described'
  <2>1. /\ \A q, h : Chars(q, h)' = Chars(q, h)
        /\ \A k : /\ IsShared(k)' = IsShared(k) /\ IndexOf(k)' = IndexOf(k)
                  /\ Count(k)' = Count(k) /\ CountNew(k)' = CountNew(k)
    BY <1>1, Unmoved
  <2> QED
    BY <1>1, <1>2, <1>3, <1>4, <2>1 DEF IInv, Described
<1>10. Reconstructed'
  BY <1>1, <1>2 DEF IInv, Reconstructed, reconstruction
<1> QED
  BY <1>5, <1>6, <1>7, <1>8, <1>9, <1>10 DEF IInv

\* A's steps once the description is sent.
LEMMA DescriptionKept ==
    ASSUME IInv, UNCHANGED <<digests, differences, rd2>>, pc'["B"] = pc["B"],
           shared_keys'["B"] = shared_keys["B"]
    PROVE  Differences' /\ Described'
<1>1. /\ UNCHANGED digests /\ file' = file /\ hashes' = hashes /\ rd2' = rd2
      /\ my_distinct_keys' = my_distinct_keys /\ cp_distinct_keys' = cp_distinct_keys
  BY DEF digests, differences
<1>2. /\ \A q, h : Chars(q, h)' = Chars(q, h)
      /\ \A k : /\ IsShared(k)' = IsShared(k) /\ IndexOf(k)' = IndexOf(k)
                /\ Count(k)' = Count(k) /\ CountNew(k)' = CountNew(k)
      /\ Keys("A")' = Keys("A") /\ Keys("B")' = Keys("B") /\ Both' = Both
  BY <1>1, Unmoved
<1>3. Encoding' <=> Encoding
  BY DEF Encoding
<1>4. Differences'
  BY <1>1, <1>2, <1>3 DEF IInv, Differences
<1>5. Described'
  BY <1>1, <1>2, <1>3 DEF IInv, Described
<1> QED
  BY <1>4, <1>5

LEMMA ReceiveRd2Step ==
    ASSUME IInv, ReceiveRd2
    PROVE  IInv'
<1>1. /\ UNCHANGED <<digests, differences, rd2, reconstruction>>
      /\ pc["A"] = "sent_iblt" /\ pc["B"] = "sent_rd2"
  BY DEF ReceiveRd2
<1>2. Encoding /\ ~Writing
  BY <1>1 DEF Encoding, Writing
<1>3. Digested("A") /\ Digested("B") /\ Keys("A") \in SUBSET Int /\ IsFiniteSet(Keys("A"))
  BY <1>1, <1>2, BothDigested
<1> DEFINE size == Cardinality(Keys("A"))
           shared == {At(Keys("A"), i - 1) : i \in {j \in 1 .. size : rd2.hash_exists[j]}}
<1>4. rd2.hash_exists = HashExists(Keys("A"), Keys("A") \ Keys("B"))
  BY <1>2 DEF IInv, Differences
<1>5. Len(rd2.hash_exists) = size /\ shared = Keys("A") \ (Keys("A") \ Keys("B"))
  BY <1>3, <1>4, BitsRead
<1>6. shared = Both
  BY <1>5 DEF Both
<1>7. OverlapsFit("A", Both)
  BY <1>3, SharedFit DEF Both
<1>8. /\ shared_keys' = [shared_keys EXCEPT !["A"] = Both]
      /\ pc' = [pc EXCEPT !["A"] = "writing"]
  BY <1>5, <1>6, <1>7 DEF ReceiveRd2
<1>9. /\ pc'["A"] = "writing" /\ pc'["B"] = "sent_rd2" /\ shared_keys'["A"] = Both
      /\ shared_keys'["B"] = shared_keys["B"] /\ DOMAIN shared_keys' = Party
      /\ Writing'
  BY <1>1, <1>8 DEF IInv, Shapes, Party, Writing
<1>10. Shapes'
  <2>1. pc' \in [Party -> {"new", "exit", "ready", "sent_strata", "sent_estimate", "sent_iblt",
                         "encoding", "sent_rd2", "writing", "done", "mismatch", "undefined"}]
    BY <1>8 DEF IInv, Shapes
  <2> QED
    BY <1>1, <1>9, <2>1 DEF IInv, Shapes, reconstruction, digests
<1>11. Phases'
  BY <1>9 DEF Phases
<1>12. Digests'
  <2>1. \A q \in Party : pc'[q] = pc[q] \/ pc[q] \notin {"new", "exit"}
    BY <1>1 DEF Party
  <2> QED
    BY <1>1, <2>1, DigestsKept
<1>13. Differences' /\ Described'
  BY <1>1, <1>9, DescriptionKept
<1>14. Reconstructed'
  <2>1. existing_chunk' = 0 /\ new_chunk' = 0 /\ temp' = << >> /\ Written' = 0
    BY <1>1, <1>2 DEF IInv, Reconstructed, reconstruction, Written
  <2>2. Len(rd2'.chunk_exists) \in Nat
    BY <1>1 DEF IInv, Shapes
  <2>3. Count(0)' = 0 /\ Text(0)' = << >> /\ Both' = Both
    BY <1>1, <1>3, Unmoved, CountFacts, TextFacts
  <2>4. ~LastExists(Written)'
    BY <2>1 DEF LastExists
  <2>5. Written' <= Len(rd2'.chunk_exists)
    BY <2>1, <2>2
  <2> QED
    BY <1>9, <2>1, <2>3, <2>4, <2>5 DEF Reconstructed
<1> QED
  BY <1>10, <1>11, <1>12, <1>13, <1>14 DEF IInv

\* What A finds in B's description when it writes its next chunk.
LEMMA NextChunk ==
    ASSUME IInv, pc["A"] = "writing", Written < Len(rd2.chunk_exists),
           NEW k, k = Written + 1
    PROVE  /\ Written \in Nat /\ k \in 1 .. Len(rd2.chunk_exists) /\ k - 1 = Written
           /\ k \in 1 .. Len(hashes["B"])
           /\ rd2.chunk_exists[k] <=> IsShared(k)
           /\ IsShared(k) => /\ rd2.existing_chunk_encoding[existing_chunk + 1] = IndexOf(k)
                             /\ Count(k) = existing_chunk + 1
           /\ ~IsShared(k) => /\ rd2.new_chunk_info[new_chunk + 1]
                                    = Chars("B", hashes["B"][k].hash)
                              /\ Count(k) = existing_chunk
           /\ Candidates = Found(k, last_hash)
           /\ Agreeing /\ k > 1 /\ IsShared(k - 1) => last_hash = hashes["B"][k - 1].hash
           /\ Unaliased => temp = Text(k - 1)
<1>1. Writing /\ Encoding /\ pc["B"] = "sent_rd2"
  BY DEF IInv, Phases, Writing, Encoding
<1>2. Digested("A") /\ Digested("B")
  BY <1>1, BothDigested
<1>3. /\ Len(rd2.chunk_exists) \in Nat /\ existing_chunk \in Nat /\ new_chunk \in Nat
      /\ Len(hashes["B"]) \in Nat
  BY <1>2, DigestType DEF IInv, Shapes, Digested
<1> DEFINE n == Written
           m == Len(rd2.chunk_exists)
<1>4. n \in Nat /\ n = existing_chunk + new_chunk
  BY <1>3 DEF Written
<1>5. /\ m <= Len(hashes["B"])
      /\ \A j \in 1 .. m :
            /\ rd2.chunk_exists[j] <=> IsShared(j)
            /\ IsShared(j) => rd2.existing_chunk_encoding[Count(j)] = IndexOf(j)
            /\ ~IsShared(j) =>
                  rd2.new_chunk_info[CountNew(j)] = Chars("B", hashes["B"][j].hash)
  BY <1>1 DEF IInv, Described
<1>6. /\ shared_keys["A"] = Both /\ existing_chunk = Count(n)
      /\ Agreeing => (LastExists(n) => last_hash = hashes["B"][n].hash)
      /\ Unaliased => temp = Text(n)
  BY <1>1 DEF IInv, Reconstructed
<1> HIDE DEF n, m
<1>7. n < m /\ k = n + 1
  BY DEF n, m
<1>8. k \in 1 .. m /\ k - 1 = n /\ k \in 1 .. Len(hashes["B"])
  BY <1>3, <1>4, <1>5, <1>7 DEF m
<1>9. /\ Count(n) + CountNew(n) = n /\ Count(n) \in Nat /\ CountNew(n) \in Nat
      /\ Count(k) = Count(n) + IF IsShared(k) THEN 1 ELSE 0
      /\ CountNew(k) = CountNew(n) + IF IsShared(k) THEN 0 ELSE 1
  <2>1. /\ Count(n) \in 0 .. n /\ CountNew(n) \in 0 .. n /\ Count(n) + CountNew(n) = n
        /\ Count(n + 1) = Count(n) + IF IsShared(n + 1) THEN 1 ELSE 0
        /\ CountNew(n + 1) = CountNew(n) + IF IsShared(n + 1) THEN 0 ELSE 1
    BY <1>4, CountFacts
  <2> QED
    BY <1>4, <1>7, <2>1
<1>10. new_chunk = CountNew(n)
  BY <1>3, <1>4, <1>6, <1>9
<1>11. /\ IsShared(k) => Count(k) = existing_chunk + 1
       /\ ~IsShared(k) => CountNew(k) = new_chunk + 1 /\ Count(k) = existing_chunk
  BY <1>3, <1>6, <1>9, <1>10
<1>12. LastExists(n) <=> (k > 1 /\ IsShared(k - 1))
  <2>1. n > 0 <=> k > 1
    BY <1>4, <1>7
  <2>2. n > 0 => n \in 1 .. m
    BY <1>4, <1>3, <1>7 DEF m
  <2> QED
    BY <1>5, <1>8, <2>1, <2>2 DEF LastExists
<1>13. Candidates = Found(k, last_hash)
  BY <1>6, <1>12 DEF Candidates, EndOfLast, Found, n
<1> QED
  BY <1>4, <1>5, <1>6, <1>8, <1>11, <1>12, <1>13 DEF n, m

\* A has written one chunk more.
LEMMA WriteStep ==
    ASSUME IInv, pc["A"] = "writing", Written < Len(rd2.chunk_exists),
           UNCHANGED <<digests, pc, differences, shared_keys, rd2>>,
           NEW k, k = Written + 1,
           existing_chunk' = Count(k), existing_chunk' \in Nat, new_chunk' \in Nat,
           existing_chunk' + new_chunk' = k,
           Agreeing /\ IsShared(k) => last_hash' = hashes["B"][k].hash,
           Unaliased => temp' = temp \o Chars("B", hashes["B"][k].hash)
    PROVE  IInv'
<1>1. Writing /\ Writing' /\ pc' = pc /\ rd2' = rd2
  BY DEF Writing
<1>2. /\ Written' = k /\ k \in 1 .. Len(rd2.chunk_exists) /\ k \in 1 .. Len(hashes["B"])
      /\ (rd2.chunk_exists[k] <=> IsShared(k)) /\ (Unaliased => temp = Text(k - 1))
  BY NextChunk DEF Written
<1>3. /\ UNCHANGED digests /\ hashes' = hashes /\ shared_keys' = shared_keys
  BY DEF digests
<1>4. Shapes'
  BY <1>1, <1>3 DEF IInv, Shapes
<1>5. Phases'
  BY <1>1 DEF IInv, Phases, Encoding, Writing
<1>6. Digests'
  BY <1>1, <1>3, DigestsKept
<1>7. Differences' /\ Described'
  BY <1>1, <1>3, DescriptionKept
<1>8. Reconstructed'
  <2>1. /\ Both' = Both /\ Unaliased' = Unaliased /\ Agreeing' = Agreeing
        /\ Count(k)' = Count(k) /\ Text(k)' = Text(k)
    BY <1>3, Unmoved
  <2>2. LastExists(Written)' => IsShared(k)
    BY <1>1, <1>2 DEF LastExists
  <2>3. Unaliased => temp' = Text(k)
    <3>1. Digested("B") /\ Len(hashes["B"]) \in Nat
      BY <1>1, BothDigested, DigestType DEF IInv, Phases, Encoding, Digested
    <3>2. k - 1 \in 0 .. Len(hashes["B"]) - 1 /\ k - 1 + 1 = k
      BY <1>2, <3>1
    <3>3. Text(k - 1) \o Chars("B", hashes["B"][k].hash) = Text(k)
      BY <3>1, <3>2, TextFacts
    <3> QED
      BY <1>2, <3>3
  <2>4. Written' <= Len(rd2'.chunk_exists)
    BY <1>1, <1>2 DEF IInv, Shapes
  <2>5. Count(Written)' = Count(k) /\ Text(Written)' = Text(k)
    BY <1>2, <1>3, <2>1 DEF Count, Text, Shared, IsShared, Keys
  <2>6. shared_keys'["A"] = Both' /\ pc'["A"] = "writing"
    BY <1>1, <1>3, <2>1 DEF IInv, Reconstructed
  <2>7. Agreeing => (LastExists(Written)' => last_hash' = hashes'["B"][Written'].hash)
    BY <1>2, <1>3, <2>2
  <2> QED
    BY <1>1, <2>1, <2>3, <2>4, <2>5, <2>6, <2>7 DEF Reconstructed
<1> QED
  BY <1>4, <1>5, <1>6, <1>7, <1>8 DEF IInv

LEMMA WriteExistingStep ==
    ASSUME IInv, WriteExisting
    PROVE  IInv'
<1> DEFINE k == Written + 1
           h == hashes["B"][k].hash
<1>1. /\ pc["A"] = "writing" /\ Written < Len(rd2.chunk_exists) /\ rd2.chunk_exists[k]
      /\ UNCHANGED <<digests, pc, differences, shared_keys, rd2>>
      /\ existing_chunk' = existing_chunk + 1 /\ new_chunk' = new_chunk
      /\ last_hash' = At(Candidates, rd2.existing_chunk_encoding[existing_chunk + 1])
      /\ temp' = temp \o Chars("A", last_hash')
  BY DEF WriteExisting
<1>2. /\ k \in 1 .. Len(hashes["B"]) /\ IsShared(k)
      /\ rd2.existing_chunk_encoding[existing_chunk + 1] = IndexOf(k)
      /\ Count(k) = existing_chunk + 1 /\ Candidates = Found(k, last_hash)
      /\ Agreeing /\ k > 1 /\ IsShared(k - 1) => last_hash = hashes["B"][k - 1].hash
  BY <1>1, NextChunk
<1>3. Digested("A") /\ Digested("B")
  BY <1>1, BothDigested DEF IInv, Phases, Encoding, Writing
<1>4. /\ existing_chunk' \in Nat /\ new_chunk' \in Nat /\ existing_chunk' = Count(k)
      /\ existing_chunk' + new_chunk' = k
  BY <1>1, <1>2 DEF IInv, Shapes, Written
<1> HIDE DEF k
<1>5. Agreeing => last_hash' = h
  BY <1>1, <1>2, <1>3, IndexLeadsToChunk
<1>6. Unaliased => temp' = temp \o Chars("B", h)
  <2>1. h \in Both
    BY <1>2, <1>3, KeysFacts DEF IsShared, Both
  <2>2. Unaliased => Chars("A", h) = Chars("B", h)
    BY <1>3, <2>1, SharedChars
  <2> QED
    BY <1>1, <1>5, <2>2 DEF Agreeing
<1> QED
  BY <1>1, <1>4, <1>5, <1>6, WriteStep DEF k

LEMMA WriteNewStep ==
    ASSUME IInv, WriteNew
    PROVE  IInv'
<1> DEFINE k == Written + 1
<1>1. /\ pc["A"] = "writing" /\ Written < Len(rd2.chunk_exists) /\ ~rd2.chunk_exists[k]
      /\ UNCHANGED <<digests, pc, differences, shared_keys, rd2>>
      /\ existing_chunk' = existing_chunk /\ new_chunk' = new_chunk + 1
      /\ temp' = temp \o rd2.new_chunk_info[new_chunk + 1]
  BY DEF WriteNew
<1>2. /\ ~IsShared(k) /\ Count(k) = existing_chunk
      /\ rd2.new_chunk_info[new_chunk + 1] = Chars("B", hashes["B"][k].hash)
  BY <1>1, NextChunk
<1>3. /\ existing_chunk' \in Nat /\ new_chunk' \in Nat /\ existing_chunk' = Count(k)
      /\ existing_chunk' + new_chunk' = k
  BY <1>1, <1>2 DEF IInv, Shapes, Written
<1> QED
  BY <1>1, <1>2, <1>3, WriteStep

\* Steps that end the writing.
LEMMA EndStep ==
    ASSUME IInv, pc["A"] = "writing",
           UNCHANGED <<digests, differences, shared_keys, rd2, reconstruction>>,
           NEW s \in {"done", "mismatch", "undefined"}, pc' = [pc EXCEPT !["A"] = s],
           s = "undefined" => ~Agreeing, s = "mismatch" => ~Unaliased
    PROVE  IInv'
<1>1. /\ pc'["A"] = s /\ pc'["B"] = pc["B"] /\ Writing /\ Writing'
      /\ (Encoding' <=> Encoding)
      /\ pc' \in [Party -> {"new", "exit", "ready", "sent_strata", "sent_estimate", "sent_iblt",
                         "encoding", "sent_rd2", "writing", "done", "mismatch", "undefined"}]
  BY DEF IInv, Shapes, Party, Encoding, Writing
<1>2. /\ UNCHANGED digests /\ hashes' = hashes /\ shared_keys' = shared_keys /\ rd2' = rd2
      /\ existing_chunk' = existing_chunk /\ new_chunk' = new_chunk /\ temp' = temp
      /\ last_hash' = last_hash
  BY DEF digests, reconstruction
<1>3. Shapes'
  BY <1>1, <1>2 DEF IInv, Shapes
<1>4. Phases'
  BY <1>1 DEF IInv, Phases
<1>5. Digests'
  <2>1. \A q \in Party : pc'[q] = pc[q] \/ pc[q] \notin {"new", "exit"}
    BY <1>1 DEF Party
  <2> QED
    BY <1>2, <2>1, DigestsKept
<1>6. Differences' /\ Described'
  BY <1>1, <1>2, DescriptionKept
<1>7. Reconstructed'
  <2>1. /\ Both' = Both /\ Unaliased' = Unaliased /\ Agreeing' = Agreeing /\ Written' = Written
    BY <1>2, Unmoved DEF Written
  <2>2. Count(Written)' = Count(Written) /\ Text(Written)' = Text(Written)
    BY <1>2, <2>1 DEF Count, Text, Shared, IsShared, Keys, digests
  <2>3. LastExists(Written)' = LastExists(Written)
    BY <1>2, <2>1 DEF LastExists
  <2> QED
    BY <1>1, <1>2, <2>1, <2>2, <2>3 DEF IInv, Reconstructed
<1> QED
  BY <1>3, <1>4, <1>5, <1>6, <1>7 DEF IInv

LEMMA ReadBeyondStep ==
    ASSUME IInv, ReadBeyond
    PROVE  IInv'
<1> DEFINE k == Written + 1
<1>1. /\ pc["A"] = "writing" /\ Written < Len(rd2.chunk_exists) /\ rd2.chunk_exists[k]
      /\ UNCHANGED <<digests, differences, shared_keys, rd2, reconstruction>>
      /\ pc' = [pc EXCEPT !["A"] = "undefined"]
      /\ rd2.existing_chunk_encoding[existing_chunk + 1] >= Cardinality(Candidates)
  BY DEF ReadBeyond
<1>2. /\ k \in 1 .. Len(hashes["B"]) /\ IsShared(k)
      /\ rd2.existing_chunk_encoding[existing_chunk + 1] = IndexOf(k)
      /\ Candidates = Found(k, last_hash)
      /\ Agreeing /\ k > 1 /\ IsShared(k - 1) => last_hash = hashes["B"][k - 1].hash
  BY <1>1, NextChunk
<1>3. Digested("A") /\ Digested("B")
  BY <1>1, BothDigested DEF IInv, Phases, Encoding, Writing
<1> HIDE DEF k
<1>4. ~Agreeing
  <2> SUFFICES ASSUME Agreeing PROVE FALSE
    OBVIOUS
  <2>1. IndexOf(k) < Cardinality(Found(k, last_hash))
    BY <1>2, <1>3, IndexLeadsToChunk
  <2>2. /\ IndexOf(k) \in Int /\ Cardinality(Found(k, last_hash)) \in Int
    BY <1>2, <1>3, IndexType
  <2> QED
    BY <1>1, <1>2, <2>1, <2>2
<1> QED
  BY <1>1, <1>4, EndStep

LEMMA CompareSHAStep ==
    ASSUME IInv, CompareSHA
    PROVE  IInv'
<1>1. /\ pc["A"] = "writing" /\ Written = Len(rd2.chunk_exists)
      /\ UNCHANGED <<digests, differences, shared_keys, rd2, reconstruction>>
      /\ pc' = [pc EXCEPT !["A"] = IF temp = rd2.SHAHash THEN "done" ELSE "mismatch"]
  BY DEF CompareSHA
<1>2. Writing /\ Encoding /\ pc["B"] = "sent_rd2"
  BY <1>1 DEF IInv, Phases, Writing, Encoding
<1>3. Written = Len(hashes["B"]) /\ rd2.SHAHash = file["B"]
  BY <1>1, <1>2 DEF IInv, Described
<1>4. Unaliased => temp = file["B"]
  <2>1. Digested("B")
    BY <1>2, BothDigested
  <2> QED
    BY <1>2, <1>3, <2>1, TextFacts DEF IInv, Reconstructed
<1> DEFINE s == IF temp = rd2.SHAHash THEN "done" ELSE "mismatch"
<1>5. s \in {"done", "mismatch", "undefined"} /\ s # "undefined" /\ (s = "mismatch" => ~Unaliased)
  BY <1>3, <1>4
<1> HIDE DEF s
<1>6. pc' = [pc EXCEPT !["A"] = s]
  BY <1>1 DEF s
<1> QED
  BY <1>1, <1>5, <1>6, EndStep

LEMMA CharsType ==
    ASSUME Digested("B"), NEW k \in 1 .. Len(hashes["B"])
    PROVE  Chars("B", hashes["B"][k].hash) \in Content
<1> DEFINE f == file["B"]
           D == hashes["B"]
<1>1. f \in File /\ overlap("B") \in 1 .. w + 1 /\ overlap("B") <= Len(f)
      /\ IsDigest(f, overlap("B"), D)
  BY OverlapType DEF Digested
<1>2. Chars("B", D[k].hash) = SubSeq(f, D[k].pos + 1, D[k].pos + D[k].len)
  BY ContentsFacts
<1> HIDE DEF f
<1>3. D[k].pos \in Nat /\ D[k].len \in Nat /\ D[k].pos + D[k].len <= Len(f)
  BY <1>1, HashedFacts
<1> DEFINE a == D[k].pos
           n == D[k].len
<1>4. a \in Nat /\ n \in Nat /\ a + n <= Len(f)
  BY <1>3
<1> HIDE DEF a, n
<1>5. SubSeq(f, a + 1, a + n) \in Content
  BY <1>1, <1>4, SubSeqLength
<1> QED
  BY <1>2, <1>5 DEF a, n

LEMMA EncodeChunkStep ==
    ASSUME IInv, EncodeChunk
    PROVE  IInv'
<1> DEFINE E == rd2.existing_chunk_encoding
           N == rd2.new_chunk_info
           C == rd2.chunk_exists
           m == Len(C)
           i == m + 1
           h == hashes["B"][i].hash
           exists == h \notin my_distinct_keys
           index == IF LastExists(m) THEN IndexInStart(h) ELSE IndexInAll(h)
<1>1. /\ UNCHANGED <<digests, pc, differences, shared_keys, reconstruction>>
      /\ pc["B"] = "encoding" /\ i <= Len(hashes["B"]) /\ Encoding
  BY DEF EncodeChunk, Encoding
<1>2. Digested("A") /\ Digested("B") /\ ~Writing
  BY <1>1, BothDigested DEF IInv, Phases, Writing
<1>3. /\ C \in Seq(BOOLEAN) /\ E \in Seq(Nat) /\ N \in Seq(Content) /\ m \in Nat
  BY DEF IInv, Shapes
<1>4. i \in 1 .. Len(hashes["B"]) /\ i \in Nat /\ h \in Keys("B")
  BY <1>1, <1>2, <1>3, KeysFacts, DigestType DEF Digested
<1>5. /\ my_distinct_keys = Keys("B") \ Keys("A")
      /\ cp_distinct_keys = Keys("A") \ Keys("B") /\ shared_keys["B"] = Both
      /\ rd2.hash_exists = HashExists(Keys("A"), Keys("A") \ Keys("B"))
  BY <1>1 DEF IInv, Differences
<1>6. exists <=> IsShared(i)
  BY <1>4, <1>5 DEF IsShared
<1>7. /\ Len(E) = Count(m) /\ Len(N) = CountNew(m)
      /\ \A k \in 1 .. m :
            /\ C[k] <=> IsShared(k)
            /\ IsShared(k) => E[Count(k)] = IndexOf(k)
            /\ ~IsShared(k) => N[CountNew(k)] = Chars("B", hashes["B"][k].hash)
  BY <1>1 DEF IInv, Described
<1>8. index = IndexOf(i)
  <2>1. LastExists(m) <=> (i > 1 /\ IsShared(i - 1))
    BY <1>3, <1>7 DEF LastExists
  <2>2. CounterpartyHashes(my_distinct_keys, cp_distinct_keys) = Keys("A")
    BY <1>5 DEF CounterpartyHashes
  <2> QED
    BY <1>5, <2>1, <2>2 DEF IndexOf, IndexInStart, IndexInAll
<1>9. rd2' = [rd2 EXCEPT
               !.chunk_exists = Append(@, exists),
               !.existing_chunk_encoding = IF exists THEN Append(@, index) ELSE @,
               !.new_chunk_info = IF exists THEN @ ELSE Append(@, Chars("B", h))]
  BY DEF EncodeChunk
<1> HIDE DEF exists, index, h
<1>10. /\ rd2'.chunk_exists = Append(C, exists) /\ rd2'.hash_exists = rd2.hash_exists
       /\ rd2'.existing_chunk_encoding = IF exists THEN Append(E, index) ELSE E
       /\ rd2'.new_chunk_info = (IF exists THEN N ELSE Append(N, Chars("B", h)))
       /\ rd2'.SHAHash = rd2.SHAHash
  BY <1>9 DEF IInv, Shapes
<1>11. /\ exists \in BOOLEAN /\ Chars("B", h) \in Content
       /\ exists => index \in Nat
  BY <1>2, <1>4, <1>6, <1>8, IndexType, CharsType DEF h, exists
<1>12. Shapes'
  <2>1. rd2' \in [chunk_exists : Seq(BOOLEAN), hash_exists : Seq(BOOLEAN),
                SHAHash : File \cup {<< >>}, new_chunk_info : Seq(Content),
                existing_chunk_encoding : Seq(Nat)]
    <3>1. /\ Append(C, exists) \in Seq(BOOLEAN)
          /\ exists => Append(E, index) \in Seq(Nat)
          /\ Append(N, Chars("B", h)) \in Seq(Content)
      BY <1>3, <1>11
    <3> QED
      BY <1>9, <3>1 DEF IInv, Shapes
  <2> QED
    BY <1>1, <2>1 DEF IInv, Shapes, reconstruction, digests
<1>13. Phases' /\ Encoding' /\ ~Writing' /\ pc' = pc
  BY <1>1, <1>2 DEF IInv, Phases, Encoding, Writing
<1>14. Digests'
  BY <1>1, DigestsKept
<1>15. /\ Keys("A")' = Keys("A") /\ Keys("B")' = Keys("B") /\ Both' = Both
       /\ \A q, g : Chars(q, g)' = Chars(q, g)
       /\ \A k : /\ IsShared(k)' = IsShared(k) /\ IndexOf(k)' = IndexOf(k)
                 /\ Count(k)' = Count(k) /\ CountNew(k)' = CountNew(k)
       /\ hashes' = hashes /\ file' = file
  BY <1>1, Unmoved DEF digests
<1>16. Differences'
  BY <1>1, <1>5, <1>10, <1>15 DEF Differences, differences
<1>17. /\ Count(i) = Count(m) + IF exists THEN 1 ELSE 0
       /\ CountNew(i) = CountNew(m) + IF exists THEN 0 ELSE 1
       /\ Count(m) \in Nat /\ CountNew(m) \in Nat
       /\ \A k \in 1 .. m : /\ Count(k) \in Nat /\ Count(k) <= Count(m)
                            /\ CountNew(k) \in Nat /\ CountNew(k) <= CountNew(m)
  <2>1. /\ Count(m) \in 0 .. m /\ CountNew(m) \in 0 .. m
        /\ Count(m + 1) = Count(m) + IF IsShared(m + 1) THEN 1 ELSE 0
        /\ CountNew(m + 1) = CountNew(m) + IF IsShared(m + 1) THEN 0 ELSE 1
    BY <1>3, CountFacts
  <2>2. \A k \in 1 .. m : k \in Nat /\ k <= m
    BY <1>3
  <2>3. \A k \in 1 .. m : /\ Count(k) \in 0 .. k /\ CountNew(k) \in 0 .. k
                          /\ Count(k) <= Count(m) /\ CountNew(k) <= CountNew(m)
    BY <1>3, <2>2, CountFacts
  <2> QED
    BY <1>3, <1>6, <2>1, <2>3
<1> HIDE DEF i, m
<1> DEFINE C2 == rd2'.chunk_exists
           E2 == rd2'.existing_chunk_encoding
           N2 == rd2'.new_chunk_info
<1>18. /\ m = Len(C) /\ i = m + 1 /\ Len(C2) = i /\ C2[i] = exists
       /\ \A k \in 1 .. m : C2[k] = C[k]
  BY <1>3, <1>10 DEF m, i
<1>19. Len(E2) = Count(i) /\ Len(N2) = CountNew(i)
  BY <1>3, <1>7, <1>10, <1>17
<1>20. ASSUME NEW k \in 1 .. m
       PROVE  /\ IsShared(k) => E2[Count(k)] = IndexOf(k)
              /\ ~IsShared(k) => N2[CountNew(k)] = Chars("B", hashes["B"][k].hash)
  <2>1. IsShared(k) => Count(k) \in 1 .. Len(E)
    <3> SUFFICES ASSUME IsShared(k) PROVE Count(k) >= 1
      BY <1>7, <1>17
    <3>1. k - 1 \in Nat /\ k - 1 + 1 = k
      BY <1>3
    <3>2. Count(k - 1) \in 0 .. k - 1 /\ Count(k) = Count(k - 1) + 1
      BY <3>1, CountFacts
    <3> QED
      BY <3>1, <3>2
  <2>2. ~IsShared(k) => CountNew(k) \in 1 .. Len(N)
    <3> SUFFICES ASSUME ~IsShared(k) PROVE CountNew(k) >= 1
      BY <1>7, <1>17
    <3>1. k - 1 \in Nat /\ k - 1 + 1 = k
      BY <1>3
    <3>2. CountNew(k - 1) \in 0 .. k - 1 /\ CountNew(k) = CountNew(k - 1) + 1
      BY <3>1, CountFacts
    <3> QED
      BY <3>1, <3>2
  <2>3. \A j \in 1 .. Len(E) : E2[j] = E[j]
    BY <1>3, <1>10
  <2>4. \A j \in 1 .. Len(N) : N2[j] = N[j]
    BY <1>3, <1>10
  <2> QED
    BY <1>7, <2>1, <2>2, <2>3, <2>4
<1>21. /\ IsShared(i) => E2[Count(i)] = IndexOf(i)
       /\ ~IsShared(i) => N2[CountNew(i)] = Chars("B", hashes["B"][i].hash)
  <2>1. IsShared(i) => E2[Count(i)] = index
    BY <1>3, <1>6, <1>7, <1>10, <1>17
  <2>2. ~IsShared(i) => N2[CountNew(i)] = Chars("B", h)
    BY <1>3, <1>6, <1>7, <1>10, <1>17
  <2> QED
    BY <1>8, <2>1, <2>2 DEF h
<1>22. \A k \in 1 .. i : /\ C2[k] <=> IsShared(k)
                         /\ IsShared(k) => E2[Count(k)] = IndexOf(k)
                         /\ ~IsShared(k) =>
                               N2[CountNew(k)] = Chars("B", hashes["B"][k].hash)
  <2>1. \A k \in 1 .. i : k = i \/ k \in 1 .. m
    BY <1>3, <1>18
  <2> QED
    BY <1>6, <1>7, <1>18, <1>20, <1>21, <2>1
<1>23. Described'
  <2>1. pc'["B"] # "sent_rd2"
    BY <1>1, <1>13
  <2>2. i <= Len(hashes["B"])
    BY <1>1
  <2> HIDE DEF C2, E2, N2
  <2>3. Described' = LET mm == Len(C2)
                     IN  IF Encoding'
                         THEN /\ mm <= Len(hashes["B"])
                              /\ Len(E2) = Count(mm)
                              /\ Len(N2) = CountNew(mm)
                              /\ \A k \in 1 .. mm :
                                   /\ C2[k] <=> IsShared(k)
                                   /\ IsShared(k) => E2[Count(k)] = IndexOf(k)
                                   /\ ~IsShared(k) =>
                                         N2[CountNew(k)] = Chars("B", hashes["B"][k].hash)
                              /\ pc'["B"] = "sent_rd2" => mm = Len(hashes["B"])
                                                          /\ rd2'.SHAHash = file["B"]
                         ELSE rd2' = EmptyRd2
    BY <1>15 DEF Described, C2, E2, N2
  <2> QED
    BY <1>13, <1>18, <1>19, <1>22, <2>1, <2>2, <2>3
<1>24. Reconstructed'
  BY <1>1, <1>2, <1>13 DEF IInv, Reconstructed, reconstruction
<1> QED
  BY <1>12, <1>13, <1>14, <1>16, <1>23, <1>24 DEF IInv

LEMMA StutterStep ==
    ASSUME IInv, UNCHANGED vars
    PROVE  IInv'
<1>1. /\ UNCHANGED <<digests, pc, differences, shared_keys, rd2, reconstruction>>
      /\ file' = file /\ hashes' = hashes /\ pc' = pc /\ shared_keys' = shared_keys
      /\ rd2' = rd2 /\ existing_chunk' = existing_chunk /\ new_chunk' = new_chunk
      /\ temp' = temp /\ last_hash' = last_hash
  BY DEF vars, digests, reconstruction
<1>2. Shapes' /\ Phases'
  BY <1>1 DEF IInv, Shapes, Phases, Encoding, Writing
<1>3. Digests'
  BY <1>1, DigestsKept
<1>4. Differences' /\ Described'
  BY <1>1, DescriptionKept
<1>5. Reconstructed'
  <2>1. /\ Both' = Both /\ Unaliased' = Unaliased /\ Agreeing' = Agreeing /\ Written' = Written
    BY <1>1, Unmoved DEF Written
  <2>2. Count(Written)' = Count(Written) /\ Text(Written)' = Text(Written)
    BY <1>1, <2>1 DEF Count, Text, Shared, IsShared, Keys
  <2>3. LastExists(Written)' = LastExists(Written) /\ Writing' = Writing
    BY <1>1, <2>1 DEF LastExists, Writing
  <2> QED
    BY <1>1, <2>1, <2>2, <2>3 DEF IInv, Reconstructed
<1> QED
  BY <1>2, <1>3, <1>4, <1>5 DEF IInv

(***************************************************************************)
(* Whatever the two files, their overlaps and the hash of chunks, as long  *)
(* as no two strings hash alike: B's description, and what A has written,  *)
(* follow B's file chunk by chunk.                                         *)
(***************************************************************************)
THEOREM Invariance == Spec => []IInv
<1>1. Init => IInv
  BY InitInv
<1>2. IInv /\ [Next]_vars => IInv'
  <2> SUFFICES ASSUME IInv, [Next]_vars PROVE IInv'
    OBVIOUS
  <2>1. CASE \E p \in Party : ProcessFile(p)
    BY <2>1, ProcessFileStep
  <2>2. CASE SendStrata \/ ReceiveStrata \/ SendIBLT \/ FailToPeel
    BY <2>2, ExchangeStep
  <2>3. CASE ReceiveIBLT
    BY <2>3, ReceiveIBLTStep
  <2>4. CASE EncodeChunk
    BY <2>4, EncodeChunkStep
  <2>5. CASE SendRd2
    BY <2>5, SendRd2Step
  <2>6. CASE ReceiveRd2
    BY <2>6, ReceiveRd2Step
  <2>7. CASE WriteExisting
    BY <2>7, WriteExistingStep
  <2>8. CASE ReadBeyond
    BY <2>8, ReadBeyondStep
  <2>9. CASE WriteNew
    BY <2>9, WriteNewStep
  <2>10. CASE CompareSHA
    BY <2>10, CompareSHAStep
  <2>11. CASE UNCHANGED vars
    BY <2>11, StutterStep
  <2> QED
    BY <2>1, <2>2, <2>3, <2>4, <2>5, <2>6, <2>7, <2>8, <2>9, <2>10, <2>11 DEF Next
<1> QED
  BY <1>1, <1>2, PTL DEF Spec

(***************************************************************************)
(* A recovers, from the bits of hash_exists read in the order of its own   *)
(* map, the very set of shared hashes that B's peel found.                 *)
(***************************************************************************)
THEOREM EndsAgreeOnShared == Spec => []SharedAgrees
<1>1. IInv => SharedAgrees
  <2>1. IInv /\ Writing => shared_keys["A"] = Both /\ shared_keys["B"] = Both
    BY DEF IInv, Phases, Differences, Reconstructed, Encoding, Writing
  <2> QED
    BY <2>1 DEF SharedAgrees, Writing
<1> QED
  BY <1>1, Invariance, PTL

(***************************************************************************)
(* With one overlap at both ends, an index that counts only among the      *)
(* hashes starting with the characters just written is never beyond A's    *)
(* vector and leads to the hash that B meant.                              *)
(***************************************************************************)
THEOREM IndexIsExact == Spec => []IndexFindsChunk
<1>1. IInv => IndexFindsChunk
  <2> SUFFICES ASSUME IInv, overlap("A") = overlap("B")
               PROVE  /\ pc["A"] # "undefined"
                      /\ LastExists(Written) => last_hash = hashes["B"][Written].hash
    BY DEF IndexFindsChunk
  <2>1. CASE Writing
    BY <2>1 DEF IInv, Reconstructed, Agreeing
  <2>2. CASE ~Writing
    <3>1. Written = 0
      BY <2>2 DEF IInv, Reconstructed, Written
    <3> QED
      BY <2>2, <3>1 DEF LastExists, Writing
  <2> QED
    BY <2>1, <2>2
<1> QED
  BY <1>1, Invariance, PTL

(***************************************************************************)
(* If no shared hash names chunks of two lengths, no assertion fails, A    *)
(* reads no vector beyond its end, and what it writes is at any moment the *)
(* beginning of B's file.                                                  *)
(***************************************************************************)
THEOREM NewFileIsWritten == Spec => []WritesNewFile
<1>1. IInv => WritesNewFile
  <2> SUFFICES ASSUME IInv, Unaliased
               PROVE  /\ pc["A"] \notin {"abort", "mismatch", "undefined"} /\ pc["B"] # "abort"
                      /\ \E n \in 0 .. Len(file["B"]) : temp = SubSeq(file["B"], 1, n)
    BY DEF WritesNewFile
  <2>1. pc["A"] # "abort" /\ pc["B"] # "abort"
    BY DEF IInv, Shapes, Party
  <2>2. file["B"] \in File /\ file["B"] \in Seq(Char) /\ Len(file["B"]) \in Nat
    BY FileType DEF IInv, Digests, Party
  <2>3. CASE Writing
    <3>1. /\ pc["A"] \notin {"mismatch", "undefined"} /\ temp = Text(Written)
          /\ Written <= Len(rd2.chunk_exists)
      BY <2>3 DEF IInv, Reconstructed, Agreeing
    <3>2. Encoding /\ Digested("B")
      BY <2>3, BothDigested DEF IInv, Phases, Encoding
    <3>3. /\ Len(rd2.chunk_exists) <= Len(hashes["B"]) /\ Written \in Nat
          /\ Len(rd2.chunk_exists) \in Nat /\ Len(hashes["B"]) \in Nat
      BY <3>2, DigestType DEF IInv, Described, Shapes, Written, Digested
    <3>4. Written \in 0 .. Len(hashes["B"])
      BY <3>1, <3>3
    <3>5. End(hashes["B"], Written) \in 0 .. Len(file["B"])
      BY <3>2, <3>4, TextFacts
    <3> QED
      BY <2>1, <3>1, <3>5 DEF Text
  <2>4. CASE ~Writing
    <3>1. temp = << >> /\ pc["A"] \notin {"mismatch", "undefined"}
      BY <2>4 DEF IInv, Reconstructed, Writing
    <3>2. SubSeq(file["B"], 1, 0) = << >> /\ 0 \in 0 .. Len(file["B"])
      BY <2>2
    <3> QED
      BY <2>1, <3>1, <3>2
  <2> QED
    BY <2>3, <2>4
<1> QED
  BY <1>1, Invariance, PTL

=============================================================================
