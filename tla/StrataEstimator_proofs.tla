----------------------- MODULE StrataEstimator_proofs -----------------------
(***************************************************************************)
(* For every set of keys, number of strata and hash functions, what        *)
(* estimate_diff returns is the scaled size of the difference above the    *)
(* highest stratum that cannot be peeled.                                  *)
(***************************************************************************)
EXTENDS StrataEstimator, Arithmetic

\* Every word but zero belongs to a stratum.
LEMMA TrailingZeroesType ==
    ASSUME NEW k \in Word
    PROVE  /\ k # {} => num_trailing_zeroes(k) \in Stratum
           /\ num_trailing_zeroes(k) \in Int
<1>1. Bit = 0 .. num_strata - 1 /\ k \subseteq Bit /\ num_strata \in Nat
  BY StrataAssumption DEF Word
<1>2. CASE k = {}
  BY <1>1, <1>2 DEF num_trailing_zeroes
<1>3. CASE k # {}
  <2>1. k \in SUBSET Nat
    BY <1>1
  <2>2. \E b \in Bit : b \in k /\ \A c \in k : b <= c
    BY <1>1, <1>3, <2>1, LeastNat
  <2>3. num_trailing_zeroes(k) \in Bit
    BY <1>3, <2>2 DEF num_trailing_zeroes
  <2> QED
    BY <1>1, <1>3, <2>3 DEF Stratum
<1> QED
  BY <1>2, <1>3

\* The strata of two sets differ by the strata of their difference.
LEMMA StrataOfDifference ==
    ASSUME NEW S, NEW T, NEW s
    PROVE  XOR(InStratum(S, s), InStratum(T, s)) = InStratum(XOR(S, T), s)
BY DEF XOR, InStratum

\* A key that is not yet there joins its own stratum only.
LEMMA InsertStratum ==
    ASSUME NEW S, NEW k, k \notin S, NEW s
    PROVE  InStratum(S \cup {k}, s) =
               IF s = num_trailing_zeroes(k) THEN XOR(InStratum(S, s), {k})
                                             ELSE InStratum(S, s)
BY DEF XOR, InStratum

\* Peeling leaves a part of what was there.
LEMMA CoreSubset == ASSUME NEW D PROVE Core(D) \in SUBSET D
BY DEF Core

\* The difference is finite and without zero, and is all above stratum -1.
LEMMA DifferenceFacts ==
    ASSUME keys \in [Party -> SUBSET Key], \A p \in Party : {} \notin keys[p]
    PROVE  /\ Difference \in SUBSET Key /\ IsFiniteSet(Difference)
           /\ \A k \in Difference : num_trailing_zeroes(k) \in Stratum
           /\ Above(-1) = Difference
           /\ Above(num_strata - 1) = {}
<1>1. "A" \in Party /\ "B" \in Party
  BY DEF Party
<1>2. Difference \in SUBSET Key /\ {} \notin Difference
  BY <1>1 DEF Difference, XOR
<1>3. IsFiniteSet(Difference)
  BY <1>2, KeyAssumption, FS_Subset
<1>4. \A k \in Difference : num_trailing_zeroes(k) \in Stratum
  BY <1>2, KeyAssumption, TrailingZeroesType
<1>5. Above(-1) = Difference
  BY <1>4, StrataAssumption DEF Above, Stratum
<1>6. Above(num_strata - 1) = {}
  BY <1>4, StrataAssumption DEF Above, Stratum
<1> QED
  BY <1>2, <1>3, <1>4, <1>5, <1>6

\* Counting one more stratum.
LEMMA CountStratum ==
    ASSUME IsFiniteSet(Difference), NEW s \in Stratum,
           \A k \in Difference : num_trailing_zeroes(k) \in Stratum
    PROVE  /\ Cardinality(Above(s)) \in Nat
           /\ Cardinality(InStratum(Difference, s)) \in Nat
           /\ Cardinality(Above(s - 1)) =
                  Cardinality(Above(s)) + Cardinality(InStratum(Difference, s))
<1> DEFINE U == InStratum(Difference, s)
<1>1. Above(s) \in SUBSET Difference /\ U \in SUBSET Difference
  BY DEF Above, InStratum
<1>2. IsFiniteSet(Above(s)) /\ IsFiniteSet(U)
  BY <1>1, FS_Subset
<1>3. Above(s) \cap U = {}
  BY StrataAssumption DEF Above, InStratum, Stratum
<1>4. Above(s - 1) = Above(s) \cup U
  BY StrataAssumption DEF Above, InStratum, Stratum
<1>5. Cardinality(Above(s)) \in Nat /\ Cardinality(U) \in Nat
  BY <1>2, FS_CardinalityType
<1> HIDE DEF U
<1>6. Cardinality(Above(s) \cup U) =
          Cardinality(Above(s)) + Cardinality(U) - Cardinality(Above(s) \cap U)
  BY <1>2, FS_Union
<1>7. Cardinality(Above(s) \cap U) = 0
  BY <1>3, FS_EmptySet
<1>8. Cardinality(Above(s - 1)) = Cardinality(Above(s) \cup U)
  BY <1>4
<1>9. Cardinality(Above(s - 1)) = Cardinality(Above(s)) + Cardinality(U)
  <2> DEFINE a == Cardinality(Above(s))
             u == Cardinality(U)
             both == Cardinality(Above(s) \cup U)
  <2>1. both = a + u - 0
    BY <1>6, <1>7, Zenon
  <2>2. a \in Nat /\ u \in Nat
    BY <1>5
  <2> HIDE DEF a, u, both
  <2>3. both = a + u
    BY <2>1, <2>2
  <2> QED
    BY <1>8, <2>3 DEF a, u, both
<1> QED
  BY <1>5, <1>9 DEF U

-----------------------------------------------------------------------------
\* Each action keeps the invariant.

LEMMA InitIInv == Init => IInv
<1> SUFFICES ASSUME Init PROVE IInv
  OBVIOUS
<1>1. TypeOK
  BY StrataAssumption DEF Init, TypeOK, Stratum
<1>2. StrataHoldKeys
  BY DEF Init, StrataHoldKeys, InStratum
<1> QED
  BY <1>1, <1>2 DEF Init, IInv, NotStarted, Estimating, StrataHoldDifference, EstimateIsScaledCount, Party

\* Before and after estimate_diff there is nothing to say about its result.
LEMMA NotEstimating ==
    ASSUME pc'["B"] \notin {"estimate", "returned"}
    PROVE  StrataHoldDifference' /\ EstimateIsScaledCount' /\ ~Estimating'
<1>1. pc'["B"] # "estimate" /\ pc'["B"] # "returned"
  OBVIOUS
<1>2. StrataHoldDifference' /\ ~Estimating'
  BY <1>1 DEF StrataHoldDifference, Estimating
<1>3. EstimateIsScaledCount'
  BY <1>1, Zenon DEF EstimateIsScaledCount
<1> QED
  BY <1>2, <1>3

LEMMA InsertKeepsIInv ==
    ASSUME IInv, NEW p \in Party, NEW k \in Key, Insert(p, k)
    PROVE  IInv'
<1>1. /\ pc[p] = "fill" /\ k # {} /\ k \notin keys[p]
      /\ keys' = [keys EXCEPT ![p] = @ \cup {k}]
      /\ iblts' = [iblts EXCEPT ![p][num_trailing_zeroes(k)] = XOR(@, {k})]
      /\ UNCHANGED <<pc, i, count, estimate>>
  BY DEF Insert
<1>2. pc["B"] \notin {"estimate", "returned"}
  BY <1>1 DEF IInv, Estimating, Party
<1>3. num_trailing_zeroes(k) \in Stratum
  BY <1>1, KeyAssumption, TrailingZeroesType
<1>4. iblts[p] \in [Stratum -> SUBSET Key] /\ iblts \in [Party -> [Stratum -> SUBSET Key]]
      /\ keys \in [Party -> SUBSET Key]
  BY DEF IInv, TypeOK
<1>5. \A s \in Stratum : iblts[p][s] = InStratum(keys[p], s)
  BY <1>1 DEF IInv, StrataHoldKeys
<1>6. /\ \A q \in Party : q # p => keys'[q] = keys[q] /\ iblts'[q] = iblts[q]
      /\ keys'[p] = keys[p] \cup {k}
      /\ \A s \in Stratum : iblts'[p][s] = IF s = num_trailing_zeroes(k)
                                            THEN XOR(iblts[p][s], {k}) ELSE iblts[p][s]
  BY <1>1, <1>3, <1>4
<1>7. \A s \in Stratum : iblts'[p][s] = InStratum(keys'[p], s)
  <2> SUFFICES ASSUME NEW s \in Stratum PROVE iblts'[p][s] = InStratum(keys'[p], s)
    OBVIOUS
  <2>1. iblts[p][s] = InStratum(keys[p], s)
    BY <1>5
  <2>2. InStratum(keys[p] \cup {k}, s) =
            IF s = num_trailing_zeroes(k) THEN XOR(InStratum(keys[p], s), {k})
                                          ELSE InStratum(keys[p], s)
    BY <1>1, InsertStratum
  <2>3. keys'[p] = keys[p] \cup {k}
    BY <1>6
  <2>4. iblts'[p][s] = IF s = num_trailing_zeroes(k) THEN XOR(iblts[p][s], {k})
                                                     ELSE iblts[p][s]
    BY <1>6
  <2> QED
    BY <2>1, <2>2, <2>3, <2>4, Zenon
<1>8. TypeOK'
  <2>1. XOR(iblts[p][num_trailing_zeroes(k)], {k}) \in SUBSET Key
    BY <1>3, <1>4 DEF XOR
  <2>2. iblts' \in [Party -> [Stratum -> SUBSET Key]]
    BY <1>1, <1>3, <1>4, <2>1
  <2>3. keys' \in [Party -> SUBSET Key]
    BY <1>1, <1>4
  <2> QED
    BY <1>1, <2>2, <2>3 DEF IInv, TypeOK
<1>9. StrataHoldKeys'
  <2>1. {} \notin keys'[p]
    BY <1>1, <1>6 DEF IInv, StrataHoldKeys
  <2>2. ASSUME NEW q \in Party, q # p,
               ~(q = "B" /\ pc'["A"] = "sent" /\ pc'["B"] # "fill")
        PROVE  \A s \in Stratum : iblts'[q][s] = InStratum(keys'[q], s)
    <3>1. \A s \in Stratum : iblts[q][s] = InStratum(keys[q], s)
      BY <1>1, <2>2 DEF IInv, StrataHoldKeys
    <3>2. keys'[q] = keys[q] /\ iblts'[q] = iblts[q]
      BY <1>6, <2>2
    <3> QED
      BY <3>1, <3>2
  <2>3. \A q \in Party : q # p => {} \notin keys'[q]
    BY <1>6 DEF IInv, StrataHoldKeys
  <2> QED
    BY <1>7, <2>1, <2>2, <2>3 DEF StrataHoldKeys
<1> QED
  BY <1>1, <1>2, <1>8, <1>9, NotEstimating DEF IInv, NotStarted

LEMMA InsertZeroKeepsIInv ==
    ASSUME IInv, NEW p \in Party, InsertZero(p)
    PROVE  IInv'
<1>1. /\ pc[p] = "fill" /\ pc' = [pc EXCEPT ![p] = "undefined"]
      /\ UNCHANGED <<keys, iblts, i, count, estimate>>
  BY DEF InsertZero
<1>2. TypeOK'
  BY <1>1 DEF IInv, TypeOK
<1>3. /\ \A q \in Party : q # p => pc'[q] = pc[q]
      /\ pc'[p] = "undefined"
      /\ "A" \in Party /\ "B" \in Party
  BY <1>1 DEF IInv, TypeOK, Party
<1>4. StrataHoldKeys'
  BY <1>1, <1>3 DEF IInv, StrataHoldKeys, Party
<1>5. pc["B"]' \notin {"estimate", "returned"}
  BY <1>1, <1>3 DEF IInv, Estimating, Party
<1>6. pc["A"]' \notin {"estimate", "returned"}
  BY <1>3 DEF IInv
<1> QED
  BY <1>1, <1>2, <1>3, <1>4, <1>5, <1>6, NotEstimating DEF IInv, NotStarted

LEMMA SendKeepsIInv == IInv /\ Send => IInv'
<1> SUFFICES ASSUME IInv, Send PROVE IInv'
  OBVIOUS
<1>1. /\ pc["A"] = "fill" /\ pc' = [pc EXCEPT !["A"] = "sent"]
      /\ UNCHANGED <<keys, iblts, i, count, estimate>>
  BY DEF Send
<1>2. TypeOK'
  BY <1>1 DEF IInv, TypeOK
<1>3. pc'["A"] = "sent" /\ pc'["B"] = pc["B"]
  BY <1>1 DEF IInv, TypeOK, Party
<1>4. pc["B"] \notin {"estimate", "returned"}
  BY <1>1 DEF IInv, Estimating
<1>5. StrataHoldKeys'
  BY <1>1, <1>3 DEF IInv, StrataHoldKeys
<1> QED
  BY <1>1, <1>2, <1>3, <1>4, <1>5, NotEstimating DEF IInv, NotStarted

LEMMA RemoveKeepsIInv == IInv /\ Remove => IInv'
<1> SUFFICES ASSUME IInv, Remove PROVE IInv'
  OBVIOUS
<1>1. /\ pc["A"] = "sent" /\ pc["B"] = "fill"
      /\ iblts' = [iblts EXCEPT !["B"] = RemoveStrata(@, iblts["A"])]
      /\ pc' = [pc EXCEPT !["B"] = "estimate"]
      /\ UNCHANGED <<keys, i, count, estimate>>
  BY DEF Remove
<1>2. /\ "A" \in Party /\ "B" \in Party
      /\ iblts \in [Party -> [Stratum -> SUBSET Key]] /\ keys \in [Party -> SUBSET Key]
      /\ pc \in [Party -> {"fill", "sent", "estimate", "returned", "undefined"}]
  BY DEF IInv, TypeOK, Party
<1>3. /\ pc'["A"] = "sent" /\ pc'["B"] = "estimate"
      /\ iblts'["A"] = iblts["A"]
      /\ iblts'["B"] = RemoveStrata(iblts["B"], iblts["A"])
  BY <1>1, <1>2
<1>4. RemoveStrata(iblts["B"], iblts["A"]) \in [Stratum -> SUBSET Key]
  BY <1>2 DEF RemoveStrata, XOR
<1>5. TypeOK'
  <2>1. iblts' \in [Party -> [Stratum -> SUBSET Key]]
    BY <1>1, <1>2, <1>4
  <2>2. pc' \in [Party -> {"fill", "sent", "estimate", "returned", "undefined"}]
    BY <1>1, <1>2
  <2> QED
    BY <1>1, <2>1, <2>2 DEF IInv, TypeOK
<1>6. ASSUME NEW s \in Stratum PROVE iblts'["B"][s] = InStratum(Difference, s)
  <2>1. /\ iblts["A"][s] = InStratum(keys["A"], s)
        /\ iblts["B"][s] = InStratum(keys["B"], s)
    BY <1>1, <1>2 DEF IInv, StrataHoldKeys
  <2>2. iblts'["B"][s] = XOR(InStratum(keys["B"], s), InStratum(keys["A"], s))
    BY <1>3, <2>1 DEF RemoveStrata
  <2>3. XOR(keys["B"], keys["A"]) = Difference
    BY DEF XOR, Difference
  <2> QED
    BY <2>2, <2>3, StrataOfDifference
<1>7. Difference' = Difference
  BY <1>1 DEF Difference
<1>8. /\ i' = num_strata - 1 /\ count' = 0 /\ num_strata - 1 \in Int
      /\ 0 .. i' = Stratum /\ i' + 1 .. num_strata - 1 = {}
  BY <1>1, StrataAssumption DEF IInv, NotStarted, Stratum
<1>9. Cardinality(Above(num_strata - 1)) = 0
  BY <1>2, DifferenceFacts, FS_EmptySet DEF IInv, StrataHoldKeys
<1>10. Above(i)' = Above(num_strata - 1)
  BY <1>7, <1>8 DEF Above
<1>11. StrataHoldDifference'
  BY <1>6, <1>7, <1>8, <1>9, <1>10 DEF StrataHoldDifference
<1>12. StrataHoldKeys'
  BY <1>1, <1>3 DEF IInv, StrataHoldKeys, Party
<1>13. EstimateIsScaledCount' /\ NotStarted' /\ (Estimating => pc["A"] = "sent")'
  <2>1. pc'["B"] # "returned" /\ pc'["B"] # "fill"
    BY <1>3
  <2>2. EstimateIsScaledCount'
    BY <2>1, Zenon DEF EstimateIsScaledCount
  <2> QED
    BY <1>3, <2>1, <2>2 DEF NotStarted
<1> QED
  BY <1>3, <1>5, <1>11, <1>12, <1>13 DEF IInv

\* The facts about B while it estimates.
LEMMA EstimatingFacts ==
    ASSUME IInv, pc["B"] = "estimate"
    PROVE  /\ "B" \in Party /\ pc["A"] = "sent"
           /\ iblts \in [Party -> [Stratum -> SUBSET Key]]
           /\ pc \in [Party -> {"fill", "sent", "estimate", "returned", "undefined"}]
           /\ num_strata \in Nat /\ i \in -1 .. num_strata - 1 /\ count \in Nat
           /\ IsFiniteSet(Difference)
           /\ \A k \in Difference : num_trailing_zeroes(k) \in Stratum
           /\ Above(-1) = Difference
           /\ \A s \in 0 .. i : iblts["B"][s] = InStratum(Difference, s)
           /\ \A s \in i + 1 .. num_strata - 1 : Peelable(s)
           /\ count = Cardinality(Above(i))
<1>1. /\ "B" \in Party /\ pc["A"] = "sent"
      /\ iblts \in [Party -> [Stratum -> SUBSET Key]]
      /\ pc \in [Party -> {"fill", "sent", "estimate", "returned", "undefined"}]
      /\ num_strata \in Nat /\ i \in -1 .. num_strata - 1 /\ count \in Nat
  BY StrataAssumption DEF IInv, TypeOK, Party, Estimating
<1>2. /\ IsFiniteSet(Difference)
      /\ \A k \in Difference : num_trailing_zeroes(k) \in Stratum
      /\ Above(-1) = Difference
  BY DifferenceFacts DEF IInv, TypeOK, StrataHoldKeys
<1>3. /\ \A s \in 0 .. i : iblts["B"][s] = InStratum(Difference, s)
      /\ \A s \in i + 1 .. num_strata - 1 : Peelable(s)
      /\ count = Cardinality(Above(i))
  BY DEF IInv, StrataHoldDifference
<1> QED
  BY <1>1, <1>2, <1>3

\* What a peel does to the state besides the counting.
LEMMA PeelFacts ==
    ASSUME IInv, Peel
    PROVE  /\ pc["B"] = "estimate" /\ i \in Stratum
           /\ iblts' \in [Party -> [Stratum -> SUBSET Key]]
           /\ iblts'["A"] = iblts["A"]
           /\ \A s \in Stratum \ {i} : iblts'["B"][s] = iblts["B"][s]
           /\ iblts["B"][i] = InStratum(Difference, i)
           /\ keys' = keys /\ Difference' = Difference
<1>1. /\ pc["B"] = "estimate" /\ i \in Stratum /\ keys' = keys
      /\ iblts' = [iblts EXCEPT !["B"][i] = Core(iblts["B"][i])]
  BY DEF Peel
<1>2. /\ "A" \in Party /\ "B" \in Party
      /\ iblts \in [Party -> [Stratum -> SUBSET Key]]
  BY <1>1, EstimatingFacts DEF Party
<1>3. Core(iblts["B"][i]) \in SUBSET Key
  BY <1>1, <1>2, CoreSubset
<1>4. iblts["B"][i] = InStratum(Difference, i)
  BY <1>1, EstimatingFacts DEF Stratum
<1>5. Difference' = Difference
  BY <1>1 DEF Difference
<1> QED
  BY <1>1, <1>2, <1>3, <1>4, <1>5

LEMMA PeeledKeepsIInv == IInv /\ Peeled => IInv'
<1> SUFFICES ASSUME IInv, Peeled PROVE IInv'
  OBVIOUS
<1>1. /\ Peel /\ Core(iblts["B"][i]) = {}
      /\ count' = count + Cardinality(iblts["B"][i])
      /\ i' = i - 1 /\ UNCHANGED <<pc, estimate>>
  BY DEF Peeled
<1>2. /\ Peelable(i)
      /\ count' = Cardinality(Above(i)) + Cardinality(InStratum(Difference, i))
  BY <1>1, PeelFacts, EstimatingFacts DEF Peelable
<1>3. count' = Cardinality(Above(i - 1)) /\ count' \in Nat
  BY <1>2, PeelFacts, <1>1, EstimatingFacts, CountStratum
<1>4. \A s \in 0 .. i - 1 : iblts'["B"][s] = InStratum(Difference, s)
  <2> SUFFICES ASSUME NEW s \in 0 .. i - 1
               PROVE  iblts'["B"][s] = InStratum(Difference, s)
    OBVIOUS
  <2>1. s \in Stratum \ {i} /\ s \in 0 .. i
    BY <1>1, PeelFacts, EstimatingFacts DEF Stratum
  <2> QED
    BY <1>1, <2>1, PeelFacts, EstimatingFacts
<1>5. \A s \in i - 1 + 1 .. num_strata - 1 : Peelable(s)
  <2> SUFFICES ASSUME NEW s \in i - 1 + 1 .. num_strata - 1 PROVE Peelable(s)
    OBVIOUS
  <2>1. s = i \/ s \in i + 1 .. num_strata - 1
    BY <1>1, PeelFacts, EstimatingFacts
  <2> QED
    BY <1>1, <1>2, <2>1, PeelFacts, EstimatingFacts
<1>6. /\ \A s : Peelable(s)' <=> Peelable(s)
      /\ Above(i)' = Above(i - 1)
  BY <1>1, PeelFacts DEF Peelable, Above
<1>7. StrataHoldDifference'
  BY <1>1, <1>3, <1>4, <1>5, <1>6, PeelFacts DEF StrataHoldDifference
<1>8. TypeOK'
  <2>1. i' \in -1 .. num_strata - 1
    BY <1>1, PeelFacts, EstimatingFacts DEF Stratum
  <2> QED
    BY <1>1, <1>3, <2>1, PeelFacts DEF IInv, TypeOK
<1>9. StrataHoldKeys'
  BY <1>1, PeelFacts, EstimatingFacts DEF IInv, StrataHoldKeys, Party
<1>10. EstimateIsScaledCount'
  <2>1. pc'["B"] # "returned"
    BY <1>1, PeelFacts
  <2> QED
    BY <2>1, Zenon DEF EstimateIsScaledCount
<1> QED
  BY <1>1, <1>7, <1>8, <1>9, <1>10, PeelFacts, EstimatingFacts DEF IInv, Estimating, NotStarted

LEMMA UnpeeledKeepsIInv == IInv /\ Unpeeled => IInv'
<1> SUFFICES ASSUME IInv, Unpeeled PROVE IInv'
  OBVIOUS
<1>1. /\ Peel /\ Core(iblts["B"][i]) # {} /\ UNCHANGED <<i, count>>
      /\ \/ /\ estimate' = Scale(i) * count
            /\ pc' = [pc EXCEPT !["B"] = "returned"]
         \/ /\ pc' = [pc EXCEPT !["B"] = "undefined"]
            /\ UNCHANGED estimate
  BY DEF Unpeeled
<1>2. /\ pc' \in [Party -> {"fill", "sent", "estimate", "returned", "undefined"}]
      /\ pc'["A"] = pc["A"] /\ pc'["A"] = "sent" /\ pc'["B"] \in {"returned", "undefined"}
      /\ pc'["B"] = "returned" => estimate' = Scale(i) * count
  <2>1. /\ "A" \in Party /\ "B" \in Party /\ pc["A"] = "sent"
        /\ pc \in [Party -> {"fill", "sent", "estimate", "returned", "undefined"}]
    BY <1>1, PeelFacts, EstimatingFacts DEF Party
  <2>2. CASE estimate' = Scale(i) * count /\ pc' = [pc EXCEPT !["B"] = "returned"]
    <3>1. /\ pc' \in [Party -> {"fill", "sent", "estimate", "returned", "undefined"}]
          /\ pc'["A"] = "sent" /\ pc'["B"] = "returned"
      BY <2>1, <2>2
    <3> QED
      BY <2>1, <2>2, <3>1, Zenon
  <2>3. CASE pc' = [pc EXCEPT !["B"] = "undefined"]
    <3>1. /\ pc' \in [Party -> {"fill", "sent", "estimate", "returned", "undefined"}]
          /\ pc'["A"] = "sent" /\ pc'["B"] = "undefined"
      BY <2>1, <2>3
    <3> QED
      BY <2>1, <3>1
  <2> QED
    BY <1>1, <2>2, <2>3, Zenon
<1>3. TypeOK'
  BY <1>1, <1>2, PeelFacts DEF IInv, TypeOK
<1>4. StrataHoldKeys'
  BY <1>1, <1>2, PeelFacts, EstimatingFacts DEF IInv, StrataHoldKeys, Party
<1>5. StrataHoldDifference' /\ NotStarted'
  BY <1>2 DEF StrataHoldDifference, NotStarted
<1>6. ASSUME pc'["B"] = "returned" PROVE EstimateIsScaledCount'
  <2>1. /\ i \in Stratum /\ ~Peelable(i)
        /\ \A s \in i + 1 .. num_strata - 1 : Peelable(s)
    BY <1>1, PeelFacts, EstimatingFacts DEF Peelable
  <2>2. estimate' = 2 ^ (i + 1) * Cardinality(Above(i))
    BY <1>1, <1>2, <1>6, PeelFacts, EstimatingFacts, Zenon DEF Scale
  <2>3. /\ \A s : Peelable(s)' <=> Peelable(s)
        /\ \A s : Above(s)' = Above(s)
    BY <1>1, PeelFacts DEF Peelable, Above
  <2> QED
    BY <2>1, <2>2, <2>3, Zenon DEF EstimateIsScaledCount
<1>7. EstimateIsScaledCount'
  <2>1. pc'["B"] # "returned" => EstimateIsScaledCount'
    BY Zenon DEF EstimateIsScaledCount
  <2> QED
    BY <1>6, <2>1
<1> QED
  BY <1>2, <1>3, <1>4, <1>5, <1>7 DEF IInv

LEMMA ReturnCountKeepsIInv == IInv /\ ReturnCount => IInv'
<1> SUFFICES ASSUME IInv, ReturnCount PROVE IInv'
  OBVIOUS
<1>1. /\ pc["B"] = "estimate" /\ i \notin Stratum /\ estimate' = count
      /\ pc' = [pc EXCEPT !["B"] = "returned"]
      /\ UNCHANGED <<keys, iblts, i, count>>
  BY DEF ReturnCount
<1>2. /\ pc' \in [Party -> {"fill", "sent", "estimate", "returned", "undefined"}]
      /\ pc'["A"] = "sent" /\ pc'["B"] = "returned"
  BY <1>1, EstimatingFacts
<1>3. i = -1
  BY <1>1, EstimatingFacts DEF Stratum
<1>4. /\ \A s \in Stratum : Peelable(s)
      /\ estimate' = Cardinality(Difference)
  BY <1>1, <1>3, EstimatingFacts DEF Stratum
<1>5. /\ \A s : Peelable(s)' <=> Peelable(s)
      /\ Difference' = Difference
  BY <1>1 DEF Peelable, Difference, InStratum
<1>6. EstimateIsScaledCount'
  BY <1>4, <1>5, Zenon DEF EstimateIsScaledCount
<1>7. TypeOK'
  BY <1>1, <1>2 DEF IInv, TypeOK
<1>8. StrataHoldKeys'
  BY <1>1, <1>2, EstimatingFacts DEF IInv, StrataHoldKeys, Party
<1> QED
  BY <1>2, <1>6, <1>7, <1>8 DEF IInv, StrataHoldDifference, NotStarted

-----------------------------------------------------------------------------
(***************************************************************************)
(* The inductive invariant: the strata partition the keys of each party,   *)
(* and after the subtraction the difference that is still to be counted.   *)
(***************************************************************************)
THEOREM StrataInvariance == Spec => []IInv
<1>1. ASSUME IInv, UNCHANGED vars PROVE IInv'
  <2>1. /\ keys' = keys /\ iblts' = iblts /\ pc' = pc
        /\ i' = i /\ count' = count /\ estimate' = estimate
    BY <1>1 DEF vars
  <2>2. /\ Difference' = Difference
        /\ \A s : Above(s)' = Above(s) /\ (Peelable(s)' <=> Peelable(s))
    BY <2>1 DEF Difference, Above, Peelable
  <2>3. EstimateIsScaledCount'
    BY <1>1, <2>1, <2>2, Zenon DEF IInv, EstimateIsScaledCount
  <2>4. StrataHoldDifference'
    BY <1>1, <2>1, <2>2 DEF IInv, StrataHoldDifference
  <2> QED
    BY <1>1, <2>1, <2>3, <2>4 DEF IInv, TypeOK, Estimating, NotStarted, StrataHoldKeys
<1>2. IInv /\ [Next]_vars => IInv'
  BY <1>1, InsertKeepsIInv, InsertZeroKeepsIInv, SendKeepsIInv, RemoveKeepsIInv,
     PeeledKeepsIInv, UnpeeledKeepsIInv, ReturnCountKeepsIInv DEF Next
<1> QED
  BY <1>2, InitIInv, PTL DEF Spec

(***************************************************************************)
(* estimate_diff returns the size of the difference, or the size of the    *)
(* part of it above the highest stratum that cannot be peeled, scaled.     *)
(***************************************************************************)
THEOREM EstimateCorrect == Spec => []EstimateIsScaledCount
<1>1. IInv => EstimateIsScaledCount
  BY DEF IInv
<1> QED
  BY <1>1, StrataInvariance, PTL

=============================================================================
