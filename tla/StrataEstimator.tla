--------------------------- MODULE StrataEstimator ---------------------------
(***************************************************************************)
(* Two estimators of StrataEstimator.hpp: each party puts every key in the *)
(* stratum of its trailing zeroes; A sends its strata; B subtracts them    *)
(* from its own and peels from the sparsest stratum down, one step each    *)
(* (estimate_diff), until one cannot be peeled.                            *)
(*                                                                         *)
(* Key are the words that items are hashed to, what insert_key puts in the *)
(* tables.  With the 64-bit keys of file_sync that is a bijection; with a  *)
(* hash_type of 32 bits, or for the strings of dir_sync, two items may be  *)
(* one Key, and how they count is left out.  A stratum is the set of the   *)
(* keys in its table; subtracting leaves the symmetric difference; peeling *)
(* leaves the largest set that cannot be peeled: TablesEncodeSets,         *)
(* ResidueEncodesRest, PeelsDownToCore of Reconciliation say so.           *)
(***************************************************************************)
EXTENDS BasicIBLT

CONSTANTS
    num_strata,   \* as many as hash_type has bits
    IntBits       \* the bits of an int

ASSUME StrataAssumption ==
    /\ num_strata \in Nat \ {0}
    /\ Bit = 0 .. num_strata - 1
    /\ IntBits \in Nat \ {0}

Stratum == 0 .. num_strata - 1
Party == {"A", "B"}

VARIABLES
    keys,      \* keys[p]: what party p has inserted
    iblts,     \* iblts[p][i]: its table of stratum i
    pc,        \* pc[p]
    i,         \* the loop variable of estimate_diff
    count,
    estimate   \* what estimate_diff returned

vars == <<keys, iblts, pc, i, count, estimate>>

num_trailing_zeroes(k) ==
    IF k = {} THEN num_strata
    ELSE CHOOSE b \in Bit : b \in k /\ \A c \in k : b <= c

InStratum(S, s) == {k \in S : num_trailing_zeroes(k) = s}

Init ==
    /\ keys = [p \in Party |-> {}]
    /\ iblts = [p \in Party |-> [s \in Stratum |-> {}]]
    /\ pc = [p \in Party |-> "fill"]
    /\ i = num_strata - 1
    /\ count = 0
    /\ estimate = 0

\* The keys come from a map: never twice.
Insert(p, k) ==
    /\ pc[p] = "fill"
    /\ k # {} /\ k \notin keys[p]
    /\ keys' = [keys EXCEPT ![p] = @ \cup {k}]
    /\ iblts' = [iblts EXCEPT ![p][num_trailing_zeroes(k)] = XOR(@, {k})]
    /\ UNCHANGED <<pc, i, count, estimate>>

\* There is no stratum for the word zero: a read beyond the vector.
InsertZero(p) ==
    /\ pc[p] = "fill"
    /\ {} \in Key
    /\ pc' = [pc EXCEPT ![p] = "undefined"]
    /\ UNCHANGED <<keys, iblts, i, count, estimate>>

\* The message has the strata in order; A does not change them any more.
Send ==
    /\ pc["A"] = "fill"
    /\ pc' = [pc EXCEPT !["A"] = "sent"]
    /\ UNCHANGED <<keys, iblts, i, count, estimate>>

\* Mutant: the loop stops before the first stratum.
RemoveStrataShort(t, u) == [s \in Stratum |-> IF s > 0 THEN XOR(t[s], u[s]) ELSE t[s]]
RemoveStrata(t, u) == [s \in Stratum |-> XOR(t[s], u[s])]

\* B decodes the message into a new estimator, cp, and removes it.
Remove ==
    /\ pc["A"] = "sent" /\ pc["B"] = "fill"
    /\ iblts' = [iblts EXCEPT !["B"] = RemoveStrata(@, iblts["A"])]
    /\ pc' = [pc EXCEPT !["B"] = "estimate"]
    /\ UNCHANGED <<keys, i, count, estimate>>

\* What peel leaves of a table that holds the keys D.
Core(D) == UNION {S \in SUBSET D : Stopping(S)}

\* Mutant: scaled as if the stratum that failed had been counted.
ScaleOfStratum(s) == 2 ^ s
\* A stratum and all those above it hold a key with probability 1 / Scale.
Scale(s) == 2 ^ (s + 1)

\* 1 << (i+1) is defined only if the result is an int.
ShiftFits(s) == s + 1 < IntBits - 1

\* One peel of the loop.
Peel ==
    /\ pc["B"] = "estimate" /\ i \in Stratum
    /\ iblts' = [iblts EXCEPT !["B"][i] = Core(@)]
    /\ UNCHANGED keys

Peeled ==
    /\ Peel
    /\ Core(iblts["B"][i]) = {}
    /\ count' = count + Cardinality(iblts["B"][i])
    /\ i' = i - 1
    /\ UNCHANGED <<pc, estimate>>

Unpeeled ==
    /\ Peel
    /\ Core(iblts["B"][i]) # {}
    /\ IF ShiftFits(i)
       THEN /\ estimate' = Scale(i) * count
            /\ pc' = [pc EXCEPT !["B"] = "returned"]
       ELSE /\ pc' = [pc EXCEPT !["B"] = "undefined"]
            /\ UNCHANGED estimate
    /\ UNCHANGED <<i, count>>

ReturnCount ==
    /\ pc["B"] = "estimate" /\ i \notin Stratum
    /\ estimate' = count
    /\ pc' = [pc EXCEPT !["B"] = "returned"]
    /\ UNCHANGED <<keys, iblts, i, count>>

Next ==
    \/ \E p \in Party : InsertZero(p) \/ \E k \in Key : Insert(p, k)
    \/ Send \/ Remove
    \/ Peeled \/ Unpeeled \/ ReturnCount

Spec == Init /\ [][Next]_vars

-----------------------------------------------------------------------------
\* EstimateIsScaledCount says more of estimate than its type.
TypeOK ==
    /\ keys \in [Party -> SUBSET Key]
    /\ iblts \in [Party -> [Stratum -> SUBSET Key]]
    /\ pc \in [Party -> {"fill", "sent", "estimate", "returned", "undefined"}]
    /\ i \in -1 .. num_strata - 1
    /\ count \in Nat

Difference == XOR(keys["A"], keys["B"])
Above(s) == {k \in Difference : num_trailing_zeroes(k) > s}
Peelable(s) == Core(InStratum(Difference, s)) = {}

(***************************************************************************)
(* The estimate is the size of the difference when every stratum can be    *)
(* peeled, and otherwise the number of keys above the highest stratum that *)
(* cannot, scaled by the share of keys expected there.  Nothing counts     *)
(* that was peeled in the failing stratum (estimate_diff).                 *)
(***************************************************************************)
EstimateIsScaledCount ==
    pc["B"] = "returned" =>
        \/ /\ \A s \in Stratum : Peelable(s)
           /\ estimate = Cardinality(Difference)
        \/ \E f \in Stratum :
              /\ ~Peelable(f) /\ \A s \in f + 1 .. num_strata - 1 : Peelable(s)
              /\ estimate = 2 ^ (f + 1) * Cardinality(Above(f))

-----------------------------------------------------------------------------
(* The inductive invariant.                                                *)

Estimating == pc["B"] \in {"estimate", "returned"}

NotStarted == pc["B"] = "fill" => i = num_strata - 1 /\ count = 0

\* Before the subtraction the strata partition a party's keys.
StrataHoldKeys ==
    \A p \in Party :
        /\ {} \notin keys[p]
        /\ ~(p = "B" /\ pc["A"] = "sent" /\ pc["B"] # "fill") =>
              \A s \in Stratum : iblts[p][s] = InStratum(keys[p], s)

\* Afterwards those not visited partition the difference, and the others have
\* been counted.
StrataHoldDifference ==
    pc["B"] = "estimate" =>
        /\ \A s \in 0 .. i : iblts["B"][s] = InStratum(Difference, s)
        /\ \A s \in i + 1 .. num_strata - 1 : Peelable(s)
        /\ count = Cardinality(Above(i))

IInv ==
    /\ TypeOK
    /\ pc["A"] \notin {"estimate", "returned"}
    /\ Estimating => pc["A"] = "sent"
    /\ NotStarted
    /\ StrataHoldKeys /\ StrataHoldDifference
    /\ EstimateIsScaledCount

=============================================================================
