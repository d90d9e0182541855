------------------------ MODULE MultiReconciliation ------------------------
(***************************************************************************)
(* Several parties reconcile (multiIBLT_testing.cpp, network.hpp): each    *)
(* fills a table; the tables are combined into one, each added, removed or *)
(* multiplied and added; the combination is peeled.  Filling is one step   *)
(* for each key, peeling one for each bucket that the search visits and    *)
(* one for each bucket taken from the deque.                               *)
(***************************************************************************)
EXTENDS MultiIBLT, Sequences

CONSTANTS
    Parties,      \* how many parties there are
    Coefficient   \* 1 stands for add, -1 for remove, others for multiply and add

ASSUME PartiesAssumption == Parties \in Nat \ {0} /\ Coefficient \subseteq Int

Party == 0 .. Parties - 1

VARIABLES
    keys,           \* keys[p]: the set party p has inserted
    iblts,          \* iblts[p]: its table
    coefficient,    \* coefficient[p]: how p's table came into the combination
    resIBLT,        \* the combination
    pc,
    cursor,         \* the bucket find_peelable_key visits next
    peelable_keys,  \* the deque of bucket copies of peel
    peeled_keys     \* the caller's set, empty at first

filling == <<keys, iblts>>
vars == <<keys, iblts, coefficient, resIBLT, pc, cursor, peelable_keys, peeled_keys>>

FirstBucket == [i |-> 0, j |-> 0]
\* Mutant: the last bucket of each row is not visited.
AfterBucketShort(c) == IF c.j + 2 < buckets_per_subIBLT
                       THEN [c EXCEPT !.j = @ + 1]
                       ELSE [i |-> c.i + 1, j |-> 0]
AfterBucket(c) == IF c.j + 1 < buckets_per_subIBLT
                  THEN [c EXCEPT !.j = @ + 1]
                  ELSE [i |-> c.i + 1, j |-> 0]

Init ==
    /\ keys = [p \in Party |-> {}]
    /\ iblts = [p \in Party |-> EmptyTable]
    /\ coefficient = << >>
    /\ resIBLT = EmptyTable
    /\ pc = "fill"
    /\ cursor = FirstBucket
    /\ peelable_keys = << >>
    /\ peeled_keys = {}

-----------------------------------------------------------------------------
(* Filling and combining.  coefficient grows by one entry for each party.  *)

Insert(p, k) ==
    /\ pc = "fill" /\ k \notin keys[p]
    /\ keys' = [keys EXCEPT ![p] = @ \cup {k}]
    /\ iblts' = [iblts EXCEPT ![p] = insert_key(@, k)]
    /\ UNCHANGED <<coefficient, resIBLT, pc, cursor, peelable_keys, peeled_keys>>

Remove(p, k) ==
    /\ pc = "fill" /\ k \in keys[p]
    /\ keys' = [keys EXCEPT ![p] = @ \ {k}]
    /\ iblts' = [iblts EXCEPT ![p] = remove_key(@, k)]
    /\ UNCHANGED <<coefficient, resIBLT, pc, cursor, peelable_keys, peeled_keys>>

\* The next party's table enters the combination with coefficient c.
Combine(c) ==
    /\ pc \in {"fill", "combine"}
    /\ c \in Coefficient
    /\ coefficient' = Append(coefficient, c)
    /\ pc' = IF Len(coefficient') = Parties THEN "scan" ELSE "combine"
    /\ UNCHANGED <<filling, cursor, peelable_keys, peeled_keys>>

AddIBLT ==
    /\ Combine(1)
    /\ resIBLT' = AddTable(resIBLT, iblts[Len(coefficient)])

RemoveIBLT ==
    /\ Combine(-1)
    /\ resIBLT' = RemoveTable(resIBLT, iblts[Len(coefficient)])

\* A copy is multiplied and added (send_message, retrieve_messages).
AddMultiple(c) ==
    /\ c \notin {-1, 1}
    /\ Combine(c)
    /\ LET message == AddTable(EmptyTable, iblts[Len(coefficient)])
       IN  resIBLT' = AddTable(resIBLT, MultiplyTable(message, c))

-----------------------------------------------------------------------------
(* Peeling: scan all buckets for peelable ones, drain the deque, repeat.   *)

ScanBucket ==
    /\ pc = "scan" /\ cursor.i \in Sub
    /\ LET b == resIBLT[cursor.i][cursor.j]
       IN  peelable_keys' = IF can_peel(b) THEN Append(peelable_keys, b)
                                           ELSE peelable_keys
    /\ cursor' = AfterBucket(cursor)
    /\ UNCHANGED <<filling, coefficient, resIBLT, pc, peeled_keys>>

EndScan ==
    /\ pc = "scan" /\ cursor.i \notin Sub
    /\ pc' = IF peelable_keys # << >> THEN "drain"
             ELSE IF is_empty(resIBLT) THEN "success" ELSE "failure"
    /\ UNCHANGED <<filling, coefficient, resIBLT, cursor, peelable_keys, peeled_keys>>

Drain ==
    /\ pc = "drain" /\ peelable_keys # << >>
    /\ peelable_keys' = Tail(peelable_keys)
    /\ LET curr_bucket == Head(peelable_keys)
           peeled_key == extract_key(curr_bucket.key_sum)
       IN  IF peeled_key \notin peeled_keys
           THEN /\ peeled_keys' = peeled_keys \cup {peeled_key}
                /\ resIBLT' = peel_key(resIBLT, curr_bucket)
           ELSE UNCHANGED <<peeled_keys, resIBLT>>
    /\ UNCHANGED <<filling, coefficient, pc, cursor>>

Rescan ==
    /\ pc = "drain" /\ peelable_keys = << >>
    /\ pc' = "scan"
    /\ cursor' = FirstBucket
    /\ UNCHANGED <<filling, coefficient, resIBLT, peelable_keys, peeled_keys>>

Peel == ScanBucket \/ EndScan \/ Drain \/ Rescan

Next ==
    \/ \E p \in Party, k \in Key : Insert(p, k) \/ Remove(p, k)
    \/ AddIBLT \/ RemoveIBLT \/ \E c \in Coefficient : AddMultiple(c)
    \/ Peel

Spec == Init /\ [][Next]_vars

\* peel is one sequential call: once started it keeps taking steps.
FairSpec == Spec /\ WF_vars(Peel)

-----------------------------------------------------------------------------
Returned == pc \in {"success", "failure"}
Peeling == pc \in {"scan", "drain"}

\* How many times the combination of the first m tables holds a key, modulo N.
TimesAfter(m) ==
    [k \in Key |->
        SumFunctionOnSet([p \in Party |-> IF p < m THEN coefficient[p + 1] ELSE 0],
                         {p \in Party : k \in keys[p]}) % N]
Times == TimesAfter(Len(coefficient))
Difference == {k \in Key : Times[k] # 0}
Rest == Difference \ peeled_keys

\* The types of the variables; only keys are reported, never a sum of keys
\* taken for a key (can_peel).
TypeOK ==
    /\ keys \in [Party -> SUBSET Key]
    /\ iblts \in [Party -> Table]
    /\ coefficient \in Seq(Coefficient) /\ Len(coefficient) <= Parties
    /\ resIBLT \in Table
    /\ pc \in {"fill", "combine", "scan", "drain", "success", "failure"}
    /\ cursor \in [i : 0 .. NumHashfns, j : Slot]
    /\ peelable_keys \in Seq(Bucket)
    /\ peeled_keys \in SUBSET Key

(***************************************************************************)
(* The combined table is at every moment the sum of the keys not reported  *)
(* yet, each as often as the coefficients of its parties add up to modulo  *)
(* N; a key that is in all tables of N parties has vanished (add, remove,  *)
(* multiply, peel_key).                                                    *)
(***************************************************************************)
ResidueEncodesRest == Encodes(resIBLT, Rest, Times)

(***************************************************************************)
(* peel returns true exactly when every key whose coefficients do not      *)
(* cancel has been reported, and no other.                                 *)
(***************************************************************************)
ResultIsExact == Returned => (pc = "success" <=> peeled_keys = Difference)

\* In every row, every key of S shares its bucket with another key of S.
Stopping(S) ==
    \A k \in S, i \in Sub :
        \E l \in S \ {k} : get_bucket_index(l, i) = get_bucket_index(k, i)

(***************************************************************************)
(* A peel that fails has reported all that any order of peeling could      *)
(* have: the rest is the largest set of keys each of which shares all its  *)
(* buckets, whatever the multiplicities are.                               *)
(***************************************************************************)
PeelsDownToCore ==
    Returned => /\ Stopping(Rest)
                /\ \A S \in SUBSET Difference : Stopping(S) => S \subseteq Rest

-----------------------------------------------------------------------------
(* The inductive invariant: what the properties above rest on.             *)

Filling == pc \in {"fill", "combine"}

\* Peeling starts once all tables are combined, with nothing peeled.
Phases ==
    /\ pc = "fill" => coefficient = << >>
    /\ IF Filling
       THEN /\ Len(coefficient) < Parties
            /\ peelable_keys = << >> /\ cursor = FirstBucket /\ peeled_keys = {}
       ELSE Len(coefficient) = Parties

\* A party's table is the sum of the keys it holds now, each once.
TablesEncodeKeys == \A p \in Party : Encodes(iblts[p], keys[p], [k \in Key |-> 1])

PeeledInDifference == peeled_keys \subseteq Difference

\* In some row no other unreported key shares k's bucket.
Alone(k) == \E i \in Sub : \A l \in Rest :
                get_bucket_index(l, i) = get_bucket_index(k, i) => l = k

(***************************************************************************)
(* A copy in the deque, however stale, is one key of the difference with   *)
(* its multiplicity; if the key is still unreported it is still alone in   *)
(* the bucket the copy was taken from.                                     *)
(***************************************************************************)
QueuedKey(b) == \E k \in Difference : /\ b = Single(k, KeyHash[k], Times[k])
                                      /\ k \in Rest => Alone(k)

QueueIsSound == \A x \in 1 .. Len(peelable_keys) : QueuedKey(peelable_keys[x])

\* An empty deque means that the scan has met no peelable bucket so far.
Visited(i, j) == i < cursor.i \/ (i = cursor.i /\ j < cursor.j)
ScanIsComplete ==
    pc = "scan" /\ peelable_keys = << >> =>
        \A i \in Sub, j \in Slot : Visited(i, j) => ~can_peel(resIBLT[i][j])

\* peel gives up only when nothing is peelable, and reports what is_empty says.
ReturnIsFinal ==
    Returned => /\ \A i \in Sub, j \in Slot : ~can_peel(resIBLT[i][j])
                /\ pc = "success" <=> is_empty(resIBLT)

\* No key of a stopping set is ever reported.
StoppingKept == \A S \in SUBSET Difference : Stopping(S) => S \subseteq Rest

IInv ==
    /\ TypeOK /\ Phases
    /\ TablesEncodeKeys /\ ResidueEncodesRest
    /\ PeeledInDifference /\ QueueIsSound
    /\ ScanIsComplete /\ ReturnIsFinal /\ StoppingKept

-----------------------------------------------------------------------------
(* peel returns: every pass peels a key not peeled before or is the last.  *)
PeelReturns == pc = "scan" ~> Returned

(***************************************************************************)
(* With as many parties as the modulus and every table added once, the     *)
(* whole is a reconciliation of several sets: the keys that are not in all *)
(* of them (multiIBLT_testing.cpp:31).                                     *)
(***************************************************************************)
AbstractResult == IF pc \in {"fill", "combine"} THEN "filling"
                  ELSE IF Peeling THEN "peeling" ELSE pc

Abstract == INSTANCE MultiSetReconciliation WITH
                sets <- keys, learned <- peeled_keys, result <- AbstractResult

ImplementsMultiSetReconciliation == Abstract!Spec

=============================================================================
