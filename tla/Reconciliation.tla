--------------------------- MODULE Reconciliation ---------------------------
(***************************************************************************)
(* Two parties reconcile their sets of hashes with one table: A fills a    *)
(* table and sends it; B subtracts it from its own table and peels the     *)
(* rest (create_IBLT, send_IBLT_encoding, receive_IBLT_encoding and        *)
(* get_distinct_keys of file_sync.hpp over basicIBLT.hpp).  A and B fill   *)
(* their tables independently.  The peeling is one step for each bucket    *)
(* the search visits and one for each bucket taken from the deque.         *)
(***************************************************************************)
EXTENDS BasicIBLT, Sequences

VARIABLES
    keys,           \* keys[p]: the set party p has inserted
    iblt,           \* iblt[p]: the table of party p
    wire,           \* the encoded table of A, once sent
    pc,             \* pc[p]: where party p is in the protocol
    residue,        \* B's resIBLT, the object that is peeled
    cursor,         \* the bucket find_peelable_key visits next
    peelable_keys,  \* the deque of bucket copies of peel
    my_peeled_keys, cp_peeled_keys

Party == {"A", "B"}
NotSent == << >>

filling == <<keys, iblt>>
peeled == <<my_peeled_keys, cp_peeled_keys>>
vars == <<keys, iblt, wire, pc, residue, cursor, peelable_keys,
          my_peeled_keys, cp_peeled_keys>>

FirstBucket == [i |-> 0, j |-> 0]

\* Mutant: the last bucket of each row is not visited.
AfterBucketShort(c) == IF c.j + 2 < buckets_per_subIBLT
                       THEN [c EXCEPT !.j = @ + 1]
                       ELSE [i |-> c.i + 1, j |-> 0]
AfterBucket(c) == IF c.j + 1 < buckets_per_subIBLT
                  THEN [c EXCEPT !.j = @ + 1]
                  ELSE [i |-> c.i + 1, j |-> 0]

Init ==
    /\ keys = [p \in Party |-> {}]
    /\ iblt = [p \in Party |-> EmptyTable]
    /\ wire = NotSent
    /\ pc = [p \in Party |-> "fill"]
    /\ residue = EmptyTable
    /\ cursor = FirstBucket
    /\ peelable_keys = << >>
    /\ my_peeled_keys = {} /\ cp_peeled_keys = {}

-----------------------------------------------------------------------------
(* Filling and sending.                                                    *)

\* The keys come out of an unordered_set or the keys of a map: never twice.
Insert(p, k) ==
    /\ pc[p] = "fill"
    /\ k \notin keys[p]
    /\ keys' = [keys EXCEPT ![p] = @ \cup {k}]
    /\ iblt' = [iblt EXCEPT ![p] = InsertKey(@, k)]
    /\ UNCHANGED <<wire, pc, residue, cursor, peelable_keys, peeled>>

Remove(p, k) ==
    /\ pc[p] = "fill"
    /\ k \in keys[p]
    /\ keys' = [keys EXCEPT ![p] = @ \ {k}]
    /\ iblt' = [iblt EXCEPT ![p] = RemoveKey(@, k)]
    /\ UNCHANGED <<wire, pc, residue, cursor, peelable_keys, peeled>>

Send ==
    /\ pc["A"] = "fill"
    /\ wire' = Serialize(iblt["A"])
    /\ pc' = [pc EXCEPT !["A"] = "sent"]
    /\ UNCHANGED <<filling, residue, cursor, peelable_keys, peeled>>

\* B decodes the message into a new table and subtracts it from a copy of its own.
Receive ==
    /\ pc["A"] = "sent" /\ pc["B"] = "fill"
    /\ residue' = XORTable(AddTable(EmptyTable, iblt["B"]),
                           Deserialize(EmptyTable, wire))
    /\ pc' = [pc EXCEPT !["B"] = "scan"]
    /\ UNCHANGED <<filling, wire, cursor, peelable_keys, peeled>>

-----------------------------------------------------------------------------
(* Peeling: scan all buckets for peelable ones, drain the deque, repeat.   *)

ScanBucket ==
    /\ pc["B"] = "scan" /\ cursor.i \in Sub
    /\ LET b == residue[cursor.i][cursor.j]
       IN  peelable_keys' = IF CanPeel(b) THEN Append(peelable_keys, b)
                                          ELSE peelable_keys
    /\ cursor' = AfterBucket(cursor)
    /\ UNCHANGED <<filling, wire, pc, residue, peeled>>

FoundSome ==
    /\ pc["B"] = "scan" /\ cursor.i \notin Sub
    /\ peelable_keys # << >>
    /\ pc' = [pc EXCEPT !["B"] = "drain"]
    /\ UNCHANGED <<filling, wire, residue, cursor, peelable_keys, peeled>>

FoundNone ==
    /\ pc["B"] = "scan" /\ cursor.i \notin Sub
    /\ peelable_keys = << >>
    /\ pc' = [pc EXCEPT !["B"] = IF IsEmptyTable(residue) THEN "success"
                                                          ELSE "failure"]
    /\ UNCHANGED <<filling, wire, residue, cursor, peelable_keys, peeled>>

\* The next bucket copy of the deque; b is its value.
Pop(b) ==
    /\ pc["B"] = "drain"
    /\ peelable_keys # << >>
    /\ b = Head(peelable_keys)
    /\ peelable_keys' = Tail(peelable_keys)
    /\ UNCHANGED <<filling, wire, pc, cursor>>

PeelTheirs(b) ==
    /\ Pop(b)
    /\ b.count = -1 /\ b.key_sum \notin cp_peeled_keys
    /\ cp_peeled_keys' = cp_peeled_keys \cup {b.key_sum}
    /\ residue' = PeelKey(residue, b)
    /\ UNCHANGED my_peeled_keys

\* Mutant: a second copy of the same key is peeled again.
PeelMineTwice(b) ==
    /\ Pop(b)
    /\ b.count # -1
    /\ my_peeled_keys' = my_peeled_keys \cup {b.key_sum}
    /\ residue' = PeelKey(residue, b)
    /\ UNCHANGED cp_peeled_keys

PeelMine(b) ==
    /\ Pop(b)
    /\ b.count # -1 /\ b.key_sum \notin my_peeled_keys
    /\ my_peeled_keys' = my_peeled_keys \cup {b.key_sum}
    /\ residue' = PeelKey(residue, b)
    /\ UNCHANGED cp_peeled_keys

\* The key has been peeled since the copy was queued from another row.
SkipPeeled(b) ==
    /\ Pop(b)
    /\ \/ b.count = -1 /\ b.key_sum \in cp_peeled_keys
       \/ b.count # -1 /\ b.key_sum \in my_peeled_keys
    /\ UNCHANGED <<residue, peeled>>

Rescan ==
    /\ pc["B"] = "drain"
    /\ peelable_keys = << >>
    /\ pc' = [pc EXCEPT !["B"] = "scan"]
    /\ cursor' = FirstBucket
    /\ UNCHANGED <<filling, wire, residue, peelable_keys, peeled>>

\* Only the deque's own entries can be popped.
Popped == IF peelable_keys = << >> THEN {} ELSE {Head(peelable_keys)}

Peel ==
    \/ ScanBucket \/ FoundSome \/ FoundNone \/ Rescan
    \/ \E b \in Popped : PeelTheirs(b) \/ PeelMine(b) \/ SkipPeeled(b)

Next ==
    \/ \E p \in Party, k \in Key : Insert(p, k) \/ Remove(p, k)
    \/ Send \/ Receive
    \/ Peel

Spec == Init /\ [][Next]_vars

\* peel is one sequential call: once started it keeps taking steps.
FairSpec == Spec /\ WF_vars(Peel)

-----------------------------------------------------------------------------
Peeling == pc["B"] \in {"scan", "drain"}
Returned == pc["B"] \in {"success", "failure"}

OnlyMine == keys["B"] \ keys["A"]
OnlyTheirs == keys["A"] \ keys["B"]
RestMine == OnlyMine \ my_peeled_keys
RestTheirs == OnlyTheirs \ cp_peeled_keys
Rest == RestMine \cup RestTheirs

\* The record types of the variables; the peeled sets hold keys of Key only,
\* never a sum of keys taken for a key.
TypeOK ==
    /\ keys \in [Party -> SUBSET Key]
    /\ iblt \in [Party -> Table]
    /\ wire = NotSent \/ wire \in Message
    /\ pc \in [Party -> {"fill", "sent", "scan", "drain", "success", "failure"}]
    /\ residue \in Table
    /\ cursor \in [i : 0 .. NumHashfns, j : Slot]
    /\ peelable_keys \in Seq(Bucket)
    /\ my_peeled_keys \in SUBSET Key
    /\ cp_peeled_keys \in SUBSET Key

(***************************************************************************)
(* Whatever was inserted and removed, in whatever order, a party's table   *)
(* is the sum of the keys it holds now (insert_key, remove_key).           *)
(***************************************************************************)
TablesEncodeSets == \A p \in Party : Encodes(iblt[p], keys[p], {})

(***************************************************************************)
(* From the subtraction on, through the wire's unsigned counts and every   *)
(* key peeled, the table being peeled is the sum of exactly the part of    *)
(* the difference not yet reported, with its signs (peel, peel_key).       *)
(***************************************************************************)
ResidueEncodesRest ==
    Peeling \/ Returned => Encodes(residue, RestMine, RestTheirs)

(***************************************************************************)
(* peel returns true exactly when it has reported the whole difference,    *)
(* each key on its own side; get_distinct_keys relies on it.               *)
(***************************************************************************)
ResultIsExact ==
    Returned => (pc["B"] = "success" <=> my_peeled_keys = OnlyMine
                                         /\ cp_peeled_keys = OnlyTheirs)

(***************************************************************************)
(* When peel gives up, what is left is the largest part of the difference  *)
(* that no peeling order could have resolved: it depends on the two sets   *)
(* and the bucket hashes only, never on the order of the deque, on a       *)
(* queued copy being stale, or on which of a key's buckets came first.     *)
(***************************************************************************)
PeelsDownToCore ==
    Returned =>
        /\ Stopping(Rest)
        /\ \A S \in SUBSET (OnlyMine \cup OnlyTheirs) :
               Stopping(S) => S \subseteq Rest

-----------------------------------------------------------------------------
(* The inductive invariant: what the properties above rest on.             *)

\* B starts after A has sent, with nothing peeled; A's table is frozen.
Phases ==
    /\ pc["A"] \in {"fill", "sent"}
    /\ pc["B"] # "sent"
    /\ pc["B"] # "fill" => pc["A"] = "sent"
    /\ pc["B"] = "fill" => /\ peelable_keys = << >> /\ cursor = FirstBucket
                           /\ my_peeled_keys = {} /\ cp_peeled_keys = {}
    /\ pc["A"] = "sent" => wire = Serialize(iblt["A"])

\* Only keys of the difference are reported, each on its own side.
PeeledInDifference ==
    my_peeled_keys \subseteq OnlyMine /\ cp_peeled_keys \subseteq OnlyTheirs

\* In some row no other unreported key shares k's bucket.
Alone(k) == \E i \in Sub : \A l \in Rest :
                BucketIndex(l, i) = BucketIndex(k, i) => l = k

(***************************************************************************)
(* A copy in the deque, however stale, is one key of the difference with   *)
(* its side and checksum; if the key is still unreported it is still       *)
(* alone in the bucket the copy was taken from.                            *)
(***************************************************************************)
QueuedKey(b) ==
    /\ b.key_sum \in Key /\ b.hash_sum = KeyHash[b.key_sum]
    /\ \/ b.count = 1 /\ b.key_sum \in OnlyMine
       \/ b.count = -1 /\ b.key_sum \in OnlyTheirs
    /\ b.key_sum \in Rest => Alone(b.key_sum)

QueueIsSound == \A x \in 1 .. Len(peelable_keys) : QueuedKey(peelable_keys[x])

\* An empty deque means that the scan has met no peelable bucket so far.
Visited(i, j) == i < cursor.i \/ (i = cursor.i /\ j < cursor.j)
ScanIsComplete ==
    pc["B"] = "scan" /\ peelable_keys = << >> =>
        \A i \in Sub, j \in Slot : Visited(i, j) => ~CanPeel(residue[i][j])

\* peel gives up only when nothing is peelable, and reports what is_empty says.
ReturnIsFinal ==
    Returned => /\ \A i \in Sub, j \in Slot : ~CanPeel(residue[i][j])
                /\ pc["B"] = "success" <=> IsEmptyTable(residue)

\* No key of a stopping set is ever reported.
StoppingKept ==
    Peeling \/ Returned =>
        \A S \in SUBSET (OnlyMine \cup OnlyTheirs) : Stopping(S) => S \subseteq Rest

IInv ==
    /\ TypeOK /\ Phases
    /\ TablesEncodeSets /\ ResidueEncodesRest
    /\ PeeledInDifference /\ QueueIsSound
    /\ ScanIsComplete /\ ReturnIsFinal /\ StoppingKept

-----------------------------------------------------------------------------
(***************************************************************************)
(* peel returns (its last line, assert(1 == 2), is not reached): every     *)
(* pass over the table either peels a key that was not peeled before or    *)
(* is the last.                                                            *)
(***************************************************************************)
PeelReturns == pc["B"] = "scan" ~> Returned

(***************************************************************************)
(* The two parties implement the abstract reconciliation, B being the one  *)
(* that learns.                                                            *)
(***************************************************************************)
AbstractResult == IF pc["B"] = "fill" THEN "filling"
                  ELSE IF Peeling THEN "peeling" ELSE pc["B"]

Abstract == INSTANCE SetReconciliation WITH
                mine <- keys["B"], theirs <- keys["A"],
                onlyMine <- my_peeled_keys, onlyTheirs <- cp_peeled_keys,
                result <- AbstractResult

ImplementsReconciliation == Abstract!Spec

=============================================================================
