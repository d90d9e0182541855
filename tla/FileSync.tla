------------------------------ MODULE FileSync ------------------------------
(***************************************************************************)
(* The protocol of file_sync.hpp: A, who has an old copy, obtains B's      *)
(* file.  Both cut their files into chunks; the table of Reconciliation    *)
(* tells B which chunk hashes A has; B describes its file chunk by chunk,  *)
(* by an index where A has the chunk and by its characters where not; A    *)
(* writes the chunks one by one to a temporary file.                       *)
(*                                                                         *)
(* The messages pass in the order of file_sync_testing.cpp.  What they     *)
(* carry is read from the sender's state, which no longer changes.         *)
(***************************************************************************)
EXTENDS Chunking

CONSTANTS OldFile, NewFile   \* the files A and B may have

ASSUME FileAssumption == OldFile \subseteq File /\ NewFile \subseteq File

VARIABLES
    file,           \* file[p]: the contents of p's file
    hashes,         \* my_rd1.hashes of p: its chunks in file order
    pc,             \* pc[p]: the last thing p has done, or how it ended
    my_distinct_keys, cp_distinct_keys,   \* B's: hashes only B, only A has
    shared_keys,    \* shared_keys[p]: the hashes p takes to be shared
    rd2,            \* B's my_rd2
    existing_chunk, new_chunk,   \* A's positions in the two lists of rd2
    last_hash,      \* the existing chunk A wrote last
    temp            \* the temporary file A writes

Party == {"A", "B"}
NoHash == -1
EmptyRd2 == [chunk_exists |-> << >>, hash_exists |-> << >>, SHAHash |-> << >>,
             new_chunk_info |-> << >>, existing_chunk_encoding |-> << >>]

digests == <<file, hashes>>
differences == <<my_distinct_keys, cp_distinct_keys>>
reconstruction == <<existing_chunk, new_chunk, last_hash, temp>>
vars == <<digests, pc, differences, shared_keys, rd2, reconstruction>>

Init ==
    /\ file \in {[p \in Party |-> IF p = "A" THEN old ELSE new] :
                   old \in OldFile, new \in NewFile}
    /\ hashes = [p \in Party |-> << >>]
    /\ pc = [p \in Party |-> "new"]
    /\ my_distinct_keys = {} /\ cp_distinct_keys = {}
    /\ shared_keys = [p \in Party |-> {}]
    /\ rd2 = EmptyRd2
    /\ existing_chunk = 0 /\ new_chunk = 0 /\ last_hash = NoHash /\ temp = << >>

-----------------------------------------------------------------------------
(* A party's chunks.  A sorted vector is the set of its members.           *)

overlap(p) == OverlapOf(Len(file[p]))
Keys(p) == {hashes[p][i].hash : i \in DOMAIN hashes[p]}

\* hashes_to_poslen keeps the first chunk with a hash.
Chunk(p, h) == hashes[p][CHOOSE i \in DOMAIN hashes[p] :
                   /\ hashes[p][i].hash = h
                   /\ \A j \in 1 .. i - 1 : hashes[p][j].hash # h]

\* fill_OverlapInfo: the characters a hash stands for, the overlap included.
\* Whether the chunk is the last is told by its hash.
IsLast(p, h) == h = hashes[p][Len(hashes[p])].hash
Contents(p, h) ==
    LET c == Chunk(p, h)
    IN  SubSeq(file[p], c.pos + 1,
               c.pos + c.len + IF IsLast(p, h) THEN 0 ELSE overlap(p))

\* Mutant: the overlap is written with the chunk.
CharsWithOverlap(p, h) == Contents(p, h)
Chars(p, h) == LET c == Chunk(p, h) IN SubSeq(file[p], c.pos + 1, c.pos + c.len)

StartChars(p, h) == SubSeq(Contents(p, h), 1, overlap(p))
EndChars(p, h) == LET s == Contents(p, h)
                  IN  SubSeq(s, Len(s) - overlap(p) + 1, Len(s))

\* oi.start_to_hashes of p, given the shared hashes.
StartingWith(p, shared, chars) == {h \in shared : StartChars(p, h) = chars}

\* assert( len >= overlap )
OverlapsFit(p, shared) == \A h \in shared : Len(Contents(p, h)) >= overlap(p)

-----------------------------------------------------------------------------
(* Digesting and exchanging the differences.                               *)

ProcessFile(p) ==
    /\ pc[p] = "new"
    /\ hashes' = [hashes EXCEPT ![p] = Digest(file[p], overlap(p))]
    /\ pc' = [pc EXCEPT ![p] = IF Clashes(file[p], hashes'[p]) THEN "exit" ELSE "ready"]
    /\ UNCHANGED <<file, differences, shared_keys, rd2, reconstruction>>

\* The estimate only sizes the table: it may be any number.
SendStrata ==
    /\ pc["A"] = "ready"
    /\ pc' = [pc EXCEPT !["A"] = "sent_strata"]
    /\ UNCHANGED <<digests, differences, shared_keys, rd2, reconstruction>>

ReceiveStrata ==
    /\ pc["A"] = "sent_strata" /\ pc["B"] = "ready"
    /\ pc' = [pc EXCEPT !["B"] = "sent_estimate"]
    /\ UNCHANGED <<digests, differences, shared_keys, rd2, reconstruction>>

SendIBLT ==
    /\ pc["A"] = "sent_strata" /\ pc["B"] = "sent_estimate"
    /\ pc' = [pc EXCEPT !["A"] = "sent_iblt"]
    /\ UNCHANGED <<digests, differences, shared_keys, rd2, reconstruction>>

\* get_counterparty_hashes: all of A's hashes, as B knows them.
CounterpartyHashes(mine, theirs) == (Keys("B") \ mine) \cup theirs

\* Mutant: the bits are not in the order of A's sorted map.
HashExistsReversed(cp_sorted_hashes, theirs) ==
    [i \in 1 .. Cardinality(cp_sorted_hashes) |->
        At(cp_sorted_hashes, Cardinality(cp_sorted_hashes) - i) \notin theirs]
HashExists(cp_sorted_hashes, theirs) ==
    [i \in 1 .. Cardinality(cp_sorted_hashes) |->
        At(cp_sorted_hashes, i - 1) \notin theirs]

\* What a peel that returns true has found: see ResultIsExact of Reconciliation.
ReceiveIBLT ==
    LET mine == Keys("B") \ Keys("A")
        theirs == Keys("A") \ Keys("B")
        shared == Keys("B") \ mine
    IN  /\ pc["A"] = "sent_iblt" /\ pc["B"] = "sent_estimate"
        /\ my_distinct_keys' = mine /\ cp_distinct_keys' = theirs
        /\ shared_keys' = [shared_keys EXCEPT !["B"] = shared]
        /\ pc' = [pc EXCEPT !["B"] = IF OverlapsFit("B", shared)
                                     THEN "encoding" ELSE "abort"]
        /\ rd2' = [rd2 EXCEPT !.hash_exists =
                      HashExists(CounterpartyHashes(mine, theirs), theirs)]
        /\ UNCHANGED <<digests, reconstruction>>

\* "Failed to peel": only when there is something to peel.
FailToPeel ==
    /\ pc["A"] = "sent_iblt" /\ pc["B"] = "sent_estimate"
    /\ Keys("A") # Keys("B")
    /\ pc' = [pc EXCEPT !["B"] = "exit"]
    /\ UNCHANGED <<digests, differences, shared_keys, rd2, reconstruction>>

-----------------------------------------------------------------------------
(* B describes its file: one iteration of determine_chunk_encoding.        *)

LastExists(n) == n > 0 /\ rd2.chunk_exists[n]

\* The index of a chunk A has: among the shared hashes that start with the
\* characters the previous chunk ended with, or among all of A's hashes.
IndexInAll(h) == Rank(CounterpartyHashes(my_distinct_keys, cp_distinct_keys), h)
\* Mutant: the index counts among all shared hashes.
IndexInStartOfAny(h) == Rank(shared_keys["B"], h)
IndexInStart(h) == Rank(StartingWith("B", shared_keys["B"], StartChars("B", h)), h)

EncodeChunk ==
    LET i == Len(rd2.chunk_exists) + 1
        h == hashes["B"][i].hash
        exists == h \notin my_distinct_keys
        index == IF LastExists(i - 1) THEN IndexInStart(h) ELSE IndexInAll(h)
    IN  /\ pc["B"] = "encoding" /\ i <= Len(hashes["B"])
        /\ rd2' = [rd2 EXCEPT
               !.chunk_exists = Append(@, exists),
               !.existing_chunk_encoding = IF exists THEN Append(@, index) ELSE @,
               !.new_chunk_info = IF exists THEN @ ELSE Append(@, Chars("B", h))]
        /\ UNCHANGED <<digests, pc, differences, shared_keys, reconstruction>>

SendRd2 ==
    /\ pc["B"] = "encoding"
    /\ Len(rd2.chunk_exists) = Len(hashes["B"])
    /\ rd2' = [rd2 EXCEPT !.SHAHash = file["B"]]
    /\ pc' = [pc EXCEPT !["B"] = "sent_rd2"]
    /\ UNCHANGED <<digests, differences, shared_keys, reconstruction>>

-----------------------------------------------------------------------------
(* A writes the file: reconstruct_file, one iteration for each chunk.      *)

ReceiveRd2 ==
    LET size == Cardinality(Keys("A"))
        shared == {At(Keys("A"), i - 1) : i \in {j \in 1 .. size : rd2.hash_exists[j]}}
    IN  /\ pc["A"] = "sent_iblt" /\ pc["B"] = "sent_rd2"
        /\ IF Len(rd2.hash_exists) = size
           THEN /\ shared_keys' = [shared_keys EXCEPT !["A"] = shared]
                /\ pc' = [pc EXCEPT !["A"] = IF OverlapsFit("A", shared)
                                             THEN "writing" ELSE "abort"]
           ELSE pc' = [pc EXCEPT !["A"] = "abort"] /\ UNCHANGED shared_keys
        /\ UNCHANGED <<digests, differences, rd2, reconstruction>>

Written == existing_chunk + new_chunk

\* hash_to_end of a hash that is not shared is the empty string.
EndOfLast == IF last_hash \in shared_keys["A"] THEN EndChars("A", last_hash) ELSE << >>
Candidates == IF LastExists(Written)
              THEN StartingWith("A", shared_keys["A"], EndOfLast)
              ELSE Keys("A")

WriteExisting ==
    /\ pc["A"] = "writing" /\ Written < Len(rd2.chunk_exists)
    /\ rd2.chunk_exists[Written + 1]
    /\ LET index == rd2.existing_chunk_encoding[existing_chunk + 1]
       IN  /\ index < Cardinality(Candidates)
           /\ last_hash' = At(Candidates, index)
           /\ temp' = temp \o Chars("A", last_hash')
    /\ existing_chunk' = existing_chunk + 1
    /\ UNCHANGED <<digests, pc, differences, shared_keys, rd2, new_chunk>>

\* Nothing checks the index: beyond the vector, anything may happen.
ReadBeyond ==
    /\ pc["A"] = "writing" /\ Written < Len(rd2.chunk_exists)
    /\ rd2.chunk_exists[Written + 1]
    /\ rd2.existing_chunk_encoding[existing_chunk + 1] >= Cardinality(Candidates)
    /\ pc' = [pc EXCEPT !["A"] = "undefined"]
    /\ UNCHANGED <<digests, differences, shared_keys, rd2, reconstruction>>

WriteNew ==
    /\ pc["A"] = "writing" /\ Written < Len(rd2.chunk_exists)
    /\ ~rd2.chunk_exists[Written + 1]
    /\ temp' = temp \o rd2.new_chunk_info[new_chunk + 1]
    /\ new_chunk' = new_chunk + 1
    /\ UNCHANGED <<digests, pc, differences, shared_keys, rd2, existing_chunk, last_hash>>

\* assert( get_SHAHash(tempfile) == cp_rd2.SHAHash )
CompareSHA ==
    /\ pc["A"] = "writing" /\ Written = Len(rd2.chunk_exists)
    /\ pc' = [pc EXCEPT !["A"] = IF temp = rd2.SHAHash THEN "done" ELSE "mismatch"]
    /\ UNCHANGED <<digests, differences, shared_keys, rd2, reconstruction>>

Next ==
    \/ \E p \in Party : ProcessFile(p)
    \/ SendStrata \/ ReceiveStrata \/ SendIBLT \/ ReceiveIBLT \/ FailToPeel
    \/ EncodeChunk \/ SendRd2
    \/ ReceiveRd2 \/ WriteExisting \/ ReadBeyond \/ WriteNew \/ CompareSHA

Spec == Init /\ [][Next]_vars

-----------------------------------------------------------------------------
(***************************************************************************)
(* The two ends, who never exchange the hashes themselves, agree on which  *)
(* hashes are shared: A recovers from the bits of hash_exists, in the      *)
(* order of its own map, the set B found by peeling.                       *)
(***************************************************************************)
SharedAgrees ==
    pc["A"] \in {"writing", "done", "mismatch", "undefined"} =>
        shared_keys["A"] = shared_keys["B"]

(***************************************************************************)
(* The index of an existing chunk, which counts only among the hashes with *)
(* the right first characters, leads A to the very hash B meant, as long   *)
(* as the two sizes give both ends the same overlap.                       *)
(***************************************************************************)
IndexFindsChunk ==
    overlap("A") = overlap("B") =>
        /\ pc["A"] # "undefined"
        /\ LastExists(Written) => last_hash = hashes["B"][Written].hash

(***************************************************************************)
(* Every shared hash names chunks of one length.  A file's last chunk is   *)
(* hashed without the overlap that all others are hashed with, so it can   *)
(* have the hash of a shorter chunk of the other file.                     *)
(***************************************************************************)
Unaliased == \A h \in Keys("A") \cap Keys("B") : Chunk("A", h).len = Chunk("B", h).len

(***************************************************************************)
(* Without such a pair, whatever the files and even if their overlaps      *)
(* differ, no assertion of either end fails, A never reads beyond a vector *)
(* and what it has written is always the beginning of B's file.            *)
(***************************************************************************)
WritesNewFile ==
    Unaliased =>
        /\ pc["A"] \notin {"abort", "mismatch", "undefined"} /\ pc["B"] # "abort"
        /\ \E n \in 0 .. Len(file["B"]) : temp = SubSeq(file["B"], 1, n)

(***************************************************************************)
(* The assertion at the end of reconstruct_file: the file A has written    *)
(* has the hash of B's.                                                    *)
(***************************************************************************)
SHAHashMatches == pc["A"] # "mismatch"
=============================================================================
