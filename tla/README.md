# SetReconciliation in TLA+

Models, model checking and proofs for the C++ library of this repository: set
reconciliation with invertible Bloom lookup tables, between two parties and
between many, and the programs built on it: the file synchronizer with its wire
messages, the synchronizer of directories and the gossip network. Paths below are
relative to the repository; `src/` is its source directory.

## 1. Inventory

| component | state | operations | interacts with |
|---|---|---|---|
| `basicIBLT` (`src/basicIBLT.hpp`) | rows of buckets (xor of keys, xor of checksums, signed count) | insert, remove, add, XOR, serialize, deserialize, peel | called by the synchronizer and the estimator; its message crosses the wire |
| `FileSynchronizer` (`src/file_sync.hpp`) | the file's chunks and their hashes, the table, the peeled differences, the shared hashes with their first and last characters, the Round2 answer | process_file; send/receive of strata, table and Round2; reconstruct_file | two objects exchange four messages, in the order of `src/file_sync_testing.cpp` |
| wire messages (`src/file_sync.proto`, `src/file_sync.pb.h`, `src/file_sync.pb.cpp`) | fields, has-bits, cached sizes | accessors, ByteSize, SerializeToString, MergePartialFromCodedStream, MergeFrom, IsInitialized | filled and read by the tables, the estimator and the synchronizer; generated code that calls the protobuf library |
| compression (`src/compression.hpp`) | the output so far | compress_string, decompress_string | every message but the estimate passes through it; calls zlib |
| `Fingerprinter`, `RollingHash` (`src/fingerprinting.hpp`) | a circular window of hashes, the position of its minimum, the rolling hash | winnow, digest_file | called by process_file |
| hash functions (`src/hash_util.hpp`, `src/hash_util.cpp`) | none | BobHash, MurmurHash, MurmurHashing, SHA1Hash | the tables, the estimator and digest_file call MurmurHash64A (MurmurHashing), dir_sync SHA-1; nothing in the repository calls BobHash or the 32-bit MurmurHash |
| `StrataEstimator` (`src/StrataEstimator.hpp`) | a small table per stratum | insert_key, remove, estimate_diff | sizes the table of the synchronizers |
| `multiIBLT`, `Field` (`src/multiIBLT.hpp`, `src/basicField.hpp`) | buckets over a field of prime order, keys digit by digit | insert, remove, add, multiply, peel | the gossip network |
| `GossipNetwork`, `iblt_node` (`src/network.hpp`) | per node: own table, combined table, temporary table, sum of coefficients, who was heard from | push_pull, end_epoch, retrieve_messages | nodes read and write each other's tables within a round |
| `random_network`, `complete_network` (`src/network.hpp`) | lists of neighbours, the deque of a search | create_network, is_connected | the graph that `GossipNetwork` runs on |
| `dir_sync` (`src/dir_sync.hpp`) | hashes of file names and contents, tables and estimator over them, `update_info` | process_dir, set_difference_estimate, create_IBLT, find_differences, process_differences | two objects share a process in `src/dir_sync_testing.cpp`; renames files on disk. It calls `add` with a party number and peels into a map, which only an older table offered: it does not compile against the present one |
| helpers (`src/IBLT_helpers.hpp`, `.cpp`) | none | the set algebra of `keyHandler`, checkResults, generated files | what the drivers compare a peel with, and the files they synchronize |
| drivers | none of their own | the order of calls | they stand for the environment of each component |
| `tabulation_hashing`, jsoncpp | a constant table; a vendored library | | |

The program has no threads. What is hard in it is elsewhere:

* two ends fill and digest independently and must end up with the same view of
  what they share, although neither ever sends its hashes: B reconstructs A's
  sorted list, A reads bits and indices against its own maps;
* peel works on a deque of *copies* of buckets that go stale as it proceeds,
  loops until nothing changes, and takes a checksum for proof of a single key;
* the circular window, the overlaps and the signed counts are arithmetic with
  many boundaries, and so are the encodings: varints, cached sizes, fields
  narrower than what is put in them, an output buffer that is exactly full;
* renames on disk are made one by one, in the order of a hash map, onto names that
  may still be in use, and one that throws leaves the rest undone;
* a failure leaves partial results (`exit(1)`, a set half peeled), and several
  preconditions (a fresh table, an empty set, a single exchange) are implicit.

What makes each part correct: a table is always the sum of what it should hold;
peel returns, returns true only with the exact difference, and otherwise leaves
only what cannot be peeled; equal stretches of files are cut alike; the two ends
agree on shared hashes and indices; what A writes is B's file; a message arrives as
it was sent or not at all; a rename loses no content that both directories have, except
by replacing a file that is still to be renamed; the estimator never makes an exchange
wrong, only fail; a gossiping node that reports success holds every message whose
multiples did not cancel, and everyone hears from everyone. `PROJECT.json` lists
the single hazards with their lines.

## 2. Modules

| module | models | notes |
|---|---|---|
| `BasicIBLT` | buckets, tables, the IBLT2 message | operators; words are sets of bits, so `^` is symmetric difference |
| `SetReconciliation` | nothing: the promise | abstract specification |
| `Reconciliation` | two parties, one table sent, peel | `create_IBLT` to `get_distinct_keys` of `file_sync.hpp`, and `peel` |
| `Fingerprinting` | k-gram hashes, the cuts of a file | what winnowing is to compute |
| `Winnowing` | the loop of `winnow`, the rolling hash | how it computes it |
| `HashUtil` | `hash_util.cpp` on strings of bytes | operators |
| `TestFiles` | the edited files of `IBLT_helpers.cpp` | operators |
| `SimilarFiles` | `Winnowing` with `TestFiles` | a file is winnowed and edited |
| `Digesting` | `SimilarFiles` with `HashUtil` | what is cut is hashed |
| `Chunking` | `digest_file`, the overlap | operators |
| `FileSync` | the exchange of two `FileSynchronizer`s | uses `Chunking`, and the exactness shown in `Reconciliation` |
| `WireFormat` | varints, tags, length-delimited data | the protobuf library, external |
| `Messages` | the six generated message classes | sizes, writing, reading, merging, required fields |
| `Compression` | the two loops around zlib | zlib is external |
| `Encodings` | objects into messages, strings, compressed strings, and back | the senders and receivers of `file_sync.hpp` with the `serialize`/`deserialize` of the tables, and a channel that may cut a string |
| `StrataEstimator` | two estimators, the message, `estimate_diff` | a stratum is a set of keys, on the strength of `Reconciliation` |
| `MultiIBLT` | `Field`, buckets and tables modulo N | operators; a sum of keys is a number modulo N for each bit position |
| `MultiSetReconciliation` | nothing: the promise for several sets | abstract specification |
| `MultiReconciliation` | several tables combined with coefficients, `multiIBLT::peel` | `multiIBLT_testing.cpp` and `retrieve_messages` |
| `KeyHandler`, `Trials` | the set algebra of the drivers; a trial of `multiIBLT_testing.cpp` | composes `MultiReconciliation` with what the driver expects of it |
| `RandomNetwork` | `create_network`, `is_connected` | a component with its own instance |
| `Gossip` | `RandomNetwork` with `iblt_node`, `GossipNetwork`, the driver's loop | gossips once a network is accepted, or on `complete_network`; a table is a function from keys to multiplicities, on the strength of `MultiReconciliation` |
| `DirSync` | two `dir_sync`s, A's disk, the driver | a table is the set of its keys |
| `Reconciliation_proofs`, `MultiReconciliation_proofs`, `Winnowing_proofs`, `FileSync_proofs`, `StrataEstimator_proofs`, `Gossip_proofs`, `Synchronizers_proofs` | | lemmas and theorems of the components they are named for, and of what these extend: `Winnowing_proofs` reaches up to `SimilarFiles`, `Gossip_proofs` down to `RandomNetwork`, `MultiReconciliation_proofs` up to `Trials`. `Synchronizers_proofs` is about `DirSync` and about what the synchronizers send each other, from `Encodings` down to `WireFormat` and `Compression` |
| `Arithmetic` | | lemmas about numbers, remainders, recursive functions and sums over finite sets, used by the other proofs |
| `MCReconciliation`, `MCCollision`, `MCWinnowing`, `MCFileSync`, `MCEncodings`, `MCStrataEstimator`, `MCMultiReconciliation`, `MCTrials`, `MCGossip`, `MCDirSync` | | instances for TLC |

**Levels.** Each level rests on what is checked one below. `Reconciliation` and
`MultiReconciliation` work on buckets. `StrataEstimator` replaces a table by the
set of its keys, a subtraction by the symmetric difference and a peel by "what
is left is the largest set that cannot be peeled"; `FileSync` and `DirSync` replace
the whole table exchange by "the exact difference, or a failure"; `Gossip` replaces a
table by the multiplicities of its keys modulo the prime, and a peel by "every key, or
a failure with two or more left". These are `TablesEncodeSets`,
`ResidueEncodesRest`, `ResultIsExact` and `PeelsDownToCore` of the level below. In
the same way `FileSync` reads a message from its sender's state because `Encodings`
shows that it arrives unchanged or the receiver throws, and cuts files by
`Fingerprinting`, which `Winnowing` shows `winnow` to compute.

**State.** In `Reconciliation`, `iblt[p]` is `my_rd1.iblt` of party `p`,
`keys[p]` is the set of hashes put in it, `residue` is `resIBLT` of
`get_distinct_keys`, and `peelable_keys`, `my_peeled_keys`, `cp_peeled_keys` are
the variables of `peel`; `cursor` is the pair of loop variables of
`find_peelable_key`. One step is one call (`Insert`, `Remove`, `Send`,
`Receive`), one bucket visited by the search (`ScanBucket`), or one bucket taken
from the deque (`PeelMine`, `PeelTheirs`, `SkipPeeled`). In `FileSync`, one step
is one handler up to its loop, or one iteration of that loop (`EncodeChunk`,
`WriteExisting`, `WriteNew`); `pc` says how far each end is and how it ended:
`exit` is a call of `exit(1)`, `abort` a failed assertion, `mismatch` the failed
assertion on the SHA hash, `undefined` a read beyond a vector. `hashes` keeps a
chunk's position too, which the code recomputes by adding up lengths.
`hashes_to_poslen` and the maps of `OverlapInfo` are functions of `hashes` and
`shared_keys`, so they are operators (`Chunk`, `StartChars`, `EndChars`). A
sorted vector is the set of its members, and an index the number of smaller ones.
In `MultiReconciliation`, `coefficient` is the history of the calls that made
`resIBLT`: 1 is `add`, -1 is `remove`, any other number is a copy that is
multiplied and added. In `StrataEstimator`, `keys` is the set inserted, so that
the strata can be compared with it; `pc` becomes `undefined` where the code reads
beyond the strata (a hash of zero) or shifts beyond an `int`. In `RandomNetwork`
a step is one node taken from the deque; a step of `Gossip` is one of those, or, once
`pc` is `accepted`, one of its own. In `Gossip`, `turn` is the loop variable
of `run_iter`; a step is one `push_pull` or one `end_epoch`, and nothing is
between the two calls of a `push_pull` because the program is sequential: its
interleavings are those of the order of nodes, of the neighbours drawn and of
what is pushed to a node before and after its own turn.
In `Encodings` a step is one sender (object, message, size, bytes, compression), one
cut by the channel, or one receiver; messages are sequences of bytes, and what a
message class holds is a record with a sequence for each field, at most one long for
a single field: its length is the has-bit. In `DirSync` a step is one call of the
driver, and in `process_differences` one rename; `disk` is what is there and `listed`
what `process_dir` saw, so that the program may work with a list that is no longer
true. In `Trials` the assignment of keys to parties is drawn in the initial state.

**Abstractions.** Hash functions are constants in the components that only use
them: any function for the bucket hashes and the k-gram hash; the hash of a chunk is
injective, and so is SHA-1, which is therefore the file, the name or the content
itself. `HashUtil` models the functions as they are, with fewer bits to a byte
(`ByteBits`): words shrink with it, and so do the distances of shifts and rotations.
`hash` ends, as in the code, with the conversion to `hash_type`: `basicIBLT<uint64_t>`,
the table of `FileSynchronizer`, keeps 32 bits of the hash of a 64-bit key for its
checksum, so two keys may share one, and that the checksum tells enough apart is a
hypothesis of the theorems about tables (`ChecksumSound`), never derived from `HashUtil`.
The strata only determine an estimate, the estimate only the size of the table, and
the size only whether peel succeeds: in `FileSync` and `DirSync` the estimate is
arbitrary, and peel either reports the exact difference or fails, and does not fail
when there is no difference. That is what `ResultIsExact` establishes one level down.
In the run of the wire messages words have 9 and 15 bits for 32 and 64 (`Word32`,
`Word64`) and varints up to 3 bytes for 10 (`MaxVarint`), so that a value that does not
fit a field is there; the proofs are for all sizes that fit together
(`WordAssumption`). Tags, varints and lengths are those of the format. An object is one
whose message has a size below `Word32` (`ObjectsAssumption`), because sizes and lengths
are computed in an `int`. What deflate writes is the data with a mark at its end, which stands
for the checksum without which inflate does not report the end of the stream. Files
shorter than the window are excluded by `SizeAssumption`: `file_size - w` wraps around
and the loop reads beyond the buffer. The overlap is at most the window and a
character, and at most the file (`OverlapAssumption`): with the default block of 700
characters the window is 1399, and the overlap of any file that a 64-bit size can
describe at most 8.

## 3. What is checked

| run | instance | properties |
|---|---|---|
| `two_rows` | 2 rows of 3 buckets (5 asked), 6 keys of 4 bits | `TypeOK`, `TablesEncodeSets`, `ResidueEncodesRest`, `ResultIsExact`, `PeelsDownToCore`, `IInv`, `PeelReturns`, `ImplementsReconciliation` |
| `checksum_collision` | a checksum under which 3 keys look like one | `PeelReturns` is violated |
| `winnow` | all two-letter files of 4, 8, 11 characters and some of 17, window 3, 2-grams, hashes modulo 16, bytes of one bit | `RollingHashIsLocal`, `CutsAreWindowMinima`, `CutsAreLocal`; `WordsHashApart`, `AlignmentsAgree` of the hash functions; `ChangesStayLocal` of the edited files |
| `sync` | all old files of 4 to 6 and some of 8, all new files of 7 and 8 characters; overlap 1 up to 7 characters, 2 of 8 | `SharedAgrees`, `IndexFindsChunk`, `WritesNewFile` |
| `last_chunk_alias` | old files of 5, new files of 8 characters | `SHAHashMatches` is violated |
| `messages` | tables of 2 by 2 and 2 by 1 buckets in both messages, strata, Round2 answers, extended buckets; values of one to three bytes, negative counts, sums wider than their field; a buffer of 7 bytes | `TypeOK`, `SizesAgree`, `DeliveredIntact`, `MergeAgreesWithParse` |
| `strata` | 4 strata, 8 words of 4 bits and zero among them, an `int` of 4 bits | `IInv`, `EstimateIsScaledCount` |
| `three_parties` | 3 parties modulo 3, 2 rows of 3 buckets, 4 keys of 3 bits | `TypeOK`, `ResultIsExact`, `PeelsDownToCore`, `ImplementsMultiSetReconciliation`, `TrialPasses` |
| `combination` | 2 tables modulo 5, coefficients 1, -1, 3; 3 rows of 2 buckets, 4 keys | `ResidueEncodesRest`, `PeelReturns` |
| `random_network` | all graphs of 5 nodes | `SearchInv`, `AcceptsConnected`, `SearchEnds` |
| `gossip` | 3 nodes on every network that is accepted and on the complete one, modulo 3, 2 keys of one, two or all nodes | `LinearCombination`, `RetrievesWhatDiffers`, `HeardIsKept`, `AllHear` |
| `directories` | every two directories of up to 4 files with 3 contents, a hidden name, a name in a folder that A lacks | `CommonContentSurvives`, `RenamesAgreeWithB`, `AssertionHolds` |

**Bounds.** The keys and bucket hashes of the table runs are chosen so that the
interesting cases occur: differences that peel completely, partly and not at
all; cores of two and of more keys; one key queued from several rows; one key
of each side in a bucket (count zero); negative counts on the wire. More
keys or rows only lengthen the peeling. `CountHalf` is the smallest value
that `CountAssumption` allows or one near it, so that the wrap-around of the
count field happens; it stands for 2^31, and the assumption that there are fewer
keys than that is the only bound on the tables. In the file runs the window is 3 (block
size 2): files of 8 characters have up to five chunks, so that existing, new and
last chunks follow each other in every way, and `LogBase`, 256 in the code, is
small enough in `sync` for the overlap to change within these sizes: the ends have
equal overlaps, or either of them the longer one.
In `winnow` the hash space of 16 values makes ties and wrap-around frequent, and
one of the two characters is negative, as a `char` may be. Files of 17 characters
have a whole block of twelve for BobHash and a remainder. Bytes of one bit make short
words so few that a hash function which confuses some would be caught at it.
`WordsHashApart` speaks of hashes that are kept whole: those of `digest_file`, and those
of the tables of `network_testing.cpp`, whose `hash_type` has 64 bits. `AlignmentsAgree`
is a property of BobHash itself, which reads a string by four bytes, by two or one by
one as its address allows; no caller depends on it today.

In `three_parties` as many tables are added as the modulus, which is when shared
keys vanish; three parties and four keys are the least with every pattern of
sharing, among them two parties sharing what the third lacks (multiplicity 2).
In `combination` the coefficients can cancel (1 with -1), meet as different
multiples (3 with 1) and leave a key out. In `strata` three pairs of keys, in
strata 0, 1 and 2, share all their buckets, so that any of them can fail; with an
`int` of 4 bits the shift overflows from stratum 2 on, as from stratum 30 of 64
in the code. Five nodes are enough for a search that queues a node twice, ends
with the deque not empty, or finds an isolated node late. Three nodes are the
least where something travels through a third, and modulo 3 the coefficients
cancel often; in three of the four connected networks the news of either end needs
the middle one to relay it. Some key is with one or two of the nodes and some with
all.

In `messages` the values are at the edges of the encoding (0, 127, 128, above
`Word32`, negative), the arrays empty, short and longer than 127 bytes, so that
lengths need a second byte; a buffer of 7 makes strings of none, one and many blocks
and of exactly full ones. The channel may cut a string at every length. In
`directories` three names and three contents allow chains of renames and swaps,
equal contents on either side, and files that only A or only B has. Nothing is
bounded by a counter: all state spaces are finite and exhausted.

**Fairness.** `PeelReturns` assumes weak fairness of `Peel` and
`SearchEnds` of `Search`: both are sequential code, which takes its
next step while it has one. Nothing is assumed of the filling of the tables.
`AllHear` assumes weak fairness of `Next`, strong fairness of `DrawConnected`, since
every edge is drawn with a probability above zero and a connected network therefore
in the end, and, for each pair of neighbours,
strong fairness of the step in which the lesser one draws the other: a draw is
uniform over the neighbours, so one that is possible again and again happens.
That the seeds 0 and 1 make two nodes draw the same numbers does not touch this:
each still draws all its neighbours. Deadlock is not checked: `peel`,
`estimate_diff` and `create_network` return to callers that are not part of the
model, `winnow` ends with the file, and the drivers stop after the reconstruction,
the renames or the peeling, and after one message.

**Disagreements with the text of the repository.**

* `checksum_collision`: the comment `src/basicIBLT.hpp:259` promises that peel
  returns true or false. With an unlucky checksum it alternates for ever between
  removing a sum of three keys and finding its parts and its negative again.
* `last_chunk_alias`: the assertion `src/file_sync.hpp:385` fails.
  `digest_file` leaves the overlap out of the hash of the last chunk, so a last
  chunk of `w + 1` characters and a chunk of `w` characters whose overlap agrees
  have one hash. B tells A to use its own chunk of that hash, which is one
  character longer. `WritesNewFile` says that this is the only way: when every
  shared hash has one length (`Unaliased`), the exchange is right, even when the
  overlaps of the two ends differ.
Not a disagreement, but met on the way: with a single node `is_connected` rejects
the only network there is, because its node has no neighbour, and `create_network`
never returns. `NodesAssumption` excludes it; the drivers use ten nodes or more.
An estimate can be 0 although the sets differ, when the first stratum that holds
any of the difference fails; `create_IBLT` then makes a table of one bucket in each
row, in which any two keys fail too, and the exchange ends in `exit(1)`.
A received message stays recorded in `received_from` when the coefficients that
arrived on different ways add up to a multiple of the prime; its keys are then in the
table zero times, and `retrieve_messages` may succeed without them after
`all_messages_received`. `RetrievesWhatDiffers` says exactly which keys a success
yields: those for which the coefficients of the nodes that differ from this one (that
have the key when it has not, or lack it when it has) do not add up to zero.
The run reaches successes that miss a message.

In `dir_sync` the renames can lose a file: when the new name of one file is the old name
of another that is still to be renamed, `rename` replaces it. With `x` in `f` and `y` in
`g` at A, and the names swapped at B, one of the two contents is lost in either order.
`CommonContentSurvives` is a property of the steps: whenever a common content is lost, the
step renames a file onto the name of one that is still in the list and still where it was
listed. So a rename that throws, one that is made after the one that frees its name, and a
rename onto any other name lose nothing, in every order. `RenamesAgreeWithB` says of
the end, file by file, what the others of the list do not disturb: a common content neither
of whose names is in the way of another (`InTheWay`) is under B's name and no other,
whatever happens to the rest.

## 4. What is proved

| module | theorem | property |
|---|---|---|
| `Reconciliation_proofs` | `Invariance` | `IInv` |
| | `TypeCorrect` | `TypeOK` |
| | `TablesCorrect` | `TablesEncodeSets` |
| | `ResidueCorrect` | `ResidueEncodesRest` |
| | `Exactness` | `ResultIsExact` |
| | `CoreRemains` | `PeelsDownToCore` |
| | `Refinement` | `ImplementsReconciliation` |
| `MultiReconciliation_proofs` | `Invariance` | `IInv`, its inductive invariant |
| | `TypeCorrect` | `TypeOK` |
| | `ResidueCorrect` | `ResidueEncodesRest` |
| | `Exactness` | `ResultIsExact` |
| | `CoreRemains` | `PeelsDownToCore` |
| | `Refinement` | `ImplementsMultiSetReconciliation` |
| | `TrialsPass` | `TrialPasses` |
| `FileSync_proofs` | `Invariance` | its inductive invariant |
| | `EndsAgreeOnShared` | `SharedAgrees` |
| | `IndexIsExact` | `IndexFindsChunk` |
| | `NewFileIsWritten` | `WritesNewFile` |
| `Winnowing_proofs` | `Invariance` | its inductive invariant |
| | `HashIsLocal` | `RollingHashIsLocal` |
| | `PushesWindowMinima` | `CutsAreWindowMinima` |
| | `EqualStretchesCutAlike` | `CutsAreLocal` |
| | `SimilarFilesCutAlike` | `ChangesStayLocal` |
| `Synchronizers_proofs` | `Invariance` | the inductive invariant of `DirSync` |
| | `NothingElseLost` | `CommonContentSurvives` |
| | `NamesAgree` | `RenamesAgreeWithB` |
| | `AbortsOnlyInProcessDir` | `AssertionHolds` |
| | `TransferInvariant` | the inductive invariant of `Encodings` |
| | `MessageTypes` | `TypeOK` |
| | `SizesComputed` | `SizesAgree` |
| | `DeliveredAsSent` | `DeliveredIntact` |
| | `MergeIsParse` | `MergeAgreesWithParse` |
| `StrataEstimator_proofs` | `StrataInvariance` | `IInv` |
| | `EstimateCorrect` | `EstimateIsScaledCount` |
| `Gossip_proofs` | `SearchInvariance` | `SearchInv`, of `RandomNetwork` alone |
| | `SearchIsExact` | `AcceptsConnected`, of `RandomNetwork` alone |
| | `Invariance` | its inductive invariant |
| | `GossipsConnected` | `AcceptsConnected`, of the composition |
| | `CombinesWhatItHeard` | `LinearCombination` |
| | `RetrievesUncancelled` | `RetrievesWhatDiffers` |
| | `NeverForgotten` | `HeardIsKept` |

Each holds for every value of the constants that their assumptions allow: any number
and size of tables, keys, files, nodes or directories, and any hash functions.

**Two tables.** Assumptions: the constants have their types and there are fewer keys than half
the range of a count (`SizesAssumption`, `KeyAssumption`, `HashAssumption`,
`CountAssumption`), and `ChecksumSound`: the sum of three, five... keys never
has the checksum of a single key, and a nonempty even number of keys never sums
to zero in both sums. The code has this with high probability only; it is a
hypothesis of each theorem and not an `ASSUME`, and `checksum_collision` shows
that it is needed. The instances of the passing runs satisfy it
(`MCChecksumAssumption`).

The argument. Inserting, removing or peeling a key flips its bits in one bucket
of each row; the xor over a set of keys is the parity of a cardinality for every
bit (`FlipBucket`, `FlipTable`), and subtracting tables leaves the two
differences with their signs (`SubtractTables`). The types and the meaning of
the tables are not inductive alone: that peeling a queued copy removes a key that is there needs
to know what stale copies may be. `QueueIsSound` says it: a copy is always one
key of the difference with its sign, and as long as it is not reported it is alone
in some row, because reporting others only empties buckets. `ScanIsComplete`
carries "nothing peelable so far" along the search, so that a scan that ends
with an empty deque has seen every bucket; then `ReturnIsFinal` holds, and with
a sound checksum an empty table means an empty difference, and a table without
peelable buckets a set in which every key shares its bucket in every row. That
no key of such a set is ever reported (`StoppingKept`) holds because queued keys
are alone in some row.

**Several tables.** Assumptions: the types of the constants, a modulus of at least two
(`MultiSizesAssumption`, `MultiKeyAssumption`, `MultiHashAssumption`,
`PartiesAssumption`). Hypothesis:
`ChecksumSound` of `MultiReconciliation`, with the role it has for two tables. The
refinement and the driver's trials need `OneEach` as well: as many parties as the
modulus, and each table added once, which is how the driver uses the tables. The
instance of `three_parties` satisfies both, that of `combination` the first.

The argument is that of two tables with sums modulo `N` in the place of parities. A
bucket holds, digit by digit, the sum of its keys times their multiplicities
(`Encodes`); inserting, removing, adding and multiplying change that sum as they
change the multiplicities, so the table peeled holds each key as often as the
coefficients of its holders add up to (`ResidueEncodesRest`). A copy in the deque is
one key with its multiplicity, `Times`, and peeling removes it that many times over.
`can_divide_by` never divides, it asks whether each digit is zero or the count, so the
modulus need not be prime. With `OneEach` a key's multiplicity is
the number of its holders, zero modulo `N` when all or none have it
(`CountsAreHolders`).

**Sums.** The models write sums with `SumFunctionOnSet` of the community modules, which
is a recursive function over subsets. `Arithmetic` proves of it what the two
arguments about sums need: that taking out an element takes out its value, that sums
add, multiply and reduce modulo a number termwise, that a sum over a part where the
rest is zero is the whole sum. The induction is over the naturals and over finite sets
with a *set* in the place of the predicate (`NatsByInduction`, `FiniteByInduction`),
from the well-foundedness of `<`. Definition by recursion, which a recursive function
needs before anything can be said of it, is obtained in the same way
(`NatRecursion`, `SumsExist`). A function that calls itself on something that has become
less in some measure, such as a varint on a quotient or a reader on the rest of its input,
needs the same, and `MeasuredRecursion` and `MeasuredInduction` provide it.

**Networks.** Assumption: `NodesAssumption`. What is visited or queued is in every
set that contains node 0 and is closed under neighbours (`OnlyReachable`), so an
accepting search has reached everyone. When the deque runs empty the visited
nodes are such a set themselves (`Frontier`), and when the count is short they are
not all, because the count is the cardinality of the visited set. The early
rejection of a node without neighbours is right because such a node can only be
node 0 itself: all others were queued by a neighbour, and lists are symmetric
(`QueuedByNeighbour`, `Symmetric`).

**Strata.** Assumptions: `StrataAssumption` and those of the tables. Before the
subtraction every stratum holds exactly the party's keys with that many trailing
zeroes (`StrataHoldKeys`); the strata of a difference are the differences of the
strata, and going down a stratum adds its size to the size of what is above
(`CountStratum`). That every nonzero word has a stratum is the least-number
principle (`LeastNat`). Where the behaviour is undefined nothing is claimed.

**Winnowing.** Assumptions: those of `Fingerprinting` (the window has at least one
hash, a file is at least as long as the window) and `RollingAssumption`, which says that
the k-gram hash *is* `HashOf`. The rolling hash is part of the invariant: when a
character leaves, its term has been multiplied `Kgrams` times by the base, and `myPow`
is that power modulo the word size however often its squares wrap around, so what is
subtracted is what was added (`RollingHashIsLocal`); the first hashes are computed
afresh. The invariant says that the circular window
holds, at each position modulo `w`, the hash of the last k-gram at such a position
(`WindowHolds`), and that `min` is where the rightmost least of them is
(`MinIsRightmost`). When the minimum is overwritten the rescan finds the rightmost of
the rest by going backwards; when it is not, the new hash replaces it at a tie. So
what is pushed is the rightmost minimum of each window, once (`CutsAreWindowMinima`),
and as a window is all it depends on, equal stretches are cut alike. The files that
the test driver makes of a file (`TestFiles`) equal it outside the characters drawn or
the blocks changed, which may overlap. A window that
reaches none of them has the same hashes in both, so the cuts outside `Near` are the
same ones (`ChangesStayLocal`); for this a changed character must be a character
(`CharAssumption`).

**Files.** Assumptions: `OverlapAssumption`, `ChunkHashAssumption` (no two strings
share a hash), those of `Fingerprinting`. `DigestIsDigest` shows that the chunks of a
file follow each other from its beginning to its end, that each cut but the last has a
whole window and a character behind it, and that what a hash covers is at least
the overlap long. A hash then determines its characters, so that both ends of a shared
hash see the same ones, and in one file also the length and whether it is the last
chunk, because `Clashes` would have ended the program (`SameHash`). Sorted vectors are
counted: `RankFacts` and `AtFacts` say that a position and its member determine each
other, which is why A reads the bits as B wrote them (`BitsRead`). A chunk ends with
the characters the next one starts with (`EndsAsNextStarts`), and with one overlap the
same candidates start with them at either end, so the index means the same hash
(`IndexLeadsToChunk`); with different overlaps only the last chunk can be shared, and
its index counts in all of A's hashes (`SharedLast`). The invariant relates three
positions: how many chunks B has described, how many of these A has, and how many A
has written. `Described` says that the n-th existing and the n-th new chunk are where
counting finds them (`CountFacts`); `Reconstructed` says that A's counters are such
counts and that its file is B's up to there.

**Directories.** Assumption: `DirSyncAssumption`. The lists are those of the disks
until A renames, and contents are unique in a list because `process_dir` aborts
otherwise (`ListsAreCurrent`). B asks for exactly the files that A has under another
name (`TargetsAreRight`). `FilesAreKept` says, file by file, where A's files are while
the renames are made: one whose name nobody is to get waits where it was until its own
turn; one that was moved to the name of no file to be renamed has arrived and
stays; and what is on the disk has either been there, neither moved nor replaced (`Listed`),
or has come by a rename that was made (`Came`). No content is on the disk twice. Two files
are never given one name, as their contents differ, so a step that loses a content has put
a file onto another name of A; that name cannot be one that a rename has filled or one that
the list leaves alone, hence it belongs to a file still to be renamed (`ReplacesWaiting`),
which is `CommonContentSurvives`.

**Messages.** Assumptions: `WordAssumption`, `OutBufferAssumption` and
`ObjectsAssumption`: the objects are any of the program's types, with sums of 64 bits,
signed counts and strings of any bytes, whose message is of a size that an `int` holds.
Varints, the reader of elements and the reader of a message are recursive functions
(`SpanEquation`, `VarintEquation`, `NumberEquation`, `ElementsExist`, `MergeExists`). Up
from there:

* The last byte of a varint is the only one below 128, and its bytes hold the number
  (`VarintEncodes`), so reading it in front of anything returns the number and leaves
  the rest (`ReadVarintOf`); its length is what `VarintSize` computes, as long as it fits
  `MaxVarint` bytes (`VarintSizeIsLen`). Data with a length and packed fields read back
  likewise (`ReadBytesOf`, `ReadElementsOf`, `ReadPackedOf`).
* `Reads(merge, m, chunk, m2)` says that a loop over fields which finds `chunk` at the
  front of any input turns the message `m` into `m2` and goes on behind it. A field as it
  is written is such a chunk (`ReadsField`), and chunks compose (`ReadsBoth`, `ReadsEach`).
  It is stated for an arbitrary `m`, and that is what makes merging and parsing the same
  thing (`MergeIsParse`).
* For each class, one lemma (`IBLT_Codec`, ..., collected in `MessageCodes`): what is
  written are bytes, as many as `ByteSize` computes, and reading them into any message of
  the class is `MergeFrom`. Classes that hold others rest on the lemmas of those.
* The loops around zlib write the whole stream whatever the size of the buffer
  (`LoopIs`), and the mark of its end is in no part of it (`Decompressed`).
* What an object gives to the accessors, it gets back: the cell of row i and column j is
  where `Index` looks (`CellAt`), and an `int` comes back from its `unsigned` field
  (`IntBack`), for each type of object (`ObjectsFaithful`).

The invariant (`TransferInv`) then only has to say that the channel holds the compressed
string of the object, or a part of it once it was cut. `SizesComputed` needs the required
fields too: every message that the program fills has them (`AllSendable`).

**Gossip.** Assumptions: `GossipAssumption`, `NodesAssumption`. The steps of the network
keep `SearchInv`, and those of the nodes keep the network as it was accepted; on
`complete_network`, which is never searched, the invariant holds as well, so that
`AcceptsConnected` is true of whatever the nodes gossip on. A table is a combination of
those heard from (`LinearCombination`): each push and pull adds, or multiplies and adds,
the coefficients of table and sum alike, and the combination of a sum is over the union
of what the two were heard from; what is not in a part counts zero. What a
node has heard only grows by its definition and by each step. The prime may be any
number from 3 on: no step divides.

When a node retrieves, its table is that combination less its own keys, each `coeff_sum`
times, and no table changes any more (`RetrievedAtTheEnd`). The holders of a key and the
other nodes split the coefficients (`SumSplit`), so what is left of a key is, up to the
sign, the sum over the nodes that differ from this one: over the holders if the node lacks
the key, over those that lack it if it has the key (`RestIsZero`, `LeftUncancelled`). A
success takes out all that is left, a failure some of it: `RetrievesWhatDiffers`. For a
key of all nodes nobody differs, and the empty sum is zero.

**Only model-checked.** Liveness (`PeelReturns`, `SearchEnds`, `AllHear`), which is out of
the prover's reach. Of the safety properties, `WordsHashApart` and `AlignmentsAgree`,
which are about shifts and exclusive ors of particular words and use bitwise operators
that the provers have no theory of.

## 5. Not modelled

* Generated code that the program never calls: descriptors, reflection, unknown
  fields, `Swap`, `CopyFrom`, arenas. protobuf, zlib and OpenSSL (MD5, SHA-1) are
  external.
* jsoncpp, which is vendored and writes the statistics of the drivers.
* `tabulation_hashing`: a table of random words that never changes after
  construction; the tables take their hash functions as constants. SuperFastHash
  and NullHash, which nothing uses, and `MurmurHash2.cpp`, a second copy of
  MurmurHash64A that nothing calls.
* Of `multiIBLT`, the bucket extended with party numbers (its message is in
  `Messages`), keys that are strings, and the peel into a set that is not empty; of
  `StrataEstimator`, `add`, which nothing calls, and a second estimate on one
  object; of `FileSynchronizer`, the block size that the one-argument constructor
  computes, and a second call of a handler on one object. The drivers make a new object
  for each exchange.
* In `StrataEstimator`, two items that are hashed to one word, as 32-bit hashes and hashes
  of strings may be: its keys are the words, and how a second copy of a word counts in its
  table is left out. `FileSynchronizer` inserts 64-bit keys, which the hash permutes.
* Timing, printing, random keys and benchmarks of the drivers. What `Trials` checks after a
  peel is `check_results_simple` of `multiIBLT_testing.cpp`, which its `main`, as it stands,
  never calls.
* Memory management (the table leaked by the double `create_IBLT`, the
  uninitialised pointer in `Round1Info`).
* Probabilities: how often a table is too small, how close an estimate is, how fast
  news spreads, how rarely coefficients cancel.

## 6. Plan

Done: the reconciliation of two parties and of several, the estimator, winnowing and
similar files, the file exchange, the messages, the directories, the networks and the
gossip, with proofs of all safety properties but the two of the hash functions. Left: a
second exchange on the same `FileSynchronizer` and a second estimate on the same
`StrataEstimator`; `multiIBLT::peel` into a set that is not empty.
