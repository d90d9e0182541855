----------------------------- MODULE Encodings -----------------------------
(***************************************************************************)
(* The encodings of FileSynchronizer and of the tables: an object of the   *)
(* program becomes a message, the message a string, the string is          *)
(* compressed, sent, and turned back into an object at the other end.      *)
(*                                                                         *)
(* A table is a sequence of rows of buckets [key_sum, hash_sum, count].    *)
(* The channel is the caller's: it may cut a string short.                 *)
(***************************************************************************)
EXTENDS Messages, Compression

CONSTANTS
    Objects,   \* what may be sent: [type |-> message type, value |-> object]
    Earlier    \* objects whose messages others are merged into

VARIABLES
    sent,      \* the object being sent
    outcome,   \* "idle", "aborted", "sent", "threw" or "received"
    wire,      \* the string in the channel
    cut,       \* whether the channel has cut it
    received   \* the object at the other end

transfer_vars == <<sent, outcome, wire, cut, received>>

-----------------------------------------------------------------------------
(* Objects into messages and back.                                         *)

\* An int given to an unsigned field, and what the int becomes again.
ToUint(c) == c % Word32
ToInt(c) == IF c < Word32 \div 2 THEN c ELSE c - Word32

Bucket(k, h, c) == [key_sum |-> k, hash_sum |-> h, count |-> c]
EmptyBucket == Bucket(0, 0, 0)

SerializeBucket(m, b) == IBLT_bucket_set(m, b.key_sum, b.hash_sum, ToUint(b.count))
DeserializeBucket(m) == [IBLT_bucket_get(m) EXCEPT !.count = ToInt(@)]

\* The program's values and calls of a loop over s, element after element.
Map(s, Of(_)) == [i \in DOMAIN s |-> Of(s[i])]

\* Row by row, and the cell of row i and column j.
Cells(t) == FlattenSeq(t)
Index(t, i, j) == (i - 1) * Len(t[i]) + j

SerializeIBLT(t) ==
    IBLT_add_buckets(IBLT_New, Map(Cells(t), LAMBDA b : SerializeBucket(IBLT_bucket_New, b)))
DeserializeIBLT(t, m) ==
    [i \in DOMAIN t |-> [j \in DOMAIN t[i] |->
        DeserializeBucket(IBLT_get_buckets(m, Index(t, i, j)))]]

SerializeIBLT2(t) ==
    IBLT2_add(IBLT2_New, Map(Cells(t), LAMBDA b : b.key_sum),
              Map(Cells(t), LAMBDA b : b.hash_sum), Map(Cells(t), LAMBDA b : ToUint(b.count)))
\* The sums are added to a table that was just made, whose buckets are empty.
DeserializeIBLT2(t, m) ==
    [i \in DOMAIN t |-> [j \in DOMAIN t[i] |->
        [IBLT2_get(m, Index(t, i, j)) EXCEPT !.count = ToInt(@)]]]

SerializeStrata(strata) ==
    strata_estimator_add_strata(strata_estimator_New, Map(strata, SerializeIBLT2))
DeserializeStrata(strata, m) ==
    [i \in DOMAIN strata |-> DeserializeIBLT2(strata[i], strata_estimator_get_strata(m, i))]

\* The bucket that names its parties: has_key is a bit for each of them.
SerializeExtended(b) ==
    IBLT_bucket_extended_set(IBLT_bucket_extended_New,
                             SerializeBucket(IBLT_bucket_New, b.bucket), b.has_key)
DeserializeExtended(b, m) ==
    [IBLT_bucket_extended_get(m, Len(b.has_key)) EXCEPT !.bucket = DeserializeBucket(@)]

SerializeRound2(r) ==
    LET added(m, field) == Round2_add(m, field, r[field])
        bits   == added(added(Round2_New, "chunk_exists"), "hash_exists")
        arrays == added(added(bits, "new_chunk_info"), "existing_chunk_encoding")
    IN  Round2_set_shahash(arrays, r.SHAHash)
DeserializeRound2(m) == [m EXCEPT !.SHAHash = Round2_shahash(m)]

ToMessage(type, v) ==
    CASE type = "IBLT"             -> SerializeIBLT(v)
      [] type = "IBLT2"            -> SerializeIBLT2(v)
      [] type = "strata_estimator" -> SerializeStrata(v)
      [] type = "IBLT_bucket_extended" -> SerializeExtended(v)
      [] type = "Round2"           -> SerializeRound2(v)

\* The receiver knows the shape of the object, of which v is an example.
FromMessage(type, v, m) ==
    CASE type = "IBLT"             -> DeserializeIBLT(v, m)
      [] type = "IBLT2"            -> DeserializeIBLT2(v, m)
      [] type = "strata_estimator" -> DeserializeStrata(v, m)
      [] type = "IBLT_bucket_extended" -> DeserializeExtended(v, m)
      [] type = "Round2"           -> DeserializeRound2(m)

-----------------------------------------------------------------------------
(* The exchange.                                                           *)

\* The program's own objects: sums of 64 bits, an int count, rows of one length, an
\* index of 32 bits.
Int32 == (Word32 \div 2) - Word32 .. (Word32 \div 2) - 1
Buckets == [key_sum : UInt64, hash_sum : UInt64, count : Int32]
Tables == {t \in Seq(Seq(Buckets)) : \A i, j \in DOMAIN t : Len(t[i]) = Len(t[j])}
Round2Infos ==
    [chunk_exists : Seq(Bool), hash_exists : Seq(Bool), new_chunk_info : Seq(Bytes),
     existing_chunk_encoding : Seq(UInt32), SHAHash : Bytes]
Values(type) ==
    CASE type = "IBLT"             -> Tables
      [] type = "IBLT2"            -> Tables
      [] type = "strata_estimator" -> Seq(Tables)
      [] type = "IBLT_bucket_extended" -> [bucket : Buckets, has_key : Seq(Bool)]
      [] type = "Round2"           -> Round2Infos

Types == {"IBLT", "IBLT2", "strata_estimator", "IBLT_bucket_extended", "Round2"}

\* Every object has a message whose size is an int, as the library wants it.
ASSUME ObjectsAssumption ==
    \A o \in Objects \cup Earlier :
        /\ o.type \in Types /\ o.value \in Values(o.type)
        /\ ByteSize(o.type, ToMessage(o.type, o.value)) < Word32

None == [type |-> "none", value |-> << >>]

TransferInit ==
    /\ sent = None /\ received = None
    /\ outcome = "idle" /\ wire = << >> /\ cut = FALSE

\* send_strata_encoding, send_IBLT_encoding, send_rd2_encoding.  SerializeToString
\* aborts when the message lacks a required field or is not of the size computed.
Send ==
    /\ outcome = "idle"
    /\ \E o \in Objects :
         LET m == ToMessage(o.type, o.value)
             string == Serialize(o.type, m)
         IN  /\ sent' = o
             /\ IF IsInitialized(o.type, m) /\ Len(string) = ByteSize(o.type, m)
                THEN outcome' = "sent" /\ wire' = compress_string(string)
                ELSE outcome' = "aborted" /\ wire' = << >>
    /\ UNCHANGED <<cut, received>>

Cut ==
    /\ outcome = "sent" /\ ~cut
    /\ \E n \in 0 .. Len(wire) - 1 : wire' = SubSeq(wire, 1, n)
    /\ cut' = TRUE
    /\ UNCHANGED <<sent, outcome, received>>

\* receive_strata_encoding, receive_IBLT_encoding, receive_rd2_encoding up to the
\* new object.  The result of ParseFromString is not looked at.
Receive ==
    /\ outcome = "sent"
    /\ LET string == decompress_string(wire)
           m == ParseFromString(sent.type, string.block).m
       IN  IF string.ret # "Z_STREAM_END"
           THEN outcome' = "threw" /\ UNCHANGED received
           ELSE /\ outcome' = "received"
                /\ received' = [sent EXCEPT !.value = FromMessage(sent.type, @, m)]
    /\ UNCHANGED <<sent, wire, cut>>

TransferNext == Send \/ Cut \/ Receive

TransferSpec == TransferInit /\ [][TransferNext]_transfer_vars

-----------------------------------------------------------------------------
(* Properties.                                                             *)

\* The string in the channel is of bytes and the mark of zlib's end; the message that
\* an object becomes, and the one that is read from it, have the fields and the
\* numbers that the generated class can hold, whatever the program's 64-bit sums and
\* negative counts.
TypeOK ==
    /\ outcome \in {"idle", "aborted", "sent", "threw", "received"}
    /\ cut \in BOOLEAN /\ wire \in Seq(0 .. EndOfStream)
    /\ outcome # "idle" => ToMessage(sent.type, sent.value) \in Class(sent.type)
    /\ outcome = "received" =>
          ParseFromString(sent.type, decompress_string(wire).block).m \in Class(sent.type)

\* The size computed before writing (ByteSize, and the cached sizes of the
\* submessages and packed fields that the lengths on the wire come from) is that
\* of the bytes written, for every message the program fills: SerializeToString
\* never aborts.
SizesAgree == outcome # "aborted"

\* What an IBLT_bucket message keeps of a bucket: sums of 64 bits lose their upper
\* half in its uint32 fields.
Half(b) == Bucket(b.key_sum % Word32, b.hash_sum % Word32, b.count)
Kept(type, v) ==
    CASE type = "IBLT" -> [i \in DOMAIN v |-> [j \in DOMAIN v[i] |-> Half(v[i][j])]]
      [] type = "IBLT_bucket_extended" -> [v EXCEPT !.bucket = Half(@)]
      [] OTHER -> v

\* What arrives is what was sent, whatever the message: every bucket in its row
\* and column with its signed count, every chunk and index of Round2 in order, the
\* sums in an IBLT_bucket up to the 32 bits of its fields.  A string that
\* was cut never becomes an object, although the result of ParseFromString is
\* dropped: it is decompress_string that notices.  And it throws only for such a
\* string: what compress_string writes block by block is a whole stream, however
\* many blocks it takes.
DeliveredIntact ==
    /\ outcome = "received" =>
           ~cut /\ received = [sent EXCEPT !.value = Kept(sent.type, @)]
    /\ outcome = "threw" => cut

\* Reading new into old, and reading both as one string, is merging them.
MergesAsParsed(type, old, new) ==
    LET string == Serialize(type, new)
        merged == Merged(TRUE, MergeFrom(type, old, new))
    IN  /\ MergePartial(type, old, string) = merged
        /\ ParseFromString(type, Serialize(type, old) \o string) = merged

\* Reading a message into one that already holds values is the generated MergeFrom:
\* repeated fields are continued, single ones replaced, submessages merged, and the
\* same whether the fields came in one string or in two.
MergeAgreesWithParse ==
    (outcome = "sent" /\ ~cut) =>
        \A o \in {o \in Earlier : o.type = sent.type} :
            MergesAsParsed(o.type, ToMessage(o.type, o.value),
                           ToMessage(o.type, sent.value))

=============================================================================
