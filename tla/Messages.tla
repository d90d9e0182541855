------------------------------ MODULE Messages ------------------------------
(***************************************************************************)
(* The code generated from file_sync.proto (file_sync.pb.h and .cpp): each *)
(* message with its fields, its sizes, what it writes and what it reads.   *)
(* A repeated field is a sequence; an optional or required one a sequence  *)
(* of at most one value, whose length is the has-bit.                      *)
(***************************************************************************)
EXTENDS WireFormat

Or(value, default) == IF value = << >> THEN default ELSE value[1]
Later(old, new) == IF new = << >> THEN old ELSE new

\* The setters that add to a repeated field, here the values of a loop one after the
\* other, or replace a single one convert to the field's type.  A getter does not
\* check its index: behind the end of an array is whatever lies in memory.
add(m, field, type, values) ==
    [m EXCEPT ![field] = @ \o [i \in DOMAIN values |-> Decode(type, values[i])]]
\* Mutant: a single field keeps what does not fit its type.
setUnchecked(m, field, type, v) == [m EXCEPT ![field] = <<v>>]
set(m, field, type, v) == [m EXCEPT ![field] = <<Decode(type, v)>>]
get(m, field, n, garbage) == IF n \in DOMAIN m[field] THEN m[field][n] ELSE garbage
Garbage == Word64

\* The types of fields, of which the class of a message is made.
Bool == {0, 1}
UInt32 == 0 .. Word32 - 1
UInt64 == 0 .. Word64 - 1
Single(S) == {field \in Seq(S) : Len(field) <= 1}

\* The bytes of several length-delimited fields with data of the given sizes.
FieldsSize(sizes) == SumFunction([i \in DOMAIN sizes |-> 1 + DelimitedSize(sizes[i])])

\* One field read into message m: values appended, or the last one kept.
Appended(m, field, r) ==
    [ok |-> r.ok, m |-> [m EXCEPT ![field] = @ \o r.values], rest |-> r.rest]
Replaced(m, field, r) ==
    [ok |-> r.ok, m |-> [m EXCEPT ![field] = Later(@, r.values)], rest |-> r.rest]

\* A packed field is also read when it comes as single values.
Numbers(m, field, type, tag, in) ==
    Appended(m, field, IF WireType(tag) = LENGTH_DELIMITED THEN ReadPacked(type, in)
                                                           ELSE ReadPrimitive(type, in))
Packable(tag, number) ==
    FieldNumber(tag) = number /\ WireType(tag) \in {VARINT, LENGTH_DELIMITED}

\* handle_uninterpreted: numbers and data are skipped; an end-group tag ends the
\* message too early, which the library reports to the caller.
Skip(m, tag, in) ==
    LET skipped(r) == [ok |-> r.ok, m |-> m, rest |-> r.rest]
    IN  skipped(CASE WireType(tag) = VARINT           -> ReadVarint(in)
                  [] WireType(tag) = LENGTH_DELIMITED -> ReadBytes(in)
                  [] OTHER                            -> Failed)

\* MergePartialFromCodedStream of a class that reads its fields with ReadField: one
\* field after the other until the input ends, a tag is zero, or a field cannot be
\* read.
Field(m, tag, in) == [m |-> m, tag |-> tag, in |-> in]
Fields(C) == [m : C, tag : Nat, in : Bytes]
Input(m, in) == [m |-> m, in |-> in]
Inputs(C) == [m : C, in : Bytes]
Merged(ok, m) == [ok |-> ok, m |-> m]

MergeFields(C, ReadField) ==
    LET merge[s \in Inputs(C)] ==
            LET more(field) == IF ~field.ok THEN Merged(FALSE, field.m)
                               ELSE merge[Input(field.m, field.rest)]
                read(tag)   == IF ~tag.ok \/ tag.values = <<0>> THEN Merged(FALSE, s.m)
                               ELSE more(ReadField[Field(s.m, tag.values[1], tag.rest)])
            IN  IF s.in = << >> THEN Merged(TRUE, s.m)
                ELSE read(ReadPrimitive("uint32", s.in))
    IN  merge

\* A submessage is read from its own data by the function of its class.
ReadMessage(merge, m, in) ==
    LET read(merged, rest) == Read(merged.ok, <<merged.m>>, rest)
    IN  Then(ReadBytes(in), LAMBDA data, rest : read(merge[Input(m, data)], rest))

-----------------------------------------------------------------------------
(* IBLT_bucket: three required numbers.                                    *)

IBLT_bucket_Class ==
    [key_sum : Single(UInt32), hash_sum : Single(UInt32), count : Single(UInt32)]
IBLT_bucket_New == [key_sum |-> << >>, hash_sum |-> << >>, count |-> << >>]

IBLT_bucket_set(m, key_sum, hash_sum, count) ==
    set(set(set(m, "key_sum", "uint32", key_sum), "hash_sum", "uint32", hash_sum),
        "count", "uint32", count)
IBLT_bucket_get(m) ==
    [key_sum |-> Or(m.key_sum, 0), hash_sum |-> Or(m.hash_sum, 0), count |-> Or(m.count, 0)]

IBLT_bucket_ReadField(m, tag, in) ==
    CASE tag = Tag(1, VARINT) -> Replaced(m, "key_sum", ReadPrimitive("uint32", in))
      [] tag = Tag(2, VARINT) -> Replaced(m, "hash_sum", ReadPrimitive("uint32", in))
      [] tag = Tag(3, VARINT) -> Replaced(m, "count", ReadPrimitive("uint32", in))
      [] OTHER -> Skip(m, tag, in)

IBLT_bucket_MergePartial ==
    MergeFields(IBLT_bucket_Class,
                [f \in Fields(IBLT_bucket_Class) |->
                     IBLT_bucket_ReadField(f.m, f.tag, f.in)])

IBLT_bucket_Serialize(m) ==
    LET write(number, field) == Each(field, LAMBDA v : WriteUInt32(number, v))
    IN  write(1, m.key_sum) \o write(2, m.hash_sum) \o write(3, m.count)

IBLT_bucket_ByteSize(m) ==
    LET size(field) == Len(field) + VarintsSize(field)
    IN  size(m.key_sum) + size(m.hash_sum) + size(m.count)

IBLT_bucket_MergeFrom(m, from) == [field \in DOMAIN m |-> Later(m[field], from[field])]
IBLT_bucket_IsInitialized(m) == \A field \in DOMAIN m : m[field] # << >>

-----------------------------------------------------------------------------
(* IBLT: repeated IBLT_bucket.                                             *)

IBLT_Class == [buckets : Seq(IBLT_bucket_Class)]
IBLT_New == [buckets |-> << >>]

IBLT_add_buckets(m, buckets) == add(m, "buckets", "IBLT_bucket", buckets)
IBLT_get_buckets(m, n) == get(m, "buckets", n, IBLT_bucket_New)

IBLT_ReadField(m, tag, in) ==
    IF tag = Tag(1, LENGTH_DELIMITED)
    THEN Appended(m, "buckets", ReadMessage(IBLT_bucket_MergePartial, IBLT_bucket_New, in))
    ELSE Skip(m, tag, in)

IBLT_MergePartial ==
    MergeFields(IBLT_Class,
                [f \in Fields(IBLT_Class) |-> IBLT_ReadField(f.m, f.tag, f.in)])

IBLT_Serialize(m) ==
    Each(m.buckets, LAMBDA b :
             Delimited(1, IBLT_bucket_ByteSize(b), IBLT_bucket_Serialize(b)))

IBLT_ByteSize(m) ==
    FieldsSize([i \in DOMAIN m.buckets |-> IBLT_bucket_ByteSize(m.buckets[i])])

IBLT_MergeFrom(m, from) == [m EXCEPT !.buckets = @ \o from.buckets]
IBLT_IsInitialized(m) == \A i \in DOMAIN m.buckets : IBLT_bucket_IsInitialized(m.buckets[i])

-----------------------------------------------------------------------------
(* IBLT_bucket_extended: a required IBLT_bucket and a bit for each party.  *)

IBLT_bucket_extended_Class == [bucket : Single(IBLT_bucket_Class), has_key : Seq(Bool)]
IBLT_bucket_extended_New == [bucket |-> << >>, has_key |-> << >>]

IBLT_bucket_extended_set(m, b, bits) ==
    add(set(m, "bucket", "IBLT_bucket", b), "has_key", "bool", bits)
IBLT_bucket_extended_get(m, n_parties) ==
    [bucket  |-> Or(m.bucket, IBLT_bucket_New),
     has_key |-> [i \in 1 .. n_parties |-> get(m, "has_key", i, Garbage)]]

IBLT_bucket_extended_ReadField(m, tag, in) ==
    CASE tag = Tag(1, LENGTH_DELIMITED) ->
             Replaced(m, "bucket", ReadMessage(IBLT_bucket_MergePartial,
                                             Or(m.bucket, IBLT_bucket_New), in))
      [] Packable(tag, 2) -> Numbers(m, "has_key", "bool", tag, in)
      [] OTHER -> Skip(m, tag, in)

IBLT_bucket_extended_MergePartial ==
    MergeFields(IBLT_bucket_extended_Class,
                [f \in Fields(IBLT_bucket_extended_Class) |->
                     IBLT_bucket_extended_ReadField(f.m, f.tag, f.in)])

IBLT_bucket_extended_Serialize(m) ==
    Each(m.bucket, LAMBDA b :
             Delimited(1, IBLT_bucket_ByteSize(b), IBLT_bucket_Serialize(b)))
    \o WritePacked(2, Len(m.has_key), m.has_key)

IBLT_bucket_extended_ByteSize(m) ==
    FieldsSize([i \in DOMAIN m.bucket |-> IBLT_bucket_ByteSize(m.bucket[i])])
    + PackedSize(Len(m.has_key))

\* Mutant: the submessage replaces the one there, even by nothing.
IBLT_bucket_extended_MergeFromReplacing(m, from) ==
    [bucket |-> from.bucket, has_key |-> from.has_key]
IBLT_bucket_extended_MergeFrom(m, from) ==
    [bucket  |-> IF from.bucket = << >> THEN m.bucket
                 ELSE <<IBLT_bucket_MergeFrom(Or(m.bucket, IBLT_bucket_New),
                                              from.bucket[1])>>,
     has_key |-> m.has_key \o from.has_key]

IBLT_bucket_extended_IsInitialized(m) ==
    m.bucket # << >> /\ IBLT_bucket_IsInitialized(m.bucket[1])

-----------------------------------------------------------------------------
(* IBLT2: three packed arrays, which FileSynchronizer sends.               *)

IBLT2_Class == [key_sum : Seq(UInt64), hash_sum : Seq(UInt64), count : Seq(UInt32)]
IBLT2_New == [key_sum |-> << >>, hash_sum |-> << >>, count |-> << >>]

IBLT2_add(m, key_sums, hash_sums, counts) ==
    add(add(add(m, "key_sum", "uint64", key_sums), "hash_sum", "uint64", hash_sums),
        "count", "uint32", counts)
IBLT2_get(m, n) == [field \in DOMAIN m |-> get(m, field, n, Garbage)]

IBLT2_ReadField(m, tag, in) ==
    CASE Packable(tag, 1) -> Numbers(m, "key_sum", "uint64", tag, in)
      [] Packable(tag, 2) -> Numbers(m, "hash_sum", "uint64", tag, in)
      [] Packable(tag, 3) -> Numbers(m, "count", "uint32", tag, in)
      [] OTHER -> Skip(m, tag, in)

IBLT2_MergePartial ==
    MergeFields(IBLT2_Class,
                [f \in Fields(IBLT2_Class) |-> IBLT2_ReadField(f.m, f.tag, f.in)])

IBLT2_Serialize(m) ==
    WritePacked(1, VarintsSize(m.key_sum), m.key_sum)
    \o WritePacked(2, VarintsSize(m.hash_sum), m.hash_sum)
    \o WritePacked(3, VarintsSize(m.count), m.count)

IBLT2_ByteSize(m) ==
    LET size(field) == PackedSize(VarintsSize(field))
    IN  size(m.key_sum) + size(m.hash_sum) + size(m.count)

IBLT2_MergeFrom(m, from) == [field \in DOMAIN m |-> m[field] \o from[field]]

-----------------------------------------------------------------------------
(* strata_estimator: repeated IBLT2.                                       *)

strata_estimator_Class == [strata : Seq(IBLT2_Class)]
strata_estimator_New == [strata |-> << >>]

strata_estimator_add_strata(m, strata) == add(m, "strata", "IBLT2", strata)
strata_estimator_get_strata(m, n) == get(m, "strata", n, IBLT2_New)

strata_estimator_ReadField(m, tag, in) ==
    IF tag = Tag(1, LENGTH_DELIMITED)
    THEN Appended(m, "strata", ReadMessage(IBLT2_MergePartial, IBLT2_New, in))
    ELSE Skip(m, tag, in)

strata_estimator_MergePartial ==
    MergeFields(strata_estimator_Class,
                [f \in Fields(strata_estimator_Class) |->
                     strata_estimator_ReadField(f.m, f.tag, f.in)])

strata_estimator_Serialize(m) ==
    Each(m.strata, LAMBDA s : Delimited(1, IBLT2_ByteSize(s), IBLT2_Serialize(s)))

strata_estimator_ByteSize(m) ==
    FieldsSize([i \in DOMAIN m.strata |-> IBLT2_ByteSize(m.strata[i])])

strata_estimator_MergeFrom(m, from) == [m EXCEPT !.strata = @ \o from.strata]

-----------------------------------------------------------------------------
(* Round2: the chunk encoding.                                             *)

Round2_Class ==
    [chunk_exists : Seq(Bool), hash_exists : Seq(Bool), new_chunk_info : Seq(Bytes),
     existing_chunk_encoding : Seq(UInt32), SHAHash : Single(Bytes)]
Round2_New == [chunk_exists |-> << >>, hash_exists |-> << >>, new_chunk_info |-> << >>,
               existing_chunk_encoding |-> << >>, SHAHash |-> << >>]

Round2_types == [chunk_exists |-> "bool", hash_exists |-> "bool", new_chunk_info |-> "bytes",
                 existing_chunk_encoding |-> "uint32"]
Round2_add(m, field, values) == add(m, field, Round2_types[field], values)
Round2_set_shahash(m, hash) == set(m, "SHAHash", "bytes", hash)
Round2_shahash(m) == Or(m.SHAHash, << >>)

Round2_ReadField(m, tag, in) ==
    CASE Packable(tag, 1) -> Numbers(m, "chunk_exists", "bool", tag, in)
      [] Packable(tag, 2) -> Numbers(m, "hash_exists", "bool", tag, in)
      [] tag = Tag(3, LENGTH_DELIMITED) -> Appended(m, "new_chunk_info", ReadBytes(in))
      [] Packable(tag, 4) -> Numbers(m, "existing_chunk_encoding", "uint32", tag, in)
      [] tag = Tag(5, LENGTH_DELIMITED) -> Replaced(m, "SHAHash", ReadBytes(in))
      [] OTHER -> Skip(m, tag, in)

Round2_MergePartial ==
    MergeFields(Round2_Class,
                [f \in Fields(Round2_Class) |-> Round2_ReadField(f.m, f.tag, f.in)])

Round2_Serialize(m) ==
    WritePacked(1, Len(m.chunk_exists), m.chunk_exists)
    \o WritePacked(2, Len(m.hash_exists), m.hash_exists)
    \o Each(m.new_chunk_info, LAMBDA c : WriteBytes(3, c))
    \o WritePacked(4, VarintsSize(m.existing_chunk_encoding), m.existing_chunk_encoding)
    \o Each(m.SHAHash, LAMBDA h : WriteBytes(5, h))

\* Mutant: an index is taken to need one byte.
Round2_ByteSizeShortIndex(m) ==
    LET bytes(field) == FieldsSize([i \in DOMAIN field |-> Len(field[i])])
    IN  bytes(m.SHAHash) + PackedSize(Len(m.chunk_exists)) + PackedSize(Len(m.hash_exists))
        + bytes(m.new_chunk_info) + PackedSize(Len(m.existing_chunk_encoding))
Round2_ByteSize(m) ==
    LET bytes(field) == FieldsSize([i \in DOMAIN field |-> Len(field[i])])
    IN  bytes(m.SHAHash) + PackedSize(Len(m.chunk_exists)) + PackedSize(Len(m.hash_exists))
        + bytes(m.new_chunk_info) + PackedSize(VarintsSize(m.existing_chunk_encoding))

Round2_MergeFrom(m, from) ==
    [chunk_exists   |-> m.chunk_exists \o from.chunk_exists,
     hash_exists    |-> m.hash_exists \o from.hash_exists,
     new_chunk_info |-> m.new_chunk_info \o from.new_chunk_info,
     existing_chunk_encoding |-> m.existing_chunk_encoding \o from.existing_chunk_encoding,
     SHAHash        |-> Later(m.SHAHash, from.SHAHash)]

-----------------------------------------------------------------------------
(* The virtual functions, and the library's calls of them.                 *)

MergePartial(type, m, in) ==
    CASE type = "Round2"           -> Round2_MergePartial[Input(m, in)]
      [] type = "strata_estimator" -> strata_estimator_MergePartial[Input(m, in)]
      [] type = "IBLT"             -> IBLT_MergePartial[Input(m, in)]
      [] type = "IBLT2"            -> IBLT2_MergePartial[Input(m, in)]
      [] type = "IBLT_bucket_extended" -> IBLT_bucket_extended_MergePartial[Input(m, in)]

Class(type) ==
    CASE type = "Round2"           -> Round2_Class
      [] type = "strata_estimator" -> strata_estimator_Class
      [] type = "IBLT"             -> IBLT_Class
      [] type = "IBLT2"            -> IBLT2_Class
      [] type = "IBLT_bucket_extended" -> IBLT_bucket_extended_Class

New(type) ==
    CASE type = "Round2"           -> Round2_New
      [] type = "strata_estimator" -> strata_estimator_New
      [] type = "IBLT"             -> IBLT_New
      [] type = "IBLT2"            -> IBLT2_New
      [] type = "IBLT_bucket_extended" -> IBLT_bucket_extended_New

Serialize(type, m) ==
    CASE type = "Round2"           -> Round2_Serialize(m)
      [] type = "strata_estimator" -> strata_estimator_Serialize(m)
      [] type = "IBLT"             -> IBLT_Serialize(m)
      [] type = "IBLT2"            -> IBLT2_Serialize(m)
      [] type = "IBLT_bucket_extended" -> IBLT_bucket_extended_Serialize(m)

ByteSize(type, m) ==
    CASE type = "Round2"           -> Round2_ByteSize(m)
      [] type = "strata_estimator" -> strata_estimator_ByteSize(m)
      [] type = "IBLT"             -> IBLT_ByteSize(m)
      [] type = "IBLT2"            -> IBLT2_ByteSize(m)
      [] type = "IBLT_bucket_extended" -> IBLT_bucket_extended_ByteSize(m)

MergeFrom(type, m, from) ==
    CASE type = "Round2"           -> Round2_MergeFrom(m, from)
      [] type = "strata_estimator" -> strata_estimator_MergeFrom(m, from)
      [] type = "IBLT"             -> IBLT_MergeFrom(m, from)
      [] type = "IBLT2"            -> IBLT2_MergeFrom(m, from)
      [] type = "IBLT_bucket_extended" -> IBLT_bucket_extended_MergeFrom(m, from)

IsInitialized(type, m) ==
    CASE type = "IBLT" -> IBLT_IsInitialized(m)
      [] type = "IBLT_bucket_extended" -> IBLT_bucket_extended_IsInitialized(m)
      [] OTHER -> TRUE

\* ParseFromString clears first; the caller sees the message whatever the result.
ParseFromString(type, in) ==
    LET checked(merged) == Merged(merged.ok /\ IsInitialized(type, merged.m), merged.m)
    IN  checked(MergePartial(type, New(type), in))

=============================================================================
