----------------------------- MODULE WireFormat -----------------------------
(***************************************************************************)
(* The part of the protocol buffer library that the code generated from    *)
(* file_sync.proto calls: varints, tags, length-delimited data.  A string  *)
(* is a sequence of bytes.  A reader gives the values it has read as a     *)
(* sequence, what is left of the input, and whether it succeeded.          *)
(***************************************************************************)
EXTENDS Integers, Sequences, SequencesExt, FiniteSetsExt

CONSTANTS
    Word32,      \* 2^32, or a smaller number of the same kind
    Word64,      \* 2^64, likewise
    MaxVarint    \* the bytes that a varint may have: 10 in the library

\* 128 to the power of k: the numbers below it fit in k groups of seven bits.
Span[k \in Nat] == IF k = 0 THEN 1 ELSE 128 * Span[k - 1]

ASSUME WordAssumption ==
    /\ Word32 \in Nat /\ Word64 \in Nat /\ MaxVarint \in Nat
    /\ 128 <= Word32 /\ Word32 <= Word64 /\ Word64 <= Span[MaxVarint]

Byte == 0 .. 255
Bytes == Seq(Byte)

VARINT == 0
LENGTH_DELIMITED == 2

Tag(field, type) == field * 8 + type
FieldNumber(tag) == tag \div 8
WireType(tag) == tag % 8

-----------------------------------------------------------------------------
(* Writing.                                                                *)

Varint[n \in Nat] ==
    IF n < 128 THEN <<n>> ELSE <<128 + (n % 128)>> \o Varint[n \div 128]

VarintSize(n) == Min({k \in 1 .. MaxVarint : n < Span[k]} \cup {MaxVarint})

VarintsSize(values) == SumFunction([i \in DOMAIN values |-> VarintSize(values[i])])

Each(values, Write(_)) == FlattenSeq([i \in DOMAIN values |-> Write(values[i])])

\* A tag, the length, which the caller has computed beforehand, and the data.
Delimited(field, size, data) ==
    Varint[Tag(field, LENGTH_DELIMITED)] \o (Varint[size] \o data)
WriteBytes(field, bytes) == Delimited(field, Len(bytes), bytes)
WriteUInt32(field, v) == Varint[Tag(field, VARINT)] \o Varint[v]
WritePacked(field, size, values) ==
    IF values = << >> THEN << >>
    ELSE Delimited(field, size, Each(values, LAMBDA v : Varint[v]))

DelimitedSize(n) == VarintSize(n) + n
PackedSize(n) == IF n > 0 THEN 1 + DelimitedSize(n) ELSE 0

-----------------------------------------------------------------------------
(* Reading.                                                                *)

Read(ok, values, rest) == [ok |-> ok, values |-> values, rest |-> rest]
Failed == Read(FALSE, << >>, << >>)
Then(r, Go(_, _)) == IF r.ok THEN Go(r.values[1], r.rest) ELSE Failed

Take(n, in) == Read(TRUE, <<SubSeq(in, 1, n)>>, SubSeq(in, n + 1, Len(in)))

\* The number that bytes hold, seven bits in each.
Number[bytes \in Bytes] ==
    IF bytes = << >> THEN 0 ELSE (Head(bytes) % 128) + 128 * Number[Tail(bytes)]

\* A varint is read up to the first byte below 128.
ReadVarint(in) ==
    LET last == {i \in 1 .. Min({MaxVarint, Len(in)}) : in[i] < 128}
    IN  IF last = {} THEN Failed
        ELSE Then(Take(Min(last), in), LAMBDA bytes, rest : Read(TRUE, <<Number[bytes]>>, rest))

\* What a varint becomes in a field of the given type.
Decode(type, v) == CASE type = "bool"   -> IF v = 0 THEN 0 ELSE 1
                     [] type = "uint32" -> v % Word32
                     [] type = "uint64" -> v % Word64
                     [] OTHER           -> v

ReadPrimitive(type, in) ==
    Then(ReadVarint(in), LAMBDA v, rest : Read(TRUE, <<Decode(type, v)>>, rest))

\* Tags and lengths have 32 bits.
ReadBytes(in) ==
    Then(ReadPrimitive("uint32", in),
         LAMBDA n, rest : IF n > Len(rest) THEN Failed ELSE Take(n, rest))

\* Elements up to the end of the data; those before a bad one are kept.
ReadElements(type, data) ==
    LET elements[in \in Bytes] ==
            LET first == ReadPrimitive(type, in)
                more == elements[first.rest]
            IN  IF in = << >> THEN Read(TRUE, << >>, << >>)
                ELSE IF ~first.ok THEN Failed
                ELSE Read(more.ok, first.values \o more.values, << >>)
    IN  elements[data]

ReadPacked(type, in) ==
    LET read(elements, rest) == Read(elements.ok, elements.values, rest)
    IN  Then(ReadBytes(in), LAMBDA data, rest : read(ReadElements(type, data), rest))

=============================================================================
