---------------------------- MODULE Compression ----------------------------
(***************************************************************************)
(* compress_string and decompress_string (compression.hpp): zlib is called *)
(* with a buffer for its output until it reports the end of the stream.    *)
(* zlib itself is external: what deflate writes is the data and a mark of  *)
(* the end of the stream, which stands for the checksum that inflate wants *)
(* to see before it reports that end.                                      *)
(***************************************************************************)
EXTENDS Integers, Sequences, FiniteSetsExt

CONSTANT OutBuffer   \* sizeof(outbuffer), at least 1

ASSUME OutBufferAssumption == OutBuffer \in Nat \ {0}

EndOfStream == 256

Call(block, ret) == [block |-> block, ret |-> ret]

\* One call of deflate(Z_FINISH) or inflate: data is what the stream holds,
\* complete whether its end is there; total_out has been written before.
zlib(data, complete, total_out) ==
    LET n == Min({OutBuffer, Len(data) - total_out})
        block == SubSeq(data, total_out + 1, total_out + n)
    IN  CASE complete /\ total_out + n = Len(data) -> Call(block, "Z_STREAM_END")
          [] ~complete /\ n = 0                    -> Call(block, "Z_BUF_ERROR")
          [] OTHER                                 -> Call(block, "Z_OK")

\* The loop while ret is Z_OK: what it writes, and its last ret.
Loop(data, complete) ==
    LET from[total_out \in 0 .. Len(data)] ==
            LET call == zlib(data, complete, total_out)
                rest == from[total_out + Len(call.block)]
            IN  IF call.ret = "Z_OK" THEN Call(call.block \o rest.block, rest.ret) ELSE call
    IN  from[0]

compress_string(str) == Loop(Append(str, EndOfStream), TRUE).block

\* What inflate can make of a string, and the result of the loop; an error is
\* thrown unless it ended with Z_STREAM_END.
Marks(str) == {i \in DOMAIN str : str[i] = EndOfStream}
Inflatable(str) == IF Marks(str) = {} THEN str ELSE SubSeq(str, 1, Min(Marks(str)) - 1)
\* Mutant: what has come out before the error is returned.
decompress_stringLenient(str) ==
    Call(Loop(Inflatable(str), Marks(str) # {}).block, "Z_STREAM_END")
decompress_string(str) == Loop(Inflatable(str), Marks(str) # {})

=============================================================================
