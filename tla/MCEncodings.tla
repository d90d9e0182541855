---------------------------- MODULE MCEncodings ----------------------------
(* Values at the edges of the encodings: one and two bytes of a varint,     *)
(* more than a 32-bit field holds, negative counts, empty and long arrays.  *)
EXTENDS Encodings

MCWord32 == 2 ^ 9
MCWord64 == 2 ^ 15

Few == {Bucket(0, 0, 0), Bucket(127, 300, 1), Bucket(700, 128, -1), Bucket(16500, 5, 2)}
All == {Bucket(k, h, c) : k \in {0, 128, 700}, h \in {5, 600}, c \in {-2, -1, 0, 130}}

MCTables == {<<<<a, b>>, <<c, EmptyBucket>>>> : a, b, c \in Few}
          \cup {<<<<a>>, <<b>>>> : a, b \in All}
Small == {<<<<a>>, <<b>>>> : a, b \in Few}

Bits == UNION {[1 .. n -> 0 .. 1] : n \in 0 .. 2}
Chunk == {<< >>, <<0, 255>>, [i \in 1 .. 130 |-> 7]}
Infos == {[chunk_exists |-> exists, hash_exists |-> hashes, new_chunk_info |-> new,
           existing_chunk_encoding |-> existing, SHAHash |-> sha] :
             exists \in Bits, hashes \in {<< >>, <<1, 0>>},
             new \in {<< >>} \cup {<<c>> : c \in Chunk} \cup {<<<<0, 255>>, << >>>>},
             existing \in {<< >>, <<0>>, <<127, 200>>}, sha \in {<< >>, <<9, 8>>}}

Of(type, values) == {[type |-> type, value |-> v] : v \in values}

MCObjects ==
    Of("IBLT", MCTables) \cup Of("IBLT2", MCTables)
    \cup Of("strata_estimator", {<<s, t>> : s, t \in Small})
    \cup Of("Round2", {r \in Infos : Cardinality({i \in DOMAIN r.chunk_exists :
                                                    r.chunk_exists[i] = 0})
                                     = Len(r.new_chunk_info)})
    \cup Of("IBLT_bucket_extended",
            {[bucket |-> b, has_key |-> bits] : b \in All, bits \in [1 .. 2 -> 0 .. 1]})

MCEarlier ==
    LET tables == {<<<<Bucket(700, 5, -1)>>, <<EmptyBucket>>>>}
    IN  Of("IBLT", tables) \cup Of("IBLT2", tables)
        \cup Of("strata_estimator", {<<t>> : t \in tables})
        \cup Of("Round2", {[chunk_exists |-> <<0>>, hash_exists |-> <<1>>,
                            new_chunk_info |-> <<<<3>>>>, existing_chunk_encoding |-> <<9>>,
                            SHAHash |-> <<1>>]})
        \cup Of("IBLT_bucket_extended",
                {[bucket |-> Bucket(1, 2, 3), has_key |-> <<1, 1>>]})

=============================================================================
