----------------------------- MODULE MCFileSync -----------------------------
(* Small instances of FileSync for TLC: files over two letters, windows of *)
(* three hashes of at most two letters.                                    *)
EXTENDS FileSync

MCChar == 0 .. 1
MCMaxSize == 8
Sizes(S) == UNION {[1 .. n -> MCChar] : n \in S}

MCGramHash == [g \in Sizes(1 .. 2) |->
    CASE g = <<0>> -> 2 [] g = <<1>> -> 1
      [] g = <<0, 0>> -> 3 [] g = <<0, 1>> -> 0
      [] g = <<1, 0>> -> 2 [] g = <<1, 1>> -> 1]

\* An injective hash that does not keep the order of the strings.
Number(s) == LET Value[n \in 0 .. Len(s)] == IF n = 0 THEN 1 ELSE 2 * Value[n - 1] + s[n]
             IN  Value[Len(s)]
MCChunkHash == [s \in Sizes(0 .. MCMaxSize) |-> (Number(s) * 37) % 512]

FiveLong == Sizes({5})
FourToSixLong == Sizes({4, 5, 6})
EightLong == Sizes({8})
\* Some files of eight are added: with LogBase 4 the overlap of a file is 1 up to
\* seven characters and 2 of eight, so either end's can be the longer one.
AlternatingStart == {f \in EightLong : SubSeq(f, 1, 4) = <<0, 1, 0, 1>>}
OldFiles == FourToSixLong \cup AlternatingStart
SevenOrEightLong == Sizes({7, 8})
AllFiles == Sizes({4, 5, 6, 7, 8})
=============================================================================
