SPECIFICATION Spec
CONSTANTS
    Char <- MCChar
    File <- AllFiles
    OldFile <- OldFiles
    NewFile <- SevenOrEightLong
    MaxSize <- MCMaxSize
    AvgBlock = 2
    Kgrams = 2
    MaxHash = 3
    GramHash <- MCGramHash
    ChunkHash <- MCChunkHash
    LogBase = 4
INVARIANTS
    SharedAgrees
    IndexFindsChunk
    WritesNewFile
\* The driver stops after reconstruct_file or an exit.
CHECK_DEADLOCK FALSE
