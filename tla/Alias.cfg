SPECIFICATION Spec
CONSTANTS
    Char <- MCChar
    File <- AllFiles
    OldFile <- FiveLong
    NewFile <- EightLong
    MaxSize <- MCMaxSize
    AvgBlock = 2
    Kgrams = 2
    MaxHash = 3
    GramHash <- MCGramHash
    ChunkHash <- MCChunkHash
    LogBase = 8
INVARIANTS
    SHAHashMatches
\* The driver stops after reconstruct_file or an exit.
CHECK_DEADLOCK FALSE
