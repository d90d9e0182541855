SPECIFICATION Spec
CONSTANTS
    Char <- MCChar
    File <- MCFile
    MaxSize <- MCMaxSize
    AvgBlock = 2
    Kgrams = 2
    MaxHash = 15
    GramHash <- MCGramHash
    p = 7
    HashSize = 16
    ByteBits = 1
    CharBits = 1
    BobSeed = 15
    MurmurM = 5
    Murmur64M = 149
    PredefSeeds <- MCPredefSeeds
INVARIANTS
    RollingHashIsLocal
    CutsAreWindowMinima
    CutsAreLocal
    WordsHashApart
    AlignmentsAgree
    ChangesStayLocal
\* winnow returns at the end of the file.
CHECK_DEADLOCK FALSE
