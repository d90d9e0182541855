------------------------------ MODULE TestFiles ------------------------------
(***************************************************************************)
(* The files that IBLT_helpers.cpp makes for file_sync_testing.cpp from an *)
(* old file: with single characters changed, or whole blocks.              *)
(***************************************************************************)
EXTENDS Integers, Sequences

CONSTANT CharBits   \* 8

\* (char) (c+1)
Changed(c) == LET n == (c + 1) % 2 ^ CharBits
              IN  IF n >= 2 ^ (CharBits - 1) THEN n - 2 ^ CharBits ELSE n

\* generate_similar_file: each character is drawn to remain, with probability
\* pct_similarity, or to change.
generate_similar_file(old_file, same) ==
    [i \in DOMAIN old_file |-> IF i \in same THEN old_file[i] ELSE Changed(old_file[i])]

\* Where blocks may start, and the characters the blocks cover: a start inside a
\* block is passed over.
Starts(old_file, block_size) == 0 .. Len(old_file) - block_size - 1
Covered(old_file, start_changes, block_size) ==
    LET From[counter \in 0 .. Len(old_file)] ==
            IF counter >= Len(old_file) THEN {}
            ELSE IF counter \in start_changes
                 THEN (counter + 1 .. counter + block_size) \cup From[counter + block_size]
                 ELSE From[counter + 1]
    IN  From[0]

\* Mutant: a block is one character too long.
generate_block_changed_fileLonger(old_file, start_changes, block_size) ==
    [i \in DOMAIN old_file |->
        IF i \in Covered(old_file, start_changes, block_size + 1)
        THEN Changed(old_file[i]) ELSE old_file[i]]
generate_block_changed_file(old_file, start_changes, block_size) ==
    [i \in DOMAIN old_file |->
        IF i \in Covered(old_file, start_changes, block_size)
        THEN Changed(old_file[i]) ELSE old_file[i]]

=============================================================================
