------------------------------ MODULE DirSync ------------------------------
(***************************************************************************)
(* dir_sync.hpp, driven as in dir_sync_testing.cpp: A learns from B which  *)
(* of its files B has under other names, and renames them one by one.      *)
(*                                                                         *)
(* A directory on disk is a function from the names of its files to their  *)
(* contents.  SHA1 is taken to be injective: a name and a content stand    *)
(* for their hashes, and a key is the pair.  How a table and an estimator  *)
(* work is the subject of MultiReconciliation and StrataEstimator; here    *)
(* peel gives the keys that only one of two tables has, or fails.          *)
(***************************************************************************)
EXTENDS Integers, FiniteSets, Functions

CONSTANTS
    Name,         \* the names a file may have
    Hidden,       \* the names that begin with a dot
    Folder,       \* the directory that a file of that name is in
    Directories,  \* the directories A and B may start with, as [A |-> , B |-> ]
    Folders,      \* the directories that exist on A's disk
    Estimates     \* what set_difference_estimate may return

Host == {"A", "B"}

ASSUME DirSyncAssumption ==
    /\ Hidden \subseteq Name /\ Estimates \subseteq Nat
    /\ \A d \in Directories : DOMAIN d = Host
    /\ \A d \in Directories, host \in Host : DOMAIN d[host] \subseteq Name
    /\ \A d \in Directories : \A name \in DOMAIN d["A"] : Folder[name] \in Folders

VARIABLES
    pc,        \* what the driver does next, or how it ended
    disk,      \* the directories as they are
    listed,    \* filehash_to_file and content_hashes, as process_dir saw them
    diff,      \* the estimate
    iblt,      \* the tables
    info,      \* update_info, which B gives to A
    renames    \* the renames A has still to make

vars == <<pc, disk, listed, diff, iblt, info, renames>>

Empty == [name \in {} |-> name]
NoInfo == [old_file_hashes |-> {}, filehash_to_new_file |-> Empty]
NoTable == [num_buckets |-> 0, num_hashfns |-> 0, keys |-> {}]

Init ==
    /\ pc = "process_dir A"
    /\ disk \in Directories
    /\ listed = [host \in Host |-> Empty]
    /\ diff = 0 /\ iblt = [host \in Host |-> NoTable]
    /\ info = NoInfo /\ renames = Empty

-----------------------------------------------------------------------------
(* The data structures of a directory.                                     *)

get_files(d) == Restrict(d, DOMAIN d \ Hidden)
get_file_content_keys(files) == {<<name, files[name]>> : name \in DOMAIN files}
contenthash_to_file(files) == AntiFunction(files)

\* Both assertions: every name and every content once.
process_dir(host, next) ==
    LET files == get_files(disk[host])
    IN  /\ listed' = [listed EXCEPT ![host] = files]
        /\ pc' = IF IsInjective(files) THEN next ELSE "aborted"
        /\ UNCHANGED <<disk, diff, iblt, info, renames>>

ProcessA == pc = "process_dir A" /\ process_dir("A", "process_dir B")
ProcessB == pc = "process_dir B" /\ process_dir("B", "set_difference_estimate")

set_difference_estimate ==
    /\ pc = "set_difference_estimate"
    /\ diff' \in Estimates
    /\ pc' = "create_IBLT"
    /\ UNCHANGED <<disk, listed, iblt, info, renames>>

\* Each on its own, from the same estimate.
create_IBLT ==
    /\ pc = "create_IBLT"
    /\ iblt' = [host \in Host |->
                   [num_buckets |-> diff * 2, num_hashfns |-> IF diff < 200 THEN 3 ELSE 4,
                    keys |-> get_file_content_keys(listed[host])]]
    /\ pc' = "find_differences"
    /\ UNCHANGED <<disk, listed, diff, info, renames>>

-----------------------------------------------------------------------------
(* B compares the tables.                                                  *)

\* Mutant: a file whose name B has is left where it is.
UpdateOfNewNames(distinct_keys, files) ==
    LET theirs == {k \in distinct_keys : k[1] \notin DOMAIN files}
        known == {k \in theirs : k[2] \in DOMAIN contenthash_to_file(files)}
        content(name) == (CHOOSE k \in known : k[1] = name)[2]
    IN  [filehash_to_new_file |-> [name \in {k[1] : k \in known} |->
                                      contenthash_to_file(files)[content(name)]],
         old_file_hashes      |-> {k[1] : k \in theirs \ known}]

\* Mutant: the keys that B has itself.
UpdateOfMine(distinct_keys, files) ==
    LET mine == distinct_keys \cap get_file_content_keys(files)
    IN  [filehash_to_new_file |-> [name \in {k[1] : k \in mine} |-> name],
         old_file_hashes      |-> {}]

\* For each key that B has not, the name B has for that content, if it has it.
Update(distinct_keys, files) ==
    LET theirs == distinct_keys \ get_file_content_keys(files)
        known == {k \in theirs : k[2] \in DOMAIN contenthash_to_file(files)}
        content(name) == (CHOOSE k \in known : k[1] = name)[2]
    IN  [filehash_to_new_file |-> [name \in {k[1] : k \in known} |->
                                      contenthash_to_file(files)[content(name)]],
         old_file_hashes      |-> {k[1] : k \in theirs \ known}]

find_differences ==
    LET a == iblt["A"].keys
        b == iblt["B"].keys
        distinct_keys == (a \ b) \cup (b \ a)
    IN  /\ pc = "find_differences"
        /\ \/ /\ info' = Update(distinct_keys, listed["B"])
              /\ renames' = info'.filehash_to_new_file
              /\ pc' = "process_differences"
           \/ /\ distinct_keys # {}          \* "Failed to peel, need to retry"
              /\ pc' = "exited"
              /\ UNCHANGED <<info, renames>>
        /\ UNCHANGED <<disk, listed, diff, iblt>>

-----------------------------------------------------------------------------
(* A renames.  The order is that of an unordered_map.                      *)

Without(f, name) == Restrict(f, DOMAIN f \ {name})

\* Mutant: the file keeps its old name as well.
RenamedCopy(d, name, new) ==
    [n \in DOMAIN d \cup {new} |-> IF n = new THEN d[name] ELSE d[n]]
\* boost::filesystem::rename: what had the new name is gone.
Renamed(d, name, new) ==
    [n \in (DOMAIN d \ {name}) \cup {new} |-> IF n = new THEN d[name] ELSE d[n]]

\* The assertion that the hash is known, and one rename, which throws when there is
\* no directory for the new name.
process_differences ==
    /\ pc = "process_differences"
    /\ \E name \in DOMAIN renames :
         IF name \notin DOMAIN listed["A"]
         THEN pc' = "aborted" /\ UNCHANGED <<disk, renames>>
         ELSE IF Folder[renames[name]] \notin Folders
         THEN pc' = "threw" /\ UNCHANGED <<disk, renames>>
         ELSE /\ disk' = [disk EXCEPT !["A"] = Renamed(@, name, renames[name])]
              /\ renames' = Without(renames, name)
              /\ UNCHANGED pc
    /\ UNCHANGED <<listed, diff, iblt, info>>

\* The old files are printed, and stay.
Finish ==
    /\ pc = "process_differences" /\ renames = Empty
    /\ pc' = "done"
    /\ UNCHANGED <<disk, listed, diff, iblt, info, renames>>

Next ==
    \/ ProcessA \/ ProcessB \/ set_difference_estimate \/ create_IBLT
    \/ find_differences \/ process_differences \/ Finish

Spec == Init /\ [][Next]_vars

-----------------------------------------------------------------------------
(* Properties.                                                             *)

Common == Range(listed["A"]) \cap Range(get_files(disk["B"]))

\* The files that are to be renamed and whose name another one is to get.
InTheWay ==
    DOMAIN info.filehash_to_new_file \cap Range(info.filehash_to_new_file)

\* A content that both directories have is lost on A's disk in one case only: a file
\* gets the name of another one that has not been renamed yet.  No rename replaces
\* anything else that B has, one that throws loses nothing, and nothing is lost by a
\* rename made after the one that frees the name (dir_sync.hpp:181-192).
CommonContentSurvives ==
    [][\A c \in (Common \cap Range(disk["A"])) \ Range(disk'["A"]) :
           \E name \in DOMAIN renames :
               /\ DOMAIN renames' = DOMAIN renames \ {name}
               /\ renames[name] \in DOMAIN renames'
               /\ disk["A"][renames[name]] = listed["A"][renames[name]]
               /\ disk["A"][renames[name]] = c]_vars

\* Whatever the order of the renames: a content that both have ends under B's name and
\* under no other, unless A's file of it or the one that has B's name is in the way of
\* another; and a listed file that is neither renamed nor replaced is where it was.
RenamesAgreeWithB ==
    pc = "done" =>
        LET moved == DOMAIN info.filehash_to_new_file
            targets == Range(info.filehash_to_new_file)
        IN  /\ \A a \in DOMAIN listed["A"] \ InTheWay,
                  b \in DOMAIN disk["B"] \ (Hidden \cup InTheWay) :
                 listed["A"][a] = disk["B"][b] =>
                     {n \in DOMAIN disk["A"] \ Hidden : disk["A"][n] = disk["B"][b]} = {b}
            /\ \A name \in DOMAIN listed["A"] \ (moved \cup targets) :
                 name \in DOMAIN disk["A"] /\ disk["A"][name] = listed["A"][name]

\* B only ever names files that A has: the assertion of process_differences holds,
\* and what process_dir aborts for is two files of one content.
AssertionHolds ==
    pc = "aborted" => \E host \in Host : ~IsInjective(listed[host])

=============================================================================
