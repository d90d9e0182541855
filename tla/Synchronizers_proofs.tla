------------------------ MODULE Synchronizers_proofs ------------------------
(***************************************************************************)
(* The two synchronizers, apart from the files: renaming by dir_sync, and  *)
(* the messages of FileSynchronizer.                                       *)
(*                                                                         *)
(* For every two directories, a rename loses a content that both have only *)
(* by taking the name of a file that is still to be renamed, and all the   *)
(* other files end under B's names, in whatever order they are renamed.    *)
(*                                                                         *)
(* For every object whose message has a size that is an int, the message   *)
(* has that size on the wire and is read back, into a new message or into  *)
(* one that holds values, and the object arrives unless its string is cut. *)
(***************************************************************************)
EXTENDS DirSync, Encodings, Arithmetic, SequenceTheorems

-----------------------------------------------------------------------------
(* The inductive invariant.                                                *)

moved == DOMAIN info.filehash_to_new_file
target == info.filehash_to_new_file
filesA == listed["A"]
filesB == listed["B"]
diskA == disk["A"]

Renaming == {"process_differences", "threw", "done"}

\* What was listed is what is there, until A renames.
ListsAreCurrent ==
    /\ DOMAIN disk = Host /\ DOMAIN listed = Host
    /\ pc = "process_dir A" => filesA = Empty
    /\ pc \in {"process_dir A", "process_dir B"} => filesB = Empty
    /\ pc \notin {"process_dir A", "process_dir B", "aborted"} =>
           /\ filesB = get_files(disk["B"])
           /\ IsInjective(filesB)
    /\ pc \notin Renaming \cup {"process_dir A"} => filesA = get_files(diskA)
    /\ pc \notin {"process_dir A", "aborted"} => IsInjective(filesA)

TablesHoldLists ==
    pc = "find_differences" =>
        \A host \in Host : iblt[host].keys = get_file_content_keys(listed[host])

\* B has the content of file n of A, and not under that name.
Copied(n, a, b) ==
    n \in DOMAIN a /\ a[n] \in Range(b) /\ ~(n \in DOMAIN b /\ b[n] = a[n])

\* The renames B asks for are of A's files, to the names of the same contents.
TargetsAreRight ==
    /\ pc \notin Renaming => target = Empty
    /\ pc \in Renaming =>
           /\ \A n : n \in moved <=> Copied(n, filesA, filesB)
           /\ \A n \in moved : target[n] \in DOMAIN filesB /\ filesB[target[n]] = filesA[n]
           /\ DOMAIN renames \subseteq moved
           /\ \A n \in DOMAIN renames : renames[n] = target[n]

\* Where each of A's files is while the renames are made, if it was not in the way.
Waiting(n) == n \in DOMAIN diskA /\ diskA[n] = filesA[n]
Arrived(n) == target[n] \in DOMAIN diskA /\ diskA[target[n]] = filesA[n]

\* The files that are on A's disk, those that were in the way included: each is one
\* that was listed, or came by a rename.
Listed(n) == n \in DOMAIN filesA /\ Waiting(n) /\ n \notin moved \ DOMAIN renames
Came(n) == \E m \in moved \ DOMAIN renames : n = target[m]

FilesAreKept ==
    pc \in Renaming =>
        /\ DOMAIN renames \subseteq DOMAIN diskA \ Hidden
        /\ \A n \in DOMAIN renames : n \notin Range(target) => Waiting(n)
        /\ \A n \in moved \ DOMAIN renames :
              n \notin Range(target) /\ target[n] \notin moved => Arrived(n)
        /\ \A n \in DOMAIN filesA \ (moved \cup Range(target)) : Waiting(n)
        /\ \A n \in DOMAIN diskA \ Hidden : Listed(n) \/ Came(n)
        /\ \A m, n \in DOMAIN diskA \ Hidden : diskA[m] = diskA[n] => m = n

EndsInOrder ==
    /\ pc = "aborted" => \E host \in Host : ~IsInjective(listed[host])
    /\ pc = "done" => renames = Empty

IInv ==
    /\ ListsAreCurrent
    /\ TablesHoldLists
    /\ TargetsAreRight
    /\ FilesAreKept
    /\ EndsInOrder

-----------------------------------------------------------------------------
(* Lemmas about the data structures.                                       *)

\* The keys of two lists of names are equal exactly when the names and contents are.
LEMMA KeysOfFiles ==
    ASSUME NEW files, NEW name, NEW content
    PROVE  <<name, content>> \in get_file_content_keys(files)
               <=> name \in DOMAIN files /\ files[name] = content
BY DEF get_file_content_keys

\* For a content that is listed, contenthash_to_file has a name of a file with it.
LEMMA ContentIsFound ==
    ASSUME NEW files
    PROVE  /\ DOMAIN contenthash_to_file(files) = Range(files)
           /\ \A c \in Range(files) :
                  /\ contenthash_to_file(files)[c] \in DOMAIN files
                  /\ files[contenthash_to_file(files)[c]] = c
<1>1. contenthash_to_file(files) =
          [t \in Range(files) |->
              CHOOSE s \in DOMAIN files : t \in Range(files) => files[s] = t]
  BY DEF contenthash_to_file, AntiFunction, Inverse
<1>2. \A c \in Range(files) : \E s \in DOMAIN files : files[s] = c
  BY DEF Range
<1> QED
  BY <1>1, <1>2

\* What B finds for A in the tables: for each of A's files that B has under another
\* name, that name.
LEMMA UpdateNamesCopies ==
    ASSUME NEW a, NEW b,
           NEW distinct_keys, NEW F, F = Update(distinct_keys, b).filehash_to_new_file,
           distinct_keys \ get_file_content_keys(b)
               = get_file_content_keys(a) \ get_file_content_keys(b)
    PROVE  /\ \A n : n \in DOMAIN F <=> Copied(n, a, b)
           /\ \A n \in DOMAIN F : F[n] \in DOMAIN b /\ b[F[n]] = a[n]
<1> DEFINE theirs == distinct_keys \ get_file_content_keys(b)
           known == {k \in theirs : k[2] \in DOMAIN contenthash_to_file(b)}
           content(name) == (CHOOSE k \in known : k[1] = name)[2]
           names == {k[1] : k \in known}
           copies == {n \in DOMAIN a : Copied(n, a, b)}
<1>1. F = [name \in names |-> contenthash_to_file(b)[content(name)]]
  BY DEF Update
<1>2. DOMAIN contenthash_to_file(b) = Range(b)
  BY ContentIsFound
<1>3. theirs = {<<n, a[n]>> : n \in {x \in DOMAIN a : ~(x \in DOMAIN b /\ b[x] = a[x])}}
  <2>1. theirs = get_file_content_keys(a) \ get_file_content_keys(b)
    OBVIOUS
  <2>2. get_file_content_keys(a) = {<<n, a[n]>> : n \in DOMAIN a}
    BY DEF get_file_content_keys
  <2>3. \A n \in DOMAIN a : <<n, a[n]>> \in get_file_content_keys(b)
                                <=> n \in DOMAIN b /\ b[n] = a[n]
    BY KeysOfFiles
  <2> HIDE DEF theirs
  <2> QED
    BY <2>1, <2>2, <2>3
<1>4. known = {<<n, a[n]>> : n \in copies}
  <2> HIDE DEF theirs
  <2> QED
    BY <1>2, <1>3 DEF Copied
<1>5. \A n \in copies : content(n) = a[n]
  <2> HIDE DEF known
  <2>1. ASSUME NEW n \in copies
        PROVE  content(n) = a[n]
    <3>1. <<n, a[n]>> \in known /\ <<n, a[n]>>[1] = n
      BY <1>4
    <3>2. \A k \in known : k[1] = n => k[2] = a[n]
      BY <1>4
    <3> QED
      BY <3>1, <3>2
  <2> QED
    BY <2>1
<1>6. names = copies
  <2> HIDE DEF known, copies
  <2>1. \A k \in known : k[1] \in copies
    BY <1>4
  <2>2. \A n \in copies : <<n, a[n]>> \in known /\ <<n, a[n]>>[1] = n
    BY <1>4
  <2> QED
    BY <2>1, <2>2
<1>7. \A n : n \in copies <=> Copied(n, a, b)
  BY DEF Copied
<1> HIDE DEF content, known, theirs, names
<1>8. DOMAIN F = copies
  BY <1>1, <1>6
<1>9. \A n \in copies : F[n] = contenthash_to_file(b)[a[n]]
  <2> HIDE DEF copies
  <2> QED
    BY <1>1, <1>5, <1>6
<1> QED
  BY <1>7, <1>8, <1>9, ContentIsFound DEF Copied

-----------------------------------------------------------------------------
(* The invariant holds.                                                    *)

LEMMA InitHolds == Init => IInv
<1> SUFFICES ASSUME Init PROVE IInv
  OBVIOUS
<1>1. pc = "process_dir A" /\ DOMAIN disk = Host
  BY DirSyncAssumption DEF Init
<1>2. DOMAIN listed = Host /\ filesA = Empty /\ filesB = Empty
  BY DEF Init, Host, filesA, filesB
<1>3. target = Empty
  BY DEF Init, NoInfo, target
<1> QED
  BY <1>1, <1>2, <1>3
  DEF IInv, ListsAreCurrent, TablesHoldLists, TargetsAreRight, FilesAreKept, EndsInOrder,
      Renaming

\* Listing A's directory, then B's.
LEMMA ProcessAKeeps == IInv /\ ProcessA => IInv'
<1> SUFFICES ASSUME IInv, ProcessA PROVE IInv'
  OBVIOUS
<1> DEFINE files == get_files(diskA)
<1>1. /\ pc = "process_dir A" /\ filesB = Empty /\ target = Empty
      /\ DOMAIN disk = Host /\ DOMAIN listed = Host
  BY DEF IInv, ListsAreCurrent, TargetsAreRight, ProcessA, process_dir, Renaming
<1>2. /\ DOMAIN listed' = Host /\ filesA' = files /\ filesB' = Empty
      /\ pc' = IF IsInjective(files) THEN "process_dir B" ELSE "aborted"
      /\ UNCHANGED <<disk, diff, iblt, info, renames>>
  BY <1>1 DEF ProcessA, process_dir, filesA, filesB, diskA, Host
<1>3. /\ diskA' = diskA /\ get_files(diskA)' = files /\ target' = Empty
      /\ DOMAIN disk' = Host
  BY <1>1, <1>2 DEF diskA, target, get_files, Restrict
<1>4. pc' = "aborted" => ~IsInjective(listed'["A"]) /\ "A" \in Host
  BY <1>2 DEF filesA, Host
<1>5. pc' # "aborted" => IsInjective(filesA') /\ pc' = "process_dir B"
  BY <1>2
<1> HIDE DEF files
<1>6. ListsAreCurrent'
  BY <1>2, <1>3, <1>5 DEF ListsAreCurrent, IsInjective
<1>7. EndsInOrder'
  BY <1>2, <1>4 DEF EndsInOrder, IsInjective
<1> QED
  BY <1>2, <1>3, <1>6, <1>7 DEF IInv, TablesHoldLists, TargetsAreRight, FilesAreKept, Renaming

LEMMA ProcessBKeeps == IInv /\ ProcessB => IInv'
<1> SUFFICES ASSUME IInv, ProcessB PROVE IInv'
  OBVIOUS
<1> DEFINE files == get_files(disk["B"])
<1>1. /\ pc = "process_dir B" /\ target = Empty
      /\ filesA = get_files(diskA) /\ IsInjective(filesA)
      /\ DOMAIN disk = Host /\ DOMAIN listed = Host
  BY DEF IInv, ListsAreCurrent, TargetsAreRight, ProcessB, process_dir, Renaming
<1>2. /\ DOMAIN listed' = Host /\ filesA' = filesA /\ filesB' = files
      /\ pc' = IF IsInjective(files) THEN "set_difference_estimate" ELSE "aborted"
      /\ UNCHANGED <<disk, diff, iblt, info, renames>>
  BY <1>1 DEF ProcessB, process_dir, filesA, filesB, Host
<1>3. /\ diskA' = diskA /\ get_files(diskA)' = get_files(diskA) /\ target' = Empty
      /\ get_files(disk["B"])' = files
      /\ DOMAIN disk' = Host
  BY <1>1, <1>2 DEF diskA, target, get_files, Restrict
<1>4. IsInjective(filesA')
  BY <1>1, <1>2
<1>5. pc' = "aborted" => ~IsInjective(listed'["B"]) /\ "B" \in Host
  BY <1>2 DEF filesB, Host
<1>6. pc' # "aborted" => IsInjective(filesB') /\ pc' = "set_difference_estimate"
  BY <1>2
<1> HIDE DEF files
<1>7. ListsAreCurrent'
  BY <1>1, <1>2, <1>3, <1>4, <1>6 DEF ListsAreCurrent, IsInjective, Renaming
<1>8. EndsInOrder'
  BY <1>2, <1>5 DEF EndsInOrder, IsInjective
<1> QED
  BY <1>2, <1>3, <1>7, <1>8 DEF IInv, TablesHoldLists, TargetsAreRight, FilesAreKept, Renaming

\* The steps between the listing and the comparison.
LEMMA EstimateKeeps == IInv /\ set_difference_estimate => IInv'
<1> SUFFICES ASSUME IInv, set_difference_estimate PROVE IInv'
  OBVIOUS
<1>1. /\ pc = "set_difference_estimate" /\ pc' = "create_IBLT"
      /\ UNCHANGED <<disk, listed, iblt, info, renames>>
  BY DEF set_difference_estimate
<1>2. ListsAreCurrent'
  BY <1>1 DEF IInv, ListsAreCurrent, filesA, filesB, diskA, get_files, Restrict,
              IsInjective, Renaming
<1>3. TargetsAreRight'
  BY <1>1 DEF IInv, TargetsAreRight, target, Renaming
<1> QED
  BY <1>1, <1>2, <1>3 DEF IInv, TablesHoldLists, FilesAreKept, EndsInOrder, Renaming

LEMMA CreateKeeps == IInv /\ create_IBLT => IInv'
<1> SUFFICES ASSUME IInv, create_IBLT PROVE IInv'
  OBVIOUS
<1>1. /\ pc = "create_IBLT" /\ pc' = "find_differences"
      /\ UNCHANGED <<disk, listed, diff, info, renames>>
  BY DEF create_IBLT
<1>2. ListsAreCurrent'
  BY <1>1 DEF IInv, ListsAreCurrent, filesA, filesB, diskA, get_files, Restrict,
              IsInjective, Renaming
<1>3. TargetsAreRight'
  BY <1>1 DEF IInv, TargetsAreRight, target, Renaming
<1>4. \A host \in Host : iblt'[host].keys = get_file_content_keys(listed[host])
  BY DEF create_IBLT
<1>5. TablesHoldLists'
  BY <1>1, <1>4 DEF TablesHoldLists, get_file_content_keys
<1> QED
  BY <1>1, <1>2, <1>3, <1>5 DEF IInv, FilesAreKept, EndsInOrder, Renaming

LEMMA FindKeeps == IInv /\ find_differences => IInv'
<1> SUFFICES ASSUME IInv, find_differences PROVE IInv'
  OBVIOUS
<1> DEFINE keysA == iblt["A"].keys
           keysB == iblt["B"].keys
           distinct == (keysA \ keysB) \cup (keysB \ keysA)
<1>1. /\ pc = "find_differences" /\ pc' \in {"process_differences", "exited"}
      /\ UNCHANGED <<disk, listed, diff, iblt>>
  BY DEF find_differences
<1>2. /\ keysA = get_file_content_keys(filesA) /\ keysB = get_file_content_keys(filesB)
      /\ filesA = get_files(diskA)
  BY <1>1 DEF IInv, ListsAreCurrent, TablesHoldLists, filesA, filesB, Host, Renaming
<1>3. /\ filesA' = filesA /\ filesB' = filesB /\ diskA' = diskA
      /\ get_files(diskA)' = get_files(diskA)
      /\ get_files(disk["B"])' = get_files(disk["B"])
  BY <1>1 DEF filesA, filesB, diskA, get_files, Restrict
<1>4. ListsAreCurrent'
  BY <1>1, <1>3 DEF IInv, ListsAreCurrent, IsInjective, Renaming
<1>5. CASE pc' = "exited"
  <2>1. UNCHANGED <<info, renames>>
    BY <1>5 DEF find_differences
  <2>2. TargetsAreRight'
    BY <1>1, <1>5, <2>1 DEF IInv, TargetsAreRight, target, Renaming
  <2> QED
    BY <1>4, <1>5, <2>2 DEF IInv, TablesHoldLists, FilesAreKept, EndsInOrder, Renaming
<1>6. CASE pc' = "process_differences"
  <2>1. target' = Update(distinct, filesB).filehash_to_new_file /\ renames' = target'
    BY <1>6 DEF find_differences, filesB, target
  <2>2. distinct \ get_file_content_keys(filesB)
            = get_file_content_keys(filesA) \ get_file_content_keys(filesB)
    BY <1>2
  <2> HIDE DEF distinct, keysA, keysB
  <2> DEFINE new == target'
  <2>0. new = Update(distinct, filesB).filehash_to_new_file
    BY <2>1
  <2> HIDE DEF new
  <2>3. /\ \A n : n \in DOMAIN new <=> Copied(n, filesA, filesB)
        /\ \A n \in DOMAIN new : new[n] \in DOMAIN filesB /\ filesB[new[n]] = filesA[n]
    BY <2>0, <2>2, UpdateNamesCopies, Z3
  <2>4. moved' = DOMAIN target' /\ DOMAIN renames' = moved'
    BY <2>1 DEF moved, target
  <2>5. TargetsAreRight'
    BY <1>3, <1>6, <2>1, <2>3, <2>4 DEF TargetsAreRight, Renaming, Copied, Range, new
  <2>6. \A n \in DOMAIN filesA' : Waiting(n)'
    BY <1>2, <1>3 DEF Waiting, get_files, Restrict
  <2>7. /\ DOMAIN diskA' \ Hidden = DOMAIN filesA'
        /\ \A m, n \in DOMAIN diskA' \ Hidden : diskA'[m] = diskA'[n] => m = n
    <3>1. IsInjective(filesA)
      BY <1>1 DEF IInv, ListsAreCurrent
    <3> QED
      BY <1>2, <1>3, <3>1 DEF get_files, Restrict, IsInjective
  <2>8. moved' \subseteq DOMAIN filesA'
    BY <1>3, <2>3, <2>4 DEF new, Copied
  <2>9. FilesAreKept'
    BY <2>4, <2>6, <2>7, <2>8 DEF FilesAreKept, Listed
  <2> QED
    BY <1>4, <1>6, <2>5, <2>9 DEF IInv, TablesHoldLists, EndsInOrder
<1> QED
  BY <1>1, <1>5, <1>6

\* One rename: the assertion holds, and either nothing changes or one file moves to a
\* name that no file still to be moved has.
LEMMA RenameKeeps == IInv /\ process_differences => IInv'
<1> SUFFICES ASSUME IInv, process_differences PROVE IInv'
  OBVIOUS
<1>1. /\ pc = "process_differences"
      /\ UNCHANGED <<listed, diff, iblt, info>>
  BY DEF process_differences
<1>2. /\ DOMAIN disk = Host /\ DOMAIN listed = Host
      /\ filesB = get_files(disk["B"])
      /\ IsInjective(filesB) /\ IsInjective(filesA)
  BY <1>1 DEF IInv, ListsAreCurrent
<1>3. /\ \A n : n \in moved <=> Copied(n, filesA, filesB)
      /\ \A n \in moved : target[n] \in DOMAIN filesB /\ filesB[target[n]] = filesA[n]
      /\ DOMAIN renames \subseteq moved
      /\ \A n \in DOMAIN renames : renames[n] = target[n]
  BY <1>1 DEF IInv, TargetsAreRight, Renaming
<1>4. PICK name \in DOMAIN renames :
          IF name \notin DOMAIN listed["A"]
          THEN pc' = "aborted" /\ UNCHANGED <<disk, renames>>
          ELSE IF Folder[renames[name]] \notin Folders
          THEN pc' = "threw" /\ UNCHANGED <<disk, renames>>
          ELSE /\ disk' = [disk EXCEPT !["A"] = Renamed(@, name, renames[name])]
               /\ renames' = Without(renames, name)
               /\ UNCHANGED pc
  BY DEF process_differences
<1>5. name \in moved /\ name \in DOMAIN listed["A"]
  BY <1>3, <1>4 DEF filesA, Copied
<1>6. filesA' = filesA /\ filesB' = filesB /\ target' = target /\ moved' = moved
  BY <1>1 DEF filesA, filesB, target, moved
<1>7. CASE UNCHANGED <<disk, renames>> /\ pc' = "threw"
  <2>1. diskA' = diskA /\ get_files(disk["B"])' = get_files(disk["B"])
    BY <1>7 DEF diskA, get_files, Restrict
  <2>2. ListsAreCurrent'
    BY <1>1, <1>2, <1>6, <1>7, <2>1 DEF ListsAreCurrent, IsInjective, Renaming
  <2>3. TargetsAreRight'
    BY <1>3, <1>6, <1>7 DEF TargetsAreRight, Copied, Range, Renaming
  <2>4. FilesAreKept'
    BY <1>1, <1>6, <1>7, <2>1 DEF IInv, FilesAreKept, Waiting, Arrived, Listed, Came, Range, Renaming
  <2> QED
    BY <1>7, <2>2, <2>3, <2>4 DEF IInv, TablesHoldLists, EndsInOrder
<1>8. CASE /\ disk' = [disk EXCEPT !["A"] = Renamed(@, name, renames[name])]
           /\ renames' = Without(renames, name)
           /\ UNCHANGED pc
  <2> DEFINE new == target[name]
  <2>1. /\ diskA' = Renamed(diskA, name, new) /\ disk'["B"] = disk["B"]
        /\ DOMAIN disk' = Host
    BY <1>2, <1>3, <1>4, <1>8 DEF diskA, Host
  <2>2. get_files(disk["B"])' = get_files(disk["B"])
    BY <2>1 DEF get_files, Restrict
  <2>3. /\ DOMAIN renames' = DOMAIN renames \ {name}
        /\ \A n \in DOMAIN renames' : renames'[n] = renames[n]
    BY <1>8 DEF Without, Restrict
  <2>4. ListsAreCurrent'
    BY <1>1, <1>2, <1>6, <1>8, <2>1, <2>2 DEF ListsAreCurrent, IsInjective, Renaming
  <2>5. TargetsAreRight'
    BY <1>1, <1>3, <1>6, <1>8, <2>3 DEF TargetsAreRight, Copied, Range, Renaming
  <2>6. FilesAreKept'
    <3>1. /\ DOMAIN renames \subseteq DOMAIN diskA \ Hidden
          /\ \A n \in DOMAIN renames : n \notin Range(target) => Waiting(n)
          /\ \A n \in moved \ DOMAIN renames :
                n \notin Range(target) /\ target[n] \notin moved => Arrived(n)
          /\ \A n \in DOMAIN filesA \ (moved \cup Range(target)) : Waiting(n)
          /\ \A n \in DOMAIN diskA \ Hidden : Listed(n) \/ Came(n)
          /\ \A m, n \in DOMAIN diskA \ Hidden : diskA[m] = diskA[n] => m = n
      BY <1>1 DEF IInv, FilesAreKept, Renaming
    <3>2. new # name /\ new \in Range(target)
      BY <1>3, <1>5 DEF Copied, Range, moved, target
    <3> HIDE DEF new
    <3>3. /\ DOMAIN diskA' = (DOMAIN diskA \ {name}) \cup {new}
          /\ diskA'[new] = diskA[name]
          /\ \A n \in DOMAIN diskA \ {name, new} : diskA'[n] = diskA[n]
      BY <2>1, <3>2 DEF Renamed
    <3>4. \A n : Waiting(n) /\ n \notin {name, new} => Waiting(n)'
      BY <1>6, <3>3 DEF Waiting
    <3>5. DOMAIN renames' \subseteq DOMAIN diskA' \ Hidden
      BY <2>3, <3>1, <3>3
    <3>6. \A n \in DOMAIN renames' : n \notin Range(target) => Waiting(n)'
      BY <2>3, <3>1, <3>2, <3>4
    <3>7. ASSUME NEW n \in moved, n \notin DOMAIN renames',
                 n \notin Range(target), target[n] \notin moved
          PROVE  Arrived(n)'
      <4>1. CASE n = name
        <5>1. diskA[name] = filesA[name]
          BY <1>4, <3>1, <3>7, <4>1 DEF Waiting
        <5> QED
          BY <1>6, <3>3, <4>1, <5>1 DEF Arrived, new
      <4>2. CASE n # name
        <5>1. Arrived(n)
          BY <2>3, <3>1, <3>7, <4>2
        <5>2. filesA[n] # filesA[name]
          BY <1>2, <1>3, <1>5, <3>7, <4>2 DEF IsInjective, Copied
        <5>3. target[n] # new
          BY <1>3, <1>5, <3>7, <5>2 DEF new
        <5>4. target[n] # name
          BY <1>5, <3>7
        <5> QED
          BY <1>6, <3>3, <5>1, <5>3, <5>4 DEF Arrived
      <4> QED
        BY <4>1, <4>2
    <3>8. \A n \in DOMAIN filesA \ (moved \cup Range(target)) : Waiting(n)'
      BY <1>5, <3>1, <3>2, <3>4
    <3>9. ASSUME NEW n \in DOMAIN diskA' \ Hidden
          PROVE  Listed(n)' \/ Came(n)'
      <4>1. CASE n = new
        BY <1>5, <1>6, <2>3, <4>1 DEF Came, new
      <4>2. CASE n # new
        <5>1. n \in DOMAIN diskA \ Hidden /\ n # name
          BY <3>3, <4>2
        <5>2. CASE Listed(n)
          BY <1>6, <2>3, <3>4, <4>2, <5>1, <5>2 DEF Listed
        <5>3. CASE Came(n)
          BY <1>6, <2>3, <5>3 DEF Came
        <5> QED
          BY <3>1, <5>1, <5>2, <5>3
      <4> QED
        BY <4>1, <4>2
    <3>10. \A m, n \in DOMAIN diskA' \ Hidden : diskA'[m] = diskA'[n] => m = n
      <4>1. name \in DOMAIN diskA \ Hidden
        BY <1>4, <3>1
      <4>2. \A n \in DOMAIN diskA' \ Hidden :
                n # new => /\ n \in DOMAIN diskA \ Hidden /\ n # name
                           /\ diskA'[n] = diskA[n]
        BY <3>3
      <4> QED
        BY <3>1, <3>3, <4>1, <4>2
    <3> QED
      BY <1>6, <3>5, <3>6, <3>7, <3>8, <3>9, <3>10 DEF FilesAreKept
  <2> QED
    BY <1>1, <1>8, <2>4, <2>5, <2>6 DEF IInv, TablesHoldLists, EndsInOrder
<1> QED
  BY <1>4, <1>5, <1>7, <1>8

LEMMA FinishKeeps == IInv /\ Finish => IInv'
<1> SUFFICES ASSUME IInv, Finish PROVE IInv'
  OBVIOUS
<1>1. /\ pc = "process_differences" /\ pc' = "done" /\ renames = Empty
      /\ UNCHANGED <<disk, listed, diff, iblt, info, renames>>
  BY DEF Finish
<1>2. /\ filesA' = filesA /\ filesB' = filesB /\ diskA' = diskA
      /\ target' = target /\ moved' = moved
      /\ get_files(disk["B"])' = get_files(disk["B"])
  BY <1>1 DEF filesA, filesB, diskA, target, moved, get_files, Restrict
<1>3. ListsAreCurrent'
  BY <1>1, <1>2 DEF IInv, ListsAreCurrent, IsInjective, Renaming
<1>4. TargetsAreRight'
  BY <1>1, <1>2 DEF IInv, TargetsAreRight, Copied, Range, Renaming
<1>5. FilesAreKept'
  BY <1>1, <1>2 DEF IInv, FilesAreKept, Waiting, Arrived, Listed, Came, Range, Renaming
<1> QED
  BY <1>1, <1>3, <1>4, <1>5 DEF IInv, TablesHoldLists, EndsInOrder

LEMMA StutterKeeps == IInv /\ UNCHANGED vars => IInv'
<1> SUFFICES ASSUME IInv, UNCHANGED vars PROVE IInv'
  OBVIOUS
<1>1. UNCHANGED <<pc, disk, listed, diff, iblt, info, renames>>
  BY DEF vars
<1>2. /\ filesA' = filesA /\ filesB' = filesB /\ diskA' = diskA
      /\ target' = target /\ moved' = moved
      /\ get_files(disk["B"])' = get_files(disk["B"])
      /\ get_files(diskA)' = get_files(diskA)
  BY <1>1 DEF filesA, filesB, diskA, target, moved, get_files, Restrict
<1>3. ListsAreCurrent'
  BY <1>1, <1>2 DEF IInv, ListsAreCurrent, IsInjective, Renaming
<1>4. TargetsAreRight'
  BY <1>1, <1>2 DEF IInv, TargetsAreRight, Copied, Range, Renaming
<1>5. FilesAreKept'
  BY <1>1, <1>2 DEF IInv, FilesAreKept, Waiting, Arrived, Listed, Came, Range, Renaming
<1>6. TablesHoldLists'
  BY <1>1 DEF IInv, TablesHoldLists, get_file_content_keys
<1>7. EndsInOrder'
  BY <1>1 DEF IInv, EndsInOrder, IsInjective
<1> QED
  BY <1>3, <1>4, <1>5, <1>6, <1>7 DEF IInv

\* In every reachable state the lists are those of the directories until A renames,
\* the renames are right, and every file of A that is in no other's way is where it
\* was or under its new name (process_dir to process_differences of dir_sync.hpp).
THEOREM Invariance == Spec => []IInv
<1>1. Init => IInv
  BY InitHolds
<1>2. IInv /\ [Next]_vars => IInv'
  BY ProcessAKeeps, ProcessBKeeps, EstimateKeeps, CreateKeeps, FindKeeps, RenameKeeps,
     FinishKeeps, StutterKeeps DEF Next
<1> QED
  BY <1>1, <1>2, PTL DEF Spec

-----------------------------------------------------------------------------
(* What follows from it.                                                   *)

\* A file of A that B has under the same name is not to be replaced.
LEMMA SharedFilesStay ==
    ASSUME IInv, pc \in Renaming,
           NEW a \in DOMAIN filesA, a \in DOMAIN filesB, filesB[a] = filesA[a]
    PROVE  a \notin moved \cup Range(target)
<1>1. /\ \A n : n \in moved <=> Copied(n, filesA, filesB)
      /\ \A n \in moved : target[n] \in DOMAIN filesB /\ filesB[target[n]] = filesA[n]
  BY DEF IInv, TargetsAreRight
<1>2. IsInjective(filesA)
  BY DEF IInv, ListsAreCurrent, Renaming
<1>3. a \notin moved
  BY <1>1 DEF Copied
<1>4. ASSUME NEW m \in moved, target[m] = a
      PROVE  FALSE
  <2>1. filesA[m] = filesA[a] /\ m \in DOMAIN filesA
    BY <1>1, <1>4 DEF Copied
  <2> QED
    BY <1>2, <1>3, <2>1 DEF IsInjective
<1> QED
  BY <1>3, <1>4 DEF Range, moved, target

\* What a rename replaces on A's disk, if B has it too: a file that waits for its own.
LEMMA ReplacesWaiting ==
    ASSUME IInv, pc = "process_differences",
           NEW name \in DOMAIN renames, target[name] \in DOMAIN diskA,
           diskA[target[name]] \in Common
    PROVE  target[name] \in DOMAIN renames \ {name} /\ Waiting(target[name])
<1> DEFINE new == target[name]
<1>1. /\ \A n : n \in moved <=> Copied(n, filesA, filesB)
      /\ \A n \in moved : target[n] \in DOMAIN filesB /\ filesB[target[n]] = filesA[n]
      /\ DOMAIN renames \subseteq moved
  BY DEF IInv, TargetsAreRight, Renaming
<1>2. filesB = get_files(disk["B"]) /\ IsInjective(filesA)
  BY DEF IInv, ListsAreCurrent, Renaming
<1>3. \A n \in DOMAIN diskA \ Hidden : Listed(n) \/ Came(n)
  BY DEF IInv, FilesAreKept, Renaming
<1>4. name \in moved /\ name \in DOMAIN filesA
  BY <1>1 DEF Copied
<1>5. new # name /\ new \in DOMAIN diskA \ Hidden /\ new \in Range(target)
  BY <1>1, <1>2, <1>4 DEF Copied, get_files, Restrict, Range, moved, target
<1>6. ~Came(new)
  <2> SUFFICES ASSUME NEW m \in moved \ DOMAIN renames, new = target[m] PROVE FALSE
    BY DEF Came
  <2>1. filesA[m] = filesA[name] /\ m \in DOMAIN filesA
    BY <1>1, <1>4 DEF Copied
  <2> QED
    BY <1>2, <1>4, <2>1 DEF IsInjective
<1>7. Listed(new)
  BY <1>3, <1>5, <1>6
<1>8. new \in moved
  <2>1. new \in DOMAIN filesA /\ filesA[new] \in Range(filesB)
    BY <1>2, <1>7 DEF Listed, Waiting, Common
  <2> HIDE DEF new
  <2>2. ~Copied(new, filesA, filesB) => new \in DOMAIN filesB /\ filesB[new] = filesA[new]
    BY <2>1 DEF Copied
  <2> QED
    BY <1>1, <1>5, <2>1, <2>2, SharedFilesStay DEF Renaming
<1> QED
  BY <1>5, <1>7, <1>8 DEF Listed

\* For every two directories, a content that both have is lost on A's disk only when a
\* file gets the name of another one that process_differences has yet to rename,
\* whatever the order of the renames and wherever one throws.
THEOREM NothingElseLost == Spec => CommonContentSurvives
<1> DEFINE lost == (Common \cap Range(disk["A"])) \ Range(disk'["A"])
           replaced(c, name) ==
               /\ DOMAIN renames' = DOMAIN renames \ {name}
               /\ renames[name] \in DOMAIN renames'
               /\ disk["A"][renames[name]] = listed["A"][renames[name]]
               /\ disk["A"][renames[name]] = c
<1>1. IInv /\ [Next]_vars => [\A c \in lost : \E name \in DOMAIN renames : replaced(c, name)]_vars
  <2> SUFFICES ASSUME IInv, Next, NEW c \in lost
               PROVE  \E name \in DOMAIN renames : replaced(c, name)
    OBVIOUS
  <2>1. disk' # disk
    OBVIOUS
  <2>2. process_differences
    BY <2>1 DEF Next, ProcessA, ProcessB, process_dir, set_difference_estimate, create_IBLT,
                find_differences, Finish
  <2>3. PICK name \in DOMAIN renames :
            /\ disk' = [disk EXCEPT !["A"] = Renamed(@, name, renames[name])]
            /\ renames' = Without(renames, name)
    BY <2>1, <2>2 DEF process_differences
  <2>4. /\ DOMAIN disk = Host /\ pc = "process_differences"
        /\ renames[name] = target[name]
    BY <2>2 DEF process_differences, IInv, ListsAreCurrent, TargetsAreRight, Renaming
  <2>5. disk'["A"] = Renamed(diskA, name, renames[name])
    BY <2>3, <2>4 DEF diskA, Host
  <2>6. DOMAIN renames' = DOMAIN renames \ {name}
    BY <2>3 DEF Without, Restrict
  <2>7. name \in DOMAIN diskA
    BY <2>4 DEF IInv, FilesAreKept, Renaming
  <2>8. PICK x \in DOMAIN diskA : diskA[x] = c
    BY DEF Range, diskA
  <2>9. x = renames[name]
    <3>1. \A n \in DOMAIN disk'["A"] : disk'["A"][n] # c
      BY DEF Range
    <3> QED
      BY <2>5, <2>7, <2>8, <3>1 DEF Renamed
  <2>10. x \in DOMAIN renames \ {name} /\ Waiting(x)
    BY <2>4, <2>8, <2>9, ReplacesWaiting
  <2> QED
    BY <2>6, <2>8, <2>9, <2>10 DEF Waiting, diskA, filesA
<1> QED
  BY <1>1, Invariance, PTL DEF Spec, CommonContentSurvives

\* When the renames are done, each content that both directories have is under B's
\* name only, unless one of its two names was in another file's way, and the files of
\* A that were neither renamed nor replaced are where they were.
THEOREM NamesAgree == Spec => []RenamesAgreeWithB
<1>1. IInv => RenamesAgreeWithB
  <2> SUFFICES ASSUME IInv, pc = "done" PROVE RenamesAgreeWithB
    BY DEF RenamesAgreeWithB
  <2>1. /\ pc \in Renaming /\ DOMAIN renames = {}
        /\ filesB = get_files(disk["B"]) /\ IsInjective(filesB)
    BY DEF IInv, EndsInOrder, ListsAreCurrent, Renaming, Empty
  <2>2. /\ \A n : n \in moved <=> Copied(n, filesA, filesB)
        /\ \A n \in moved : target[n] \in DOMAIN filesB /\ filesB[target[n]] = filesA[n]
    BY <2>1 DEF IInv, TargetsAreRight
  <2>3. /\ \A n \in moved : n \notin Range(target) /\ target[n] \notin moved => Arrived(n)
        /\ \A n \in DOMAIN filesA \ (moved \cup Range(target)) : Waiting(n)
        /\ \A m, n \in DOMAIN diskA \ Hidden : diskA[m] = diskA[n] => m = n
    BY <2>1 DEF IInv, FilesAreKept
  <2>4. ASSUME NEW a \in DOMAIN filesA \ InTheWay,
               NEW b \in DOMAIN disk["B"] \ (Hidden \cup InTheWay),
               filesA[a] = disk["B"][b]
        PROVE  {n \in DOMAIN diskA \ Hidden : diskA[n] = disk["B"][b]} = {b}
    <3>1. b \in DOMAIN filesB /\ filesB[b] = disk["B"][b] /\ b \notin Hidden
      BY <2>1 DEF get_files, Restrict
    <3>2. b \in DOMAIN diskA /\ diskA[b] = filesA[a]
      <4>1. CASE a \in moved
        <5>1. target[a] = b
          BY <2>1, <2>2, <2>4, <3>1, <4>1 DEF IsInjective
        <5>2. a \notin Range(target) /\ b \notin moved
          BY <4>1, <5>1 DEF InTheWay, Range, moved, target
        <5> QED
          BY <2>3, <4>1, <5>1, <5>2 DEF Arrived
      <4>2. CASE a \notin moved
        <5>1. a \in DOMAIN filesB /\ filesB[a] = filesA[a]
          BY <2>2, <2>4, <3>1, <4>2 DEF Copied, Range
        <5>2. a = b
          BY <2>1, <2>4, <3>1, <5>1 DEF IsInjective
        <5>3. Waiting(a)
          BY <2>1, <2>3, <5>1, SharedFilesStay
        <5> QED
          BY <5>2, <5>3 DEF Waiting
      <4> QED
        BY <4>1, <4>2
    <3> QED
      BY <2>3, <2>4, <3>1, <3>2
  <2>5. \A n \in DOMAIN filesA \ (moved \cup Range(target)) :
            n \in DOMAIN diskA /\ diskA[n] = filesA[n]
    BY <2>3 DEF Waiting
  <2> QED
    BY <2>4, <2>5 DEF RenamesAgreeWithB, moved, target, diskA, filesA
<1> QED
  BY <1>1, Invariance, PTL

\* The assertion of process_differences holds for every two directories: only
\* process_dir aborts, on a list with one content twice.
THEOREM AbortsOnlyInProcessDir == Spec => []AssertionHolds
<1>1. IInv => AssertionHolds
  BY DEF IInv, EndsInOrder, AssertionHolds
<1> QED
  BY <1>1, Invariance, PTL

\* The numbers of k groups of seven bits.
LEMMA SpanEquation ==
    /\ Span \in [Nat -> Nat] /\ Span[0] = 1
    /\ \A k \in Nat : Span[k + 1] = 128 * Span[k] /\ Span[k] > 0
<1> DEFINE mu == [k \in Nat |-> k]
           Body(g, k) == IF k = 0 THEN 1 ELSE 128 * g[k - 1]
           F == [g \in [Nat -> Nat] |-> [k \in Nat |-> Body(g, k)]]
<1>1. ASSUME NEW g, NEW h, NEW k \in Nat, \A i \in Nat : mu[i] < mu[k] => g[i] = h[i]
      PROVE  Body(g, k) = Body(h, k)
  <2>1. k # 0 => k - 1 \in Nat /\ mu[k - 1] < mu[k]
    OBVIOUS
  <2> QED
    BY <1>1, <2>1
<1>2. \A g \in [Nat -> Nat], k \in Nat : Body(g, k) \in Nat
  OBVIOUS
<1> HIDE DEF Body
<1>3. PICK f : IsFixedPoint(f, F, Nat, Nat)
  <2>1. Contracts(F, Nat, Nat, mu)
    BY <1>1, <1>2 DEF Contracts
  <2> HIDE DEF F, mu
  <2> QED
    BY <2>1, MeasuredRecursion
<1>4. f \in [Nat -> Nat] /\ f = [k \in Nat |-> Body(f, k)]
  BY <1>3 DEF IsFixedPoint
<1>5. Span = [k \in Nat |-> Body(Span, k)]
  BY <1>4 DEF Span, Body
<1>6. Span \in [Nat -> Nat]
  <2>1. mu \in [Nat -> Nat]
    OBVIOUS
  <2>2. Span = [k \in Nat |-> Span[k]]
    BY <1>5
  <2>3. \A k \in Nat : (\A i \in Nat : mu[i] < mu[k] => f[i] = Span[i]) => f[k] = Span[k]
    BY <1>1, <1>4, <1>5
  <2>4. Follows(Span, f, Nat, mu)
    BY <2>1, <2>2, <2>3 DEF Follows
  <2> HIDE DEF mu
  <2> QED
    BY <1>4, <2>4, SameSolution
<1>7. Span[0] = 1 /\ \A k \in Nat : Span[k + 1] = 128 * Span[k]
  BY <1>5 DEF Body
<1> DEFINE Positive == {k \in Nat : Span[k] > 0}
<1>8. Nat \subseteq Positive
  <2>1. 0 \in Positive
    BY <1>7
  <2>2. \A k \in Nat : k \in Positive => k + 1 \in Positive
    BY <1>6, <1>7
  <2> HIDE DEF Positive
  <2> QED
    BY <2>1, <2>2, NatsByInduction
<1> QED
  BY <1>6, <1>7, <1>8

\* The recursion of Varint.
LEMMA VarintEquation ==
    /\ Varint \in [Nat -> Bytes]
    /\ \A n \in Nat : n < 128 => Varint[n] = <<n>>
    /\ \A n \in Nat : n >= 128 => Varint[n] = <<128 + (n % 128)>> \o Varint[n \div 128]
<1> DEFINE mu == [n \in Nat |-> n]
           Body(g, n) == IF n < 128 THEN <<n>> ELSE <<128 + (n % 128)>> \o g[n \div 128]
           F == [g \in [Nat -> Bytes] |-> [n \in Nat |-> Body(g, n)]]
<1>1. ASSUME NEW g, NEW h, NEW n \in Nat, \A i \in Nat : mu[i] < mu[n] => g[i] = h[i]
      PROVE  Body(g, n) = Body(h, n)
  <2>1. ~(n < 128) => n \div 128 \in Nat /\ mu[n \div 128] < mu[n]
    OBVIOUS
  <2> QED
    BY <1>1, <2>1
<1>2. ASSUME NEW g \in [Nat -> Bytes], NEW n \in Nat PROVE Body(g, n) \in Bytes
  <2>1. n < 128 => n \in Byte
    BY DEF Byte
  <2>2. n \div 128 \in Nat /\ 128 + (n % 128) \in Byte
    BY DEF Byte
  <2>3. g[n \div 128] \in Bytes
    BY <2>2
  <2> QED
    BY <2>1, <2>2, <2>3 DEF Bytes
<1> HIDE DEF Body
<1>3. PICK f : IsFixedPoint(f, F, Nat, Bytes)
  <2>1. Bytes # {}
    BY EmptySeq DEF Bytes
  <2>2. Contracts(F, Nat, Bytes, mu)
    BY <1>1, <1>2, <2>1 DEF Contracts
  <2> HIDE DEF F, mu
  <2> QED
    BY <2>2, MeasuredRecursion
<1>4. f \in [Nat -> Bytes] /\ f = [n \in Nat |-> Body(f, n)]
  BY <1>3 DEF IsFixedPoint
<1>5. Varint = [n \in Nat |-> Body(Varint, n)]
  BY <1>4 DEF Varint, Body
<1>6. Varint \in [Nat -> Bytes]
  <2>1. mu \in [Nat -> Nat]
    OBVIOUS
  <2>2. Varint = [n \in Nat |-> Varint[n]]
    BY <1>5
  <2>3. \A n \in Nat : (\A i \in Nat : mu[i] < mu[n] => f[i] = Varint[i])
            => f[n] = Varint[n]
    BY <1>1, <1>4, <1>5
  <2>4. Follows(Varint, f, Nat, mu)
    BY <2>1, <2>2, <2>3 DEF Follows
  <2> HIDE DEF mu
  <2> QED
    BY <1>4, <2>4, SameSolution
<1>7. \A n \in Nat : Varint[n] = Body(Varint, n)
  BY <1>5
<1>8. \A n \in Nat : n >= 128 => ~(n < 128)
  OBVIOUS
<1> HIDE DEF F
<1> QED
  BY <1>6, <1>7, <1>8, Zenon DEF Body

\* The recursion of Number.
LEMMA NumberEquation ==
    /\ Number \in [Bytes -> Nat] /\ Number[<< >>] = 0
    /\ \A b \in Byte, bytes \in Bytes :
          Number[<<b>> \o bytes] = (b % 128) + 128 * Number[bytes]
<1> DEFINE mu == [w \in Bytes |-> Len(w)]
           Body(g, w) == IF w = << >> THEN 0 ELSE (Head(w) % 128) + 128 * g[Tail(w)]
           F == [g \in [Bytes -> Nat] |-> [w \in Bytes |-> Body(g, w)]]
<1>1. \A w \in Bytes : w # << >> => /\ Tail(w) \in Bytes /\ Head(w) \in Byte
                                   /\ Len(Tail(w)) < Len(w) /\ Len(w) \in Nat
  <2> SUFFICES ASSUME NEW w \in Seq(Byte), w # << >>
               PROVE  /\ Tail(w) \in Seq(Byte) /\ Head(w) \in Byte
                      /\ Len(Tail(w)) < Len(w) /\ Len(w) \in Nat
    BY DEF Bytes
  <2> QED
    BY HeadTailProperties, LenProperties
<1>2. ASSUME NEW g, NEW h, NEW w \in Bytes, \A v \in Bytes : mu[v] < mu[w] => g[v] = h[v]
      PROVE  Body(g, w) = Body(h, w)
  <2>1. w # << >> => Tail(w) \in Bytes /\ mu[Tail(w)] < mu[w]
    BY <1>1
  <2> QED
    BY <1>2, <2>1
<1>3. ASSUME NEW g \in [Bytes -> Nat], NEW w \in Bytes PROVE Body(g, w) \in Nat
  <2>1. w # << >> => g[Tail(w)] \in Nat /\ Head(w) % 128 \in Nat
    <3>1. \A b \in Byte : b % 128 \in Nat
      BY DEF Byte
    <3> QED
      BY <1>1, <3>1
  <2> QED
    BY <2>1
<1> HIDE DEF Body
<1>4. PICK f : IsFixedPoint(f, F, Bytes, Nat)
  <2>1. mu \in [Bytes -> Nat]
    BY LenProperties DEF Bytes
  <2>2. Contracts(F, Bytes, Nat, mu)
    BY <1>2, <1>3, <2>1 DEF Contracts
  <2> HIDE DEF F, mu
  <2> QED
    BY <2>2, MeasuredRecursion
<1>5. f \in [Bytes -> Nat] /\ f = [w \in Bytes |-> Body(f, w)]
  BY <1>4 DEF IsFixedPoint
<1>6. Number = [w \in Bytes |-> Body(Number, w)]
  BY <1>5 DEF Number, Body
<1>7. Number \in [Bytes -> Nat]
  <2>1. mu \in [Bytes -> Nat]
    BY LenProperties DEF Bytes
  <2>2. Number = [w \in Bytes |-> Number[w]]
    BY <1>6
  <2>3. \A w \in Bytes : (\A v \in Bytes : mu[v] < mu[w] => f[v] = Number[v])
            => f[w] = Number[w]
    BY <1>2, <1>5, <1>6
  <2>4. Follows(Number, f, Bytes, mu)
    BY <2>1, <2>2, <2>3 DEF Follows
  <2> HIDE DEF mu
  <2> QED
    BY <1>5, <2>4, SameSolution
<1>8. Number[<< >>] = 0
  <2>1. << >> \in Bytes
    BY EmptySeq DEF Bytes
  <2> QED
    BY <1>6, <2>1 DEF Body
<1>9. ASSUME NEW b \in Byte, NEW w \in Bytes
      PROVE  Number[<<b>> \o w] = (b % 128) + 128 * Number[w]
  <2> DEFINE v == <<b>> \o w
  <2>1. v \in Bytes /\ v # << >> /\ Head(v) = b /\ Tail(v) = w
    BY DEF Bytes
  <2> HIDE DEF v
  <2> QED
    BY <1>6, <2>1 DEF Body, v
<1> QED
  BY <1>7, <1>8, <1>9

\* A least member that is known.
LEMMA MinIs ==
    ASSUME NEW S \in SUBSET Int, NEW x \in S, \A y \in S : x <= y PROVE Min(S) = x
<1> DEFINE Least(m) == m \in S /\ \A y \in S : m <= y
<1>1. Least(x)
  OBVIOUS
<1>2. Min(S) = CHOOSE m : Least(m)
  BY Zenon DEF Min
<1>3. Least(Min(S))
  <2> HIDE DEF Least
  <2> QED
    BY <1>1, <1>2
<1> DEFINE m == Min(S)
<1>4. m \in S /\ x \in S /\ m <= x /\ x <= m /\ m \in Int /\ x \in Int
  BY <1>3
<1> HIDE DEF m
<1>5. m = x
  BY <1>4
<1> QED
  BY <1>5 DEF m

\* Two strings written one after the other are apart again where the first one ends.
LEMMA CutConcat ==
    ASSUME NEW S, NEW s \in Seq(S), NEW t \in Seq(S)
    PROVE  /\ SubSeq(s \o t, 1, Len(s)) = s
           /\ SubSeq(s \o t, Len(s) + 1, Len(s \o t)) = t
<1>1. /\ s \o t \in Seq(S) /\ Len(s \o t) = Len(s) + Len(t)
      /\ \A i \in 1 .. Len(s) + Len(t) :
            (s \o t)[i] = IF i <= Len(s) THEN s[i] ELSE t[i - Len(s)]
  BY ConcatProperties
<1>2. /\ Len(s) \in Nat /\ Len(t) \in Nat
      /\ \A i \in 1 .. Len(s) : s[i] \in S
      /\ \A i \in 1 .. Len(t) : t[i] \in S
  BY LenProperties, ElementOfSeq
<1> DEFINE u == s \o t
<1>3. \A i \in 1 .. Len(s) + Len(t) : u[i] \in S
  BY <1>1, <1>2
<1>4. Len(s \o t) \in Int /\ Len(s) + 1 \in Int /\ Len(s) \in Int /\ 1 \in Int
  BY <1>1, <1>2
<1>5. SubSeq(u, 1, Len(s)) = s
  <2>1. \A i \in 1 .. Len(s) : u[i] \in S
    BY <1>2, <1>3
  <2> HIDE DEF u
  <2>2. /\ SubSeq(u, 1, Len(s)) \in Seq(S)
        /\ Len(SubSeq(u, 1, Len(s))) = IF 1 <= Len(s) THEN Len(s) - 1 + 1 ELSE 0
        /\ \A i \in 1 .. Len(s) - 1 + 1 : SubSeq(u, 1, Len(s))[i] = u[1 + i - 1]
    BY <1>4, <2>1, SubSeqProperties
  <2>3. Len(SubSeq(u, 1, Len(s))) = Len(s)
    BY <1>2, <2>2
  <2>4. \A i \in 1 .. Len(s) : SubSeq(u, 1, Len(s))[i] = s[i]
    BY <1>1, <1>2, <2>2 DEF u
  <2> QED
    BY <2>2, <2>3, <2>4, SeqEqual
<1>6. SubSeq(u, Len(s) + 1, Len(u)) = t
  <2> DEFINE a == Len(s) + 1
             b == Len(u)
             c == SubSeq(u, a, b)
  <2>1. a \in Int /\ b \in Int /\ b = Len(s) + Len(t) /\ b - a + 1 = Len(t)
    BY <1>1, <1>2
  <2>2. \A i \in a .. b : u[i] \in S
    BY <1>2, <1>3, <2>1
  <2> HIDE DEF u, a, b
  <2>3. /\ c \in Seq(S) /\ Len(c) = IF a <= b THEN b - a + 1 ELSE 0
        /\ \A i \in 1 .. b - a + 1 : c[i] = u[a + i - 1]
    BY <2>1, <2>2, SubSeqProperties
  <2>4. Len(c) = Len(t)
    BY <1>2, <2>1, <2>3 DEF a
  <2>5. \A i \in 1 .. Len(t) : c[i] = t[i]
    <3> SUFFICES ASSUME NEW i \in 1 .. Len(t) PROVE c[i] = t[i]
      OBVIOUS
    <3>1. c[i] = u[Len(s) + i]
      <4>1. a + i - 1 = Len(s) + i
        BY <1>2 DEF a
      <4> QED
        BY <2>1, <2>3, <4>1
    <3>2. Len(s) + i \in 1 .. Len(s) + Len(t) /\ ~(Len(s) + i <= Len(s))
              /\ Len(s) + i - Len(s) = i
      BY <1>2
    <3> QED
      BY <1>1, <3>1, <3>2 DEF u
  <2> HIDE DEF c
  <2>6. c = t
    BY <2>3, <2>4, <2>5, SeqEqual
  <2> QED
    BY <2>6 DEF c, a, b
<1> QED
  BY <1>5, <1>6

-----------------------------------------------------------------------------
(* Varints.                                                                *)

\* What the bytes of a varint are: seven bits in each, the last one below 128, and no
\* more of them than the number needs.
Encodes(w, n) ==
    /\ w \in Bytes /\ Len(w) >= 1 /\ Number[w] = n
    /\ \A i \in 1 .. Len(w) : w[i] < 128 <=> i = Len(w)
    /\ \A k \in Nat : Len(w) <= k + 1 <=> n < Span[k + 1]

\* Varint writes bytes that ReadVarint takes for the number, and it stops there.
LEMMA VarintEncodes == \A n \in Nat : Encodes(Varint[n], n)
<1> DEFINE S == {n \in Nat : Encodes(Varint[n], n)}
<1>1. ASSUME NEW n \in Nat, \A k \in Nat : k < n => k \in S PROVE Encodes(Varint[n], n)
  <2>1. CASE n < 128
    <3> DEFINE w == <<n>>
    <3>1. n \in Byte /\ (n % 128) = n
      BY <2>1 DEF Byte
    <3>2. w \in Bytes /\ Len(w) = 1 /\ w[1] = n /\ w = <<n>> \o << >> /\ << >> \in Bytes
      BY <3>1 DEF Bytes
    <3>3. Number[w] = n
      <4>1. Number[<<n>> \o << >>] = (n % 128) + 128 * Number[<< >>] /\ Number[<< >>] = 0
        BY <3>1, <3>2, NumberEquation
      <4> QED
        BY <3>1, <3>2, <4>1
    <3>4. \A k \in Nat : Span[k + 1] >= 128
      <4> SUFFICES ASSUME NEW k \in Nat PROVE Span[k + 1] >= 128
        OBVIOUS
      <4>1. Span[k] \in Nat /\ Span[k] > 0 /\ Span[k + 1] = 128 * Span[k]
        BY SpanEquation
      <4> QED
        BY <4>1
    <3>5. Span \in [Nat -> Nat]
      BY SpanEquation
    <3> HIDE DEF w
    <3>6. Encodes(w, n)
      BY <2>1, <3>2, <3>3, <3>4, <3>5 DEF Encodes
    <3> QED
      BY <2>1, <3>6, VarintEquation DEF w
  <2>2. CASE n >= 128
    <3> DEFINE m == n \div 128
               r == n % 128
               v == Varint[m]
               w == <<128 + r>> \o v
    <3>1. m \in Nat /\ m < n /\ m >= 1 /\ r \in 0 .. 127 /\ n = 128 * m + r
      BY <2>2
    <3>2. Varint[n] = w
      BY <2>2, VarintEquation
    <3> HIDE DEF m, r
    <3>3. Encodes(v, m)
      BY <1>1, <3>1
    <3>4. 128 + r \in Byte /\ (128 + r) % 128 = r
      BY <3>1 DEF Byte
    <3> HIDE DEF v
    <3>5. v \in Bytes /\ Len(v) \in Nat /\ Len(v) >= 1 /\ Number[v] = m
      BY <3>3, LenProperties DEF Encodes, Bytes
    <3>6. /\ w \in Bytes /\ Len(w) = 1 + Len(v) /\ w[1] = 128 + r
          /\ \A i \in 2 .. Len(w) : w[i] = v[i - 1]
      BY <3>4, <3>5 DEF Bytes
    <3>7. Number[w] = n
      <4>1. Number[<<128 + r>> \o v] = ((128 + r) % 128) + 128 * Number[v]
        BY <3>4, <3>5, NumberEquation
      <4> QED
        BY <3>1, <3>4, <3>5, <4>1
    <3> HIDE DEF w
    <3>8. \A i \in 1 .. Len(w) : w[i] < 128 <=> i = Len(w)
      <4> SUFFICES ASSUME NEW i \in 1 .. Len(w) PROVE w[i] < 128 <=> i = Len(w)
        OBVIOUS
      <4>1. CASE i = 1
        BY <3>1, <3>5, <3>6, <4>1
      <4>2. CASE i # 1
        <5>1. i - 1 \in 1 .. Len(v) /\ i \in 2 .. Len(w)
          BY <3>5, <3>6, <4>2
        <5>2. v[i - 1] < 128 <=> i - 1 = Len(v)
          BY <3>3, <5>1 DEF Encodes
        <5> QED
          BY <3>5, <3>6, <5>1, <5>2
      <4> QED
        BY <4>1, <4>2
    <3>9. \A k \in Nat : Len(w) <= k + 1 <=> n < Span[k + 1]
      <4> SUFFICES ASSUME NEW k \in Nat PROVE Len(w) <= k + 1 <=> n < Span[k + 1]
        OBVIOUS
      <4>1. Span[k] \in Nat /\ Span[k + 1] = 128 * Span[k] /\ Span[0] = 1
        BY SpanEquation
      <4>2. CASE k = 0
        BY <2>2, <3>5, <3>6, <4>1, <4>2
      <4>3. CASE k # 0
        <5>1. k - 1 \in Nat /\ k - 1 + 1 = k
          BY <4>3
        <5>2. Len(v) <= k <=> m < Span[k]
          BY <3>3, <5>1 DEF Encodes
        <5> QED
          BY <3>1, <3>5, <3>6, <4>1, <5>2
      <4> QED
        BY <4>2, <4>3
    <3>10. Encodes(w, n)
      BY <3>5, <3>6, <3>7, <3>8, <3>9 DEF Encodes
    <3> QED
      BY <3>2, <3>10
  <2> QED
    BY <2>1, <2>2
<1>2. \A n \in Nat : n \in S
  <2>1. \A n \in Nat : (\A k \in Nat : k < n => k \in S) => n \in S
    BY <1>1
  <2> HIDE DEF S
  <2> QED
    BY <2>1, StrongInduction
<1> QED
  BY <1>2

\* The words have numbers that a varint can hold, and a varint has a byte at least.
LEMMA WordFacts ==
    /\ Word32 \in Nat /\ Word64 \in Nat /\ 128 <= Word32 /\ Word32 <= Word64
    /\ MaxVarint \in Nat /\ MaxVarint >= 1 /\ Span[MaxVarint] \in Nat
    /\ Word64 <= Span[MaxVarint]
<1>1. Span[MaxVarint] \in Nat /\ Span[0] = 1
  BY SpanEquation, WordAssumption
<1> QED
  BY <1>1, WordAssumption

\* VarintSize is the number of bytes written, for every number that a varint can hold.
LEMMA VarintSizeIsLen ==
    ASSUME NEW n \in Nat, n < Span[MaxVarint]
    PROVE  VarintSize(n) = Len(Varint[n])
<1> DEFINE w == Varint[n]
           S == {k \in 1 .. MaxVarint : n < Span[k]} \cup {MaxVarint}
<1>1. Encodes(w, n)
  BY VarintEncodes
<1> HIDE DEF w
<1>2. Len(w) \in Nat /\ Len(w) >= 1
  BY <1>1, LenProperties DEF Encodes, Bytes
<1>3. \A k \in Nat : k >= 1 => (Len(w) <= k <=> n < Span[k])
  <2> SUFFICES ASSUME NEW k \in Nat, k >= 1 PROVE Len(w) <= k <=> n < Span[k]
    OBVIOUS
  <2>1. k - 1 \in Nat /\ k - 1 + 1 = k
    OBVIOUS
  <2> QED
    BY <1>1, <2>1 DEF Encodes
<1>4. Len(w) <= MaxVarint
  BY <1>3, WordFacts
<1>5. Len(w) \in S /\ S \in SUBSET Int /\ \A k \in S : Len(w) <= k
  BY <1>2, <1>3, <1>4, WordFacts
<1>6. Min(S) = Len(w)
  <2> HIDE DEF S
  <2> QED
    BY <1>5, MinIs
<1> QED
  BY <1>6 DEF VarintSize, w

\* A varint that was written is read again, whatever follows it.
LEMMA ReadVarintOf ==
    ASSUME NEW n \in Nat, n < Span[MaxVarint], NEW rest \in Bytes
    PROVE  ReadVarint(Varint[n] \o rest) = Read(TRUE, <<n>>, rest)
<1> DEFINE w == Varint[n]
           in == w \o rest
           last == {i \in 1 .. Min({MaxVarint, Len(in)}) : in[i] < 128}
<1>1. Encodes(w, n)
  BY VarintEncodes
<1> HIDE DEF w
<1>2. w \in Bytes /\ Len(w) \in Nat /\ Len(w) >= 1 /\ Len(rest) \in Nat
  BY <1>1, LenProperties DEF Encodes, Bytes
<1>3. Len(w) <= MaxVarint
  <2>1. MaxVarint - 1 \in Nat /\ MaxVarint - 1 + 1 = MaxVarint
    BY WordFacts
  <2> QED
    BY <1>1, <2>1 DEF Encodes
<1>4. /\ in \in Bytes /\ Len(in) = Len(w) + Len(rest) /\ Len(in) \in Nat
      /\ \A i \in 1 .. Len(w) : in[i] = w[i]
  BY <1>2 DEF Bytes
<1>5. SubSeq(in, 1, Len(w)) = w /\ SubSeq(in, Len(w) + 1, Len(in)) = rest
  BY <1>2, CutConcat DEF Bytes
<1> HIDE DEF in
<1>6. Min({MaxVarint, Len(in)}) \in Nat /\ Len(w) <= Min({MaxVarint, Len(in)})
  <2>1. CASE MaxVarint <= Len(in)
    <3>1. Min({MaxVarint, Len(in)}) = MaxVarint
      <4>1. \A y \in {MaxVarint, Len(in)} : MaxVarint <= y
        BY <2>1, WordFacts
      <4>2. {MaxVarint, Len(in)} \in SUBSET Int
        BY <1>4, WordFacts
      <4> QED
        BY <4>1, <4>2, MinIs
    <3> QED
      BY <1>3, <3>1, WordFacts
  <2>2. CASE Len(in) <= MaxVarint
    <3>1. Min({MaxVarint, Len(in)}) = Len(in)
      <4>1. \A y \in {MaxVarint, Len(in)} : Len(in) <= y
        BY <1>4, <2>2
      <4>2. {MaxVarint, Len(in)} \in SUBSET Int
        BY <1>4, WordFacts
      <4> QED
        BY <4>1, <4>2, MinIs
    <3> QED
      BY <1>2, <1>4, <3>1
  <2> QED
    BY <1>4, <2>1, <2>2, WordFacts
<1>7. Len(w) \in last /\ last \in SUBSET Int /\ \A i \in last : Len(w) <= i
  BY <1>1, <1>2, <1>4, <1>6 DEF Encodes
<1>8. Min(last) = Len(w) /\ last # {}
  <2> HIDE DEF last
  <2> QED
    BY <1>7, MinIs
<1>9. ReadVarint(in) = Then(Take(Len(w), in),
                            LAMBDA bytes, r : Read(TRUE, <<Number[bytes]>>, r))
  BY <1>8 DEF ReadVarint
<1>10. Take(Len(w), in) = Read(TRUE, <<w>>, rest)
  BY <1>5 DEF Take
<1>11. ReadVarint(in) = Read(TRUE, <<Number[w]>>, rest)
  BY <1>9, <1>10 DEF Then, Read
<1> QED
  BY <1>1, <1>11 DEF Encodes, in, w

-----------------------------------------------------------------------------
(* Flattening.                                                             *)

\* FlattenSeq, one sequence after the other.
IsFlattening(F, seqs, V) ==
    /\ F \in [0 .. Len(seqs) -> Seq(V)] /\ F[0] = << >>
    /\ \A i \in 1 .. Len(seqs) : F[i] = F[i - 1] \o seqs[i]
    /\ F[Len(seqs)] = FlattenSeq(seqs)

\* FlattenSeq is what the concatenations one after the other lead to.
LEMMA FlattenSteps ==
    ASSUME NEW V, NEW seqs \in Seq(Seq(V))
    PROVE  \E F : IsFlattening(F, seqs, V)
<1> DEFINE W == Seq(V)
           n == Len(seqs)
           D == 1 .. n
           mu == [i \in D |-> i]
           Body(g, i) == IF i = 1 THEN seqs[i] ELSE g[i - 1] \o seqs[i]
           G == [g \in [D -> W] |-> [i \in D |-> Body(g, i)]]
           h == CHOOSE h : h = [i \in D |-> Body(h, i)]
<1>1. n \in Nat /\ \A i \in D : seqs[i] \in W
  BY LenProperties, ElementOfSeq
<1>4. << >> \in W /\ \A s, t \in W : s \o t \in W /\ << >> \o s = s
  BY EmptySeq, ConcatProperties, ConcatEmptySeq
<1>2. CASE n = 0
  <2> HIDE DEF W
  <2>1. seqs = << >> /\ FlattenSeq(seqs) = << >>
    BY <1>2, EmptySeq DEF FlattenSeq
  <2>2. IsFlattening([i \in 0 .. 0 |-> << >>], seqs, V)
    BY <1>2, <1>4, <2>1 DEF IsFlattening, W
  <2> QED
    BY <2>2
<1>3. CASE n # 0
  <2> HIDE DEF W
  <2>1. FlattenSeq(seqs) = h[n]
    BY <1>3 DEF FlattenSeq
  <2>2. ASSUME NEW g, NEW e, NEW i \in D, \A j \in D : mu[j] < mu[i] => g[j] = e[j]
        PROVE  Body(g, i) = Body(e, i)
    <3>1. i # 1 => i - 1 \in D /\ mu[i - 1] < mu[i]
      BY <1>1
    <3> QED
      BY <2>2, <3>1
  <2>3. ASSUME NEW g \in [D -> W], NEW i \in D PROVE Body(g, i) \in W
    <3>1. i # 1 => i - 1 \in D
      BY <1>1
    <3> HIDE DEF D
    <3>3. i # 1 => g[i - 1] \in W
      BY <2>3, <3>1
    <3>2. seqs[i] \in W
      BY <1>1
    <3> QED
      BY <1>4, <3>2, <3>3
  <2> HIDE DEF Body
  <2>4. PICK f : IsFixedPoint(f, G, D, W)
    <3>1. W # {} /\ mu \in [D -> Nat]
      BY <1>1, <1>4
    <3>2. Contracts(G, D, W, mu)
      BY <2>2, <2>3, <3>1 DEF Contracts
    <3> HIDE DEF G, mu, D, W
    <3> QED
      BY <3>2, MeasuredRecursion
  <2>5. f \in [D -> W] /\ f = [i \in D |-> Body(f, i)]
    BY <2>4 DEF IsFixedPoint
  <2>6. h = [i \in D |-> Body(h, i)]
    BY <2>5
  <2> HIDE DEF h
  <2>7. h \in [D -> W]
    <3>1. mu \in [D -> Nat]
      BY <1>1
    <3>2. h = [i \in D |-> h[i]]
      BY <2>6
    <3>3. \A i \in D : (\A j \in D : mu[j] < mu[i] => f[j] = h[j]) => f[i] = h[i]
      BY <2>2, <2>5, <2>6
    <3>4. Follows(h, f, D, mu)
      BY <3>1, <3>2, <3>3 DEF Follows
    <3> HIDE DEF mu, D
    <3> QED
      BY <2>5, <3>4, SameSolution
  <2> DEFINE F == [i \in 0 .. n |-> IF i = 0 THEN << >> ELSE h[i]]
  <2>8. F \in [0 .. n -> W] /\ F[0] = << >> /\ F[n] = h[n]
    <3>1. \A i \in 0 .. n : i # 0 => h[i] \in W
      <4>1. \A i \in 0 .. n : i # 0 => i \in D
        BY <1>1
      <4> HIDE DEF D
      <4> QED
        BY <2>7, <4>1
    <3>2. << >> \in W
      BY <1>4
    <3> QED
      BY <1>1, <1>3, <3>1, <3>2
  <2>9. ASSUME NEW i \in D PROVE F[i] = F[i - 1] \o seqs[i]
    <3>1. h[i] = Body(h, i)
      BY <2>6
    <3>2. seqs[i] \in W /\ << >> \o seqs[i] = seqs[i]
      BY <1>1, <1>4
    <3>3. CASE i = 1
      BY <1>1, <1>3, <3>1, <3>2, <3>3 DEF Body
    <3>4. CASE i # 1
      <4>1. i - 1 \in 0 .. n /\ i - 1 # 0 /\ i \in 0 .. n /\ i # 0
        BY <1>1, <3>4
      <4> QED
        BY <3>1, <3>4, <4>1 DEF Body
    <3> QED
      BY <3>3, <3>4
  <2> HIDE DEF F
  <2>10. IsFlattening(F, seqs, V)
    BY <2>1, <2>8, <2>9 DEF IsFlattening, W
  <2> QED
    BY <2>10
<1> QED
  BY <1>2, <1>3

\* The elements of the whole are those of the parts.
LEMMA FlattenType ==
    ASSUME NEW V, NEW seqs \in Seq(Seq(V)) PROVE FlattenSeq(seqs) \in Seq(V)
<1>1. PICK F : IsFlattening(F, seqs, V)
  BY FlattenSteps
<1>2. Len(seqs) \in 0 .. Len(seqs)
  BY LenProperties
<1> QED
  BY <1>1, <1>2 DEF IsFlattening

\* The length of the whole is the sum of the lengths.
LEMMA FlattenLen ==
    ASSUME NEW V, NEW seqs \in Seq(Seq(V)), NEW sizes, DOMAIN sizes = 1 .. Len(seqs),
           \A i \in 1 .. Len(seqs) : sizes[i] = Len(seqs[i])
    PROVE  Len(FlattenSeq(seqs)) = SumFunction(sizes)
<1> DEFINE n == Len(seqs)
<1>1. PICK F : IsFlattening(F, seqs, V)
  BY FlattenSteps
<1> DEFINE Q == {k \in Nat : k <= n => SumFunctionOnSet(sizes, 1 .. k) = Len(F[k])}
<1>2. n \in Nat /\ \A i \in 1 .. n : seqs[i] \in Seq(V) /\ Len(seqs[i]) \in Nat
  BY LenProperties, ElementOfSeq
<1>3. \A k \in 0 .. n : F[k] \in Seq(V) /\ Len(F[k]) \in Nat
  <2>1. \A k \in 0 .. n : F[k] \in Seq(V)
    BY <1>1 DEF IsFlattening
  <2> QED
    BY <2>1, LenProperties
<1>4. 0 \in Q
  <2>1. 1 .. 0 = {} /\ Len(F[0]) = 0
    BY <1>1, EmptySeq DEF IsFlattening
  <2> QED
    BY <2>1, SumEmpty
<1>5. ASSUME NEW k \in Nat, k \in Q PROVE k + 1 \in Q
  <2> SUFFICES ASSUME k + 1 <= n PROVE SumFunctionOnSet(sizes, 1 .. k + 1) = Len(F[k + 1])
    OBVIOUS
  <2>1. k + 1 \in 1 .. n /\ k \in 0 .. n /\ k + 1 - 1 = k /\ k <= n
    BY <1>2
  <2>2. F[k + 1] = F[k] \o seqs[k + 1]
    <3>1. \A i \in 1 .. n : F[i] = F[i - 1] \o seqs[i]
      BY <1>1 DEF IsFlattening
    <3> HIDE DEF n
    <3>2. PICK i \in 1 .. n : i = k + 1 /\ i - 1 = k
      BY <2>1
    <3>3. F[i] = F[i - 1] \o seqs[i]
      BY <3>1
    <3> QED
      BY <3>2, <3>3
  <2>3. Len(F[k + 1]) = Len(F[k]) + Len(seqs[k + 1])
    BY <1>2, <1>3, <2>1, <2>2, ConcatProperties
  <2>4. SumFunctionOnSet(sizes, (1 .. k) \cup {k + 1})
            = sizes[k + 1] + SumFunctionOnSet(sizes, 1 .. k)
    <3>1. IsFiniteSet(1 .. k) /\ k + 1 \notin 1 .. k
      BY FS_Interval
    <3>2. \A i \in (1 .. k) \cup {k + 1} : sizes[i] \in Int
      BY <1>2, <2>1
    <3> DEFINE S == 1 .. k
               x == k + 1
    <3> HIDE DEF S, x
    <3> QED
      BY <3>1, <3>2, SumAdd DEF S, x
  <2>5. (1 .. k) \cup {k + 1} = 1 .. k + 1
    OBVIOUS
  <2>6. sizes[k + 1] = Len(seqs[k + 1]) /\ SumFunctionOnSet(sizes, 1 .. k) = Len(F[k])
    BY <1>5, <2>1
  <2>7. Len(seqs[k + 1]) \in Nat /\ Len(F[k]) \in Nat
    BY <1>2, <1>3, <2>1
  <2> DEFINE a == SumFunctionOnSet(sizes, 1 .. k)
             b == SumFunctionOnSet(sizes, (1 .. k) \cup {k + 1})
             c == Len(seqs[k + 1])
  <2>8. b = c + a /\ Len(F[k + 1]) = Len(F[k]) + c /\ a = Len(F[k]) /\ c \in Nat
    BY <2>3, <2>4, <2>6, <2>7
  <2>9. SumFunctionOnSet(sizes, 1 .. k + 1) = b
    BY <2>5
  <2> HIDE DEF a, b, c
  <2>10. b = Len(F[k + 1])
    BY <2>7, <2>8
  <2> QED
    BY <2>9, <2>10
<1>6. n \in Q
  <2> HIDE DEF Q
  <2> QED
    BY <1>2, <1>4, <1>5, NatsByInduction
<1> QED
  BY <1>1, <1>2, <1>6 DEF IsFlattening, SumFunction

\* A member of a sum of naturals is at most the sum.
LEMMA SumMember ==
    ASSUME NEW S, IsFiniteSet(S), NEW f, \A y \in S : f[y] \in Nat
    PROVE  SumFunctionOnSet(f, S) \in Nat /\ \A x \in S : f[x] <= SumFunctionOnSet(f, S)
<1> DEFINE Q == {T \in SUBSET S : SumFunctionOnSet(f, T) \in Nat}
<1>1. {} \in Q
  BY SumEmpty
<1>2. ASSUME NEW T \in SUBSET S, NEW x \in S, T \in Q, x \notin T PROVE T \cup {x} \in Q
  <2>1. IsFiniteSet(T) /\ \A y \in T \cup {x} : f[y] \in Int
    BY FS_Subset
  <2>2. SumFunctionOnSet(f, T \cup {x}) = f[x] + SumFunctionOnSet(f, T)
    BY <1>2, <2>1, SumAdd
  <2> QED
    BY <1>2, <2>2
<1>3. \A T \in SUBSET S : T \in Q
  <2> SUFFICES ASSUME NEW T \in SUBSET S PROVE T \in Q
    OBVIOUS
  <2>1. IsFiniteSet(T)
    BY FS_Subset
  <2>2. \A U \in SUBSET T, x \in T : U \in Q /\ x \notin U => U \cup {x} \in Q
    <3> HIDE DEF Q
    <3> QED
      BY <1>2
  <2> HIDE DEF Q
  <2> QED
    BY <1>1, <2>1, <2>2, FiniteByInduction
<1>4. ASSUME NEW x \in S PROVE f[x] <= SumFunctionOnSet(f, S)
  <2>1. SumFunctionOnSet(f, S) = f[x] + SumFunctionOnSet(f, S \ {x})
    BY SumTakeOut
  <2>2. SumFunctionOnSet(f, S \ {x}) \in Nat
    BY <1>3
  <2>3. f[x] \in Nat
    OBVIOUS
  <2> QED
    BY <2>1, <2>2, <2>3
<1> QED
  BY <1>3, <1>4

-----------------------------------------------------------------------------
(* Reading.                                                                *)

\* What a reader of values of V gives on any input: when it succeeds it has taken
\* something away.
IsReading(r, V, in) ==
    /\ r.ok \in BOOLEAN /\ r.values \in Seq(V) /\ r.rest \in Bytes
    /\ r.ok => Len(r.rest) < Len(in)
IsReadingOne(r, V, in) ==
    /\ IsReading(r, V, in) /\ Len(r.values) <= 1
    /\ r.ok => Len(r.values) = 1 /\ r.values[1] \in V

\* A failed reading is a reading that takes no value.
LEMMA FailedIsReading == \A V, in : IsReadingOne(Failed, V, in)
BY EmptySeq DEF IsReadingOne, IsReading, Failed, Read, Bytes

\* One value taken, and less input left.
LEMMA OneIsReading ==
    ASSUME NEW V, NEW v \in V, NEW ok \in BOOLEAN, NEW rest \in Bytes, NEW in,
           Len(rest) < Len(in)
    PROVE  IsReadingOne(Read(ok, <<v>>, rest), V, in)
BY DEF IsReadingOne, IsReading, Read

\* The first bytes of an input and those behind them.
LEMMA TakeType ==
    ASSUME NEW in \in Bytes, NEW n \in Nat, n <= Len(in)
    PROVE  /\ Take(n, in) = Read(TRUE, <<SubSeq(in, 1, n)>>, SubSeq(in, n + 1, Len(in)))
           /\ SubSeq(in, 1, n) \in Bytes /\ SubSeq(in, n + 1, Len(in)) \in Bytes
           /\ Len(SubSeq(in, n + 1, Len(in))) = Len(in) - n
<1>1. Len(in) \in Nat /\ \A i \in 1 .. Len(in) : in[i] \in Byte
  BY LenProperties, ElementOfSeq DEF Bytes
<1>2. SubSeq(in, 1, n) \in Seq(Byte)
  BY <1>1, SubSeqProperties
<1>3. /\ SubSeq(in, n + 1, Len(in)) \in Seq(Byte)
      /\ Len(SubSeq(in, n + 1, Len(in)))
            = IF n + 1 <= Len(in) THEN Len(in) - (n + 1) + 1 ELSE 0
  <2>1. n + 1 \in Int /\ Len(in) \in Int /\ \A i \in n + 1 .. Len(in) : in[i] \in Byte
    BY <1>1
  <2> QED
    BY <2>1, SubSeqProperties
<1>4. Len(SubSeq(in, n + 1, Len(in))) = Len(in) - n
  BY <1>1, <1>3
<1> QED
  BY <1>2, <1>3, <1>4 DEF Take, Bytes

\* Reading a varint from any string gives a natural number or fails.
LEMMA ReadVarintType ==
    ASSUME NEW in \in Bytes PROVE IsReadingOne(ReadVarint(in), Nat, in)
<1> DEFINE last == {i \in 1 .. Min({MaxVarint, Len(in)}) : in[i] < 128}
           b == Min({MaxVarint, Len(in)})
<1>1. Len(in) \in Nat
  BY LenProperties DEF Bytes
<1>2. b \in Nat /\ b <= Len(in)
  <2>1. {MaxVarint, Len(in)} \in SUBSET Int
    BY <1>1, WordFacts
  <2>2. CASE MaxVarint <= Len(in)
    <3>1. \A y \in {MaxVarint, Len(in)} : MaxVarint <= y
      BY <2>2, WordFacts
    <3>2. b = MaxVarint
      BY <2>1, <3>1, MinIs
    <3> QED
      BY <2>2, <3>2, WordFacts
  <2>3. CASE Len(in) <= MaxVarint
    <3>1. \A y \in {MaxVarint, Len(in)} : Len(in) <= y
      BY <1>1, <2>3
    <3>2. b = Len(in)
      BY <2>1, <3>1, MinIs
    <3> QED
      BY <1>1, <3>2
  <2> QED
    BY <1>1, <2>2, <2>3, WordFacts
<1>3. CASE last = {}
  BY <1>3, FailedIsReading DEF ReadVarint
<1>4. CASE last # {}
  <2> HIDE DEF b
  <2>1. PICK n \in last : \A i \in last : n <= i
    <3>1. last \in SUBSET Nat
      BY <1>2 DEF b
    <3> HIDE DEF last
    <3> QED
      BY <1>4, <3>1, LeastNat
  <2>2. n \in Nat /\ n >= 1 /\ n <= Len(in)
    BY <1>1, <1>2, <2>1 DEF b
  <2>3. Min(last) = n
    <3>1. last \in SUBSET Int
      BY <1>2 DEF b
    <3> HIDE DEF last
    <3> QED
      BY <2>1, <3>1, MinIs
  <2>4. ReadVarint(in) = Then(Take(n, in), LAMBDA bytes, r :
            Read(TRUE, <<Number[bytes]>>, r))
    BY <1>4, <2>3 DEF ReadVarint
  <2> DEFINE s == SubSeq(in, 1, n)
             t == SubSeq(in, n + 1, Len(in))
  <2>5. Take(n, in) = Read(TRUE, <<s>>, t) /\ s \in Bytes /\ t \in Bytes
            /\ Len(t) = Len(in) - n
    BY <2>2, TakeType
  <2> HIDE DEF s, t
  <2>6. ReadVarint(in) = Read(TRUE, <<Number[s]>>, t)
    BY <2>4, <2>5 DEF Then, Read
  <2>7. Number[s] \in Nat
    BY <2>5, NumberEquation
  <2>8. Len(t) < Len(in)
    BY <1>1, <2>2, <2>5
  <2> QED
    BY <2>5, <2>6, <2>7, <2>8, OneIsReading
<1> QED
  BY <1>3, <1>4

\* The types of numbers, and the values they decode to.
IsNumeric(type, V) ==
    \/ type = "bool" /\ V = Bool
    \/ type = "uint32" /\ V = UInt32
    \/ type = "uint64" /\ V = UInt64

\* A field's type has every number decoded, and its own unchanged.
LEMMA DecodeType ==
    ASSUME NEW type, NEW V, IsNumeric(type, V)
    PROVE  /\ \A v \in Nat : Decode(type, v) \in V
           /\ \A v \in V : v \in Nat /\ v < Span[MaxVarint] /\ Decode(type, v) = v
<1>1. CASE type = "bool" /\ V = Bool
  <2>1. \A v \in Nat : Decode(type, v) = IF v = 0 THEN 0 ELSE 1
    BY <1>1 DEF Decode
  <2> QED
    BY <1>1, <2>1, WordFacts DEF Bool
<1>2. CASE type = "uint32" /\ V = UInt32
  <2>1. \A v \in Nat : Decode(type, v) = v % Word32
    BY <1>2 DEF Decode
  <2>2. \A v \in Nat : (v % Word32) \in 0 .. Word32 - 1
    BY ModType, WordFacts
  <2>3. \A v \in 0 .. Word32 - 1 : (v % Word32) = v
    BY WordFacts, ModSmall
  <2>4. 0 .. Word32 - 1 \subseteq Nat /\ \A v \in 0 .. Word32 - 1 : v < Span[MaxVarint]
    BY WordFacts
  <2> QED
    BY <1>2, <2>1, <2>2, <2>3, <2>4, Zenon DEF UInt32
<1>3. CASE type = "uint64" /\ V = UInt64
  <2>1. \A v \in Nat : Decode(type, v) = v % Word64
    BY <1>3 DEF Decode
  <2>2. \A v \in Nat : (v % Word64) \in 0 .. Word64 - 1
    BY ModType, WordFacts
  <2>3. \A v \in 0 .. Word64 - 1 : (v % Word64) = v
    BY WordFacts, ModSmall
  <2>4. 0 .. Word64 - 1 \subseteq Nat /\ \A v \in 0 .. Word64 - 1 : v < Span[MaxVarint]
    BY WordFacts
  <2> QED
    BY <1>3, <2>1, <2>2, <2>3, <2>4, Zenon DEF UInt64
<1> QED
  BY <1>1, <1>2, <1>3 DEF IsNumeric

\* Whatever the input, a number read is of its type and uses the input up.
LEMMA ReadPrimitiveType ==
    ASSUME NEW type, NEW V, IsNumeric(type, V), NEW in \in Bytes
    PROVE  IsReadingOne(ReadPrimitive(type, in), V, in)
<1> DEFINE r == ReadVarint(in)
<1>1. IsReadingOne(r, Nat, in)
  BY ReadVarintType
<1>2. ReadPrimitive(type, in) = IF r.ok
          THEN Read(TRUE, <<Decode(type, r.values[1])>>, r.rest)
                                ELSE Failed
  BY DEF ReadPrimitive, Then
<1> HIDE DEF r
<1>3. CASE r.ok
  <2>1. r.values[1] \in Nat /\ r.rest \in Bytes /\ Len(r.rest) < Len(in)
    BY <1>1, <1>3 DEF IsReadingOne, IsReading
  <2>2. Decode(type, r.values[1]) \in V
    BY <2>1, DecodeType
  <2> QED
    BY <1>2, <1>3, <2>1, <2>2, OneIsReading
<1>4. CASE ~r.ok
  BY <1>2, <1>4, FailedIsReading
<1> QED
  BY <1>3, <1>4

\* A number written is read, and what follows it is left.
LEMMA ReadPrimitiveOf ==
    ASSUME NEW type, NEW n \in Nat, n < Span[MaxVarint], NEW rest \in Bytes
    PROVE  ReadPrimitive(type, Varint[n] \o rest) = Read(TRUE, <<Decode(type, n)>>, rest)
<1>1. ReadVarint(Varint[n] \o rest) = Read(TRUE, <<n>>, rest)
  BY ReadVarintOf
<1> QED
  BY <1>1 DEF ReadPrimitive, Then, Read

\* Length-delimited data, from any string and from what was written.
LEMMA ReadBytesType ==
    ASSUME NEW in \in Bytes PROVE IsReadingOne(ReadBytes(in), Bytes, in)
<1> DEFINE r == ReadPrimitive("uint32", in)
           n == r.values[1]
<1>1. IsReadingOne(r, UInt32, in)
  BY ReadPrimitiveType DEF IsNumeric
<1>2. ReadBytes(in) = IF r.ok THEN IF n > Len(r.rest) THEN Failed ELSE Take(n, r.rest)
                      ELSE Failed
  BY DEF ReadBytes, Then
<1> HIDE DEF r
<1>3. CASE r.ok /\ ~(n > Len(r.rest))
  <2>1. n \in Nat /\ r.rest \in Bytes /\ Len(r.rest) < Len(in)
    BY <1>1, <1>3, WordFacts DEF IsReadingOne, IsReading, UInt32
  <2>2. Len(r.rest) \in Nat /\ Len(in) \in Nat
    BY <2>1, LenProperties DEF Bytes
  <2>5. n <= Len(r.rest)
    BY <1>3, <2>1, <2>2
  <2> DEFINE in2 == r.rest
             s == SubSeq(in2, 1, n)
             t == SubSeq(in2, n + 1, Len(in2))
  <2> HIDE DEF n, in2
  <2>3. /\ Take(n, in2) = Read(TRUE, <<s>>, t) /\ s \in Bytes /\ t \in Bytes
        /\ Len(t) = Len(in2) - n
    BY <2>1, <2>5, TakeType DEF in2
  <2>4. Len(t) < Len(in)
    BY <2>1, <2>2, <2>3 DEF in2
  <2> HIDE DEF s, t
  <2> QED
    BY <1>2, <1>3, <2>3, <2>4, OneIsReading DEF in2, n
<1>4. CASE ~(r.ok /\ ~(n > Len(r.rest)))
  BY <1>2, <1>4, FailedIsReading
<1> QED
  BY <1>3, <1>4

\* Data written with its length is read, and what follows it is left.
LEMMA ReadBytesOf ==
    ASSUME NEW data \in Bytes, Len(data) < Word32, NEW rest \in Bytes
    PROVE  ReadBytes(Varint[Len(data)] \o (data \o rest)) = Read(TRUE, <<data>>, rest)
<1> DEFINE n == Len(data)
           in == data \o rest
<1>1. n \in Nat /\ n < Span[MaxVarint] /\ n \in UInt32 /\ Len(rest) \in Nat
  BY LenProperties, WordFacts DEF Bytes, UInt32
<1>2. in \in Bytes /\ Len(in) = n + Len(rest)
  BY ConcatProperties DEF Bytes
<1>3. SubSeq(in, 1, n) = data /\ SubSeq(in, n + 1, Len(in)) = rest
  BY CutConcat DEF Bytes
<1> HIDE DEF n, in
<1>4. ReadPrimitive("uint32", Varint[n] \o in) = Read(TRUE, <<n>>, in)
  <2>1. Decode("uint32", n) = n
    BY <1>1, DecodeType DEF IsNumeric
  <2> QED
    BY <1>1, <1>2, <2>1, ReadPrimitiveOf
<1>5. ~(n > Len(in))
  BY <1>1, <1>2
<1>6. Take(n, in) = Read(TRUE, <<data>>, rest)
  BY <1>3 DEF Take
<1> DEFINE r == ReadPrimitive("uint32", Varint[n] \o in)
<1>7. ReadBytes(Varint[n] \o in)
          = IF r.ok THEN IF r.values[1] > Len(r.rest) THEN Failed
              ELSE Take(r.values[1], r.rest)
            ELSE Failed
  BY DEF ReadBytes, Then
<1>8. r.ok /\ r.values[1] = n /\ r.rest = in
  BY <1>4 DEF Read
<1> HIDE DEF r
<1>9. ReadBytes(Varint[n] \o in) = Read(TRUE, <<data>>, rest)
  BY <1>5, <1>6, <1>7, <1>8
<1> QED
  BY <1>9 DEF n, in

\* Strings of bytes can be written one after the other, in any grouping.
LEMMA BytesConcat ==
    /\ << >> \in Bytes
    /\ \A s, t \in Bytes : s \o t \in Bytes /\ s \o << >> = s /\ << >> \o s = s
BY EmptySeq, ConcatProperties, ConcatEmptySeq DEF Bytes

\* Concatenation of strings in any grouping.
LEMMA BytesAssociative ==
    ASSUME NEW s \in Bytes, NEW t \in Bytes, NEW u \in Bytes
    PROVE  (s \o t) \o u = s \o (t \o u)
BY ConcatAssociative DEF Bytes

\* Concatenation of any sequences in any grouping.
LEMMA Associative ==
    ASSUME NEW V, NEW s \in Seq(V), NEW t \in Seq(V), NEW u \in Seq(V)
    PROVE  (s \o t) \o u = s \o (t \o u)
BY ConcatAssociative

\* The recursion of ReadElements: more(g, in) is what it gives for a string when g is
\* what it gives for shorter ones.
MoreElements(type, g, in) ==
    IF in = << >> THEN Read(TRUE, << >>, << >>)
    ELSE IF ~ReadPrimitive(type, in).ok THEN Failed
    ELSE Read(g[ReadPrimitive(type, in).rest].ok,
              ReadPrimitive(type, in).values \o g[ReadPrimitive(type, in).rest].values,
                  << >>)

IsElements(e, type, V) ==
    /\ e \in [Bytes -> [ok : BOOLEAN, values : Seq(V), rest : {<< >>}]]
    /\ \A in \in Bytes : e[in] = MoreElements(type, e, in)
    /\ \A data \in Bytes : ReadElements(type, data) = e[data]

\* The loop over a packed field has a solution: each element uses the data up.
LEMMA ElementsExist ==
    ASSUME NEW type, NEW V, IsNumeric(type, V)
    PROVE  \E e : IsElements(e, type, V)
<1> DEFINE R == [ok : BOOLEAN, values : Seq(V), rest : {<< >>}]
           mu == [in \in Bytes |-> Len(in)]
           F == [g \in [Bytes -> R] |-> [in \in Bytes |-> MoreElements(type, g, in)]]
           e == CHOOSE e : e = [in \in Bytes |-> MoreElements(type, e, in)]
<1>1. mu \in [Bytes -> Nat]
  BY LenProperties DEF Bytes
<1>2. \A in \in Bytes : ReadPrimitive(type, in).ok =>
          /\ ReadPrimitive(type, in).rest \in Bytes
          /\ Len(ReadPrimitive(type, in).rest) < Len(in)
          /\ ReadPrimitive(type, in).values \in Seq(V)
  BY ReadPrimitiveType DEF IsReadingOne, IsReading
<1>3. ASSUME NEW g, NEW h, NEW in \in Bytes, \A i \in Bytes : mu[i] < mu[in]
                 => g[i] = h[i]
      PROVE  MoreElements(type, g, in) = MoreElements(type, h, in)
  <2>1. ReadPrimitive(type, in).ok =>
            g[ReadPrimitive(type, in).rest] = h[ReadPrimitive(type, in).rest]
    BY <1>2, <1>3
  <2> QED
    BY <2>1, Zenon DEF MoreElements
<1>4. ASSUME NEW g \in [Bytes -> R], NEW in \in Bytes
      PROVE  MoreElements(type, g, in) \in R
  <2>1. << >> \in Seq(V)
    BY EmptySeq
  <2>2. \A ok \in BOOLEAN, vs \in Seq(V) : Read(ok, vs, << >>) \in R
    BY DEF Read
  <2>3. CASE in = << >>
    BY <2>1, <2>2, <2>3 DEF MoreElements
  <2>4. CASE in # << >> /\ ~ReadPrimitive(type, in).ok
    BY <2>1, <2>2, <2>4 DEF MoreElements, Failed
  <2>5. CASE in # << >> /\ ReadPrimitive(type, in).ok
    <3> DEFINE r == ReadPrimitive(type, in)
    <3>1. r.rest \in Bytes /\ r.values \in Seq(V) /\ r.ok
      BY <1>2, <2>5
    <3>2. MoreElements(type, g, in)
              = Read(g[r.rest].ok, r.values \o g[r.rest].values, << >>)
      BY <2>5 DEF MoreElements
    <3> HIDE DEF r
    <3>3. g[r.rest].ok \in BOOLEAN /\ g[r.rest].values \in Seq(V)
      BY <3>1
    <3>4. r.values \o g[r.rest].values \in Seq(V)
      BY <3>1, <3>3, ConcatProperties
    <3> HIDE DEF R
    <3> QED
      BY <2>2, <3>2, <3>3, <3>4
  <2> QED
    BY <2>3, <2>4, <2>5
<1>5. PICK f : IsFixedPoint(f, F, Bytes, R)
  <2>1. R # {}
    <3>1. Read(TRUE, << >>, << >>) \in R
      BY EmptySeq DEF Read
    <3> QED
      BY <3>1
  <2> HIDE DEF R
  <2>2. Contracts(F, Bytes, R, mu)
    BY <1>1, <1>3, <1>4, <2>1 DEF Contracts
  <2> HIDE DEF F, mu
  <2> QED
    BY <2>2, MeasuredRecursion
<1> HIDE DEF R
<1>6. f \in [Bytes -> R] /\ f = [in \in Bytes |-> MoreElements(type, f, in)]
  BY <1>5 DEF IsFixedPoint
<1>7. e = [in \in Bytes |-> MoreElements(type, e, in)]
  BY <1>6
<1>8. \A data \in Bytes : ReadElements(type, data) = e[data]
  BY Zenon DEF ReadElements, MoreElements
<1> HIDE DEF e
<1>9. e \in [Bytes -> R]
  <2>1. e = [in \in Bytes |-> e[in]]
    BY <1>7
  <2>2. \A in \in Bytes : (\A i \in Bytes : mu[i] < mu[in] => f[i] = e[i])
            => f[in] = e[in]
    BY <1>3, <1>6, <1>7
  <2>3. Follows(e, f, Bytes, mu)
    BY <1>1, <2>1, <2>2 DEF Follows
  <2> HIDE DEF mu
  <2> QED
    BY <1>6, <2>3, SameSolution
<1>10. \A in \in Bytes : e[in] = MoreElements(type, e, in)
  BY <1>7
<1>11. IsElements(e, type, V)
  BY <1>8, <1>9, <1>10 DEF IsElements, R
<1> QED
  BY <1>11

\* The varints of several numbers.
Varints(values) == Each(values, LAMBDA v : Varint[v])

\* The loop reads what Varints has written, element after element.
LEMMA VarintsAreChunks ==
    ASSUME NEW values \in Seq(Nat)
    PROVE  /\ [i \in DOMAIN values |-> Varint[values[i]]] \in Seq(Bytes)
           /\ Len([i \in DOMAIN values |-> Varint[values[i]]]) = Len(values)
           /\ Varints(values) = FlattenSeq([i \in DOMAIN values |-> Varint[values[i]]])
           /\ Varints(values) \in Bytes
<1> DEFINE c == [i \in 1 .. Len(values) |-> Varint[values[i]]]
<1>1. Len(values) \in Nat /\ DOMAIN values = 1 .. Len(values)
      /\ \A i \in 1 .. Len(values) : values[i] \in Nat
  BY LenProperties, ElementOfSeq
<1>2. c \in Seq(Bytes) /\ Len(c) = Len(values)
  BY <1>1, VarintEquation
<1>3. Varints(values) = FlattenSeq(c)
  BY <1>1 DEF Varints, Each
<1>4. FlattenSeq(c) \in Seq(Byte)
  <2> HIDE DEF c
  <2> QED
    BY <1>2, FlattenType DEF Bytes
<1> QED
  BY <1>1, <1>2, <1>3, <1>4 DEF Bytes

\* Numbers written one after the other are read again up to the end.
LEMMA ReadElementsOf ==
    ASSUME NEW type, NEW V, IsNumeric(type, V), NEW values \in Seq(V)
    PROVE  /\ ReadElements(type, Varints(values)) = Read(TRUE, values, << >>)
           /\ Varints(values) \in Bytes
<1> DEFINE n == Len(values)
           c == [i \in DOMAIN values |-> Varint[values[i]]]
<1>1. n \in Nat /\ DOMAIN values = 1 .. n /\ \A i \in 1 .. n : values[i] \in V
  BY LenProperties, ElementOfSeq
<1>2. /\ \A v \in V : v \in Nat /\ v < Span[MaxVarint] /\ Decode(type, v) = v
      /\ values \in Seq(Nat)
  <2>1. \A v \in V : v \in Nat /\ v < Span[MaxVarint] /\ Decode(type, v) = v
    BY DecodeType
  <2>2. V \subseteq Nat
    BY <2>1
  <2> QED
    BY <2>1, <2>2, SeqMonotonic
<1>3. /\ c \in Seq(Bytes) /\ Len(c) = n /\ Varints(values) = FlattenSeq(c)
      /\ Varints(values) \in Bytes
      /\ \A i \in 1 .. n : c[i] = Varint[values[i]]
  BY <1>1, <1>2, VarintsAreChunks
<1> HIDE DEF c
<1>4. PICK e : IsElements(e, type, V)
  BY ElementsExist
<1>5. PICK F : IsFlattening(F, c, Byte)
  BY <1>3, FlattenSteps DEF Bytes
<1>6. \A i \in 0 .. n : F[i] \in Bytes
  BY <1>3, <1>5 DEF IsFlattening, Bytes
<1> DEFINE Good(k) == \A rest \in Bytes :
                          e[F[k] \o rest]
                              = Read(e[rest].ok, SubSeq(values, 1, k) \o e[rest].values,
                                  << >>)
           Q == {k \in Nat : k <= n => Good(k)}
<1>7. \A in \in Bytes : /\ e[in] = Read(e[in].ok, e[in].values, << >>)
                        /\ e[in].values \in Seq(V)
  <2>1. e \in [Bytes -> [ok : BOOLEAN, values : Seq(V), rest : {<< >>}]]
    BY <1>4 DEF IsElements
  <2> QED
    BY <2>1 DEF Read
<1>8. 0 \in Q
  <2> SUFFICES ASSUME NEW rest \in Bytes
               PROVE  e[F[0] \o rest]
                          = Read(e[rest].ok, SubSeq(values, 1, 0) \o e[rest].values,
                              << >>)
    OBVIOUS
  <2>1. F[0] = << >> /\ F[0] \o rest = rest
    BY <1>5, ConcatEmptySeq DEF IsFlattening, Bytes
  <2>2. SubSeq(values, 1, 0) = << >> /\ << >> \o e[rest].values = e[rest].values
    BY <1>7, SubSeqEmpty, ConcatEmptySeq
  <2> QED
    BY <1>7, <2>1, <2>2
<1>9. ASSUME NEW k \in Nat, k \in Q PROVE k + 1 \in Q
  <2> SUFFICES ASSUME k + 1 <= n, NEW rest \in Bytes
               PROVE  e[F[k + 1] \o rest]
                        = Read(e[rest].ok, SubSeq(values, 1, k + 1) \o e[rest].values,
                            << >>)
    OBVIOUS
  <2>1. PICK j \in 1 .. n : j = k + 1 /\ j - 1 = k /\ k \in 0 .. n /\ k <= n
    BY <1>1
  <2> DEFINE v == values[j]
             w == Varint[v]
  <2>2. F[j] = F[k] \o w
    <3>1. \A i \in 1 .. n : F[i] = F[i - 1] \o c[i]
      BY <1>3, <1>5 DEF IsFlattening
    <3> QED
      BY <1>3, <2>1, <3>1
  <2>3. v \in V /\ v \in Nat /\ v < Span[MaxVarint] /\ Decode(type, v) = v
    BY <1>1, <1>2
  <2>4. ReadPrimitive(type, w \o rest) = Read(TRUE, <<v>>, rest)
    BY <2>3, ReadPrimitiveOf
  <2>5. w \in Bytes /\ w # << >>
    <3>1. Encodes(w, v)
      BY <2>3, VarintEncodes
    <3> QED
      BY <3>1, EmptySeq DEF Encodes
  <2> HIDE DEF v, w
  <2>6. w \o rest \in Bytes /\ w \o rest # << >>
    BY <2>5, ConcatProperties, ConcatEqualIffEmpty DEF Bytes
  <2>7. e[w \o rest] = Read(e[rest].ok, <<v>> \o e[rest].values, << >>)
    <3>1. e[w \o rest] = MoreElements(type, e, w \o rest)
      BY <1>4, <2>6 DEF IsElements
    <3>2. /\ ReadPrimitive(type, w \o rest).ok
               /\ ReadPrimitive(type, w \o rest).rest = rest
          /\ ReadPrimitive(type, w \o rest).values = <<v>>
      BY <2>4 DEF Read
    <3> QED
      BY <2>6, <3>1, <3>2, Zenon DEF MoreElements
  <2>8. F[j] \o rest = F[k] \o (w \o rest)
    <3>1. F[k] \in Bytes
      BY <1>6, <2>1
    <3>2. (F[k] \o w) \o rest = F[k] \o (w \o rest)
      BY <2>5, <3>1, BytesAssociative
    <3> QED
      BY <2>2, <3>2
  <2>9. e[F[k] \o (w \o rest)]
           = Read(e[w \o rest].ok, SubSeq(values, 1, k) \o e[w \o rest].values, << >>)
    BY <1>9, <2>1, <2>6
  <2>10. e[w \o rest].ok = e[rest].ok /\ e[w \o rest].values = <<v>> \o e[rest].values
    BY <2>7 DEF Read
  <2>11. SubSeq(values, 1, k) \o (<<v>> \o e[rest].values)
           = SubSeq(values, 1, j) \o e[rest].values
    <3>1. SubSeq(values, 1, j) = SubSeq(values, 1, j - 1) \o <<values[j]>>
      <4>1. 1 \in 1 .. n /\ j \in 1 .. n
        BY <1>1, <2>1
      <4> QED
        BY <1>1, <4>1, SubSeqRecursiveSecond
    <3>2. SubSeq(values, 1, k) \in Seq(V)
      <4>1. \A i \in 1 .. k : values[i] \in V
        BY <1>1, <2>1
      <4> QED
        BY <4>1, SubSeqProperties
    <3>3. <<v>> \in Seq(V) /\ e[rest].values \in Seq(V)
      BY <1>7, <2>3
    <3>4. (SubSeq(values, 1, k) \o <<v>>) \o e[rest].values
             = SubSeq(values, 1, k) \o (<<v>> \o e[rest].values)
      <4> DEFINE a == SubSeq(values, 1, k)
                 b == <<v>>
                 d == e[rest].values
      <4>1. a \in Seq(V) /\ b \in Seq(V) /\ d \in Seq(V)
        BY <3>2, <3>3
      <4> HIDE DEF a, b, d
      <4>2. (a \o b) \o d = a \o (b \o d)
        BY <4>1, Associative
      <4> QED
        BY <4>2 DEF a, b, d
    <3> QED
      BY <2>1, <3>1, <3>4 DEF v
  <2> QED
    BY <2>1, <2>8, <2>9, <2>10, <2>11
<1>10. Good(n)
  <2>1. n \in Q
    <3> HIDE DEF Q
    <3> QED
      BY <1>1, <1>8, <1>9, NatsByInduction
  <2> QED
    BY <1>1, <2>1
<1>11. e[<< >>] = Read(TRUE, << >>, << >>) /\ << >> \in Bytes
  <2>1. << >> \in Bytes
    BY EmptySeq DEF Bytes
  <2> QED
    BY <1>4, <2>1 DEF IsElements, MoreElements
<1>12. F[n] = Varints(values) /\ F[n] \o << >> = F[n]
  <2>1. F[n] = Varints(values)
    BY <1>3, <1>5 DEF IsFlattening
  <2> QED
    BY <1>3, <2>1, ConcatEmptySeq DEF Bytes
<1>13. SubSeq(values, 1, n) = values /\ values \o << >> = values
  BY SubSeqFull, ConcatEmptySeq
<1>14. e[F[n] \o << >>] = Read(e[<< >>].ok, SubSeq(values, 1, n) \o e[<< >>].values,
           << >>)
  BY <1>10, <1>11
<1>15. e[<< >>].ok = TRUE /\ e[<< >>].values = << >>
  BY <1>11 DEF Read
<1>16. ReadElements(type, Varints(values)) = e[Varints(values)]
  BY <1>3, <1>4 DEF IsElements
<1> QED
  BY <1>3, <1>12, <1>13, <1>14, <1>15, <1>16

\* The bytes of several varints are as many as VarintsSize computes.
LEMMA VarintsSizeIsLen ==
    ASSUME NEW type, NEW V, IsNumeric(type, V), NEW values \in Seq(V)
    PROVE  Len(Varints(values)) = VarintsSize(values)
<1> DEFINE c == [i \in DOMAIN values |-> Varint[values[i]]]
           sizes == [i \in DOMAIN values |-> VarintSize(values[i])]
<1>1. DOMAIN values = 1 .. Len(values) /\ \A i \in 1 .. Len(values) : values[i] \in V
  BY LenProperties, ElementOfSeq
<1>2. \A v \in V : v \in Nat /\ VarintSize(v) = Len(Varint[v])
  BY DecodeType, VarintSizeIsLen
<1>3. c \in Seq(Bytes) /\ Len(c) = Len(values) /\ Varints(values) = FlattenSeq(c)
  <2>1. V \subseteq Nat
    BY <1>2
  <2>2. values \in Seq(Nat)
    BY <2>1, SeqMonotonic
  <2> QED
    BY <2>2, VarintsAreChunks
<1>4. DOMAIN sizes = 1 .. Len(c) /\ \A i \in 1 .. Len(c) : sizes[i] = Len(c[i])
  BY <1>1, <1>2, <1>3
<1> HIDE DEF c, sizes
<1>5. Len(FlattenSeq(c)) = SumFunction(sizes)
  BY <1>3, <1>4, FlattenLen DEF Bytes
<1> QED
  BY <1>3, <1>5 DEF VarintsSize, sizes

\* A bit takes one byte.
LEMMA BitsSize ==
    ASSUME NEW bits \in Seq(Bool) PROVE Len(Varints(bits)) = Len(bits)
<1> DEFINE sizes == [i \in DOMAIN bits |-> VarintSize(bits[i])]
<1>1. /\ Len(bits) \in Nat /\ DOMAIN bits = 1 .. Len(bits)
      /\ \A i \in 1 .. Len(bits) : bits[i] \in Bool
  BY LenProperties, ElementOfSeq
<1>2. ASSUME NEW v \in Bool PROVE VarintSize(v) = 1
  <2>1. v \in Nat /\ v < 128 /\ v < Span[MaxVarint]
    <3>1. v \in Nat /\ v < 128
      BY DEF Bool
    <3> QED
      BY <3>1, WordFacts
  <2>2. Varint[v] = <<v>>
    BY <2>1, VarintEquation
  <2> QED
    BY <2>1, <2>2, VarintSizeIsLen
<1>3. /\ DOMAIN sizes = 1 .. Len(bits)
      /\ \A i \in 1 .. Len(bits) : sizes[i] = 1
  BY <1>1, <1>2
<1>4. VarintsSize(bits) = SumFunctionOnSet(sizes, 1 .. Len(bits))
  BY <1>1 DEF VarintsSize, SumFunction
<1> HIDE DEF sizes
<1>5. IsFiniteSet(1 .. Len(bits)) /\ Cardinality(1 .. Len(bits)) = Len(bits)
  <2>1. 0 \in Int /\ 1 \in Int /\ Len(bits) \in Int /\ Len(bits) - 1 + 1 = Len(bits)
    BY <1>1
  <2>2. IsFiniteSet(1 .. Len(bits))
    BY <2>1, FS_Interval
  <2>3. Cardinality(1 .. Len(bits)) = IF 1 > Len(bits) THEN 0 ELSE Len(bits) - 1 + 1
    BY <2>1, FS_Interval
  <2> QED
    BY <1>1, <2>2, <2>3
<1>6. SumFunctionOnSet(sizes, 1 .. Len(bits)) = Cardinality(1 .. Len(bits))
  BY <1>3, <1>5, SumOnes
<1>7. Len(Varints(bits)) = VarintsSize(bits)
  BY VarintsSizeIsLen DEF IsNumeric
<1> QED
  BY <1>4, <1>5, <1>6, <1>7

\* Whatever the input, the values of a packed field are of its type.
LEMMA ReadPackedType ==
    ASSUME NEW type, NEW V, IsNumeric(type, V), NEW in \in Bytes
    PROVE  IsReading(ReadPacked(type, in), V, in)
<1> DEFINE r == ReadBytes(in)
           x == ReadElements(type, r.values[1])
<1>1. IsReadingOne(r, Bytes, in)
  BY ReadBytesType
<1>2. ReadPacked(type, in) = IF r.ok THEN Read(x.ok, x.values, r.rest) ELSE Failed
  BY DEF ReadPacked, Then
<1>3. PICK e : IsElements(e, type, V)
  BY ElementsExist
<1> HIDE DEF r
<1>4. CASE r.ok
  <2>1. r.values[1] \in Bytes /\ r.rest \in Bytes /\ Len(r.rest) < Len(in)
    BY <1>1, <1>4 DEF IsReadingOne, IsReading
  <2>2. x.ok \in BOOLEAN /\ x.values \in Seq(V)
    <3>1. x \in [ok : BOOLEAN, values : Seq(V), rest : {<< >>}]
      BY <1>3, <2>1 DEF IsElements
    <3> QED
      BY <3>1
  <2> HIDE DEF x
  <2> QED
    BY <1>2, <1>4, <2>1, <2>2 DEF IsReading, Read
<1>5. CASE ~r.ok
  BY <1>2, <1>5, FailedIsReading DEF IsReadingOne
<1> QED
  BY <1>4, <1>5

\* A packed field written is read, and what follows it is left.
LEMMA ReadPackedOf ==
    ASSUME NEW type, NEW V, IsNumeric(type, V), NEW values \in Seq(V),
           Len(Varints(values)) < Word32, NEW rest \in Bytes
    PROVE  ReadPacked(type, Varint[Len(Varints(values))] \o (Varints(values) \o rest))
              = Read(TRUE, values, rest)
<1> DEFINE data == Varints(values)
           r == ReadBytes(Varint[Len(data)] \o (data \o rest))
           x == ReadElements(type, r.values[1])
<1>1. data \in Bytes /\ ReadElements(type, data) = Read(TRUE, values, << >>)
  BY ReadElementsOf
<1>2. r = Read(TRUE, <<data>>, rest)
  <2> HIDE DEF data
  <2> QED
    BY <1>1, ReadBytesOf DEF data
<1>3. ReadPacked(type, Varint[Len(data)] \o (data \o rest))
          = IF r.ok THEN Read(x.ok, x.values, r.rest) ELSE Failed
  BY DEF ReadPacked, Then
<1> HIDE DEF r, data
<1>4. r.ok /\ r.values[1] = data /\ r.rest = rest
  BY <1>2 DEF Read
<1>5. x.ok /\ x.values = values
  BY <1>1, <1>4 DEF Read
<1> HIDE DEF x
<1>6. x.ok = TRUE
  <2>1. x = Read(TRUE, values, << >>)
    BY <1>1, <1>4 DEF x
  <2> QED
    BY <2>1 DEF Read
<1> QED
  BY <1>3, <1>4, <1>5, <1>6 DEF data

-----------------------------------------------------------------------------
(* Reading a message.                                                      *)

\* What the reader of a class gives for any field of any string.
IsField(r, C, in) ==
    /\ r.ok \in BOOLEAN /\ r.m \in C /\ r.rest \in Bytes
    /\ r.ok => Len(r.rest) <= Len(in)
IsReader(ReadField, C) ==
    /\ C # {}
    /\ \A m \in C, tag \in Nat, in \in Bytes :
         IsField(ReadField[Field(m, tag, in)], C, in)

\* The recursion of MergeFields: more fields are read when g reads shorter strings.
TagOf(in) == ReadPrimitive("uint32", in)
FieldOf(ReadField, m, in) == ReadField[Field(m, TagOf(in).values[1], TagOf(in).rest)]
MoreFields(ReadField, g, m, in) ==
    IF in = << >> THEN Merged(TRUE, m)
    ELSE IF ~TagOf(in).ok \/ TagOf(in).values = <<0>> THEN Merged(FALSE, m)
    ELSE IF ~FieldOf(ReadField, m, in).ok THEN Merged(FALSE, FieldOf(ReadField, m, in).m)
    ELSE g[Input(FieldOf(ReadField, m, in).m, FieldOf(ReadField, m, in).rest)]

IsMerge(merge, C, ReadField) ==
    \A m \in C, in \in Bytes :
        /\ merge[Input(m, in)].ok \in BOOLEAN /\ merge[Input(m, in)].m \in C
        /\ merge[Input(m, in)] = MoreFields(ReadField, merge, m, in)

\* A field leaves a message of the class and less input.
LEMMA FieldOfType ==
    ASSUME NEW C, NEW ReadField, IsReader(ReadField, C), NEW m \in C, NEW in \in Bytes,
           TagOf(in).ok
    PROVE  /\ FieldOf(ReadField, m, in).m \in C
           /\ FieldOf(ReadField, m, in).ok =>
                 /\ FieldOf(ReadField, m, in).rest \in Bytes
                 /\ Len(FieldOf(ReadField, m, in).rest) < Len(in)
<1> DEFINE t == TagOf(in)
           r == FieldOf(ReadField, m, in)
<1>1. IsReadingOne(t, UInt32, in)
  BY ReadPrimitiveType DEF IsNumeric, TagOf
<1>2. t.values[1] \in Nat /\ t.rest \in Bytes /\ Len(t.rest) < Len(in)
  BY <1>1, WordFacts DEF IsReadingOne, IsReading, UInt32
<1>3. r = ReadField[Field(m, t.values[1], t.rest)]
  BY DEF FieldOf
<1> HIDE DEF t, r
<1>4. IsField(r, C, t.rest)
  BY <1>2, <1>3 DEF IsReader
<1>5. r.rest \in Bytes
  BY <1>4 DEF IsField
<1>6. Len(t.rest) \in Nat /\ Len(in) \in Nat /\ Len(r.rest) \in Nat
  BY <1>2, <1>5, LenProperties DEF Bytes
<1>7. r.m \in C /\ (r.ok => r.rest \in Bytes /\ Len(r.rest) < Len(in))
  BY <1>2, <1>4, <1>6 DEF IsField
<1> QED
  BY <1>7 DEF r

\* The loop over the fields has a solution: each field uses the input up.
LEMMA MergeExists ==
    ASSUME NEW C, NEW ReadField, IsReader(ReadField, C)
    PROVE  IsMerge(MergeFields(C, ReadField), C, ReadField)
<1> DEFINE R == [ok : BOOLEAN, m : C]
           D == Inputs(C)
           mu == [s \in D |-> Len(s.in)]
           F == [g \in [D -> R] |-> [s \in D |-> MoreFields(ReadField, g, s.m, s.in)]]
           e == MergeFields(C, ReadField)
           f(s) == FieldOf(ReadField, s.m, s.in)
<1>1. /\ mu \in [D -> Nat]
      /\ \A s \in D : s.m \in C /\ s.in \in Bytes /\ mu[s] = Len(s.in)
      /\ \A m \in C, in \in Bytes : Input(m, in) \in D /\ Input(m, in).m = m
           /\ Input(m, in).in = in
  BY LenProperties DEF Bytes, Inputs, Input
<1> HIDE DEF mu, D
<1>2. ASSUME NEW s \in D, TagOf(s.in).ok
      PROVE  /\ f(s).m \in C
             /\ f(s).ok => Input(f(s).m, f(s).rest) \in D
                  /\ mu[Input(f(s).m, f(s).rest)] < mu[s]
  <2>1. f(s).m \in C /\ (f(s).ok => f(s).rest \in Bytes /\ Len(f(s).rest) < Len(s.in))
    BY <1>1, <1>2, FieldOfType
  <2> DEFINE a == f(s).m
             b == f(s).rest
  <2>2. f(s).ok => Input(a, b) \in D /\ mu[Input(a, b)] = Len(b)
    <3> HIDE DEF a, b
    <3>1. a \in C /\ b \in Bytes => Input(a, b) \in D /\ mu[Input(a, b)] = Len(b)
      BY <1>1
    <3> QED
      BY <2>1, <3>1 DEF a, b
  <2> QED
    BY <1>1, <2>1, <2>2
<1>3. ASSUME NEW g, NEW h, NEW s \in D, \A x \in D : mu[x] < mu[s] => g[x] = h[x]
      PROVE  MoreFields(ReadField, g, s.m, s.in) = MoreFields(ReadField, h, s.m, s.in)
  <2>1. TagOf(s.in).ok /\ f(s).ok =>
            g[Input(f(s).m, f(s).rest)] = h[Input(f(s).m, f(s).rest)]
    BY <1>2, <1>3
  <2> QED
    BY <2>1, Zenon DEF MoreFields
<1>4. ASSUME NEW g \in [D -> R], NEW s \in D
      PROVE  MoreFields(ReadField, g, s.m, s.in) \in R
  <2>1. \A ok \in BOOLEAN, c \in C : Merged(ok, c) \in R
    BY DEF Merged
  <2> HIDE DEF R
  <2>2. TagOf(s.in).ok /\ f(s).ok => g[Input(f(s).m, f(s).rest)] \in R
    BY <1>2, <1>4
  <2>3. TagOf(s.in).ok => f(s).m \in C
    BY <1>2
  <2> QED
    BY <1>1, <2>1, <2>2, <2>3 DEF MoreFields
<1>5. PICK h : IsFixedPoint(h, F, D, R)
  <2>1. R # {}
    <3>1. PICK c : c \in C
      BY DEF IsReader
    <3>2. Merged(TRUE, c) \in R
      BY <3>1 DEF Merged
    <3> QED
      BY <3>2
  <2> HIDE DEF R
  <2>2. \A g \in [D -> R] : F[g] = [s \in D |-> MoreFields(ReadField, g, s.m, s.in)]
    OBVIOUS
  <2> HIDE DEF F
  <2>3. \A g \in [D -> R] : F[g] \in [D -> R]
    BY <1>4, <2>2
  <2>4. ASSUME NEW g \in [D -> R], NEW h \in [D -> R], NEW s \in D,
               \A x \in D : mu[x] < mu[s] => g[x] = h[x]
        PROVE  F[g][s] = F[h][s]
    <3>1. MoreFields(ReadField, g, s.m, s.in) = MoreFields(ReadField, h, s.m, s.in)
      BY <1>3, <2>4, Zenon
    <3>2. F[g][s] = MoreFields(ReadField, g, s.m, s.in)
      BY <2>2, Zenon
    <3>3. F[h][s] = MoreFields(ReadField, h, s.m, s.in)
      BY <2>2, Zenon
    <3> QED
      BY <3>1, <3>2, <3>3, Zenon
  <2>5. Contracts(F, D, R, mu)
    BY <1>1, <2>1, <2>3, <2>4, Zenon DEF Contracts
  <2> QED
    BY <2>5, MeasuredRecursion
<1> HIDE DEF R
<1>6. h \in [D -> R] /\ h = [s \in D |-> MoreFields(ReadField, h, s.m, s.in)]
  BY <1>5 DEF IsFixedPoint
<1>7. e = [s \in D |-> MoreFields(ReadField, e, s.m, s.in)]
  <2> DEFINE Solves(x) == x = [s \in D |-> MoreFields(ReadField, x, s.m, s.in)]
  <2>1. e = CHOOSE x : Solves(x)
    BY Zenon DEF MergeFields, MoreFields, FieldOf, TagOf, D
  <2>2. Solves(h)
    BY <1>6
  <2> HIDE DEF Solves
  <2>3. Solves(e)
    BY <2>1, <2>2
  <2> QED
    BY <2>3 DEF Solves
<1> HIDE DEF e
<1>8. e \in [D -> R]
  <2>1. e = [s \in D |-> e[s]]
    BY <1>7
  <2>2. \A s \in D : (\A x \in D : mu[x] < mu[s] => h[x] = e[x]) => h[s] = e[s]
    BY <1>3, <1>6, <1>7
  <2>3. Follows(e, h, D, mu)
    BY <1>1, <2>1, <2>2 DEF Follows
  <2> QED
    BY <1>6, <2>3, SameSolution
<1>9. ASSUME NEW m \in C, NEW in \in Bytes
      PROVE  /\ e[Input(m, in)].ok \in BOOLEAN /\ e[Input(m, in)].m \in C
             /\ e[Input(m, in)] = MoreFields(ReadField, e, m, in)
  <2> DEFINE s == Input(m, in)
  <2>1. s \in D /\ s.m = m /\ s.in = in
    BY <1>1
  <2> HIDE DEF s
  <2>2. e[s] \in R /\ e[s] = MoreFields(ReadField, e, s.m, s.in)
    BY <1>7, <1>8, <2>1
  <2> QED
    BY <2>1, <2>2 DEF s, R
<1> QED
  BY <1>9 DEF IsMerge, e

\* chunk takes the message from m to m2, whatever follows it.
Reads(merge, m, chunk, m2) ==
    \A rest \in Bytes : merge[Input(m, chunk \o rest)] = merge[Input(m2, rest)]

\* The empty string changes no message.
LEMMA ReadsNothing == \A merge, m : Reads(merge, m, << >>, m)
BY BytesConcat, Zenon DEF Reads

\* What is read from two strings is read from the one they make.
LEMMA ReadsBoth ==
    ASSUME NEW merge, NEW m, NEW m2, NEW m3, NEW c \in Bytes, NEW d \in Bytes,
           Reads(merge, m, c, m2), Reads(merge, m2, d, m3)
    PROVE  Reads(merge, m, c \o d, m3)
<1> SUFFICES ASSUME NEW rest \in Bytes
             PROVE  merge[Input(m, (c \o d) \o rest)] = merge[Input(m3, rest)]
  BY DEF Reads
<1>1. (c \o d) \o rest = c \o (d \o rest) /\ d \o rest \in Bytes
  BY BytesAssociative, BytesConcat
<1>2. merge[Input(m, c \o (d \o rest))] = merge[Input(m2, d \o rest)]
  BY <1>1 DEF Reads
<1>3. merge[Input(m2, d \o rest)] = merge[Input(m3, rest)]
  BY DEF Reads
<1> QED
  BY <1>1, <1>2, <1>3, Zenon

\* The whole string, when nothing follows.
LEMMA ReadsAll ==
    ASSUME NEW C, NEW ReadField, NEW merge, IsMerge(merge, C, ReadField),
           NEW m, NEW c \in Bytes, NEW m2 \in C, Reads(merge, m, c, m2)
    PROVE  merge[Input(m, c)] = Merged(TRUE, m2)
<1>1. c \o << >> = c /\ << >> \in Bytes
  BY BytesConcat
<1>2. merge[Input(m, c \o << >>)] = merge[Input(m2, << >>)]
  BY <1>1 DEF Reads
<1>3. merge[Input(m2, << >>)] = Merged(TRUE, m2)
  BY <1>1, Zenon DEF IsMerge, MoreFields
<1> QED
  BY <1>1, <1>2, <1>3

\* One field: a tag and a body that the class's reader takes.
TakesBody(ReadField, m, tag, body, m2) ==
    \A rest \in Bytes :
        ReadField[Field(m, tag, body \o rest)] = [ok |-> TRUE, m |-> m2, rest |-> rest]

\* A tag and the body that ReadField takes are read as that field.
LEMMA ReadsField ==
    ASSUME NEW C, NEW ReadField, NEW merge, IsMerge(merge, C, ReadField),
           NEW m \in C, NEW m2, NEW tag \in 1 .. Word32 - 1, NEW body \in Bytes,
           TakesBody(ReadField, m, tag, body, m2)
    PROVE  /\ Varint[tag] \o body \in Bytes
           /\ Reads(merge, m, Varint[tag] \o body, m2)
<1> DEFINE w == Varint[tag]
<1>1. tag \in Nat /\ tag # 0 /\ tag < Span[MaxVarint] /\ Decode("uint32", tag) = tag
  <2>1. tag \in UInt32 /\ tag # 0
    BY WordFacts DEF UInt32
  <2>2. IsNumeric("uint32", UInt32)
    BY DEF IsNumeric
  <2> QED
    BY <2>1, <2>2, DecodeType
<1>2. w \in Bytes /\ w # << >>
  <2>1. Encodes(w, tag)
    BY <1>1, VarintEncodes
  <2> QED
    BY <2>1, EmptySeq DEF Encodes
<1>3. w \o body \in Bytes
  BY <1>2, BytesConcat
<1>4. ASSUME NEW rest \in Bytes
      PROVE  merge[Input(m, (w \o body) \o rest)] = merge[Input(m2, rest)]
  <2> DEFINE in == w \o (body \o rest)
             t == TagOf(in)
  <2>1. (w \o body) \o rest = in /\ body \o rest \in Bytes /\ in \in Bytes
    <3> HIDE DEF w
    <3>1. (w \o body) \o rest = w \o (body \o rest)
      BY <1>2, BytesAssociative
    <3>2. body \o rest \in Bytes
      BY BytesConcat
    <3>3. w \o (body \o rest) \in Bytes
      BY <1>2, <3>2, BytesConcat
    <3> QED
      BY <3>1, <3>2, <3>3
  <2>2. t = Read(TRUE, <<tag>>, body \o rest)
    BY <1>1, <2>1, ReadPrimitiveOf DEF TagOf
  <2>3. in # << >>
    BY <1>2, <2>1, ConcatEqualIffEmpty DEF Bytes
  <2> HIDE DEF w, in
  <2>4. t.ok /\ t.values = <<tag>> /\ t.rest = body \o rest
    BY <2>2 DEF Read
  <2>5. FieldOf(ReadField, m, in) = [ok |-> TRUE, m |-> m2, rest |-> rest]
    <3>1. FieldOf(ReadField, m, in) = ReadField[Field(m, tag, body \o rest)]
      BY <2>4 DEF FieldOf
    <3> QED
      BY <3>1 DEF TakesBody
  <2>6. FieldOf(ReadField, m, in).ok /\ FieldOf(ReadField, m, in).m = m2
        /\ FieldOf(ReadField, m, in).rest = rest
    BY <2>5
  <2>7. merge[Input(m, in)] = MoreFields(ReadField, merge, m, in)
    BY <2>1 DEF IsMerge
  <2>8. t.values # <<0>>
    BY <1>1, <2>4
  <2>9. MoreFields(ReadField, merge, m, in) = merge[Input(m2, rest)]
    BY <2>3, <2>4, <2>6, <2>8, Zenon DEF MoreFields
  <2> QED
    BY <2>1, <2>7, <2>9, Zenon
<1> QED
  BY <1>3, <1>4 DEF Reads

\* Several chunks, which take the message from M[0] to M[1], and so on.
ReadsChunks(merge, c, M) ==
    \A i \in 1 .. Len(c) : Reads(merge, M[i - 1], c[i], M[i])

\* A sequence of strings that are read one by one is read as a whole.
LEMMA ReadsEach ==
    ASSUME NEW merge, NEW c \in Seq(Bytes), NEW M, ReadsChunks(merge, c, M)
    PROVE  /\ FlattenSeq(c) \in Bytes
           /\ Reads(merge, M[0], FlattenSeq(c), M[Len(c)])
<1> DEFINE n == Len(c)
<1>1. n \in Nat /\ \A i \in 1 .. n : c[i] \in Bytes
  BY LenProperties, ElementOfSeq
<1>2. PICK F : IsFlattening(F, c, Byte)
  BY FlattenSteps DEF Bytes
<1>3. \A i \in 0 .. n : F[i] \in Bytes
  BY <1>2 DEF IsFlattening, Bytes
<1>4. F[0] = << >> /\ F[n] = FlattenSeq(c) /\ \A i \in 1 .. n : F[i] = F[i - 1] \o c[i]
  BY <1>2 DEF IsFlattening
<1> DEFINE Q == {k \in Nat : k <= n => Reads(merge, M[0], F[k], M[k])}
<1>5. 0 \in Q
  BY <1>4, ReadsNothing
<1>6. ASSUME NEW k \in Nat, k \in Q PROVE k + 1 \in Q
  <2> SUFFICES ASSUME k + 1 <= n PROVE Reads(merge, M[0], F[k + 1], M[k + 1])
    OBVIOUS
  <2>1. PICK j \in 1 .. n : j = k + 1 /\ j - 1 = k /\ k \in 0 .. n /\ k <= n
    BY <1>1
  <2>2. Reads(merge, M[j - 1], c[j], M[j])
    BY <2>1 DEF ReadsChunks
  <2>3. Reads(merge, M[0], F[k], M[k])
    BY <1>6, <2>1
  <2>4. F[j] = F[k] \o c[j]
    BY <1>4, <2>1
  <2>5. F[k] \in Bytes /\ c[j] \in Bytes
    BY <1>1, <1>3, <2>1
  <2>6. Reads(merge, M[k], c[j], M[j])
    BY <2>1, <2>2
  <2>7. Reads(merge, M[0], F[k] \o c[j], M[j])
    <3> HIDE DEF n
    <3> QED
      BY <2>3, <2>5, <2>6, ReadsBoth
  <2> QED
    BY <2>1, <2>4, <2>7
<1>7. n \in Q
  <2> HIDE DEF Q
  <2> QED
    BY <1>1, <1>5, <1>6, NatsByInduction
<1> QED
  BY <1>1, <1>3, <1>4, <1>7

-----------------------------------------------------------------------------
(* Fields.                                                                 *)

\* Whatever the input, a submessage is of its class and uses the input up.
LEMMA ReadMessageType ==
    ASSUME NEW C, NEW ReadField, NEW merge, IsMerge(merge, C, ReadField),
           NEW m \in C, NEW in \in Bytes
    PROVE  IsReadingOne(ReadMessage(merge, m, in), C, in)
<1> DEFINE r == ReadBytes(in)
           x == merge[Input(m, r.values[1])]
<1>1. IsReadingOne(r, Bytes, in)
  BY ReadBytesType
<1>2. ReadMessage(merge, m, in) = IF r.ok THEN Read(x.ok, <<x.m>>, r.rest) ELSE Failed
  BY DEF ReadMessage, Then
<1> HIDE DEF r
<1>3. CASE r.ok
  <2>1. r.values[1] \in Bytes /\ r.rest \in Bytes /\ Len(r.rest) < Len(in)
    BY <1>1, <1>3 DEF IsReadingOne, IsReading
  <2>2. x.ok \in BOOLEAN /\ x.m \in C
    BY <2>1 DEF IsMerge
  <2> HIDE DEF x
  <2> QED
    BY <1>2, <1>3, <2>1, <2>2, OneIsReading
<1>4. CASE ~r.ok
  BY <1>2, <1>4, FailedIsReading
<1> QED
  BY <1>3, <1>4

\* data is what new becomes x by.
ParsesTo(merge, new, data, x) == merge[Input(new, data)] = Merged(TRUE, x)

\* A submessage written with its length is read, and what follows it is left.
LEMMA ReadMessageOf ==
    ASSUME NEW merge, NEW m, NEW data \in Bytes, Len(data) < Word32, NEW rest \in Bytes,
           NEW x, ParsesTo(merge, m, data, x)
    PROVE  ReadMessage(merge, m, Varint[Len(data)] \o (data \o rest))
               = Read(TRUE, <<x>>, rest)
<1> DEFINE r == ReadBytes(Varint[Len(data)] \o (data \o rest))
           y == merge[Input(m, r.values[1])]
<1>1. r = Read(TRUE, <<data>>, rest)
  BY ReadBytesOf
<1>2. ReadMessage(merge, m, Varint[Len(data)] \o (data \o rest))
          = IF r.ok THEN Read(y.ok, <<y.m>>, r.rest) ELSE Failed
  BY DEF ReadMessage, Then
<1> HIDE DEF r
<1>3. r.ok /\ r.values[1] = data /\ r.rest = rest
  BY <1>1 DEF Read
<1>4. y = Merged(TRUE, x)
  BY <1>3 DEF ParsesTo
<1> HIDE DEF y
<1>5. y.ok = TRUE /\ y.m = x
  BY <1>4 DEF Merged
<1> QED
  BY <1>2, <1>3, <1>5

\* The values that a field of a message can take, whatever is read.
Grows(m, field, V, C) == \A s \in Seq(V) : [m EXCEPT ![field] = @ \o s] \in C
Changes(m, field, V, C) == \A s \in Single(V) : [m EXCEPT ![field] = Later(@, s)] \in C

\* A repeated field stays of its type.
LEMMA AppendedType ==
    ASSUME NEW C, NEW m, NEW field, NEW V, Grows(m, field, V, C),
           NEW in \in Bytes, NEW r, IsReading(r, V, in)
    PROVE  IsField(Appended(m, field, r), C, in)
<1>1. r.ok \in BOOLEAN /\ r.values \in Seq(V) /\ r.rest \in Bytes
  BY DEF IsReading
<1>2. r.ok => Len(r.rest) <= Len(in)
  BY <1>1, LenProperties DEF IsReading, Bytes
<1> DEFINE m2 == [m EXCEPT ![field] = @ \o r.values]
<1>3. m2 \in C
  BY <1>1 DEF Grows
<1>4. Appended(m, field, r) = [ok |-> r.ok, m |-> m2, rest |-> r.rest]
  BY DEF Appended
<1> HIDE DEF m2
<1> QED
  BY <1>1, <1>2, <1>3, <1>4 DEF IsField

\* A single field stays of its type.
LEMMA ReplacedType ==
    ASSUME NEW C, NEW m, NEW field, NEW V, Changes(m, field, V, C),
           NEW in \in Bytes, NEW r, IsReadingOne(r, V, in)
    PROVE  IsField(Replaced(m, field, r), C, in)
<1>1. r.ok \in BOOLEAN /\ r.values \in Single(V) /\ r.rest \in Bytes
  BY DEF IsReading, IsReadingOne, Single
<1>2. r.ok => Len(r.rest) <= Len(in)
  BY <1>1, LenProperties DEF IsReading, IsReadingOne, Bytes
<1> DEFINE m2 == [m EXCEPT ![field] = Later(@, r.values)]
<1>3. m2 \in C
  BY <1>1 DEF Changes
<1>4. Replaced(m, field, r) = [ok |-> r.ok, m |-> m2, rest |-> r.rest]
  BY DEF Replaced
<1> HIDE DEF m2
<1> QED
  BY <1>1, <1>2, <1>3, <1>4 DEF IsField

\* A numeric repeated field stays of its type, packed or not.
LEMMA NumbersType ==
    ASSUME NEW C, NEW m, NEW field, NEW type, NEW V, IsNumeric(type, V),
           Grows(m, field, V, C),
           NEW tag, NEW in \in Bytes
    PROVE  IsField(Numbers(m, field, type, tag, in), C, in)
<1> DEFINE r == IF WireType(tag) = LENGTH_DELIMITED THEN ReadPacked(type, in)
                                                    ELSE ReadPrimitive(type, in)
<1>1. IsReading(r, V, in)
  <2>1. IsReading(ReadPacked(type, in), V, in)
    BY ReadPackedType
  <2>2. IsReading(ReadPrimitive(type, in), V, in)
    BY ReadPrimitiveType DEF IsReadingOne
  <2> QED
    BY <2>1, <2>2
<1>2. Numbers(m, field, type, tag, in) = Appended(m, field, r)
  BY DEF Numbers
<1> HIDE DEF r
<1> QED
  BY <1>1, <1>2, AppendedType

\* A field of another number leaves the message and uses the input up.
LEMMA SkipType ==
    ASSUME NEW C, NEW m \in C, NEW tag \in Nat, NEW in \in Bytes
    PROVE  IsField(Skip(m, tag, in), C, in)
<1> DEFINE r == CASE WireType(tag) = VARINT           -> ReadVarint(in)
                  [] WireType(tag) = LENGTH_DELIMITED -> ReadBytes(in)
                  [] OTHER                            -> Failed
<1>1. r.ok \in BOOLEAN /\ r.rest \in Bytes /\ (r.ok => Len(r.rest) < Len(in))
  <2>1. \A V : IsReadingOne(Failed, V, in)
    BY FailedIsReading
  <2>2. IsReadingOne(ReadVarint(in), Nat, in) /\ IsReadingOne(ReadBytes(in), Bytes, in)
    BY ReadVarintType, ReadBytesType
  <2>3. \/ WireType(tag) = VARINT /\ r = ReadVarint(in)
        \/ r = ReadBytes(in)
        \/ r = Failed
    BY DEF VARINT, LENGTH_DELIMITED
  <2> HIDE DEF r
  <2> QED
    BY <2>1, <2>2, <2>3 DEF IsReadingOne, IsReading
<1>2. Skip(m, tag, in) = [ok |-> r.ok, m |-> m, rest |-> r.rest]
  BY DEF Skip
<1> HIDE DEF r
<1>3. Len(in) \in Nat /\ Len(r.rest) \in Nat
  BY <1>1, LenProperties DEF Bytes
<1> QED
  BY <1>1, <1>2, <1>3 DEF IsField

\* A tag of one of the first fields takes one byte.
LEMMA TagFacts ==
    ASSUME NEW number \in 1 .. 5
    PROVE  /\ Tag(number, VARINT) = 8 * number
                /\ Tag(number, LENGTH_DELIMITED) = 8 * number + 2
           /\ \A type \in {VARINT, LENGTH_DELIMITED} :
                 /\ Tag(number, type) \in 1 .. Word32 - 1 /\ Tag(number, type) \in Nat
                 /\ Varint[Tag(number, type)] = <<Tag(number, type)>>
                 /\ FieldNumber(Tag(number, type)) = number
                      /\ WireType(Tag(number, type)) = type
<1>1. VARINT = 0 /\ LENGTH_DELIMITED = 2 /\ number * 8 = 8 * number
  BY DEF VARINT, LENGTH_DELIMITED
<1>2. ASSUME NEW type \in {0, 2}
      PROVE  /\ 8 * number + type \in 1 .. Word32 - 1 /\ 8 * number + type \in Nat
             /\ 8 * number + type < 128
             /\ (8 * number + type) \div 8 = number /\ (8 * number + type) % 8 = type
  <2>1. 128 <= Word32 /\ Word32 \in Nat
    BY WordFacts
  <2> QED
    BY <2>1
<1> QED
  BY <1>1, <1>2, VarintEquation DEF Tag, FieldNumber, WireType

\* A varint is a string of bytes of its computed size.
LEMMA VarintFacts ==
    ASSUME NEW n \in Nat, n < Word32
    PROVE  Varint[n] \in Bytes /\ VarintSize(n) \in Nat /\ Len(Varint[n]) = VarintSize(n)
<1>1. n < Span[MaxVarint]
  BY WordFacts
<1>2. Varint[n] \in Bytes
  BY VarintEquation
<1>3. Len(Varint[n]) \in Nat
  BY <1>2, LenProperties DEF Bytes
<1> QED
  BY <1>1, <1>2, <1>3, VarintSizeIsLen

\* The length of a string is a number.
LEMMA BytesLen == \A s \in Bytes : Len(s) \in Nat
BY LenProperties DEF Bytes
\* The length of two strings together.
LEMMA BytesConcatLen == \A s, t \in Bytes : Len(s \o t) = Len(s) + Len(t)
BY ConcatProperties DEF Bytes

\* A length-delimited field.
TakesData(ReadField, m, number, data, m2) ==
    \A rest \in Bytes :
        ReadField[Field(m, Tag(number, LENGTH_DELIMITED),
            Varint[Len(data)] \o (data \o rest))]
            = [ok |-> TRUE, m |-> m2, rest |-> rest]

\* A delimited field has its size, one byte for the tag included.
LEMMA DelimitedLen ==
    ASSUME NEW number \in 1 .. 5, NEW data \in Bytes, Len(data) < Word32
    PROVE  /\ Delimited(number, Len(data), data) \in Bytes
           /\ Len(Delimited(number, Len(data), data)) = 1 + DelimitedSize(Len(data))
           /\ Varint[Len(data)] \o data \in Bytes
<1> DEFINE t == Varint[Tag(number, LENGTH_DELIMITED)]
           w == Varint[Len(data)]
<1>1. t \in Bytes /\ Len(t) = 1
  <2>1. t = <<Tag(number, LENGTH_DELIMITED)>> /\ Tag(number, LENGTH_DELIMITED) \in Nat
    BY TagFacts
  <2>2. t \in Bytes
    BY <2>1, VarintEquation
  <2> QED
    BY <2>1, <2>2
<1>2. Len(data) \in Nat /\ w \in Bytes /\ Len(w) = VarintSize(Len(data))
      /\ VarintSize(Len(data)) \in Nat
  BY BytesLen, VarintFacts
<1>3. Delimited(number, Len(data), data) = t \o (w \o data)
  BY DEF Delimited
<1> HIDE DEF t, w
<1>4. w \o data \in Bytes /\ Len(w \o data) = Len(w) + Len(data)
  BY <1>2, BytesConcat, BytesConcatLen
<1>5. t \o (w \o data) \in Bytes /\ Len(t \o (w \o data)) = Len(t) + Len(w \o data)
  BY <1>1, <1>4, BytesConcat, BytesConcatLen
<1> QED
  BY <1>1, <1>2, <1>3, <1>4, <1>5 DEF DelimitedSize, w

\* A delimited field is read as the data it holds.
LEMMA DelimitedField ==
    ASSUME NEW C, NEW ReadField, NEW merge, IsMerge(merge, C, ReadField),
           NEW m \in C, NEW m2, NEW number \in 1 .. 5, NEW data \in Bytes,
           Len(data) < Word32,
           TakesData(ReadField, m, number, data, m2)
    PROVE  Reads(merge, m, Delimited(number, Len(data), data), m2)
<1> DEFINE tag == Tag(number, LENGTH_DELIMITED)
           w == Varint[Len(data)]
           body == w \o data
<1>1. body \in Bytes /\ w \in Bytes
  BY DelimitedLen, VarintFacts, BytesLen
<1>2. tag \in 1 .. Word32 - 1
  BY TagFacts
<1>3. TakesBody(ReadField, m, tag, body, m2)
  <2> HIDE DEF tag
  <2> SUFFICES ASSUME NEW rest \in Bytes
               PROVE  ReadField[Field(m, tag, body \o rest)]
                          = [ok |-> TRUE, m |-> m2, rest |-> rest]
    BY DEF TakesBody
  <2>1. body \o rest = w \o (data \o rest)
    <3> HIDE DEF w
    <3> QED
      BY <1>1, BytesAssociative
  <2>2. ReadField[Field(m, tag, w \o (data \o rest))]
            = [ok |-> TRUE, m |-> m2, rest |-> rest]
    BY Zenon DEF TakesData, tag
  <2> QED
    BY <2>1, <2>2, Zenon
<1>4. Delimited(number, Len(data), data) = Varint[tag] \o body
  BY DEF Delimited
<1> HIDE DEF tag, body
<1>5. Reads(merge, m, Varint[tag] \o body, m2)
  BY <1>1, <1>2, <1>3, ReadsField
<1> QED
  BY <1>4, <1>5, Zenon

\* A field with a number.
LEMMA NumberField ==
    ASSUME NEW C, NEW ReadField, NEW merge, IsMerge(merge, C, ReadField),
           NEW m \in C, NEW m2, NEW number \in 1 .. 5, NEW v \in UInt32,
           TakesBody(ReadField, m, Tag(number, VARINT), Varint[v], m2)
    PROVE  Reads(merge, m, WriteUInt32(number, v), m2)
<1>1. v \in Nat /\ v < Word32
  BY WordFacts DEF UInt32
<1>2. Varint[v] \in Bytes
  BY <1>1, VarintFacts
<1>3. Tag(number, VARINT) \in 1 .. Word32 - 1
  BY TagFacts
<1> QED
  BY <1>2, <1>3, ReadsField, Zenon DEF WriteUInt32

\* A numeric field has its size, one byte for the tag included.
LEMMA NumberLen ==
    ASSUME NEW number \in 1 .. 5, NEW v \in UInt32
    PROVE  /\ WriteUInt32(number, v) \in Bytes
           /\ Len(WriteUInt32(number, v)) = 1 + VarintSize(v) /\ VarintSize(v) \in Nat
<1> DEFINE t == Varint[Tag(number, VARINT)]
           w == Varint[v]
<1>1. v \in Nat /\ v < Word32
  BY WordFacts DEF UInt32
<1>2. w \in Bytes /\ Len(w) = VarintSize(v) /\ VarintSize(v) \in Nat
  BY <1>1, VarintFacts
<1>3. t \in Bytes /\ Len(t) = 1
  <2>1. t = <<Tag(number, VARINT)>> /\ Tag(number, VARINT) \in Nat
    BY TagFacts
  <2>2. t \in Bytes
    BY <2>1, VarintEquation
  <2> QED
    BY <2>1, <2>2
<1>4. WriteUInt32(number, v) = t \o w
  BY DEF WriteUInt32
<1> HIDE DEF t, w
<1>5. t \o w \in Bytes /\ Len(t \o w) = Len(t) + Len(w)
  BY <1>2, <1>3, BytesConcat, BytesConcatLen
<1> QED
  BY <1>2, <1>3, <1>4, <1>5

\* A packed field.
LEMMA PackedLen ==
    ASSUME NEW number \in 1 .. 5, NEW type, NEW V, IsNumeric(type, V),
           NEW values \in Seq(V),
           Len(Varints(values)) < Word32
    PROVE  /\ WritePacked(number, Len(Varints(values)), values) \in Bytes
           /\ Len(WritePacked(number, Len(Varints(values)), values))
                = PackedSize(Len(Varints(values)))
<1> DEFINE data == Varints(values)
<1>1. data \in Bytes /\ Len(data) \in Nat
  BY ReadElementsOf, BytesLen
<1>2. data = << >> <=> values = << >>
  <2>1. ReadElements(type, data) = Read(TRUE, values, << >>)
    BY ReadElementsOf
  <2>2. \A x, y : Read(TRUE, x, << >>) = Read(TRUE, y, << >>) => x = y
    BY DEF Read
  <2>3. CASE values = << >>
    BY <2>3, VarintsAreChunks, EmptySeq DEF FlattenSeq
  <2>4. CASE data = << >>
    <3>1. << >> \in Seq(V) /\ Varints(<< >>) = << >>
      BY VarintsAreChunks, EmptySeq DEF FlattenSeq
    <3>2. ReadElements(type, Varints(<< >>)) = Read(TRUE, << >>, << >>)
      BY <3>1, ReadElementsOf
    <3> QED
      BY <2>1, <2>2, <2>4, <3>1, <3>2
  <2> QED
    BY <2>3, <2>4
<1>3. CASE values = << >>
  <2>1. WritePacked(number, Len(data), values) = << >> /\ Len(data) = 0
    BY <1>2, <1>3 DEF WritePacked
  <2> HIDE DEF data
  <2>2. PackedSize(Len(data)) = 0
    BY <2>1 DEF PackedSize
  <2> QED
    BY <2>1, <2>2, BytesConcat DEF data
<1>4. CASE values # << >>
  <2>1. WritePacked(number, Len(data), values) = Delimited(number, Len(data), data)
    BY <1>4 DEF WritePacked, Varints
  <2>2. Len(data) > 0 /\ Len(data) < Word32
    BY <1>1, <1>2, <1>4, EmptySeq DEF Bytes
  <2> HIDE DEF data
  <2>3. /\ Delimited(number, Len(data), data) \in Bytes
        /\ Len(Delimited(number, Len(data), data)) = 1 + DelimitedSize(Len(data))
    BY <1>1, <2>2, DelimitedLen
  <2> QED
    BY <1>1, <2>1, <2>2, <2>3 DEF PackedSize, data
<1> QED
  BY <1>3, <1>4

ReadsNumbers(ReadField, C, number, field, type) ==
    \A m \in C, in \in Bytes :
        LET tag == Tag(number, LENGTH_DELIMITED)
        IN  ReadField[Field(m, tag, in)] = Appended(m, field, ReadPacked(type, in))

\* A packed field is read as the values it holds, after those already there.
LEMMA PackedField ==
    ASSUME NEW C, NEW ReadField, NEW merge, IsMerge(merge, C, ReadField),
           NEW m \in C, NEW number \in 1 .. 5, NEW field,
           NEW type, NEW V, IsNumeric(type, V),
           ReadsNumbers(ReadField, C, number, field, type),
           NEW values \in Seq(V), Len(Varints(values)) < Word32,
           [m EXCEPT ![field] = @ \o << >>] = m
    PROVE  Reads(merge, m, WritePacked(number, Len(Varints(values)), values),
                 [m EXCEPT ![field] = @ \o values])
<1> DEFINE data == Varints(values)
           m2 == [m EXCEPT ![field] = @ \o values]
<1>1. CASE values = << >>
  BY <1>1, ReadsNothing DEF WritePacked
<1>2. CASE values # << >>
  <2>1. WritePacked(number, Len(data), values) = Delimited(number, Len(data), data)
    BY <1>2 DEF WritePacked, Varints
  <2>2. data \in Bytes
    BY ReadElementsOf
  <2>3. TakesData(ReadField, m, number, data, m2)
    <3> SUFFICES ASSUME NEW rest \in Bytes
                 PROVE  ReadField[Field(m, Tag(number, LENGTH_DELIMITED),
                                        Varint[Len(data)] \o (data \o rest))]
                          = [ok |-> TRUE, m |-> m2, rest |-> rest]
      BY DEF TakesData
    <3> DEFINE in == Varint[Len(data)] \o (data \o rest)
               r == ReadPacked(type, in)
    <3>1. r = Read(TRUE, values, rest)
      BY ReadPackedOf
    <3>2. in \in Bytes
      <4>1. Varint[Len(data)] \in Bytes
        BY <2>2, BytesLen, VarintFacts
      <4>2. data \o rest \in Bytes
        <5> HIDE DEF data
        <5> QED
          BY <2>2, BytesConcat
      <4> QED
        <5> DEFINE a == Varint[Len(data)]
                   b == data \o rest
        <5> HIDE DEF a, b
        <5>1. a \in Bytes /\ b \in Bytes
          BY <4>1, <4>2 DEF a, b
        <5>2. a \o b \in Bytes
          BY <5>1, BytesConcat
        <5> QED
          BY <5>2 DEF a, b
    <3> HIDE DEF in
    <3>3. ReadField[Field(m, Tag(number, LENGTH_DELIMITED), in)] = Appended(m, field, r)
      BY <3>2 DEF ReadsNumbers
    <3> HIDE DEF r
    <3>4. r.ok = TRUE /\ r.values = values /\ r.rest = rest
      BY <3>1 DEF Read
    <3>5. Appended(m, field, r) = [ok |-> TRUE, m |-> m2, rest |-> rest]
      BY <3>4 DEF Appended
    <3> QED
      BY <3>3, <3>5 DEF in
  <2> HIDE DEF data, m2
  <2>4. Reads(merge, m, Delimited(number, Len(data), data), m2)
    <3>1. Len(data) < Word32
      BY DEF data
    <3> QED
      BY <2>2, <2>3, <3>1, DelimitedField
  <2> QED
    BY <2>1, <2>4 DEF data, m2
<1> QED
  BY <1>1, <1>2

\* One sequence flattened is itself, none is nothing.
LEMMA FlattenOne ==
    /\ FlattenSeq(<< >>) = << >>
    /\ \A V : \A s \in Seq(V) : FlattenSeq(<<s>>) = s
<1>1. ASSUME NEW V, NEW s \in Seq(V) PROVE FlattenSeq(<<s>>) = s
  <2> DEFINE t == <<s>>
             W == Seq(V)
  <2>1. t \in Seq(W) /\ Len(t) = 1 /\ t[1] = s
    OBVIOUS
  <2> HIDE DEF t
  <2>2. PICK F : IsFlattening(F, t, V)
    BY <2>1, FlattenSteps DEF W
  <2>3. F[0] = << >> /\ F[1] = F[0] \o s /\ F[1] = FlattenSeq(t)
    <3>1. PICK i \in 1 .. Len(t) : i = 1 /\ i - 1 = 0
      BY <2>1
    <3>2. F[i] = F[i - 1] \o t[i]
      BY <2>2 DEF IsFlattening
    <3> QED
      BY <2>1, <2>2, <3>1, <3>2 DEF IsFlattening
  <2> QED
    BY <2>3, ConcatEmptySeq DEF t
<1> QED
  BY <1>1, EmptySeq DEF FlattenSeq

\* A single field is empty or has one value.
LEMMA SingleCases ==
    ASSUME NEW S, NEW s \in Single(S)
    PROVE  s \in Seq(S) /\ (s = << >> \/ \E v \in S : s = <<v>>)
<1>1. s \in Seq(S) /\ Len(s) <= 1 /\ Len(s) \in Nat
  BY LenProperties DEF Single
<1>2. CASE Len(s) = 0
  BY <1>1, <1>2, EmptySeq
<1>3. CASE Len(s) = 1
  <2>1. s = <<s[1]>> /\ s[1] \in S
    BY <1>1, <1>3
  <2> QED
    BY <1>1, <2>1
<1>4. Len(s) = 0 \/ Len(s) = 1
  BY <1>1
<1> QED
  BY <1>2, <1>3, <1>4

\* A field with at most one number.
SingleNumber(number, s) == Each(s, LAMBDA v : WriteUInt32(number, v))
ReadsNumber(ReadField, C, number, field) ==
    \A m \in C, in \in Bytes :
        ReadField[Field(m, Tag(number, VARINT), in)]
            = Replaced(m, field, ReadPrimitive("uint32", in))

\* A single number is written when it is there.
LEMMA SingleNumberIs ==
    /\ \A number : SingleNumber(number, << >>) = << >>
    /\ \A number \in 1 .. 5, v \in UInt32 : SingleNumber(number, <<v>>)
         = WriteUInt32(number, v)
<1>1. ASSUME NEW number PROVE SingleNumber(number, << >>) = << >>
  <2>1. [i \in DOMAIN << >> |-> WriteUInt32(number, << >>[i])] = << >>
    BY EmptySeq
  <2> QED
    BY <2>1, FlattenOne DEF SingleNumber, Each
<1>2. ASSUME NEW number \in 1 .. 5, NEW v \in UInt32
      PROVE  SingleNumber(number, <<v>>) = WriteUInt32(number, v)
  <2>1. [i \in DOMAIN <<v>> |-> WriteUInt32(number, <<v>>[i])]
            = <<WriteUInt32(number, v)>>
    OBVIOUS
  <2>2. WriteUInt32(number, v) \in Seq(Byte)
    BY NumberLen DEF Bytes
  <2> QED
    BY <2>1, <2>2, FlattenOne DEF SingleNumber, Each
<1> QED
  BY <1>1, <1>2

\* The size of the number of a single field.
LEMMA VarintsSizeOfSingle ==
    ASSUME NEW s \in Single(UInt32)
    PROVE  /\ s = << >> => VarintsSize(s) = 0
           /\ \A v \in UInt32 : s = <<v>> => VarintsSize(s) = VarintSize(v)
<1>1. s \in Seq(UInt32) /\ IsNumeric("uint32", UInt32)
  BY DEF Single, IsNumeric
<1>2. Len(Varints(s)) = VarintsSize(s)
  BY <1>1, VarintsSizeIsLen
<1>3. ASSUME s = << >> PROVE VarintsSize(s) = 0
  <2>1. Varints(s) = << >>
    BY <1>3, FlattenOne, EmptySeq DEF Varints, Each
  <2> QED
    BY <1>2, <2>1
<1>4. ASSUME NEW v \in UInt32, s = <<v>> PROVE VarintsSize(s) = VarintSize(v)
  <2>1. v \in Nat /\ v < Word32
    BY WordFacts DEF UInt32
  <2>2. Varint[v] \in Bytes /\ Len(Varint[v]) = VarintSize(v)
    BY <2>1, VarintFacts
  <2>3. [i \in DOMAIN s |-> Varint[s[i]]] = <<Varint[v]>>
    BY <1>4
  <2>4. Varints(s) = Varint[v]
    BY <2>2, <2>3, FlattenOne DEF Varints, Each, Bytes
  <2> QED
    BY <1>2, <2>2, <2>4
<1> QED
  BY <1>3, <1>4

\* A single number has its size.
LEMMA SingleNumberLen ==
    ASSUME NEW number \in 1 .. 5, NEW s \in Single(UInt32)
    PROVE  /\ SingleNumber(number, s) \in Bytes
           /\ Len(SingleNumber(number, s)) = Len(s) + VarintsSize(s)
           /\ VarintsSize(s) \in Nat /\ Len(s) \in Nat
<1>1. CASE s = << >>
  <2>1. Len(s) = 0 /\ VarintsSize(s) = 0
    BY <1>1, VarintsSizeOfSingle
  <2>2. SingleNumber(number, s) = << >> /\ Len(<< >>) = 0
    BY <1>1, SingleNumberIs
  <2> QED
    BY <2>1, <2>2, BytesConcat
<1>2. ASSUME NEW v \in UInt32, s = <<v>>
      PROVE  /\ SingleNumber(number, s) \in Bytes
             /\ Len(SingleNumber(number, s)) = Len(s) + VarintsSize(s)
             /\ VarintsSize(s) \in Nat /\ Len(s) \in Nat
  <2>1. SingleNumber(number, s) = WriteUInt32(number, v) /\ VarintsSize(s) = VarintSize(v)
        /\ Len(s) = 1
    BY <1>2, SingleNumberIs, VarintsSizeOfSingle
  <2> QED
    BY <2>1, NumberLen
<1>3. s = << >> \/ \E v \in UInt32 : s = <<v>>
  BY SingleCases
<1>4. CASE s # << >>
  <2>1. PICK v \in UInt32 : s = <<v>>
    BY <1>3, <1>4
  <2> QED
    BY <1>2, <2>1
<1> QED
  BY <1>1, <1>4

\* A single number is read as the later value.
LEMMA SingleNumberField ==
    ASSUME NEW C, NEW ReadField, NEW merge, IsMerge(merge, C, ReadField),
           NEW m \in C, NEW number \in 1 .. 5, NEW field,
           ReadsNumber(ReadField, C, number, field),
           NEW s \in Single(UInt32), [m EXCEPT ![field] = Later(@, << >>)] = m
    PROVE  Reads(merge, m, SingleNumber(number, s), [m EXCEPT ![field] = Later(@, s)])
<1>1. CASE s = << >>
  BY <1>1, SingleNumberIs, ReadsNothing
<1>2. ASSUME NEW v \in UInt32, s = <<v>>
      PROVE  Reads(merge, m, SingleNumber(number, s), [m EXCEPT ![field] = Later(@, s)])
  <2> DEFINE m2 == [m EXCEPT ![field] = Later(@, s)]
             w == Varint[v]
             tag == Tag(number, VARINT)
  <2>1. SingleNumber(number, s) = WriteUInt32(number, v)
    BY <1>2, SingleNumberIs
  <2>2. v \in Nat /\ v < Word32 /\ v < Span[MaxVarint] /\ Decode("uint32", v) = v
    <3>1. IsNumeric("uint32", UInt32)
      BY DEF IsNumeric
    <3> QED
      BY <3>1, WordFacts, DecodeType DEF UInt32
  <2>3. w \in Bytes
    BY <2>2, VarintFacts
  <2>4. ASSUME NEW rest \in Bytes
        PROVE  ReadField[Field(m, tag, w \o rest)]
                   = [ok |-> TRUE, m |-> m2, rest |-> rest]
    <3> DEFINE r == ReadPrimitive("uint32", w \o rest)
    <3>1. r = Read(TRUE, s, rest)
      BY <1>2, <2>2, ReadPrimitiveOf
    <3> HIDE DEF w
    <3>2. w \o rest \in Bytes
      BY <2>3, BytesConcat
    <3>3. ReadField[Field(m, tag, w \o rest)] = Replaced(m, field, r)
      BY <3>2 DEF ReadsNumber
    <3> HIDE DEF r
    <3>4. r.ok = TRUE /\ r.values = s /\ r.rest = rest
      BY <3>1 DEF Read
    <3> QED
      BY <3>3, <3>4 DEF Replaced
  <2> HIDE DEF m2, w
  <2>5. TakesBody(ReadField, m, tag, w, m2)
    BY <2>4 DEF TakesBody
  <2>6. Reads(merge, m, WriteUInt32(number, v), m2)
    BY <2>5, NumberField DEF w
  <2> QED
    BY <2>1, <2>6 DEF m2
<1>3. s = << >> \/ \E v \in UInt32 : s = <<v>>
  BY SingleCases
<1> QED
  BY <1>1, <1>2, <1>3

\* The argument of ReadField and its parts.
LEMMA FieldIs ==
    ASSUME NEW C, NEW m \in C, NEW tag \in Nat, NEW in \in Bytes
    PROVE  /\ Field(m, tag, in) \in Fields(C) /\ Field(m, tag, in).m = m
           /\ Field(m, tag, in).tag = tag /\ Field(m, tag, in).in = in
BY DEF Field, Fields

-----------------------------------------------------------------------------
(* IBLT_bucket.                                                            *)

IBLT_bucket_Reader ==
    [f \in Fields(IBLT_bucket_Class) |-> IBLT_bucket_ReadField(f.m, f.tag, f.in)]

\* The reader of the class, applied.
LEMMA IBLT_bucket_Reading ==
    ASSUME NEW m \in IBLT_bucket_Class, NEW tag \in Nat, NEW in \in Bytes
    PROVE  IBLT_bucket_Reader[Field(m, tag, in)] = IBLT_bucket_ReadField(m, tag, in)
<1> DEFINE f == Field(m, tag, in)
<1>1. f \in Fields(IBLT_bucket_Class) /\ f.m = m /\ f.tag = tag /\ f.in = in
  BY FieldIs
<1> HIDE DEF f
<1> QED
  BY <1>1, Zenon DEF IBLT_bucket_Reader, f

\* Its fields may change to values of their types, and no value changes none.
LEMMA IBLT_bucket_Fields ==
    ASSUME NEW m \in IBLT_bucket_Class
    PROVE  /\ Changes(m, "key_sum", UInt32, IBLT_bucket_Class)
           /\ Changes(m, "hash_sum", UInt32, IBLT_bucket_Class)
           /\ Changes(m, "count", UInt32, IBLT_bucket_Class)
           /\ [m EXCEPT !["key_sum"] = Later(@, << >>)] = m
           /\ [m EXCEPT !["hash_sum"] = Later(@, << >>)] = m
           /\ [m EXCEPT !["count"] = Later(@, << >>)] = m
<1>1. Changes(m, "key_sum", UInt32, IBLT_bucket_Class)
  BY DEF IBLT_bucket_Class, Later, Changes
<1>2. Changes(m, "hash_sum", UInt32, IBLT_bucket_Class)
  BY DEF IBLT_bucket_Class, Later, Changes
<1>3. Changes(m, "count", UInt32, IBLT_bucket_Class)
  BY DEF IBLT_bucket_Class, Later, Changes
<1>4. [m EXCEPT !["key_sum"] = Later(@, << >>)] = m
  BY DEF IBLT_bucket_Class, Later
<1>5. [m EXCEPT !["hash_sum"] = Later(@, << >>)] = m
  BY DEF IBLT_bucket_Class, Later
<1>6. [m EXCEPT !["count"] = Later(@, << >>)] = m
  BY DEF IBLT_bucket_Class, Later
<1> QED
  BY <1>1, <1>2, <1>3, <1>4, <1>5, <1>6

\* MergePartialFromCodedStream of the class is a loop over its fields.
LEMMA IBLT_bucket_IsMerge ==
    /\ IBLT_bucket_New \in IBLT_bucket_Class
    /\ IsMerge(IBLT_bucket_MergePartial, IBLT_bucket_Class, IBLT_bucket_Reader)
<1>1. IBLT_bucket_New \in IBLT_bucket_Class
  BY EmptySeq DEF IBLT_bucket_New, IBLT_bucket_Class, Single
<1>2. ASSUME NEW m \in IBLT_bucket_Class, NEW tag \in Nat, NEW in \in Bytes
      PROVE  IsField(IBLT_bucket_Reader[Field(m, tag, in)], IBLT_bucket_Class, in)
  <2> DEFINE r == ReadPrimitive("uint32", in)
  <2>1. IsReadingOne(r, UInt32, in)
    BY ReadPrimitiveType DEF IsNumeric
  <2> HIDE DEF r
  <2>2. /\ IsField(Replaced(m, "key_sum", r), IBLT_bucket_Class, in)
        /\ IsField(Replaced(m, "hash_sum", r), IBLT_bucket_Class, in)
        /\ IsField(Replaced(m, "count", r), IBLT_bucket_Class, in)
    BY <2>1, IBLT_bucket_Fields, ReplacedType
  <2>3. IsField(Skip(m, tag, in), IBLT_bucket_Class, in)
    BY SkipType
  <2>4. \/ IBLT_bucket_ReadField(m, tag, in) = Replaced(m, "key_sum", r)
        \/ IBLT_bucket_ReadField(m, tag, in) = Replaced(m, "hash_sum", r)
        \/ IBLT_bucket_ReadField(m, tag, in) = Replaced(m, "count", r)
        \/ IBLT_bucket_ReadField(m, tag, in) = Skip(m, tag, in)
    BY DEF IBLT_bucket_ReadField, r
  <2> QED
    BY <2>2, <2>3, <2>4, IBLT_bucket_Reading
<1>3. IsReader(IBLT_bucket_Reader, IBLT_bucket_Class)
  BY <1>1, <1>2 DEF IsReader
<1> QED
  BY <1>1, <1>3, MergeExists DEF IBLT_bucket_MergePartial, IBLT_bucket_Reader

\* The tags that ReadField takes for its fields.
LEMMA IBLT_bucket_Reads ==
    /\ ReadsNumber(IBLT_bucket_Reader, IBLT_bucket_Class, 1, "key_sum")
    /\ ReadsNumber(IBLT_bucket_Reader, IBLT_bucket_Class, 2, "hash_sum")
    /\ ReadsNumber(IBLT_bucket_Reader, IBLT_bucket_Class, 3, "count")
<1>1. /\ Tag(1, VARINT) = 8 /\ Tag(2, VARINT) = 16 /\ Tag(3, VARINT) = 24
  BY DEF Tag, VARINT
<1>2. ASSUME NEW m \in IBLT_bucket_Class, NEW in \in Bytes
      PROVE  /\ IBLT_bucket_Reader[Field(m, 8, in)]
                  = Replaced(m, "key_sum", ReadPrimitive("uint32", in))
             /\ IBLT_bucket_Reader[Field(m, 16, in)]
                  = Replaced(m, "hash_sum", ReadPrimitive("uint32", in))
             /\ IBLT_bucket_Reader[Field(m, 24, in)]
                  = Replaced(m, "count", ReadPrimitive("uint32", in))
  BY <1>1, IBLT_bucket_Reading DEF IBLT_bucket_ReadField
<1> QED
  BY <1>1, <1>2 DEF ReadsNumber

\* An IBLT_bucket is written in as many bytes as its size says, and read again.
LEMMA IBLT_bucket_Codec ==
    ASSUME NEW x \in IBLT_bucket_Class
    PROVE  /\ IBLT_bucket_Serialize(x) \in Bytes
           /\ Len(IBLT_bucket_Serialize(x)) = IBLT_bucket_ByteSize(x)
           /\ IBLT_bucket_MergeFrom(IBLT_bucket_New, x) = x
           /\ \A m \in IBLT_bucket_Class :
                 /\ IBLT_bucket_MergeFrom(m, x) \in IBLT_bucket_Class
                 /\ Reads(IBLT_bucket_MergePartial, m, IBLT_bucket_Serialize(x),
                          IBLT_bucket_MergeFrom(m, x))
<1> DEFINE a == SingleNumber(1, x.key_sum)
           b == SingleNumber(2, x.hash_sum)
           c == SingleNumber(3, x.count)
<1>1. x.key_sum \in Single(UInt32) /\ x.hash_sum \in Single(UInt32)
          /\ x.count \in Single(UInt32)
  BY DEF IBLT_bucket_Class
<1>2. /\ a \in Bytes /\ b \in Bytes /\ c \in Bytes
      /\ Len(a) = Len(x.key_sum) + VarintsSize(x.key_sum)
      /\ Len(b) = Len(x.hash_sum) + VarintsSize(x.hash_sum)
      /\ Len(c) = Len(x.count) + VarintsSize(x.count)
  <2>1. 1 \in 1 .. 5 /\ 2 \in 1 .. 5 /\ 3 \in 1 .. 5
    OBVIOUS
  <2> QED
    BY <1>1, <2>1, SingleNumberLen, Zenon
<1>3. IBLT_bucket_Serialize(x) = a \o b \o c
  BY DEF IBLT_bucket_Serialize, SingleNumber
<1>4. IBLT_bucket_ByteSize(x) = Len(a) + Len(b) + Len(c)
  BY <1>2 DEF IBLT_bucket_ByteSize
<1>5. ASSUME NEW m \in IBLT_bucket_Class
      PROVE  /\ IBLT_bucket_MergeFrom(m, x) \in IBLT_bucket_Class
             /\ Reads(IBLT_bucket_MergePartial, m, a \o b \o c,
                  IBLT_bucket_MergeFrom(m, x))
  <2> DEFINE m1 == [m EXCEPT !["key_sum"] = Later(@, x.key_sum)]
             m2 == [m1 EXCEPT !["hash_sum"] = Later(@, x.hash_sum)]
             m3 == [m2 EXCEPT !["count"] = Later(@, x.count)]
  <2>1. m3 = IBLT_bucket_MergeFrom(m, x)
    BY DEF IBLT_bucket_Class, IBLT_bucket_MergeFrom
  <2>2. m1 \in IBLT_bucket_Class
    BY <1>1, IBLT_bucket_Fields DEF Changes
  <2>3. Reads(IBLT_bucket_MergePartial, m, a, m1)
    BY <1>1, IBLT_bucket_Fields, IBLT_bucket_IsMerge, IBLT_bucket_Reads, SingleNumberField
  <2> HIDE DEF m1
  <2>4. m2 \in IBLT_bucket_Class
    BY <1>1, <2>2, IBLT_bucket_Fields DEF Changes
  <2>5. Reads(IBLT_bucket_MergePartial, m1, b, m2)
    BY <1>1, <2>2, IBLT_bucket_Fields, IBLT_bucket_IsMerge, IBLT_bucket_Reads,
           SingleNumberField
  <2> HIDE DEF m2
  <2>6. m3 \in IBLT_bucket_Class
    BY <1>1, <2>4, IBLT_bucket_Fields DEF Changes
  <2>7. Reads(IBLT_bucket_MergePartial, m2, c, m3)
    BY <1>1, <2>4, IBLT_bucket_Fields, IBLT_bucket_IsMerge, IBLT_bucket_Reads,
           SingleNumberField
  <2> HIDE DEF m3, a, b, c
  <2>8. Reads(IBLT_bucket_MergePartial, m, a \o b, m2)
    BY <1>2, <2>3, <2>5, ReadsBoth
  <2>9. Reads(IBLT_bucket_MergePartial, m, (a \o b) \o c, m3)
    BY <1>2, <2>7, <2>8, BytesConcat, ReadsBoth
  <2> QED
    BY <2>1, <2>6, <2>9
<1>6. IBLT_bucket_MergeFrom(IBLT_bucket_New, x) = x
  BY DEF IBLT_bucket_Class, IBLT_bucket_MergeFrom, IBLT_bucket_New, Later
<1> HIDE DEF a, b, c
<1>7. a \o b \in Bytes /\ (a \o b) \o c \in Bytes
          /\ Len((a \o b) \o c) = Len(a) + Len(b) + Len(c)
  BY <1>2, BytesConcat, BytesConcatLen
<1> QED
  BY <1>3, <1>4, <1>5, <1>6, <1>7

-----------------------------------------------------------------------------
(* Sizes.                                                                  *)

\* The size of a number is a number.
LEMMA VarintSizeType == \A n \in Nat : VarintSize(n) \in Nat
<1> SUFFICES ASSUME NEW n \in Nat PROVE VarintSize(n) \in Nat
  OBVIOUS
<1> DEFINE S == {k \in 1 .. MaxVarint : n < Span[k]} \cup {MaxVarint}
<1>1. S \in SUBSET Nat /\ S # {}
  BY WordFacts
<1>2. VarintSize(n) = Min(S)
  BY DEF VarintSize
<1> HIDE DEF S
<1>3. PICK b \in S : \A c \in S : b <= c
  BY <1>1, LeastNat
<1>4. Min(S) = b
  BY <1>1, <1>3, MinIs
<1> QED
  BY <1>1, <1>2, <1>3, <1>4

\* The size of a field is more than that of its data.
LEMMA SizeFacts ==
    ASSUME NEW n \in Nat
    PROVE  /\ PackedSize(n) \in Nat /\ n <= PackedSize(n)
           /\ DelimitedSize(n) \in Nat /\ n <= DelimitedSize(n)
<1>1. VarintSize(n) \in Nat
  BY VarintSizeType
<1>2. DelimitedSize(n) = VarintSize(n) + n
  BY DEF DelimitedSize
<1> QED
  BY <1>1, <1>2 DEF PackedSize

-----------------------------------------------------------------------------
(* IBLT2.                                                                  *)

IBLT2_Reader == [f \in Fields(IBLT2_Class) |-> IBLT2_ReadField(f.m, f.tag, f.in)]

\* The reader of the class, applied.
LEMMA IBLT2_Reading ==
    ASSUME NEW m \in IBLT2_Class, NEW tag \in Nat, NEW in \in Bytes
    PROVE  IBLT2_Reader[Field(m, tag, in)] = IBLT2_ReadField(m, tag, in)
<1> DEFINE f == Field(m, tag, in)
<1>1. f \in Fields(IBLT2_Class) /\ f.m = m /\ f.tag = tag /\ f.in = in
  BY FieldIs
<1> HIDE DEF f
<1> QED
  BY <1>1, Zenon DEF IBLT2_Reader, f

\* Its fields may grow by values of their types, and no value changes none.
LEMMA IBLT2_Fields ==
    ASSUME NEW m \in IBLT2_Class
    PROVE  /\ Grows(m, "key_sum", UInt64, IBLT2_Class)
           /\ Grows(m, "hash_sum", UInt64, IBLT2_Class)
           /\ Grows(m, "count", UInt32, IBLT2_Class)
           /\ [m EXCEPT !["key_sum"] = @ \o << >>] = m
           /\ [m EXCEPT !["hash_sum"] = @ \o << >>] = m
           /\ [m EXCEPT !["count"] = @ \o << >>] = m
<1>1. /\ m.key_sum \in Seq(UInt64) /\ m.hash_sum \in Seq(UInt64)
           /\ m.count \in Seq(UInt32)
  BY DEF IBLT2_Class
<1>2. /\ m.key_sum \o << >> = m.key_sum /\ m.hash_sum \o << >> = m.hash_sum
      /\ m.count \o << >> = m.count
  BY <1>1, ConcatEmptySeq
<1>3. /\ \A s \in Seq(UInt64) : m.key_sum \o s \in Seq(UInt64)
           /\ m.hash_sum \o s \in Seq(UInt64)
      /\ \A s \in Seq(UInt32) : m.count \o s \in Seq(UInt32)
  BY <1>1, ConcatProperties
<1>4. Grows(m, "key_sum", UInt64, IBLT2_Class)
  BY <1>3 DEF Grows, IBLT2_Class
<1>5. Grows(m, "hash_sum", UInt64, IBLT2_Class)
  BY <1>3 DEF Grows, IBLT2_Class
<1>6. Grows(m, "count", UInt32, IBLT2_Class)
  BY <1>3 DEF Grows, IBLT2_Class
<1>7. [m EXCEPT !["key_sum"] = @ \o << >>] = m
  BY <1>2 DEF IBLT2_Class
<1>8. [m EXCEPT !["hash_sum"] = @ \o << >>] = m
  BY <1>2 DEF IBLT2_Class
<1>9. [m EXCEPT !["count"] = @ \o << >>] = m
  BY <1>2 DEF IBLT2_Class
<1> QED
  BY <1>4, <1>5, <1>6, <1>7, <1>8, <1>9

\* MergePartialFromCodedStream of the class is a loop over its fields.
LEMMA IBLT2_IsMerge ==
    /\ IBLT2_New \in IBLT2_Class
    /\ IsMerge(IBLT2_MergePartial, IBLT2_Class, IBLT2_Reader)
<1>1. IBLT2_New \in IBLT2_Class
  BY EmptySeq DEF IBLT2_New, IBLT2_Class
<1>2. ASSUME NEW m \in IBLT2_Class, NEW tag \in Nat, NEW in \in Bytes
      PROVE  IsField(IBLT2_Reader[Field(m, tag, in)], IBLT2_Class, in)
  <2>1. IsNumeric("uint64", UInt64) /\ IsNumeric("uint32", UInt32)
    BY DEF IsNumeric
  <2>2. /\ IsField(Numbers(m, "key_sum", "uint64", tag, in), IBLT2_Class, in)
        /\ IsField(Numbers(m, "hash_sum", "uint64", tag, in), IBLT2_Class, in)
        /\ IsField(Numbers(m, "count", "uint32", tag, in), IBLT2_Class, in)
    BY <2>1, IBLT2_Fields, NumbersType
  <2>3. IsField(Skip(m, tag, in), IBLT2_Class, in)
    BY SkipType
  <2>4. \/ IBLT2_ReadField(m, tag, in) = Numbers(m, "key_sum", "uint64", tag, in)
        \/ IBLT2_ReadField(m, tag, in) = Numbers(m, "hash_sum", "uint64", tag, in)
        \/ IBLT2_ReadField(m, tag, in) = Numbers(m, "count", "uint32", tag, in)
        \/ IBLT2_ReadField(m, tag, in) = Skip(m, tag, in)
    BY DEF IBLT2_ReadField
  <2> QED
    BY <2>2, <2>3, <2>4, IBLT2_Reading
<1>3. IsReader(IBLT2_Reader, IBLT2_Class)
  BY <1>1, <1>2 DEF IsReader
<1> QED
  BY <1>1, <1>3, MergeExists DEF IBLT2_MergePartial, IBLT2_Reader

\* The tag of a packed field is taken for that field only.
LEMMA PackedTag ==
    ASSUME NEW number \in 1 .. 5, NEW m, NEW field, NEW type, NEW in
    PROVE  /\ \A n \in 1 .. 5 : Packable(Tag(number, LENGTH_DELIMITED), n) <=> n = number
           /\ Numbers(m, field, type, Tag(number, LENGTH_DELIMITED), in)
                = Appended(m, field, ReadPacked(type, in))
           /\ Tag(number, LENGTH_DELIMITED) \in Nat
<1>1. /\ FieldNumber(Tag(number, LENGTH_DELIMITED)) = number
      /\ WireType(Tag(number, LENGTH_DELIMITED)) = LENGTH_DELIMITED
      /\ Tag(number, LENGTH_DELIMITED) \in Nat
  BY TagFacts
<1> QED
  BY <1>1 DEF Packable, Numbers

\* The tags that ReadField takes for its fields.
LEMMA IBLT2_Reads ==
    /\ ReadsNumbers(IBLT2_Reader, IBLT2_Class, 1, "key_sum", "uint64")
    /\ ReadsNumbers(IBLT2_Reader, IBLT2_Class, 2, "hash_sum", "uint64")
    /\ ReadsNumbers(IBLT2_Reader, IBLT2_Class, 3, "count", "uint32")
<1>1. 1 \in 1 .. 5 /\ 2 \in 1 .. 5 /\ 3 \in 1 .. 5
  OBVIOUS
<1>2. ASSUME NEW m \in IBLT2_Class, NEW in \in Bytes
      PROVE  /\ IBLT2_Reader[Field(m, Tag(1, LENGTH_DELIMITED), in)]
                  = Appended(m, "key_sum", ReadPacked("uint64", in))
             /\ IBLT2_Reader[Field(m, Tag(2, LENGTH_DELIMITED), in)]
                  = Appended(m, "hash_sum", ReadPacked("uint64", in))
             /\ IBLT2_Reader[Field(m, Tag(3, LENGTH_DELIMITED), in)]
                  = Appended(m, "count", ReadPacked("uint32", in))
  <2>1. ASSUME NEW n \in {1, 2, 3}
        PROVE  IBLT2_Reader[Field(m, Tag(n, LENGTH_DELIMITED), in)]
                  = IBLT2_ReadField(m, Tag(n, LENGTH_DELIMITED), in)
    BY PackedTag, IBLT2_Reading
  <2>2. IBLT2_ReadField(m, Tag(1, LENGTH_DELIMITED), in)
          = Appended(m, "key_sum", ReadPacked("uint64", in))
    BY <1>1, PackedTag DEF IBLT2_ReadField
  <2>3. IBLT2_ReadField(m, Tag(2, LENGTH_DELIMITED), in)
          = Appended(m, "hash_sum", ReadPacked("uint64", in))
    BY <1>1, PackedTag DEF IBLT2_ReadField
  <2>4. IBLT2_ReadField(m, Tag(3, LENGTH_DELIMITED), in)
          = Appended(m, "count", ReadPacked("uint32", in))
    BY <1>1, PackedTag DEF IBLT2_ReadField
  <2> QED
    BY <2>1, <2>2, <2>3, <2>4
<1> QED
  BY <1>2 DEF ReadsNumbers

\* An IBLT2 of 32-bit size is written in as many bytes as that, and read again.
LEMMA IBLT2_Merged ==
    ASSUME NEW x \in IBLT2_Class
    PROVE  /\ IBLT2_ByteSize(x) \in Nat
           /\ IBLT2_MergeFrom(IBLT2_New, x) = x
           /\ \A m \in IBLT2_Class : IBLT2_MergeFrom(m, x) \in IBLT2_Class
<1>1. x.key_sum \in Seq(UInt64) /\ x.hash_sum \in Seq(UInt64) /\ x.count \in Seq(UInt32)
  BY DEF IBLT2_Class
<1>2. VarintsSize(x.key_sum) \in Nat /\ VarintsSize(x.hash_sum) \in Nat
      /\ VarintsSize(x.count) \in Nat
  <2>1. IsNumeric("uint64", UInt64) /\ IsNumeric("uint32", UInt32)
    BY DEF IsNumeric
  <2>2. \A type, V : IsNumeric(type, V) => \A s \in Seq(V) : VarintsSize(s) \in Nat
    BY VarintsSizeIsLen, ReadElementsOf, BytesLen
  <2> QED
    BY <1>1, <2>1, <2>2
<1>3. IBLT2_ByteSize(x) \in Nat
  BY <1>2, SizeFacts DEF IBLT2_ByteSize
<1>4. IBLT2_MergeFrom(IBLT2_New, x) = x
  <2>1. << >> \o x.key_sum = x.key_sum /\ << >> \o x.hash_sum = x.hash_sum
        /\ << >> \o x.count = x.count
    BY <1>1, ConcatEmptySeq
  <2> QED
    BY <2>1 DEF IBLT2_MergeFrom, IBLT2_New, IBLT2_Class
<1>5. ASSUME NEW m \in IBLT2_Class PROVE IBLT2_MergeFrom(m, x) \in IBLT2_Class
  <2>1. m.key_sum \in Seq(UInt64) /\ m.hash_sum \in Seq(UInt64) /\ m.count \in Seq(UInt32)
    BY DEF IBLT2_Class
  <2>2. m.key_sum \o x.key_sum \in Seq(UInt64) /\ m.hash_sum \o x.hash_sum \in Seq(UInt64)
        /\ m.count \o x.count \in Seq(UInt32)
    BY <1>1, <2>1, ConcatProperties
  <2> QED
    BY <2>2 DEF IBLT2_MergeFrom, IBLT2_Class
<1> QED
  BY <1>3, <1>4, <1>5

\* A message of the class has its size and is read back, into any other.
LEMMA IBLT2_Codec ==
    ASSUME NEW x \in IBLT2_Class, IBLT2_ByteSize(x) < Word32
    PROVE  /\ IBLT2_Serialize(x) \in Bytes
           /\ Len(IBLT2_Serialize(x)) = IBLT2_ByteSize(x)
           /\ \A m \in IBLT2_Class :
                 Reads(IBLT2_MergePartial, m, IBLT2_Serialize(x), IBLT2_MergeFrom(m, x))
<1> DEFINE i == Len(Varints(x.key_sum))
           j == Len(Varints(x.hash_sum))
           k == Len(Varints(x.count))
           a == WritePacked(1, i, x.key_sum)
           b == WritePacked(2, j, x.hash_sum)
           c == WritePacked(3, k, x.count)
<1>1. x.key_sum \in Seq(UInt64) /\ x.hash_sum \in Seq(UInt64) /\ x.count \in Seq(UInt32)
  BY DEF IBLT2_Class
<1>2. /\ IsNumeric("uint64", UInt64) /\ IsNumeric("uint32", UInt32)
      /\ 1 \in 1 .. 5 /\ 2 \in 1 .. 5 /\ 3 \in 1 .. 5
  BY DEF IsNumeric
<1>3. i = VarintsSize(x.key_sum) /\ j = VarintsSize(x.hash_sum)
          /\ k = VarintsSize(x.count)
  BY <1>1, <1>2, VarintsSizeIsLen
<1>4. i \in Nat /\ j \in Nat /\ k \in Nat
  BY <1>1, <1>2, ReadElementsOf, BytesLen
<1>5. IBLT2_Serialize(x) = a \o b \o c
  BY <1>3 DEF IBLT2_Serialize
<1>6. IBLT2_ByteSize(x) = PackedSize(i) + PackedSize(j) + PackedSize(k)
  BY <1>3 DEF IBLT2_ByteSize
<1>7. i < Word32 /\ j < Word32 /\ k < Word32
  <2> HIDE DEF i, j, k
  <2>1. /\ PackedSize(i) \in Nat /\ i <= PackedSize(i)
        /\ PackedSize(j) \in Nat /\ j <= PackedSize(j)
        /\ PackedSize(k) \in Nat /\ k <= PackedSize(k)
    BY <1>4, SizeFacts
  <2> QED
    BY <1>4, <1>6, <2>1, WordFacts
<1>8. /\ a \in Bytes /\ b \in Bytes /\ c \in Bytes
      /\ Len(a) = PackedSize(i) /\ Len(b) = PackedSize(j) /\ Len(c) = PackedSize(k)
  <2>1. a \in Bytes /\ Len(a) = PackedSize(i)
    BY <1>1, <1>2, <1>7, PackedLen
  <2>2. b \in Bytes /\ Len(b) = PackedSize(j)
    BY <1>1, <1>2, <1>7, PackedLen
  <2>3. c \in Bytes /\ Len(c) = PackedSize(k)
    BY <1>1, <1>2, <1>7, PackedLen
  <2> QED
    BY <2>1, <2>2, <2>3
<1>9. ASSUME NEW m \in IBLT2_Class
      PROVE  Reads(IBLT2_MergePartial, m, a \o b \o c, IBLT2_MergeFrom(m, x))
  <2> DEFINE m1 == [m EXCEPT !["key_sum"] = @ \o x.key_sum]
             m2 == [m1 EXCEPT !["hash_sum"] = @ \o x.hash_sum]
             m3 == [m2 EXCEPT !["count"] = @ \o x.count]
  <2>1. m3 = IBLT2_MergeFrom(m, x)
    BY DEF IBLT2_Class, IBLT2_MergeFrom
  <2>2. m1 \in IBLT2_Class
    BY <1>1, IBLT2_Fields DEF Grows
  <2>3. Reads(IBLT2_MergePartial, m, a, m1)
    BY <1>1, <1>2, <1>7, IBLT2_Fields, IBLT2_IsMerge, IBLT2_Reads, PackedField
  <2> HIDE DEF m1
  <2>4. m2 \in IBLT2_Class
    BY <1>1, <2>2, IBLT2_Fields DEF Grows
  <2>5. Reads(IBLT2_MergePartial, m1, b, m2)
    BY <1>1, <1>2, <1>7, <2>2, IBLT2_Fields, IBLT2_IsMerge, IBLT2_Reads, PackedField
  <2> HIDE DEF m2
  <2>6. m3 \in IBLT2_Class
    BY <1>1, <2>4, IBLT2_Fields DEF Grows
  <2>7. Reads(IBLT2_MergePartial, m2, c, m3)
    BY <1>1, <1>2, <1>7, <2>4, IBLT2_Fields, IBLT2_IsMerge, IBLT2_Reads, PackedField
  <2> HIDE DEF m3, a, b, c
  <2>8. Reads(IBLT2_MergePartial, m, a \o b, m2)
    BY <1>8, <2>3, <2>5, ReadsBoth
  <2>9. Reads(IBLT2_MergePartial, m, (a \o b) \o c, m3)
    BY <1>8, <2>7, <2>8, BytesConcat, ReadsBoth
  <2> QED
    BY <2>1, <2>9
<1> HIDE DEF a, b, c
<1>10. a \o b \in Bytes /\ (a \o b) \o c \in Bytes
           /\ Len((a \o b) \o c) = Len(a) + Len(b) + Len(c)
  BY <1>8, BytesConcat, BytesConcatLen
<1> QED
  BY <1>5, <1>6, <1>8, <1>9, <1>10

-----------------------------------------------------------------------------
(* Repeated fields of data.                                                *)

\* The size of several fields is at least that of the data of each.
LEMMA FieldsSizeFacts ==
    ASSUME NEW n \in Nat, NEW sizes, DOMAIN sizes = 1 .. n, \A i \in 1 .. n :
               sizes[i] \in Nat
    PROVE  FieldsSize(sizes) \in Nat /\ \A i \in 1 .. n : sizes[i] <= FieldsSize(sizes)
<1> DEFINE f == [i \in DOMAIN sizes |-> 1 + DelimitedSize(sizes[i])]
           S == 1 .. n
<1>1. IsFiniteSet(S)
  BY FS_Interval
<1>2. \A i \in S : f[i] \in Nat /\ sizes[i] <= f[i]
  <2>1. ASSUME NEW i \in S PROVE f[i] \in Nat /\ sizes[i] <= f[i]
    <3> DEFINE k == sizes[i]
    <3>1. k \in Nat /\ f[i] = 1 + DelimitedSize(k)
      OBVIOUS
    <3> HIDE DEF k, f
    <3>2. DelimitedSize(k) \in Nat /\ k <= DelimitedSize(k)
      BY <3>1, SizeFacts
    <3> QED
      BY <3>1, <3>2 DEF k
  <2> QED
    BY <2>1
<1>3. FieldsSize(sizes) = SumFunctionOnSet(f, S)
  BY DEF FieldsSize, SumFunction
<1> HIDE DEF f, S
<1>4. SumFunctionOnSet(f, S) \in Nat /\ \A i \in S : f[i] <= SumFunctionOnSet(f, S)
  BY <1>1, <1>2, SumMember
<1> QED
  BY <1>2, <1>3, <1>4 DEF S

\* What is written for the data d[1], d[2] and so on.
DataFields(number, d) ==
    FlattenSeq([i \in 1 .. Len(d) |-> Delimited(number, Len(d[i]), d[i])])
Short(d) == \A i \in 1 .. Len(d) : Len(d[i]) < Word32

\* Several delimited fields have their size.
LEMMA DataFieldsLen ==
    ASSUME NEW number \in 1 .. 5, NEW d \in Seq(Bytes), Short(d)
    PROVE  /\ DataFields(number, d) \in Bytes
           /\ Len(DataFields(number, d)) = FieldsSize([i \in 1 .. Len(d) |-> Len(d[i])])
<1> DEFINE n == Len(d)
           c == [i \in 1 .. n |-> Delimited(number, Len(d[i]), d[i])]
           lens == [i \in 1 .. n |-> Len(d[i])]
           sizes == [i \in DOMAIN lens |-> 1 + DelimitedSize(lens[i])]
<1>1. n \in Nat /\ \A i \in 1 .. n : d[i] \in Bytes /\ Len(d[i]) < Word32
  BY LenProperties, ElementOfSeq DEF Short
<1>2. \A i \in 1 .. n : /\ Delimited(number, Len(d[i]), d[i]) \in Bytes
                        /\ Len(Delimited(number, Len(d[i]), d[i]))
                             = 1 + DelimitedSize(Len(d[i]))
  BY <1>1, DelimitedLen
<1>3. c \in Seq(Bytes) /\ Len(c) = n
  <2> HIDE DEF n
  <2> QED
    BY <1>1, <1>2
<1>4. DOMAIN sizes = 1 .. Len(c) /\ \A i \in 1 .. Len(c) : sizes[i] = Len(c[i])
  BY <1>2, <1>3
<1>5. DataFields(number, d) = FlattenSeq(c)
  BY DEF DataFields
<1>6. FieldsSize(lens) = SumFunction(sizes)
  BY DEF FieldsSize
<1> HIDE DEF c, sizes
<1>7. Len(FlattenSeq(c)) = SumFunction(sizes) /\ FlattenSeq(c) \in Bytes
  BY <1>3, <1>4, FlattenLen, FlattenType DEF Bytes
<1> QED
  BY <1>5, <1>6, <1>7

\* A field continued after it was replaced.
LEMMA ContinuedTwice ==
    ASSUME NEW m, NEW field \in DOMAIN m, NEW a, NEW b
    PROVE  [[m EXCEPT ![field] = a] EXCEPT ![field] = @ \o b]
               = [m EXCEPT ![field] = a \o b]
OBVIOUS

\* A sequence continued by the next element of another.
LEMMA ContinuedByOne ==
    ASSUME NEW V, NEW x \in Seq(V), NEW s \in Seq(V), NEW i \in 1 .. Len(s)
    PROVE  x \o SubSeq(s, 1, i) = (x \o SubSeq(s, 1, i - 1)) \o <<s[i]>>
<1> DEFINE a == SubSeq(s, 1, i - 1)
           b == <<s[i]>>
<1>1. Len(s) \in Nat /\ \A j \in 1 .. Len(s) : s[j] \in V
  BY LenProperties, ElementOfSeq
<1>2. SubSeq(s, 1, i) = a \o b
  <2>1. 1 \in 1 .. Len(s)
    BY <1>1
  <2> QED
    BY <2>1, SubSeqRecursiveSecond
<1>3. a \in Seq(V) /\ b \in Seq(V)
  <2>1. \A j \in 1 .. i - 1 : s[j] \in V
    BY <1>1
  <2> QED
    BY <1>1, <2>1, SubSeqProperties
<1> HIDE DEF a, b
<1>4. (x \o a) \o b = x \o (a \o b)
  BY <1>3, Associative
<1> QED
  BY <1>2, <1>4 DEF a, b

\* Field field of the messages of C is a sequence of V.
IsRepeated(C, field, V) ==
    \A m \in C : /\ field \in DOMAIN m /\ m[field] \in Seq(V) /\ Grows(m, field, V, C)
                 /\ [m EXCEPT ![field] = @ \o << >>] = m

TakesEach(ReadField, C, number, field, s, d) ==
    \A m \in C : \A i \in 1 .. Len(d) :
        TakesData(ReadField, m, number, d[i], [m EXCEPT ![field] = @ \o <<s[i]>>])

\* Delimited fields that are taken one by one are read as the values they hold.
LEMMA RepeatedField ==
    ASSUME NEW C, NEW ReadField, NEW merge, IsMerge(merge, C, ReadField),
           NEW m \in C, NEW number \in 1 .. 5, NEW field, NEW V, IsRepeated(C, field, V),
           NEW s \in Seq(V), NEW d \in Seq(Bytes), Len(d) = Len(s), Short(d),
           TakesEach(ReadField, C, number, field, s, d)
    PROVE  Reads(merge, m, DataFields(number, d), [m EXCEPT ![field] = @ \o s])
<1> DEFINE n == Len(d)
           c == [i \in 1 .. n |-> Delimited(number, Len(d[i]), d[i])]
           M == [k \in 0 .. n |-> [m EXCEPT ![field] = @ \o SubSeq(s, 1, k)]]
<1>1. n \in Nat /\ Len(s) = n
      /\ \A i \in 1 .. n : d[i] \in Bytes /\ Len(d[i]) < Word32 /\ s[i] \in V
  BY LenProperties, ElementOfSeq DEF Short
<1>2. c \in Seq(Bytes) /\ Len(c) = n
  <2>1. \A i \in 1 .. n : Delimited(number, Len(d[i]), d[i]) \in Bytes
    BY <1>1, DelimitedLen
  <2> HIDE DEF n
  <2> QED
    BY <1>1, <2>1
<1>3. field \in DOMAIN m /\ m[field] \in Seq(V) /\ Grows(m, field, V, C)
      /\ [m EXCEPT ![field] = @ \o << >>] = m
  BY DEF IsRepeated
<1>4. \A k \in 0 .. n : SubSeq(s, 1, k) \in Seq(V)
  BY <1>1, SubSeqProperties
<1>5. M[0] = m /\ M[n] = [m EXCEPT ![field] = @ \o s]
  <2>1. SubSeq(s, 1, 0) = << >> /\ SubSeq(s, 1, n) = s
    BY <1>1, SubSeqEmpty, SubSeqFull
  <2>2. 0 \in 0 .. n /\ n \in 0 .. n
    BY <1>1
  <2> HIDE DEF n
  <2> QED
    BY <1>3, <2>1, <2>2
<1>6. \A k \in 0 .. n : M[k] \in C
  BY <1>3, <1>4 DEF Grows
<1>7. ASSUME NEW i \in 1 .. n
      PROVE  M[i] = [M[i - 1] EXCEPT ![field] = @ \o <<s[i]>>]
  <2>1. i \in 0 .. n /\ i - 1 \in 0 .. n /\ i \in 1 .. Len(s)
    BY <1>1
  <2> DEFINE b == <<s[i]>>
             y == m[field] \o SubSeq(s, 1, i - 1)
             p == M[i - 1]
  <2>2. m[field] \o SubSeq(s, 1, i) = y \o b
    <3> DEFINE x == m[field]
    <3>1. x \in Seq(V)
      BY <1>3
    <3> HIDE DEF x, n
    <3>2. x \o SubSeq(s, 1, i) = (x \o SubSeq(s, 1, i - 1)) \o <<s[i]>>
      BY <2>1, <3>1, ContinuedByOne
    <3> QED
      BY <3>2, Zenon DEF x
  <2>3. M[i] = [m EXCEPT ![field] = y \o b] /\ p = [m EXCEPT ![field] = y]
    BY <2>1, <2>2
  <2> HIDE DEF M, b, y, p
  <2>4. [[m EXCEPT ![field] = y] EXCEPT ![field] = @ \o b] = [m EXCEPT ![field] = y \o b]
    <3>1. field \in DOMAIN m
      BY <1>3
    <3> QED
      BY <3>1, ContinuedTwice, Zenon
  <2>5. M[i] = [p EXCEPT ![field] = @ \o b]
    BY <2>3, <2>4
  <2> QED
    BY <2>5 DEF b, p
<1>8. ASSUME NEW i \in 1 .. n PROVE Reads(merge, M[i - 1], c[i], M[i])
  <2>1. i - 1 \in 0 .. n
    BY <1>1
  <2>2. M[i - 1] \in C
    BY <1>6, <2>1
  <2>3. c[i] = Delimited(number, Len(d[i]), d[i])
    OBVIOUS
  <2> DEFINE p == M[i - 1]
             q == M[i]
  <2>4. TakesData(ReadField, p, number, d[i], q)
    <3>1. TakesData(ReadField, p, number, d[i], [p EXCEPT ![field] = @ \o <<s[i]>>])
      <4> HIDE DEF p
      <4> QED
        BY <2>2 DEF TakesEach, p
    <3> QED
      BY <1>7, <3>1
  <2> HIDE DEF M, c
  <2>5. Reads(merge, p, Delimited(number, Len(d[i]), d[i]), q)
    <3> HIDE DEF p, q
    <3>1. p \in C
      BY <2>2 DEF p
    <3> QED
      BY <1>1, <2>4, <3>1, DelimitedField
  <2> QED
    BY <2>3, <2>5
<1> HIDE DEF M, c
<1>9. ReadsChunks(merge, c, M)
  BY <1>2, <1>8 DEF ReadsChunks
<1>10. Reads(merge, M[0], FlattenSeq(c), M[Len(c)])
  BY <1>2, <1>9, ReadsEach
<1> QED
  BY <1>2, <1>5, <1>10 DEF DataFields, c

-----------------------------------------------------------------------------
(* Repeated submessages.                                                   *)

ReadsMessages(ReadField, C, number, field, merge, new) ==
    \A m \in C, in \in Bytes :
        ReadField[Field(m, Tag(number, LENGTH_DELIMITED), in)]
            = Appended(m, field, ReadMessage(merge, new, in))
Parses(merge, new, d, s) == \A i \in 1 .. Len(d) : ParsesTo(merge, new, d[i], s[i])

\* Data with its length before it and a rest behind it is a string.
LEMMA InBytes ==
    ASSUME NEW data \in Bytes, Len(data) < Word32, NEW rest \in Bytes
    PROVE  Varint[Len(data)] \o (data \o rest) \in Bytes
<1> DEFINE w == Varint[Len(data)]
<1>1. w \in Bytes
  BY BytesLen, VarintFacts
<1>2. data \o rest \in Bytes
  BY BytesConcat
<1> HIDE DEF w
<1>3. w \o (data \o rest) \in Bytes
  BY <1>1, <1>2, BytesConcat
<1> QED
  BY <1>3 DEF w

\* Submessages that parse are taken one by one.
LEMMA MessagesTaken ==
    ASSUME NEW C, NEW ReadField, NEW number \in 1 .. 5, NEW field, NEW V, NEW merge,
           NEW new,
           ReadsMessages(ReadField, C, number, field, merge, new),
           NEW s \in Seq(V), NEW d \in Seq(Bytes), Short(d), Parses(merge, new, d, s)
    PROVE  TakesEach(ReadField, C, number, field, s, d)
<1> SUFFICES ASSUME NEW m \in C, NEW i \in 1 .. Len(d), NEW rest \in Bytes
             PROVE  ReadField[Field(m, Tag(number, LENGTH_DELIMITED),
                                    Varint[Len(d[i])] \o (d[i] \o rest))]
                      = [ok |-> TRUE, m |-> [m EXCEPT ![field] = @ \o <<s[i]>>],
                          rest |-> rest]
  BY DEF TakesEach, TakesData
<1> DEFINE data == d[i]
           x == s[i]
           in == Varint[Len(data)] \o (data \o rest)
           r == ReadMessage(merge, new, in)
<1>1. data \in Bytes /\ Len(data) < Word32
  BY ElementOfSeq DEF Short
<1>2. ParsesTo(merge, new, data, x)
  BY DEF Parses
<1> HIDE DEF data, x
<1>3. in \in Bytes
  BY <1>1, InBytes
<1>4. r = Read(TRUE, <<x>>, rest)
  <2>1. ReadMessage(merge, new, Varint[Len(data)] \o (data \o rest))
            = Read(TRUE, <<x>>, rest)
    BY <1>1, <1>2, ReadMessageOf, Zenon
  <2> QED
    BY <2>1
<1> HIDE DEF in
<1>5. ReadField[Field(m, Tag(number, LENGTH_DELIMITED), in)] = Appended(m, field, r)
  BY <1>3 DEF ReadsMessages
<1> HIDE DEF r
<1>6. r.ok = TRUE /\ r.values = <<x>> /\ r.rest = rest
  BY <1>4 DEF Read
<1> QED
  BY <1>5, <1>6 DEF Appended, in, data, x

\* The size of a bucket is a number.
LEMMA IBLT_bucket_Size == \A x \in IBLT_bucket_Class : IBLT_bucket_ByteSize(x) \in Nat
BY IBLT_bucket_Codec, BytesLen

-----------------------------------------------------------------------------
(* IBLT.                                                                   *)

IBLT_Reader == [f \in Fields(IBLT_Class) |-> IBLT_ReadField(f.m, f.tag, f.in)]

\* The reader of the class, applied.
LEMMA IBLT_Reading ==
    ASSUME NEW m \in IBLT_Class, NEW tag \in Nat, NEW in \in Bytes
    PROVE  IBLT_Reader[Field(m, tag, in)] = IBLT_ReadField(m, tag, in)
<1> DEFINE f == Field(m, tag, in)
<1>1. f \in Fields(IBLT_Class) /\ f.m = m /\ f.tag = tag /\ f.in = in
  BY FieldIs
<1> HIDE DEF f
<1> QED
  BY <1>1, Zenon DEF IBLT_Reader, f

\* Its buckets may be continued by others.
LEMMA IBLT_Fields == IsRepeated(IBLT_Class, "buckets", IBLT_bucket_Class)
<1> SUFFICES ASSUME NEW m \in IBLT_Class
             PROVE  /\ "buckets" \in DOMAIN m /\ m["buckets"] \in Seq(IBLT_bucket_Class)
                    /\ Grows(m, "buckets", IBLT_bucket_Class, IBLT_Class)
                    /\ [m EXCEPT !["buckets"] = @ \o << >>] = m
  BY DEF IsRepeated
<1>1. "buckets" \in DOMAIN m /\ m.buckets \in Seq(IBLT_bucket_Class)
  BY DEF IBLT_Class
<1>2. m.buckets \o << >> = m.buckets
          /\ \A s \in Seq(IBLT_bucket_Class) : m.buckets \o s \in Seq(IBLT_bucket_Class)
  BY <1>1, ConcatEmptySeq, ConcatProperties
<1>3. Grows(m, "buckets", IBLT_bucket_Class, IBLT_Class)
  BY <1>2 DEF Grows, IBLT_Class
<1>4. [m EXCEPT !["buckets"] = @ \o << >>] = m
  BY <1>2 DEF IBLT_Class
<1> QED
  BY <1>1, <1>3, <1>4

\* MergePartialFromCodedStream of the class is a loop over its fields.
LEMMA IBLT_IsMerge ==
    /\ IBLT_New \in IBLT_Class
    /\ IsMerge(IBLT_MergePartial, IBLT_Class, IBLT_Reader)
    /\ ReadsMessages(IBLT_Reader, IBLT_Class, 1, "buckets", IBLT_bucket_MergePartial,
         IBLT_bucket_New)
<1>1. IBLT_New \in IBLT_Class
  BY EmptySeq DEF IBLT_New, IBLT_Class
<1>2. ASSUME NEW m \in IBLT_Class, NEW tag \in Nat, NEW in \in Bytes
      PROVE  IsField(IBLT_Reader[Field(m, tag, in)], IBLT_Class, in)
  <2> DEFINE r == ReadMessage(IBLT_bucket_MergePartial, IBLT_bucket_New, in)
  <2>1. IsReading(r, IBLT_bucket_Class, in)
    BY IBLT_bucket_IsMerge, ReadMessageType DEF IsReadingOne
  <2> HIDE DEF r
  <2>2. Grows(m, "buckets", IBLT_bucket_Class, IBLT_Class)
    BY IBLT_Fields DEF IsRepeated
  <2>3. IsField(Appended(m, "buckets", r), IBLT_Class, in)
    BY <2>1, <2>2, AppendedType
  <2>4. IsField(Skip(m, tag, in), IBLT_Class, in)
    BY SkipType
  <2>5. \/ IBLT_ReadField(m, tag, in) = Appended(m, "buckets", r)
        \/ IBLT_ReadField(m, tag, in) = Skip(m, tag, in)
    BY DEF IBLT_ReadField, r
  <2> QED
    BY <2>3, <2>4, <2>5, IBLT_Reading
<1>3. IsReader(IBLT_Reader, IBLT_Class)
  BY <1>1, <1>2 DEF IsReader
<1>4. IsMerge(IBLT_MergePartial, IBLT_Class, IBLT_Reader)
  BY <1>3, MergeExists DEF IBLT_MergePartial, IBLT_Reader
<1>5. Tag(1, LENGTH_DELIMITED) \in Nat
  BY DEF Tag, LENGTH_DELIMITED
<1>6. ReadsMessages(IBLT_Reader, IBLT_Class, 1, "buckets", IBLT_bucket_MergePartial,
          IBLT_bucket_New)
  BY <1>5, IBLT_Reading DEF ReadsMessages, IBLT_ReadField
<1> QED
  BY <1>1, <1>4, <1>6

\* MergeFrom continues the buckets, and gives the message itself from a new one.
LEMMA IBLT_Merged ==
    ASSUME NEW x \in IBLT_Class
    PROVE  /\ IBLT_ByteSize(x) \in Nat
           /\ \A i \in 1 .. Len(x.buckets) : /\ IBLT_bucket_ByteSize(x.buckets[i]) \in Nat
                                         /\ IBLT_bucket_ByteSize(x.buckets[i])
                                              <= IBLT_ByteSize(x)
           /\ IBLT_MergeFrom(IBLT_New, x) = x
           /\ \A m \in IBLT_Class : IBLT_MergeFrom(m, x) \in IBLT_Class
<1> DEFINE n == Len(x.buckets)
           sizes == [i \in DOMAIN x.buckets |-> IBLT_bucket_ByteSize(x.buckets[i])]
<1>1. x.buckets \in Seq(IBLT_bucket_Class)
  BY DEF IBLT_Class
<1>2. n \in Nat /\ DOMAIN x.buckets = 1 .. n
          /\ \A i \in 1 .. n : x.buckets[i] \in IBLT_bucket_Class
  BY <1>1, LenProperties, ElementOfSeq
<1>3. DOMAIN sizes = 1 .. n /\ \A i \in 1 .. n : sizes[i]
          = IBLT_bucket_ByteSize(x.buckets[i])
  BY <1>2
<1>4. \A i \in 1 .. n : IBLT_bucket_ByteSize(x.buckets[i]) \in Nat
  BY <1>2, IBLT_bucket_Size
<1>5. IBLT_ByteSize(x) = FieldsSize(sizes)
  BY DEF IBLT_ByteSize
<1> HIDE DEF sizes, n
<1>6. FieldsSize(sizes) \in Nat /\ \A i \in 1 .. n : sizes[i] <= FieldsSize(sizes)
  BY <1>2, <1>3, <1>4, FieldsSizeFacts
<1>7. IBLT_MergeFrom(IBLT_New, x) = x
  <2>1. << >> \o x.buckets = x.buckets
    BY <1>1, ConcatEmptySeq
  <2> QED
    BY <2>1 DEF IBLT_MergeFrom, IBLT_New, IBLT_Class
<1>8. ASSUME NEW m \in IBLT_Class PROVE IBLT_MergeFrom(m, x) \in IBLT_Class
  <2>1. m.buckets \in Seq(IBLT_bucket_Class)
    BY DEF IBLT_Class
  <2>2. m.buckets \o x.buckets \in Seq(IBLT_bucket_Class)
    BY <1>1, <2>1, ConcatProperties
  <2> QED
    BY <2>2 DEF IBLT_MergeFrom, IBLT_Class
<1> QED
  BY <1>3, <1>4, <1>5, <1>6, <1>7, <1>8 DEF n

\* A message of the class has its size and is read back, into any other.
LEMMA IBLT_Codec ==
    ASSUME NEW x \in IBLT_Class, IBLT_ByteSize(x) < Word32
    PROVE  /\ IBLT_Serialize(x) \in Bytes
           /\ Len(IBLT_Serialize(x)) = IBLT_ByteSize(x)
           /\ \A m \in IBLT_Class :
                 Reads(IBLT_MergePartial, m, IBLT_Serialize(x), IBLT_MergeFrom(m, x))
<1> DEFINE s == x.buckets
           n == Len(s)
           d == [i \in 1 .. n |-> IBLT_bucket_Serialize(s[i])]
<1>1. s \in Seq(IBLT_bucket_Class) /\ n \in Nat /\ DOMAIN s = 1 .. n
          /\ \A i \in 1 .. n : s[i] \in IBLT_bucket_Class
  <2>1. s \in Seq(IBLT_bucket_Class)
    BY DEF IBLT_Class
  <2> QED
    BY <2>1, LenProperties, ElementOfSeq
<1>2. ASSUME NEW i \in 1 .. n
      PROVE  /\ IBLT_bucket_Serialize(s[i]) \in Bytes
             /\ Len(IBLT_bucket_Serialize(s[i])) = IBLT_bucket_ByteSize(s[i])
             /\ IBLT_bucket_ByteSize(s[i]) < Word32
             /\ ParsesTo(IBLT_bucket_MergePartial, IBLT_bucket_New,
                  IBLT_bucket_Serialize(s[i]), s[i])
  <2> DEFINE y == s[i]
  <2>1. y \in IBLT_bucket_Class
    BY <1>1
  <2>2. IBLT_bucket_ByteSize(y) < Word32
    <3>1. IBLT_bucket_ByteSize(y) \in Nat /\ IBLT_bucket_ByteSize(y) <= IBLT_ByteSize(x)
              /\ IBLT_ByteSize(x) \in Nat
      BY IBLT_Merged
    <3> HIDE DEF y
    <3> QED
      BY <3>1, WordFacts
  <2> HIDE DEF y
  <2>3. /\ IBLT_bucket_Serialize(y) \in Bytes
             /\ Len(IBLT_bucket_Serialize(y)) = IBLT_bucket_ByteSize(y)
        /\ IBLT_bucket_MergeFrom(IBLT_bucket_New, y) = y
        /\ Reads(IBLT_bucket_MergePartial, IBLT_bucket_New, IBLT_bucket_Serialize(y),
             IBLT_bucket_MergeFrom(IBLT_bucket_New, y))
    BY <2>1, <2>2, IBLT_bucket_Codec, IBLT_bucket_IsMerge
  <2>4. ParsesTo(IBLT_bucket_MergePartial, IBLT_bucket_New, IBLT_bucket_Serialize(y), y)
    <3> DEFINE w == IBLT_bucket_Serialize(y)
    <3>1. w \in Bytes /\ Reads(IBLT_bucket_MergePartial, IBLT_bucket_New, w, y)
      BY <2>3
    <3> HIDE DEF w
    <3>2. IBLT_bucket_MergePartial[Input(IBLT_bucket_New, w)] = Merged(TRUE, y)
      BY <2>1, <3>1, IBLT_bucket_IsMerge, ReadsAll
    <3> QED
      BY <3>2 DEF w, ParsesTo
  <2> QED
    BY <2>2, <2>3, <2>4 DEF y
<1>3. d \in Seq(Bytes) /\ Len(d) = n
          /\ \A i \in 1 .. n : d[i] = IBLT_bucket_Serialize(s[i])
  <2> HIDE DEF n, s
  <2>1. \A i \in 1 .. n : IBLT_bucket_Serialize(s[i]) \in Bytes
    BY <1>2
  <2> QED
    BY <1>1, <2>1
<1>4. Short(d) /\ Parses(IBLT_bucket_MergePartial, IBLT_bucket_New, d, s)
  BY <1>2, <1>3 DEF Short, Parses
<1>5. [i \in DOMAIN s |-> IBLT_bucket_ByteSize(s[i])] = [i \in 1 .. Len(d) |-> Len(d[i])]
  BY <1>1, <1>2, <1>3
<1>6. IBLT_Serialize(x) = DataFields(1, d)
  <2>1. [i \in DOMAIN s |-> Delimited(1, IBLT_bucket_ByteSize(s[i]),
            IBLT_bucket_Serialize(s[i]))]
          = [i \in 1 .. Len(d) |-> Delimited(1, Len(d[i]), d[i])]
    <3> HIDE DEF d, s
    <3> QED
      BY <1>1, <1>2, <1>3
  <2> QED
    BY <2>1, Zenon DEF IBLT_Serialize, Each, DataFields
<1>7. IBLT_ByteSize(x) = FieldsSize([i \in 1 .. Len(d) |-> Len(d[i])])
  BY <1>5, Zenon DEF IBLT_ByteSize
<1> HIDE DEF d, s, n
<1>8. /\ DataFields(1, d) \in Bytes
      /\ Len(DataFields(1, d)) = FieldsSize([i \in 1 .. Len(d) |-> Len(d[i])])
  <2>1. 1 \in 1 .. 5
    OBVIOUS
  <2> QED
    BY <1>3, <1>4, <2>1, DataFieldsLen, Zenon
<1>9. ASSUME NEW m \in IBLT_Class
      PROVE  Reads(IBLT_MergePartial, m, DataFields(1, d), IBLT_MergeFrom(m, x))
  <2>1. 1 \in 1 .. 5 /\ Len(d) = Len(s)
    BY <1>3 DEF n
  <2>2. TakesEach(IBLT_Reader, IBLT_Class, 1, "buckets", s, d)
    BY <1>1, <1>3, <1>4, <2>1, IBLT_IsMerge, MessagesTaken
  <2>3. Reads(IBLT_MergePartial, m, DataFields(1, d), [m EXCEPT !["buckets"] = @ \o s])
    BY <1>1, <1>3, <1>4, <2>1, <2>2, IBLT_IsMerge, IBLT_Fields, RepeatedField
  <2>4. [m EXCEPT !["buckets"] = @ \o s] = IBLT_MergeFrom(m, x)
    BY DEF IBLT_MergeFrom, s, IBLT_Class
  <2> QED
    BY <2>3, <2>4
<1> QED
  BY <1>6, <1>7, <1>8, <1>9

-----------------------------------------------------------------------------
(* strata_estimator.                                                       *)

strata_estimator_Reader == [f \in Fields(strata_estimator_Class)
    |-> strata_estimator_ReadField(f.m, f.tag, f.in)]

\* The reader of the class, applied.
LEMMA strata_estimator_Reading ==
    ASSUME NEW m \in strata_estimator_Class, NEW tag \in Nat, NEW in \in Bytes
    PROVE  strata_estimator_Reader[Field(m, tag, in)]
               = strata_estimator_ReadField(m, tag, in)
<1> DEFINE f == Field(m, tag, in)
<1>1. f \in Fields(strata_estimator_Class) /\ f.m = m /\ f.tag = tag /\ f.in = in
  BY FieldIs
<1> HIDE DEF f
<1> QED
  BY <1>1, Zenon DEF strata_estimator_Reader, f

\* Its strata may be continued by others.
LEMMA strata_estimator_Fields == IsRepeated(strata_estimator_Class, "strata", IBLT2_Class)
<1> SUFFICES ASSUME NEW m \in strata_estimator_Class
             PROVE  /\ "strata" \in DOMAIN m /\ m["strata"] \in Seq(IBLT2_Class)
                    /\ Grows(m, "strata", IBLT2_Class, strata_estimator_Class)
                    /\ [m EXCEPT !["strata"] = @ \o << >>] = m
  BY DEF IsRepeated
<1>1. "strata" \in DOMAIN m /\ m.strata \in Seq(IBLT2_Class)
  BY DEF strata_estimator_Class
<1>2. m.strata \o << >> = m.strata /\ \A s \in Seq(IBLT2_Class) :
          m.strata \o s \in Seq(IBLT2_Class)
  BY <1>1, ConcatEmptySeq, ConcatProperties
<1>3. Grows(m, "strata", IBLT2_Class, strata_estimator_Class)
  BY <1>2 DEF Grows, strata_estimator_Class
<1>4. [m EXCEPT !["strata"] = @ \o << >>] = m
  BY <1>2 DEF strata_estimator_Class
<1> QED
  BY <1>1, <1>3, <1>4

\* MergePartialFromCodedStream of the class is a loop over its fields.
LEMMA strata_estimator_IsMerge ==
    /\ strata_estimator_New \in strata_estimator_Class
    /\ IsMerge(strata_estimator_MergePartial, strata_estimator_Class,
         strata_estimator_Reader)
    /\ ReadsMessages(strata_estimator_Reader, strata_estimator_Class, 1, "strata",
         IBLT2_MergePartial, IBLT2_New)
<1>1. strata_estimator_New \in strata_estimator_Class
  BY EmptySeq DEF strata_estimator_New, strata_estimator_Class
<1>2. ASSUME NEW m \in strata_estimator_Class, NEW tag \in Nat, NEW in \in Bytes
      PROVE  IsField(strata_estimator_Reader[Field(m, tag, in)], strata_estimator_Class,
                 in)
  <2> DEFINE r == ReadMessage(IBLT2_MergePartial, IBLT2_New, in)
  <2>1. IsReading(r, IBLT2_Class, in)
    BY IBLT2_IsMerge, ReadMessageType DEF IsReadingOne
  <2> HIDE DEF r
  <2>2. Grows(m, "strata", IBLT2_Class, strata_estimator_Class)
    BY strata_estimator_Fields DEF IsRepeated
  <2>3. IsField(Appended(m, "strata", r), strata_estimator_Class, in)
    BY <2>1, <2>2, AppendedType
  <2>4. IsField(Skip(m, tag, in), strata_estimator_Class, in)
    BY SkipType
  <2>5. \/ strata_estimator_ReadField(m, tag, in) = Appended(m, "strata", r)
        \/ strata_estimator_ReadField(m, tag, in) = Skip(m, tag, in)
    BY DEF strata_estimator_ReadField, r
  <2> QED
    BY <2>3, <2>4, <2>5, strata_estimator_Reading
<1>3. IsReader(strata_estimator_Reader, strata_estimator_Class)
  BY <1>1, <1>2 DEF IsReader
<1>4. IsMerge(strata_estimator_MergePartial, strata_estimator_Class,
          strata_estimator_Reader)
  BY <1>3, MergeExists DEF strata_estimator_MergePartial, strata_estimator_Reader
<1>5. Tag(1, LENGTH_DELIMITED) \in Nat
  BY DEF Tag, LENGTH_DELIMITED
<1>6. ReadsMessages(strata_estimator_Reader, strata_estimator_Class, 1, "strata",
          IBLT2_MergePartial, IBLT2_New)
  BY <1>5, strata_estimator_Reading DEF ReadsMessages, strata_estimator_ReadField
<1> QED
  BY <1>1, <1>4, <1>6

\* MergeFrom continues the strata, and gives the message itself from a new one.
LEMMA strata_estimator_Merged ==
    ASSUME NEW x \in strata_estimator_Class
    PROVE  /\ strata_estimator_ByteSize(x) \in Nat
           /\ \A i \in 1 .. Len(x.strata) : /\ IBLT2_ByteSize(x.strata[i]) \in Nat
                                         /\ IBLT2_ByteSize(x.strata[i])
                                              <= strata_estimator_ByteSize(x)
           /\ strata_estimator_MergeFrom(strata_estimator_New, x) = x
           /\ \A m \in strata_estimator_Class :
                strata_estimator_MergeFrom(m, x) \in strata_estimator_Class
<1> DEFINE n == Len(x.strata)
           sizes == [i \in DOMAIN x.strata |-> IBLT2_ByteSize(x.strata[i])]
<1>1. x.strata \in Seq(IBLT2_Class)
  BY DEF strata_estimator_Class
<1>2. n \in Nat /\ DOMAIN x.strata = 1 .. n
          /\ \A i \in 1 .. n : x.strata[i] \in IBLT2_Class
  BY <1>1, LenProperties, ElementOfSeq
<1>3. DOMAIN sizes = 1 .. n /\ \A i \in 1 .. n : sizes[i] = IBLT2_ByteSize(x.strata[i])
  BY <1>2
<1>4. \A i \in 1 .. n : IBLT2_ByteSize(x.strata[i]) \in Nat
  BY <1>2, IBLT2_Merged
<1>5. strata_estimator_ByteSize(x) = FieldsSize(sizes)
  BY DEF strata_estimator_ByteSize
<1> HIDE DEF sizes, n
<1>6. FieldsSize(sizes) \in Nat /\ \A i \in 1 .. n : sizes[i] <= FieldsSize(sizes)
  BY <1>2, <1>3, <1>4, FieldsSizeFacts
<1>7. strata_estimator_MergeFrom(strata_estimator_New, x) = x
  <2>1. << >> \o x.strata = x.strata
    BY <1>1, ConcatEmptySeq
  <2> QED
    BY <2>1 DEF strata_estimator_MergeFrom, strata_estimator_New, strata_estimator_Class
<1>8. ASSUME NEW m \in strata_estimator_Class
                 PROVE strata_estimator_MergeFrom(m, x) \in strata_estimator_Class
  <2>1. m.strata \in Seq(IBLT2_Class)
    BY DEF strata_estimator_Class
  <2>2. m.strata \o x.strata \in Seq(IBLT2_Class)
    BY <1>1, <2>1, ConcatProperties
  <2> QED
    BY <2>2 DEF strata_estimator_MergeFrom, strata_estimator_Class
<1> QED
  BY <1>3, <1>4, <1>5, <1>6, <1>7, <1>8 DEF n

\* A message of the class has its size and is read back, into any other.
LEMMA strata_estimator_Codec ==
    ASSUME NEW x \in strata_estimator_Class, strata_estimator_ByteSize(x) < Word32
    PROVE  /\ strata_estimator_Serialize(x) \in Bytes
           /\ Len(strata_estimator_Serialize(x)) = strata_estimator_ByteSize(x)
           /\ \A m \in strata_estimator_Class :
                 Reads(strata_estimator_MergePartial, m, strata_estimator_Serialize(x),
                     strata_estimator_MergeFrom(m, x))
<1> DEFINE s == x.strata
           n == Len(s)
           d == [i \in 1 .. n |-> IBLT2_Serialize(s[i])]
<1>1. s \in Seq(IBLT2_Class) /\ n \in Nat /\ DOMAIN s = 1 .. n
          /\ \A i \in 1 .. n : s[i] \in IBLT2_Class
  <2>1. s \in Seq(IBLT2_Class)
    BY DEF strata_estimator_Class
  <2> QED
    BY <2>1, LenProperties, ElementOfSeq
<1>2. ASSUME NEW i \in 1 .. n
      PROVE  /\ IBLT2_Serialize(s[i]) \in Bytes
             /\ Len(IBLT2_Serialize(s[i])) = IBLT2_ByteSize(s[i])
             /\ IBLT2_ByteSize(s[i]) < Word32
             /\ ParsesTo(IBLT2_MergePartial, IBLT2_New, IBLT2_Serialize(s[i]), s[i])
  <2> DEFINE y == s[i]
  <2>1. y \in IBLT2_Class
    BY <1>1
  <2>2. IBLT2_ByteSize(y) < Word32
    <3>1. IBLT2_ByteSize(y) \in Nat /\ IBLT2_ByteSize(y) <= strata_estimator_ByteSize(x)
              /\ strata_estimator_ByteSize(x) \in Nat
      BY strata_estimator_Merged
    <3> HIDE DEF y
    <3> QED
      BY <3>1, WordFacts
  <2> HIDE DEF y
  <2>3. /\ IBLT2_Serialize(y) \in Bytes /\ Len(IBLT2_Serialize(y)) = IBLT2_ByteSize(y)
        /\ IBLT2_MergeFrom(IBLT2_New, y) = y
        /\ Reads(IBLT2_MergePartial, IBLT2_New, IBLT2_Serialize(y),
             IBLT2_MergeFrom(IBLT2_New, y))
    BY <2>1, <2>2, IBLT2_Codec, IBLT2_IsMerge, IBLT2_Merged
  <2>4. ParsesTo(IBLT2_MergePartial, IBLT2_New, IBLT2_Serialize(y), y)
    <3> DEFINE w == IBLT2_Serialize(y)
    <3>1. w \in Bytes /\ Reads(IBLT2_MergePartial, IBLT2_New, w, y)
      BY <2>3
    <3> HIDE DEF w
    <3>2. IBLT2_MergePartial[Input(IBLT2_New, w)] = Merged(TRUE, y)
      BY <2>1, <3>1, IBLT2_IsMerge, ReadsAll
    <3> QED
      BY <3>2 DEF w, ParsesTo
  <2> QED
    BY <2>2, <2>3, <2>4 DEF y
<1>3. d \in Seq(Bytes) /\ Len(d) = n /\ \A i \in 1 .. n : d[i] = IBLT2_Serialize(s[i])
  <2> HIDE DEF n, s
  <2>1. \A i \in 1 .. n : IBLT2_Serialize(s[i]) \in Bytes
    BY <1>2
  <2> QED
    BY <1>1, <2>1
<1>4. Short(d) /\ Parses(IBLT2_MergePartial, IBLT2_New, d, s)
  BY <1>2, <1>3 DEF Short, Parses
<1>5. [i \in DOMAIN s |-> IBLT2_ByteSize(s[i])] = [i \in 1 .. Len(d) |-> Len(d[i])]
  BY <1>1, <1>2, <1>3
<1>6. strata_estimator_Serialize(x) = DataFields(1, d)
  <2>1. [i \in DOMAIN s |-> Delimited(1, IBLT2_ByteSize(s[i]), IBLT2_Serialize(s[i]))]
          = [i \in 1 .. Len(d) |-> Delimited(1, Len(d[i]), d[i])]
    <3> HIDE DEF d, s
    <3> QED
      BY <1>1, <1>2, <1>3
  <2> QED
    BY <2>1, Zenon DEF strata_estimator_Serialize, Each, DataFields
<1>7. strata_estimator_ByteSize(x) = FieldsSize([i \in 1 .. Len(d) |-> Len(d[i])])
  BY <1>5, Zenon DEF strata_estimator_ByteSize
<1> HIDE DEF d, s, n
<1>8. /\ DataFields(1, d) \in Bytes
      /\ Len(DataFields(1, d)) = FieldsSize([i \in 1 .. Len(d) |-> Len(d[i])])
  <2>1. 1 \in 1 .. 5
    OBVIOUS
  <2> QED
    BY <1>3, <1>4, <2>1, DataFieldsLen, Zenon
<1>9. ASSUME NEW m \in strata_estimator_Class
      PROVE  Reads(strata_estimator_MergePartial, m, DataFields(1, d),
                 strata_estimator_MergeFrom(m, x))
  <2>1. 1 \in 1 .. 5 /\ Len(d) = Len(s)
    BY <1>3 DEF n
  <2>2. TakesEach(strata_estimator_Reader, strata_estimator_Class, 1, "strata", s, d)
    BY <1>1, <1>3, <1>4, <2>1, strata_estimator_IsMerge, MessagesTaken
  <2>3. Reads(strata_estimator_MergePartial, m, DataFields(1, d),
            [m EXCEPT !["strata"] = @ \o s])
    BY <1>1, <1>3, <1>4, <2>1, <2>2, strata_estimator_IsMerge, strata_estimator_Fields,
           RepeatedField
  <2>4. [m EXCEPT !["strata"] = @ \o s] = strata_estimator_MergeFrom(m, x)
    BY DEF strata_estimator_MergeFrom, s, strata_estimator_Class
  <2> QED
    BY <2>3, <2>4
<1> QED
  BY <1>6, <1>7, <1>8, <1>9

-----------------------------------------------------------------------------
(* Fields of bytes.                                                        *)

\* No delimited field, and one.
LEMMA DataFieldsOne ==
    ASSUME NEW number \in 1 .. 5
    PROVE  /\ DataFields(number, << >>) = << >>
           /\ \A data \in Bytes : Len(data) < Word32 =>
                 DataFields(number, <<data>>) = Delimited(number, Len(data), data)
<1>1. DataFields(number, << >>) = << >>
  <2>1. [i \in 1 .. Len(<< >>) |-> Delimited(number, Len(<< >>[i]), << >>[i])] = << >>
    BY EmptySeq
  <2> QED
    BY <2>1, FlattenOne DEF DataFields
<1>2. ASSUME NEW data \in Bytes, Len(data) < Word32
      PROVE  DataFields(number, <<data>>) = Delimited(number, Len(data), data)
  <2> DEFINE w == Delimited(number, Len(data), data)
             d == <<data>>
  <2>1. [i \in 1 .. Len(d) |-> Delimited(number, Len(d[i]), d[i])] = <<w>>
    <3>1. Len(d) = 1 /\ d[1] = data
      OBVIOUS
    <3> HIDE DEF d
    <3>2. \A i \in 1 .. Len(d) : Delimited(number, Len(d[i]), d[i]) = w
      BY <3>1
    <3> HIDE DEF w
    <3>3. [i \in 1 .. Len(d) |-> Delimited(number, Len(d[i]), d[i])]
              = [i \in 1 .. 1 |-> w]
      BY <3>1, <3>2
    <3> QED
      BY <3>3
  <2>2. w \in Seq(Byte)
    <3>1. w \in Bytes
      BY <1>2, DelimitedLen
    <3> HIDE DEF w
    <3> QED
      BY <3>1 DEF Bytes
  <2> QED
    BY <2>1, <2>2, FlattenOne DEF DataFields
<1> QED
  BY <1>1, <1>2

ReadsStrings(ReadField, C, number, field) ==
    \A m \in C, in \in Bytes :
        ReadField[Field(m, Tag(number, LENGTH_DELIMITED), in)]
            = Appended(m, field, ReadBytes(in))

\* Strings are taken one by one.
LEMMA StringsTaken ==
    ASSUME NEW C, NEW ReadField, NEW number \in 1 .. 5, NEW field,
           ReadsStrings(ReadField, C, number, field), NEW s \in Seq(Bytes), Short(s)
    PROVE  TakesEach(ReadField, C, number, field, s, s)
<1> SUFFICES ASSUME NEW m \in C, NEW i \in 1 .. Len(s), NEW rest \in Bytes
             PROVE  ReadField[Field(m, Tag(number, LENGTH_DELIMITED),
                                    Varint[Len(s[i])] \o (s[i] \o rest))]
                      = [ok |-> TRUE, m |-> [m EXCEPT ![field] = @ \o <<s[i]>>],
                          rest |-> rest]
  BY DEF TakesEach, TakesData
<1> DEFINE data == s[i]
           in == Varint[Len(data)] \o (data \o rest)
           r == ReadBytes(in)
<1>1. data \in Bytes /\ Len(data) < Word32
  BY ElementOfSeq DEF Short
<1> HIDE DEF data
<1>2. in \in Bytes
  BY <1>1, InBytes
<1>3. r = Read(TRUE, <<data>>, rest)
  BY <1>1, ReadBytesOf
<1> HIDE DEF in
<1>4. ReadField[Field(m, Tag(number, LENGTH_DELIMITED), in)] = Appended(m, field, r)
  BY <1>2 DEF ReadsStrings
<1> HIDE DEF r
<1>5. r.ok = TRUE /\ r.values = <<data>> /\ r.rest = rest
  BY <1>3 DEF Read
<1> QED
  BY <1>4, <1>5 DEF Appended, in, data

ReadsString(ReadField, C, number, field) ==
    \A m \in C, in \in Bytes :
        ReadField[Field(m, Tag(number, LENGTH_DELIMITED), in)]
            = Replaced(m, field, ReadBytes(in))

\* A single string is read as the later value.
LEMMA SingleString ==
    ASSUME NEW C, NEW ReadField, NEW merge, IsMerge(merge, C, ReadField),
           NEW m \in C, NEW number \in 1 .. 5, NEW field,
           ReadsString(ReadField, C, number, field),
           NEW s \in Single(Bytes), Short(s), [m EXCEPT ![field] = Later(@, << >>)] = m
    PROVE  Reads(merge, m, DataFields(number, s), [m EXCEPT ![field] = Later(@, s)])
<1>1. CASE s = << >>
  BY <1>1, DataFieldsOne, ReadsNothing
<1>2. ASSUME NEW data \in Bytes, s = <<data>>
      PROVE  Reads(merge, m, DataFields(number, s), [m EXCEPT ![field] = Later(@, s)])
  <2> DEFINE m2 == [m EXCEPT ![field] = Later(@, s)]
  <2>1. Len(data) < Word32
    <3>1. Len(s) = 1 /\ s[1] = data /\ 1 \in 1 .. 1
      BY <1>2
    <3> QED
      BY <3>1, Zenon DEF Short
  <2>2. DataFields(number, s) = Delimited(number, Len(data), data)
    BY <1>2, <2>1, DataFieldsOne
  <2>3. ASSUME NEW rest \in Bytes
        PROVE  ReadField[Field(m, Tag(number, LENGTH_DELIMITED),
                               Varint[Len(data)] \o (data \o rest))]
                 = [ok |-> TRUE, m |-> m2, rest |-> rest]
    <3> DEFINE in == Varint[Len(data)] \o (data \o rest)
               r == ReadBytes(in)
    <3>1. r = Read(TRUE, s, rest)
      BY <1>2, <2>1, ReadBytesOf
    <3>2. in \in Bytes
      BY <2>1, InBytes
    <3> HIDE DEF in
    <3>3. ReadField[Field(m, Tag(number, LENGTH_DELIMITED), in)] = Replaced(m, field, r)
      BY <3>2 DEF ReadsString
    <3> HIDE DEF r
    <3>4. r.ok = TRUE /\ r.values = s /\ r.rest = rest
      BY <3>1 DEF Read
    <3> QED
      BY <3>3, <3>4 DEF Replaced, in
  <2> HIDE DEF m2
  <2>4. TakesData(ReadField, m, number, data, m2)
    BY <2>3 DEF TakesData
  <2>5. Reads(merge, m, Delimited(number, Len(data), data), m2)
    BY <2>1, <2>4, DelimitedField
  <2> QED
    BY <2>2, <2>5 DEF m2
<1>3. CASE s # << >>
  <2>1. PICK data \in Bytes : s = <<data>>
    BY <1>3, SingleCases
  <2> QED
    BY <1>2, <2>1
<1> QED
  BY <1>1, <1>3

-----------------------------------------------------------------------------
(* Round2.                                                                 *)

Round2_Reader == [f \in Fields(Round2_Class) |-> Round2_ReadField(f.m, f.tag, f.in)]

\* The reader of the class, applied.
LEMMA Round2_Reading ==
    ASSUME NEW m \in Round2_Class, NEW tag \in Nat, NEW in \in Bytes
    PROVE  Round2_Reader[Field(m, tag, in)] = Round2_ReadField(m, tag, in)
<1> DEFINE f == Field(m, tag, in)
<1>1. f \in Fields(Round2_Class) /\ f.m = m /\ f.tag = tag /\ f.in = in
  BY FieldIs
<1> HIDE DEF f
<1> QED
  BY <1>1, Zenon DEF Round2_Reader, f

\* The types of its fields.
LEMMA Round2_Types ==
    ASSUME NEW m \in Round2_Class
    PROVE  /\ m.chunk_exists \in Seq(Bool) /\ m.hash_exists \in Seq(Bool)
           /\ m.new_chunk_info \in Seq(Bytes) /\ m.existing_chunk_encoding \in Seq(UInt32)
           /\ m.SHAHash \in Single(Bytes)
BY DEF Round2_Class

\* Its fields may change to values of their types, and no value changes none.
LEMMA Round2_Fields ==
    ASSUME NEW m \in Round2_Class
    PROVE  /\ Grows(m, "chunk_exists", Bool, Round2_Class)
           /\ Grows(m, "hash_exists", Bool, Round2_Class)
           /\ Grows(m, "new_chunk_info", Bytes, Round2_Class)
           /\ Grows(m, "existing_chunk_encoding", UInt32, Round2_Class)
           /\ Changes(m, "SHAHash", Bytes, Round2_Class)
           /\ [m EXCEPT !["chunk_exists"] = @ \o << >>] = m
           /\ [m EXCEPT !["hash_exists"] = @ \o << >>] = m
           /\ [m EXCEPT !["new_chunk_info"] = @ \o << >>] = m
           /\ [m EXCEPT !["existing_chunk_encoding"] = @ \o << >>] = m
           /\ [m EXCEPT !["SHAHash"] = Later(@, << >>)] = m
<1>1. /\ m.chunk_exists \o << >> = m.chunk_exists
           /\ m.hash_exists \o << >> = m.hash_exists
      /\ m.new_chunk_info \o << >> = m.new_chunk_info
      /\ m.existing_chunk_encoding \o << >> = m.existing_chunk_encoding
  BY Round2_Types, ConcatEmptySeq
<1>2. \A s \in Seq(Bool) : m.chunk_exists \o s \in Seq(Bool)
          /\ m.hash_exists \o s \in Seq(Bool)
  BY Round2_Types, ConcatProperties
<1>3. \A s \in Seq(Bytes) : m.new_chunk_info \o s \in Seq(Bytes)
  BY Round2_Types, ConcatProperties
<1>4. \A s \in Seq(UInt32) : m.existing_chunk_encoding \o s \in Seq(UInt32)
  BY Round2_Types, ConcatProperties
<1>5. Grows(m, "chunk_exists", Bool, Round2_Class)
  BY <1>2 DEF Grows, Round2_Class
<1>6. Grows(m, "hash_exists", Bool, Round2_Class)
  BY <1>2 DEF Grows, Round2_Class
<1>7. Grows(m, "new_chunk_info", Bytes, Round2_Class)
  BY <1>3 DEF Grows, Round2_Class
<1>8. Grows(m, "existing_chunk_encoding", UInt32, Round2_Class)
  BY <1>4 DEF Grows, Round2_Class
<1>9. Changes(m, "SHAHash", Bytes, Round2_Class)
  BY DEF Changes, Later, Round2_Class
<1>10. [m EXCEPT !["chunk_exists"] = @ \o << >>] = m
  BY <1>1 DEF Round2_Class
<1>11. [m EXCEPT !["hash_exists"] = @ \o << >>] = m
  BY <1>1 DEF Round2_Class
<1>12. [m EXCEPT !["new_chunk_info"] = @ \o << >>] = m
  BY <1>1 DEF Round2_Class
<1>13. [m EXCEPT !["existing_chunk_encoding"] = @ \o << >>] = m
  BY <1>1 DEF Round2_Class
<1>14. [m EXCEPT !["SHAHash"] = Later(@, << >>)] = m
  BY DEF Later, Round2_Class
<1> QED
  BY <1>5, <1>6, <1>7, <1>8, <1>9, <1>10, <1>11, <1>12, <1>13, <1>14

\* Its chunks may be continued by others.
LEMMA Round2_Strings == IsRepeated(Round2_Class, "new_chunk_info", Bytes)
<1>1. \A m \in Round2_Class : "new_chunk_info" \in DOMAIN m
          /\ m["new_chunk_info"] \in Seq(Bytes)
  BY DEF Round2_Class
<1> QED
  BY <1>1, Round2_Fields DEF IsRepeated

\* MergePartialFromCodedStream of the class is a loop over its fields.
LEMMA Round2_IsMerge ==
    /\ Round2_New \in Round2_Class
    /\ IsMerge(Round2_MergePartial, Round2_Class, Round2_Reader)
<1>1. Round2_New \in Round2_Class
  BY EmptySeq DEF Round2_New, Round2_Class, Single
<1>2. ASSUME NEW m \in Round2_Class, NEW tag \in Nat, NEW in \in Bytes
      PROVE  IsField(Round2_Reader[Field(m, tag, in)], Round2_Class, in)
  <2> DEFINE r == ReadBytes(in)
  <2>1. IsNumeric("bool", Bool) /\ IsNumeric("uint32", UInt32)
    BY DEF IsNumeric
  <2>2. IsReadingOne(r, Bytes, in) /\ IsReading(r, Bytes, in)
    BY ReadBytesType DEF IsReadingOne
  <2> HIDE DEF r
  <2>3. /\ IsField(Numbers(m, "chunk_exists", "bool", tag, in), Round2_Class, in)
        /\ IsField(Numbers(m, "hash_exists", "bool", tag, in), Round2_Class, in)
        /\ IsField(Numbers(m, "existing_chunk_encoding", "uint32", tag, in),
             Round2_Class, in)
    BY <2>1, Round2_Fields, NumbersType
  <2>4. IsField(Appended(m, "new_chunk_info", r), Round2_Class, in)
    BY <2>2, Round2_Fields, AppendedType
  <2>5. IsField(Replaced(m, "SHAHash", r), Round2_Class, in)
    BY <2>2, Round2_Fields, ReplacedType
  <2>6. IsField(Skip(m, tag, in), Round2_Class, in)
    BY SkipType
  <2>7. \/ Round2_ReadField(m, tag, in) = Numbers(m, "chunk_exists", "bool", tag, in)
        \/ Round2_ReadField(m, tag, in) = Numbers(m, "hash_exists", "bool", tag, in)
        \/ Round2_ReadField(m, tag, in) = Appended(m, "new_chunk_info", r)
        \/ Round2_ReadField(m, tag, in)
             = Numbers(m, "existing_chunk_encoding", "uint32", tag, in)
        \/ Round2_ReadField(m, tag, in) = Replaced(m, "SHAHash", r)
        \/ Round2_ReadField(m, tag, in) = Skip(m, tag, in)
    BY DEF Round2_ReadField, r
  <2> QED
    BY <2>3, <2>4, <2>5, <2>6, <2>7, Round2_Reading
<1>3. IsReader(Round2_Reader, Round2_Class)
  BY <1>1, <1>2 DEF IsReader
<1> QED
  BY <1>1, <1>3, MergeExists DEF Round2_MergePartial, Round2_Reader

\* The tags that ReadField takes for its fields.
LEMMA Round2_Reads ==
    /\ ReadsNumbers(Round2_Reader, Round2_Class, 1, "chunk_exists", "bool")
    /\ ReadsNumbers(Round2_Reader, Round2_Class, 2, "hash_exists", "bool")
    /\ ReadsStrings(Round2_Reader, Round2_Class, 3, "new_chunk_info")
    /\ ReadsNumbers(Round2_Reader, Round2_Class, 4, "existing_chunk_encoding", "uint32")
    /\ ReadsString(Round2_Reader, Round2_Class, 5, "SHAHash")
<1> DEFINE tag(n) == Tag(n, LENGTH_DELIMITED)
<1>1. 1 \in 1 .. 5 /\ 2 \in 1 .. 5 /\ 3 \in 1 .. 5 /\ 4 \in 1 .. 5 /\ 5 \in 1 .. 5
  OBVIOUS
<1>2. /\ tag(1) = 10 /\ tag(2) = 18 /\ tag(3) = 26 /\ tag(4) = 34 /\ tag(5) = 42
  BY DEF Tag, LENGTH_DELIMITED
<1>3. \A n, k \in 1 .. 5 : Packable(tag(n), k) <=> k = n
  BY PackedTag
<1>4. ASSUME NEW m \in Round2_Class, NEW in \in Bytes
      PROVE  /\ Round2_Reader[Field(m, tag(1), in)]
                  = Appended(m, "chunk_exists", ReadPacked("bool", in))
             /\ Round2_Reader[Field(m, tag(2), in)]
                  = Appended(m, "hash_exists", ReadPacked("bool", in))
             /\ Round2_Reader[Field(m, tag(3), in)]
                  = Appended(m, "new_chunk_info", ReadBytes(in))
             /\ Round2_Reader[Field(m, tag(4), in)]
                  = Appended(m, "existing_chunk_encoding", ReadPacked("uint32", in))
             /\ Round2_Reader[Field(m, tag(5), in)]
                  = Replaced(m, "SHAHash", ReadBytes(in))
  <2>1. \A n \in 1 .. 5 : Round2_Reader[Field(m, tag(n), in)]
            = Round2_ReadField(m, tag(n), in)
    BY PackedTag, Round2_Reading
  <2>2. \A n \in 1 .. 5 : \A field, type :
            Numbers(m, field, type, tag(n), in) = Appended(m, field, ReadPacked(type, in))
    BY PackedTag
  <2>3. Round2_ReadField(m, tag(1), in) = Numbers(m, "chunk_exists", "bool", tag(1), in)
    BY <1>1, <1>3 DEF Round2_ReadField
  <2>4. Round2_ReadField(m, tag(2), in) = Numbers(m, "hash_exists", "bool", tag(2), in)
    BY <1>1, <1>3 DEF Round2_ReadField
  <2>5. Round2_ReadField(m, tag(3), in) = Appended(m, "new_chunk_info", ReadBytes(in))
    BY <1>1, <1>3 DEF Round2_ReadField
  <2>6. Round2_ReadField(m, tag(4), in)
          = Numbers(m, "existing_chunk_encoding", "uint32", tag(4), in)
    BY <1>1, <1>2, <1>3 DEF Round2_ReadField
  <2>7. Round2_ReadField(m, tag(5), in) = Replaced(m, "SHAHash", ReadBytes(in))
    BY <1>1, <1>2, <1>3 DEF Round2_ReadField
  <2> HIDE DEF tag
  <2> QED
    BY <1>1, <2>1, <2>2, <2>3, <2>4, <2>5, <2>6, <2>7
<1> QED
  BY <1>4 DEF ReadsNumbers, ReadsStrings, ReadsString

\* MergeFrom stays in the class, and gives the message itself from a new one.
LEMMA Round2_Merged ==
    ASSUME NEW x \in Round2_Class
    PROVE  /\ Round2_MergeFrom(Round2_New, x) = x
           /\ \A m \in Round2_Class : Round2_MergeFrom(m, x) \in Round2_Class
<1>1. Round2_MergeFrom(Round2_New, x) = x
  <2>1. << >> \o x.chunk_exists = x.chunk_exists /\ << >> \o x.hash_exists = x.hash_exists
        /\ << >> \o x.new_chunk_info = x.new_chunk_info
        /\ << >> \o x.existing_chunk_encoding = x.existing_chunk_encoding
    BY Round2_Types, ConcatEmptySeq
  <2>2. Later(<< >>, x.SHAHash) = x.SHAHash
    BY DEF Later
  <2> QED
    BY <2>1, <2>2 DEF Round2_MergeFrom, Round2_New, Round2_Class
<1>2. ASSUME NEW m \in Round2_Class PROVE Round2_MergeFrom(m, x) \in Round2_Class
  <2>1. m.chunk_exists \o x.chunk_exists \in Seq(Bool)
    BY Round2_Types, ConcatProperties
  <2>2. m.hash_exists \o x.hash_exists \in Seq(Bool)
    BY Round2_Types, ConcatProperties
  <2>3. m.new_chunk_info \o x.new_chunk_info \in Seq(Bytes)
    BY Round2_Types, ConcatProperties
  <2>4. m.existing_chunk_encoding \o x.existing_chunk_encoding \in Seq(UInt32)
    BY Round2_Types, ConcatProperties
  <2>5. Later(m.SHAHash, x.SHAHash) \in Single(Bytes)
    BY Round2_Types DEF Later
  <2> QED
    BY <2>1, <2>2, <2>3, <2>4, <2>5 DEF Round2_MergeFrom, Round2_Class
<1> QED
  BY <1>1, <1>2

\* The size of several strings is at least that of each.
LEMMA StringsSize ==
    ASSUME NEW s \in Seq(Bytes)
    PROVE  /\ FieldsSize([i \in 1 .. Len(s) |-> Len(s[i])]) \in Nat
           /\ \A i \in 1 .. Len(s) :
                Len(s[i]) <= FieldsSize([j \in 1 .. Len(s) |-> Len(s[j])])
           /\ DOMAIN s = 1 .. Len(s)
<1> DEFINE n == Len(s)
           lens == [i \in 1 .. n |-> Len(s[i])]
<1>1. n \in Nat /\ DOMAIN s = 1 .. n /\ \A i \in 1 .. n : s[i] \in Bytes
  BY LenProperties, ElementOfSeq
<1>2. DOMAIN lens = 1 .. n /\ \A i \in 1 .. n : lens[i] = Len(s[i]) /\ lens[i] \in Nat
  BY <1>1, BytesLen
<1> HIDE DEF lens, n
<1>3. FieldsSize(lens) \in Nat /\ \A i \in 1 .. n : lens[i] <= FieldsSize(lens)
  BY <1>1, <1>2, FieldsSizeFacts
<1> QED
  BY <1>1, <1>2, <1>3 DEF lens, n

\* WriteBytes for each string writes them as delimited fields.
LEMMA StringsSerialized ==
    ASSUME NEW number, NEW s \in Seq(Bytes)
    PROVE  Each(s, LAMBDA c : WriteBytes(number, c)) = DataFields(number, s)
<1>1. DOMAIN s = 1 .. Len(s)
  BY StringsSize
<1> QED
  BY <1>1 DEF Each, WriteBytes, DataFields

\* The parts of a Round2, and what they are for its size.
LEMMA Round2_Parts ==
    ASSUME NEW x \in Round2_Class
    PROVE  /\ Round2_Serialize(x)
                = WritePacked(1, Len(Varints(x.chunk_exists)), x.chunk_exists)
                  \o WritePacked(2, Len(Varints(x.hash_exists)), x.hash_exists)
                  \o DataFields(3, x.new_chunk_info)
                  \o WritePacked(4, Len(Varints(x.existing_chunk_encoding)),
                                 x.existing_chunk_encoding)
                  \o DataFields(5, x.SHAHash)
           /\ Round2_ByteSize(x)
                = FieldsSize([i \in 1 .. Len(x.SHAHash) |-> Len(x.SHAHash[i])])
                  + PackedSize(Len(Varints(x.chunk_exists)))
                  + PackedSize(Len(Varints(x.hash_exists)))
                  + FieldsSize([i \in 1 .. Len(x.new_chunk_info)
                      |-> Len(x.new_chunk_info[i])])
                  + PackedSize(Len(Varints(x.existing_chunk_encoding)))
<1>1. /\ Len(Varints(x.chunk_exists)) = Len(x.chunk_exists)
      /\ Len(Varints(x.hash_exists)) = Len(x.hash_exists)
  BY Round2_Types, BitsSize
<1>2. Len(Varints(x.existing_chunk_encoding)) = VarintsSize(x.existing_chunk_encoding)
  <2>1. IsNumeric("uint32", UInt32)
    BY DEF IsNumeric
  <2> QED
    BY <2>1, Round2_Types, VarintsSizeIsLen
<1>3. x.new_chunk_info \in Seq(Bytes) /\ x.SHAHash \in Seq(Bytes)
  BY Round2_Types DEF Single
<1>4. /\ Each(x.new_chunk_info, LAMBDA c : WriteBytes(3, c))
           = DataFields(3, x.new_chunk_info)
      /\ Each(x.SHAHash, LAMBDA h : WriteBytes(5, h)) = DataFields(5, x.SHAHash)
  BY <1>3, StringsSerialized
<1>5. /\ DOMAIN x.new_chunk_info = 1 .. Len(x.new_chunk_info)
      /\ DOMAIN x.SHAHash = 1 .. Len(x.SHAHash)
  BY <1>3, StringsSize
<1>6. Round2_Serialize(x)
        = WritePacked(1, Len(Varints(x.chunk_exists)), x.chunk_exists)
          \o WritePacked(2, Len(Varints(x.hash_exists)), x.hash_exists)
          \o DataFields(3, x.new_chunk_info)
          \o WritePacked(4, Len(Varints(x.existing_chunk_encoding)),
              x.existing_chunk_encoding)
          \o DataFields(5, x.SHAHash)
  BY <1>1, <1>2, <1>4, Zenon DEF Round2_Serialize
<1>7. Round2_ByteSize(x)
        = FieldsSize([i \in 1 .. Len(x.SHAHash) |-> Len(x.SHAHash[i])])
          + PackedSize(Len(Varints(x.chunk_exists)))
          + PackedSize(Len(Varints(x.hash_exists)))
          + FieldsSize([i \in 1 .. Len(x.new_chunk_info) |-> Len(x.new_chunk_info[i])])
          + PackedSize(Len(Varints(x.existing_chunk_encoding)))
  BY <1>1, <1>2, <1>5, Zenon DEF Round2_ByteSize
<1> QED
  BY <1>6, <1>7

\* A message of the class has its size and is read back, into any other.
LEMMA Round2_Codec ==
    ASSUME NEW x \in Round2_Class, Round2_ByteSize(x) < Word32
    PROVE  /\ Round2_Serialize(x) \in Bytes
           /\ Len(Round2_Serialize(x)) = Round2_ByteSize(x)
           /\ \A m \in Round2_Class :
                 Reads(Round2_MergePartial, m, Round2_Serialize(x),
                     Round2_MergeFrom(m, x))
<1> DEFINE s == x.new_chunk_info
           t == x.SHAHash
           i == Len(Varints(x.chunk_exists))
           j == Len(Varints(x.hash_exists))
           k == Len(Varints(x.existing_chunk_encoding))
           p == FieldsSize([n \in 1 .. Len(s) |-> Len(s[n])])
           q == FieldsSize([n \in 1 .. Len(t) |-> Len(t[n])])
           a == WritePacked(1, i, x.chunk_exists)
           b == WritePacked(2, j, x.hash_exists)
           c == DataFields(3, s)
           d == WritePacked(4, k, x.existing_chunk_encoding)
           e == DataFields(5, t)
<1>1. /\ x.chunk_exists \in Seq(Bool) /\ x.hash_exists \in Seq(Bool)
      /\ s \in Seq(Bytes) /\ x.existing_chunk_encoding \in Seq(UInt32)
      /\ t \in Single(Bytes) /\ t \in Seq(Bytes)
  BY Round2_Types DEF Single
<1>2. /\ IsNumeric("bool", Bool) /\ IsNumeric("uint32", UInt32)
      /\ 1 \in 1 .. 5 /\ 2 \in 1 .. 5 /\ 3 \in 1 .. 5 /\ 4 \in 1 .. 5 /\ 5 \in 1 .. 5
  BY DEF IsNumeric
<1>3. Round2_Serialize(x) = a \o b \o c \o d \o e
      /\ Round2_ByteSize(x) = q + PackedSize(i) + PackedSize(j) + p + PackedSize(k)
  BY Round2_Parts
<1>4. i \in Nat /\ j \in Nat /\ k \in Nat
  BY <1>1, <1>2, ReadElementsOf, BytesLen
<1>5. /\ p \in Nat /\ \A n \in 1 .. Len(s) : Len(s[n]) <= p
      /\ q \in Nat /\ \A n \in 1 .. Len(t) : Len(t[n]) <= q
  BY <1>1, StringsSize
<1>6. i < Word32 /\ j < Word32 /\ k < Word32 /\ p < Word32 /\ q < Word32
  <2> HIDE DEF i, j, k, p, q
  <2>1. /\ PackedSize(i) \in Nat /\ i <= PackedSize(i)
        /\ PackedSize(j) \in Nat /\ j <= PackedSize(j)
        /\ PackedSize(k) \in Nat /\ k <= PackedSize(k)
    BY <1>4, SizeFacts
  <2>2. Round2_ByteSize(x) = q + PackedSize(i) + PackedSize(j) + p + PackedSize(k)
    BY <1>3
  <2>3. p \in Nat /\ q \in Nat /\ Word32 \in Nat
    BY <1>5, WordFacts
  <2> QED
    BY <1>4, <2>1, <2>2, <2>3
<1>7. Short(s) /\ Short(t)
  <2>1. ASSUME NEW u \in Seq(Bytes), NEW n \in Nat, n < Word32,
               \A l \in 1 .. Len(u) : Len(u[l]) <= n
        PROVE  Short(u)
    <3> SUFFICES ASSUME NEW l \in 1 .. Len(u) PROVE Len(u[l]) < Word32
      BY DEF Short
    <3>1. u[l] \in Bytes
      BY ElementOfSeq
    <3>2. Len(u[l]) \in Nat /\ Len(u[l]) <= n
      BY <2>1, <3>1, BytesLen
    <3> QED
      BY <2>1, <3>2, WordFacts
  <2> HIDE DEF p, q, s, t
  <2> QED
    BY <1>1, <1>5, <1>6, <2>1
<1>8. /\ a \in Bytes /\ b \in Bytes /\ c \in Bytes /\ d \in Bytes /\ e \in Bytes
      /\ Len(a) = PackedSize(i) /\ Len(b) = PackedSize(j) /\ Len(c) = p
           /\ Len(d) = PackedSize(k)
      /\ Len(e) = q
  <2>1. a \in Bytes /\ Len(a) = PackedSize(i)
    BY <1>1, <1>2, <1>6, PackedLen
  <2>2. b \in Bytes /\ Len(b) = PackedSize(j)
    BY <1>1, <1>2, <1>6, PackedLen
  <2>3. d \in Bytes /\ Len(d) = PackedSize(k)
    BY <1>1, <1>2, <1>6, PackedLen
  <2>4. c \in Bytes /\ Len(c) = p
    BY <1>1, <1>2, <1>7, DataFieldsLen
  <2>5. e \in Bytes /\ Len(e) = q
    BY <1>1, <1>2, <1>7, DataFieldsLen
  <2> QED
    BY <2>1, <2>2, <2>3, <2>4, <2>5
<1>9. ASSUME NEW m \in Round2_Class
      PROVE  Reads(Round2_MergePartial, m, (((a \o b) \o c) \o d) \o e,
                 Round2_MergeFrom(m, x))
  <2> DEFINE m1 == [m EXCEPT !["chunk_exists"] = @ \o x.chunk_exists]
             m2 == [m1 EXCEPT !["hash_exists"] = @ \o x.hash_exists]
             m3 == [m2 EXCEPT !["new_chunk_info"] = @ \o s]
             m4 == [m3 EXCEPT !["existing_chunk_encoding"]
                 = @ \o x.existing_chunk_encoding]
             m5 == [m4 EXCEPT !["SHAHash"] = Later(@, t)]
  <2>1. m5 = Round2_MergeFrom(m, x)
    <3>1. /\ m5.chunk_exists = m.chunk_exists \o x.chunk_exists
          /\ m5.hash_exists = m.hash_exists \o x.hash_exists
      BY DEF Round2_Class
    <3>2. m5.new_chunk_info = m.new_chunk_info \o s
      BY DEF Round2_Class
    <3>3. m5.existing_chunk_encoding
              = m.existing_chunk_encoding \o x.existing_chunk_encoding
      BY DEF Round2_Class
    <3>4. m5.SHAHash = Later(m.SHAHash, t)
      BY DEF Round2_Class
    <3>5. DOMAIN m5 = DOMAIN m /\ m5 = [f \in DOMAIN m |-> m5[f]]
      OBVIOUS
    <3>6. DOMAIN m = {"chunk_exists", "hash_exists", "new_chunk_info",
                      "existing_chunk_encoding", "SHAHash"}
      BY DEF Round2_Class
    <3> HIDE DEF m5
    <3>7. m5 = [chunk_exists |-> m5.chunk_exists, hash_exists |-> m5.hash_exists,
                new_chunk_info |-> m5.new_chunk_info,
                existing_chunk_encoding |-> m5.existing_chunk_encoding,
                    SHAHash |-> m5.SHAHash]
      BY <3>5, <3>6
    <3> QED
      BY <3>1, <3>2, <3>3, <3>4, <3>7 DEF Round2_MergeFrom
  <2>2. m1 \in Round2_Class
    BY <1>1, Round2_Fields DEF Grows
  <2>3. Reads(Round2_MergePartial, m, a, m1)
    BY <1>1, <1>2, <1>6, Round2_Fields, Round2_IsMerge, Round2_Reads, PackedField
  <2> HIDE DEF m1
  <2>4. m2 \in Round2_Class
    BY <1>1, <2>2, Round2_Fields DEF Grows
  <2>5. Reads(Round2_MergePartial, m1, b, m2)
    BY <1>1, <1>2, <1>6, <2>2, Round2_Fields, Round2_IsMerge, Round2_Reads, PackedField
  <2> HIDE DEF m2
  <2>6. m3 \in Round2_Class
    BY <1>1, <2>4, Round2_Fields DEF Grows
  <2>7. Reads(Round2_MergePartial, m2, c, m3)
    <3> HIDE DEF s
    <3>1. TakesEach(Round2_Reader, Round2_Class, 3, "new_chunk_info", s, s)
      BY <1>1, <1>2, <1>7, Round2_Reads, StringsTaken
    <3> QED
      BY <1>1, <1>2, <1>7, <2>4, <3>1, Round2_Strings, Round2_IsMerge, RepeatedField
  <2> HIDE DEF m3
  <2>8. m4 \in Round2_Class
    BY <1>1, <2>6, Round2_Fields DEF Grows
  <2>9. Reads(Round2_MergePartial, m3, d, m4)
    BY <1>1, <1>2, <1>6, <2>6, Round2_Fields, Round2_IsMerge, Round2_Reads, PackedField
  <2> HIDE DEF m4
  <2>10. Reads(Round2_MergePartial, m4, e, m5)
    <3> HIDE DEF t
    <3> QED
      BY <1>1, <1>2, <1>7, <2>8, Round2_Fields, Round2_IsMerge, Round2_Reads, SingleString
  <2> HIDE DEF m5, a, b, c, d, e
  <2>11. Reads(Round2_MergePartial, m, a \o b, m2)
    BY <1>8, <2>3, <2>5, ReadsBoth
  <2>12. Reads(Round2_MergePartial, m, (a \o b) \o c, m3)
    BY <1>8, <2>7, <2>11, BytesConcat, ReadsBoth
  <2> DEFINE abc == (a \o b) \o c
  <2>13. abc \in Bytes
    BY <1>8, BytesConcat
  <2> HIDE DEF abc
  <2>14. Reads(Round2_MergePartial, m, abc \o d, m4)
    BY <1>8, <2>9, <2>12, <2>13, ReadsBoth DEF abc
  <2>15. Reads(Round2_MergePartial, m, (abc \o d) \o e, m5)
    BY <1>8, <2>10, <2>13, <2>14, BytesConcat, ReadsBoth
  <2> QED
    BY <2>1, <2>15 DEF abc
<1> HIDE DEF a, b, c, d, e, i, j, k, p, q
<1>10. /\ (((a \o b) \o c) \o d) \o e \in Bytes
       /\ Len((((a \o b) \o c) \o d) \o e) = Len(a) + Len(b) + Len(c) + Len(d) + Len(e)
  <2>1. a \o b \in Bytes /\ Len(a \o b) = Len(a) + Len(b)
    BY <1>8, BytesConcat, BytesConcatLen
  <2>2. (a \o b) \o c \in Bytes /\ Len((a \o b) \o c) = Len(a) + Len(b) + Len(c)
    BY <1>8, <2>1, BytesConcat, BytesConcatLen
  <2>3. /\ ((a \o b) \o c) \o d \in Bytes
        /\ Len(((a \o b) \o c) \o d) = Len(a) + Len(b) + Len(c) + Len(d)
    BY <1>8, <2>2, BytesConcat, BytesConcatLen
  <2> QED
    BY <1>8, <2>3, BytesConcat, BytesConcatLen
<1>11. Len((((a \o b) \o c) \o d) \o e) = Round2_ByteSize(x)
  <2>1. PackedSize(i) \in Nat /\ PackedSize(j) \in Nat /\ PackedSize(k) \in Nat
    BY <1>4, SizeFacts
  <2> QED
    BY <1>3, <1>5, <1>8, <1>10, <2>1
<1> QED
  BY <1>3, <1>9, <1>10, <1>11

-----------------------------------------------------------------------------
(* IBLT_bucket_extended.                                                   *)

IBLT_bucket_extended_Reader ==
    [f \in Fields(IBLT_bucket_extended_Class) |->
        IBLT_bucket_extended_ReadField(f.m, f.tag, f.in)]

\* The reader of the class, applied.
LEMMA IBLT_bucket_extended_Reading ==
    ASSUME NEW m \in IBLT_bucket_extended_Class, NEW tag \in Nat, NEW in \in Bytes
    PROVE  IBLT_bucket_extended_Reader[Field(m, tag, in)]
              = IBLT_bucket_extended_ReadField(m, tag, in)
<1> DEFINE f == Field(m, tag, in)
<1>1. f \in Fields(IBLT_bucket_extended_Class) /\ f.m = m /\ f.tag = tag /\ f.in = in
  BY FieldIs
<1> HIDE DEF f
<1> QED
  BY <1>1, Zenon DEF IBLT_bucket_extended_Reader, f

\* Its fields may change to values of their types, and no value changes none.
LEMMA IBLT_bucket_extended_Fields ==
    ASSUME NEW m \in IBLT_bucket_extended_Class
    PROVE  /\ m.bucket \in Single(IBLT_bucket_Class) /\ m.has_key \in Seq(Bool)
           /\ Or(m.bucket, IBLT_bucket_New) \in IBLT_bucket_Class
           /\ Changes(m, "bucket", IBLT_bucket_Class, IBLT_bucket_extended_Class)
           /\ Grows(m, "has_key", Bool, IBLT_bucket_extended_Class)
           /\ [m EXCEPT !["has_key"] = @ \o << >>] = m
<1>1. m.bucket \in Single(IBLT_bucket_Class) /\ m.has_key \in Seq(Bool)
  BY DEF IBLT_bucket_extended_Class
<1>2. Or(m.bucket, IBLT_bucket_New) \in IBLT_bucket_Class
  <2>1. CASE m.bucket = << >>
    BY <2>1, IBLT_bucket_IsMerge DEF Or
  <2>2. CASE m.bucket # << >>
    <3>1. PICK b \in IBLT_bucket_Class : m.bucket = <<b>>
      BY <1>1, <2>2, SingleCases
    <3>2. m.bucket[1] = b
      BY <3>1
    <3> QED
      BY <2>2, <3>1, <3>2 DEF Or
  <2> QED
    BY <2>1, <2>2
<1>3. m.has_key \o << >> = m.has_key /\ \A s \in Seq(Bool) : m.has_key \o s \in Seq(Bool)
  BY <1>1, ConcatEmptySeq, ConcatProperties
<1>4. Changes(m, "bucket", IBLT_bucket_Class, IBLT_bucket_extended_Class)
  BY DEF Changes, Later, IBLT_bucket_extended_Class
<1>5. Grows(m, "has_key", Bool, IBLT_bucket_extended_Class)
  BY <1>3 DEF Grows, IBLT_bucket_extended_Class
<1>6. [m EXCEPT !["has_key"] = @ \o << >>] = m
  BY <1>3 DEF IBLT_bucket_extended_Class
<1> QED
  BY <1>1, <1>2, <1>4, <1>5, <1>6

\* MergePartialFromCodedStream of the class is a loop over its fields.
LEMMA IBLT_bucket_extended_IsMerge ==
    /\ IBLT_bucket_extended_New \in IBLT_bucket_extended_Class
    /\ IsMerge(IBLT_bucket_extended_MergePartial, IBLT_bucket_extended_Class,
               IBLT_bucket_extended_Reader)
<1>1. IBLT_bucket_extended_New \in IBLT_bucket_extended_Class
  BY EmptySeq DEF IBLT_bucket_extended_New, IBLT_bucket_extended_Class, Single
<1>2. ASSUME NEW m \in IBLT_bucket_extended_Class, NEW tag \in Nat, NEW in \in Bytes
      PROVE  IsField(IBLT_bucket_extended_Reader[Field(m, tag, in)],
                     IBLT_bucket_extended_Class, in)
  <2> DEFINE r == ReadMessage(IBLT_bucket_MergePartial, Or(m.bucket, IBLT_bucket_New), in)
  <2>1. IsReadingOne(r, IBLT_bucket_Class, in)
    <3> DEFINE b == Or(m.bucket, IBLT_bucket_New)
    <3>1. b \in IBLT_bucket_Class
      BY IBLT_bucket_extended_Fields
    <3> HIDE DEF b
    <3>2. IsReadingOne(ReadMessage(IBLT_bucket_MergePartial, b, in), IBLT_bucket_Class,
              in)
      BY <3>1, IBLT_bucket_IsMerge, ReadMessageType
    <3> QED
      BY <3>2 DEF b
  <2> HIDE DEF r
  <2>2. IsNumeric("bool", Bool)
    BY DEF IsNumeric
  <2>3. IsField(Replaced(m, "bucket", r), IBLT_bucket_extended_Class, in)
    BY <2>1, IBLT_bucket_extended_Fields, ReplacedType
  <2>4. IsField(Numbers(m, "has_key", "bool", tag, in), IBLT_bucket_extended_Class, in)
    BY <2>2, IBLT_bucket_extended_Fields, NumbersType
  <2>5. IsField(Skip(m, tag, in), IBLT_bucket_extended_Class, in)
    BY SkipType
  <2>6. \/ IBLT_bucket_extended_ReadField(m, tag, in) = Replaced(m, "bucket", r)
        \/ IBLT_bucket_extended_ReadField(m, tag, in)
             = Numbers(m, "has_key", "bool", tag, in)
        \/ IBLT_bucket_extended_ReadField(m, tag, in) = Skip(m, tag, in)
    BY DEF IBLT_bucket_extended_ReadField, r
  <2> QED
    BY <2>3, <2>4, <2>5, <2>6, IBLT_bucket_extended_Reading
<1>3. IsReader(IBLT_bucket_extended_Reader, IBLT_bucket_extended_Class)
  BY <1>1, <1>2 DEF IsReader
<1> QED
  BY <1>1, <1>3, MergeExists DEF IBLT_bucket_extended_MergePartial,
         IBLT_bucket_extended_Reader

\* What ReadField makes of its tags.
LEMMA IBLT_bucket_extended_Reads ==
    /\ \A m \in IBLT_bucket_extended_Class, in \in Bytes :
          IBLT_bucket_extended_Reader[Field(m, Tag(1, LENGTH_DELIMITED), in)]
            = Replaced(m, "bucket",
                       ReadMessage(IBLT_bucket_MergePartial,
                           Or(m.bucket, IBLT_bucket_New), in))
    /\ ReadsNumbers(IBLT_bucket_extended_Reader, IBLT_bucket_extended_Class, 2,
         "has_key", "bool")
<1> DEFINE tag(n) == Tag(n, LENGTH_DELIMITED)
<1>1. 1 \in 1 .. 5 /\ 2 \in 1 .. 5
  OBVIOUS
<1>2. tag(1) = 10 /\ tag(2) = 18
  BY DEF Tag, LENGTH_DELIMITED
<1>3. ASSUME NEW m \in IBLT_bucket_extended_Class, NEW in \in Bytes
      PROVE  /\ IBLT_bucket_extended_Reader[Field(m, tag(1), in)]
                  = Replaced(m, "bucket",
                             ReadMessage(IBLT_bucket_MergePartial,
                                 Or(m.bucket, IBLT_bucket_New), in))
             /\ IBLT_bucket_extended_Reader[Field(m, tag(2), in)]
                  = Appended(m, "has_key", ReadPacked("bool", in))
  <2>1. \A n \in 1 .. 5 : IBLT_bucket_extended_Reader[Field(m, tag(n), in)]
                            = IBLT_bucket_extended_ReadField(m, tag(n), in)
    BY PackedTag, IBLT_bucket_extended_Reading
  <2>2. IBLT_bucket_extended_ReadField(m, tag(1), in)
          = Replaced(m, "bucket",
                     ReadMessage(IBLT_bucket_MergePartial, Or(m.bucket, IBLT_bucket_New),
                         in))
    <3>1. ~Packable(tag(1), 2)
      BY <1>1, PackedTag
    <3> QED
      BY <3>1, Zenon DEF IBLT_bucket_extended_ReadField
  <2>3. IBLT_bucket_extended_ReadField(m, tag(2), in)
            = Numbers(m, "has_key", "bool", tag(2), in)
    BY <1>1, <1>2, PackedTag DEF IBLT_bucket_extended_ReadField
  <2>4. Numbers(m, "has_key", "bool", tag(2), in)
            = Appended(m, "has_key", ReadPacked("bool", in))
    BY <1>1, PackedTag
  <2> HIDE DEF tag
  <2> QED
    BY <1>1, <2>1, <2>2, <2>3, <2>4
<1> QED
  BY <1>3 DEF ReadsNumbers

\* MergeFrom stays in the class, and gives the message itself from a new one.
LEMMA IBLT_bucket_extended_Merged ==
    ASSUME NEW x \in IBLT_bucket_extended_Class
    PROVE  /\ IBLT_bucket_extended_MergeFrom(IBLT_bucket_extended_New, x) = x
           /\ \A m \in IBLT_bucket_extended_Class :
                 IBLT_bucket_extended_MergeFrom(m, x) \in IBLT_bucket_extended_Class
<1>1. x.bucket \in Single(IBLT_bucket_Class) /\ x.has_key \in Seq(Bool)
  BY IBLT_bucket_extended_Fields
<1>2. IBLT_bucket_extended_MergeFrom(IBLT_bucket_extended_New, x) = x
  <2>1. << >> \o x.has_key = x.has_key
    BY <1>1, ConcatEmptySeq
  <2>2. ASSUME x.bucket # << >>
        PROVE  <<IBLT_bucket_MergeFrom(Or(<< >>, IBLT_bucket_New), x.bucket[1])>>
                   = x.bucket
    <3>1. PICK b \in IBLT_bucket_Class : x.bucket = <<b>>
      BY <1>1, <2>2, SingleCases
    <3>2. IBLT_bucket_MergeFrom(IBLT_bucket_New, b) = b
              /\ Or(<< >>, IBLT_bucket_New) = IBLT_bucket_New
      BY IBLT_bucket_Codec DEF Or
    <3>3. x.bucket[1] = b
      BY <3>1
    <3> QED
      BY <3>1, <3>2, <3>3
  <2>3. IBLT_bucket_extended_MergeFrom(IBLT_bucket_extended_New, x)
          = [bucket |-> x.bucket, has_key |-> x.has_key]
    BY <2>1, <2>2 DEF IBLT_bucket_extended_MergeFrom, IBLT_bucket_extended_New
  <2> QED
    BY <2>3 DEF IBLT_bucket_extended_Class
<1>3. ASSUME NEW m \in IBLT_bucket_extended_Class
      PROVE  IBLT_bucket_extended_MergeFrom(m, x) \in IBLT_bucket_extended_Class
  <2> DEFINE y == IF x.bucket = << >> THEN m.bucket
                  ELSE <<IBLT_bucket_MergeFrom(Or(m.bucket, IBLT_bucket_New),
                      x.bucket[1])>>
  <2>1. m.has_key \o x.has_key \in Seq(Bool)
    BY <1>1, IBLT_bucket_extended_Fields, ConcatProperties
  <2>2. y \in Single(IBLT_bucket_Class)
    <3>1. CASE x.bucket = << >>
      BY <3>1, IBLT_bucket_extended_Fields
    <3>2. CASE x.bucket # << >>
      <4>1. PICK b \in IBLT_bucket_Class : x.bucket = <<b>>
        BY <1>1, <3>2, SingleCases
      <4>2. Or(m.bucket, IBLT_bucket_New) \in IBLT_bucket_Class /\ x.bucket[1] = b
        BY <4>1, IBLT_bucket_extended_Fields
      <4> DEFINE z == IBLT_bucket_MergeFrom(Or(m.bucket, IBLT_bucket_New), x.bucket[1])
      <4>3. z \in IBLT_bucket_Class
        BY <4>2, IBLT_bucket_Codec
      <4> HIDE DEF z
      <4>4. <<z>> \in Single(IBLT_bucket_Class)
        BY <4>3 DEF Single
      <4> QED
        BY <3>2, <4>4 DEF z
    <3> QED
      BY <3>1, <3>2
  <2>3. IBLT_bucket_extended_MergeFrom(m, x)
            = [bucket |-> y, has_key |-> m.has_key \o x.has_key]
    BY DEF IBLT_bucket_extended_MergeFrom
  <2> HIDE DEF y
  <2> QED
    BY <2>1, <2>2, <2>3 DEF IBLT_bucket_extended_Class
<1> QED
  BY <1>2, <1>3

\* The bucket in its message.
LEMMA SubBucket ==
    ASSUME NEW m \in IBLT_bucket_extended_Class, NEW s \in Single(IBLT_bucket_Class),
           FieldsSize([i \in DOMAIN s |-> IBLT_bucket_ByteSize(s[i])]) < Word32
    PROVE  LET w == Each(s, LAMBDA b : Delimited(1, IBLT_bucket_ByteSize(b),
                                                 IBLT_bucket_Serialize(b)))
           IN  /\ w \in Bytes
               /\ Len(w) = FieldsSize([i \in DOMAIN s |-> IBLT_bucket_ByteSize(s[i])])
               /\ FieldsSize([i \in DOMAIN s |-> IBLT_bucket_ByteSize(s[i])]) \in Nat
               /\ Reads(IBLT_bucket_extended_MergePartial, m, w,
                        [m EXCEPT !["bucket"] = IF s = << >> THEN @
                            ELSE <<IBLT_bucket_MergeFrom(Or(@, IBLT_bucket_New), s[1])>>])
<1> DEFINE W(t) == Each(t, LAMBDA b : Delimited(1, IBLT_bucket_ByteSize(b),
                                                IBLT_bucket_Serialize(b)))
           sizes == [i \in DOMAIN s |-> IBLT_bucket_ByteSize(s[i])]
           m1 == [m EXCEPT !["bucket"] = IF s = << >> THEN @
                      ELSE <<IBLT_bucket_MergeFrom(Or(@, IBLT_bucket_New), s[1])>>]
           n == Len(s)
           d == [i \in 1 .. n |-> IBLT_bucket_Serialize(s[i])]
<1>1. /\ s \in Seq(IBLT_bucket_Class) /\ n \in Nat /\ DOMAIN s = 1 .. n
      /\ \A i \in 1 .. n : s[i] \in IBLT_bucket_Class
  <2>1. s \in Seq(IBLT_bucket_Class)
    BY DEF Single
  <2> QED
    BY <2>1, LenProperties, ElementOfSeq
<1>2. \A i \in 1 .. n : /\ IBLT_bucket_Serialize(s[i]) \in Bytes
                        /\ Len(IBLT_bucket_Serialize(s[i])) = IBLT_bucket_ByteSize(s[i])
                        /\ IBLT_bucket_ByteSize(s[i]) \in Nat
  BY <1>1, IBLT_bucket_Codec, IBLT_bucket_Size
<1>3. FieldsSize(sizes) \in Nat /\ \A i \in 1 .. n :
          IBLT_bucket_ByteSize(s[i]) <= FieldsSize(sizes)
  <2>1. DOMAIN sizes = 1 .. n /\ \A i \in 1 .. n : sizes[i] = IBLT_bucket_ByteSize(s[i])
    BY <1>1
  <2> HIDE DEF sizes, n
  <2>2. FieldsSize(sizes) \in Nat /\ \A i \in 1 .. n : sizes[i] <= FieldsSize(sizes)
    BY <1>1, <1>2, <2>1, FieldsSizeFacts
  <2> QED
    BY <2>1, <2>2
<1>4. d \in Seq(Bytes) /\ Len(d) = n
          /\ \A i \in 1 .. n : d[i] = IBLT_bucket_Serialize(s[i])
  <2> HIDE DEF n
  <2> QED
    BY <1>1, <1>2
<1>5. Short(d)
  <2>1. \A i \in 1 .. n : IBLT_bucket_ByteSize(s[i]) < Word32
    <3> HIDE DEF sizes, n
    <3>1. FieldsSize(sizes) < Word32
      BY DEF sizes
    <3> QED
      BY <1>2, <1>3, <3>1, WordFacts
  <2> QED
    BY <1>2, <1>4, <2>1 DEF Short
<1>6. W(s) = DataFields(1, d)
  <2>1. [i \in DOMAIN s |-> Delimited(1, IBLT_bucket_ByteSize(s[i]),
            IBLT_bucket_Serialize(s[i]))]
          = [i \in 1 .. Len(d) |-> Delimited(1, Len(d[i]), d[i])]
    <3> HIDE DEF d
    <3> QED
      BY <1>1, <1>2, <1>4
  <2> QED
    BY <2>1, Zenon DEF Each, DataFields
<1>7. sizes = [i \in 1 .. Len(d) |-> Len(d[i])]
  BY <1>1, <1>2, <1>4
<1>8. 1 \in 1 .. 5
  OBVIOUS
<1>9. W(s) \in Bytes /\ Len(W(s)) = FieldsSize(sizes)
  <2> HIDE DEF d, sizes, W
  <2> QED
    BY <1>4, <1>5, <1>6, <1>7, <1>8, DataFieldsLen
<1>10. Reads(IBLT_bucket_extended_MergePartial, m, W(s), m1)
  <2>1. CASE s = << >>
    <3>1. W(s) = << >>
      <4>1. d = << >>
        BY <1>1, <1>4, <2>1, EmptySeq
      <4> QED
        BY <1>6, <1>8, <4>1, DataFieldsOne
    <3>2. m1 = m
      BY <2>1 DEF IBLT_bucket_extended_Class
    <3> QED
      BY <3>1, <3>2, ReadsNothing
  <2>2. CASE s # << >>
    <3>1. PICK b \in IBLT_bucket_Class : s = <<b>>
      BY <2>2, SingleCases
    <3> DEFINE data == IBLT_bucket_Serialize(b)
               old == Or(m.bucket, IBLT_bucket_New)
               y == IBLT_bucket_MergeFrom(old, b)
    <3>2. data \in Bytes /\ Len(data) < Word32 /\ d = <<data>>
      <4>1. n = 1 /\ s[1] = b
        BY <3>1
      <4>2. 1 \in 1 .. 1 /\ d[1] = data /\ Len(d) = 1
        BY <1>4, <4>1
      <4> HIDE DEF n, d
      <4>3. Len(d[1]) < Word32
        BY <1>5, <4>2, Zenon DEF Short
      <4>4. d = <<d[1]>>
        BY <1>4, <4>2
      <4> QED
        BY <1>2, <4>1, <4>2, <4>3, <4>4
    <3>3. W(s) = Delimited(1, Len(data), data)
      BY <1>6, <1>8, <3>2, DataFieldsOne
    <3>4. m1 = [m EXCEPT !["bucket"] = <<y>>]
      BY <3>1 DEF IBLT_bucket_extended_Class
    <3>5. old \in IBLT_bucket_Class
      BY IBLT_bucket_extended_Fields
    <3>6. ParsesTo(IBLT_bucket_MergePartial, old, data, y)
      <4> HIDE DEF old
      <4>1. y \in IBLT_bucket_Class /\ Reads(IBLT_bucket_MergePartial, old, data, y)
        BY <3>5, IBLT_bucket_Codec
      <4> HIDE DEF y, data
      <4> QED
        BY <3>2, <4>1, IBLT_bucket_IsMerge, ReadsAll DEF ParsesTo
    <3>7. ASSUME NEW rest \in Bytes
          PROVE  IBLT_bucket_extended_Reader[Field(m, Tag(1, LENGTH_DELIMITED),
                                                   Varint[Len(data)] \o (data \o rest))]
                   = [ok |-> TRUE, m |-> m1, rest |-> rest]
      <4> DEFINE in == Varint[Len(data)] \o (data \o rest)
                 r == ReadMessage(IBLT_bucket_MergePartial, old, in)
      <4> HIDE DEF old, y, data, m1
      <4>1. in \in Bytes
        BY <3>2, InBytes
      <4>2. r = Read(TRUE, <<y>>, rest)
        BY <3>2, <3>6, ReadMessageOf
      <4> HIDE DEF in
      <4>3. IBLT_bucket_extended_Reader[Field(m, Tag(1, LENGTH_DELIMITED), in)]
              = Replaced(m, "bucket", r)
        BY <4>1, IBLT_bucket_extended_Reads DEF old
      <4> HIDE DEF r
      <4>4. r.ok = TRUE /\ r.values = <<y>> /\ r.rest = rest
        BY <4>2 DEF Read
      <4>5. Replaced(m, "bucket", r) = [ok |-> TRUE, m |-> m1, rest |-> rest]
        <5>1. \A z : Later(z, <<y>>) = <<y>>
          BY DEF Later
        <5> QED
          BY <3>4, <4>4, <5>1 DEF Replaced
      <4> QED
        BY <4>3, <4>5 DEF in
    <3> HIDE DEF data, m1
    <3>8. TakesData(IBLT_bucket_extended_Reader, m, 1, data, m1)
      BY <3>7 DEF TakesData
    <3>9. Reads(IBLT_bucket_extended_MergePartial, m, Delimited(1, Len(data), data), m1)
      BY <1>8, <3>2, <3>8, IBLT_bucket_extended_IsMerge, DelimitedField
    <3> QED
      BY <3>3, <3>9
  <2> QED
    BY <2>1, <2>2
<1> QED
  BY <1>3, <1>9, <1>10

\* A message of the class has its size and is read back, into any other.
LEMMA IBLT_bucket_extended_Codec ==
    ASSUME NEW x \in IBLT_bucket_extended_Class, IBLT_bucket_extended_ByteSize(x) < Word32
    PROVE  /\ IBLT_bucket_extended_Serialize(x) \in Bytes
           /\ Len(IBLT_bucket_extended_Serialize(x)) = IBLT_bucket_extended_ByteSize(x)
           /\ \A m \in IBLT_bucket_extended_Class :
                 Reads(IBLT_bucket_extended_MergePartial, m,
                     IBLT_bucket_extended_Serialize(x),
                       IBLT_bucket_extended_MergeFrom(m, x))
<1> DEFINE s == x.bucket
           i == Len(Varints(x.has_key))
           p == FieldsSize([n \in DOMAIN s |-> IBLT_bucket_ByteSize(s[n])])
           a == Each(s, LAMBDA b : Delimited(1, IBLT_bucket_ByteSize(b),
               IBLT_bucket_Serialize(b)))
           b == WritePacked(2, i, x.has_key)
<1>1. s \in Single(IBLT_bucket_Class) /\ x.has_key \in Seq(Bool)
  BY IBLT_bucket_extended_Fields
<1>2. IsNumeric("bool", Bool) /\ 2 \in 1 .. 5
  BY DEF IsNumeric
<1>3. i = Len(x.has_key) /\ i \in Nat
  BY <1>1, <1>2, BitsSize, LenProperties
<1>4. IBLT_bucket_extended_Serialize(x) = a \o b
  BY <1>3 DEF IBLT_bucket_extended_Serialize
<1>5. IBLT_bucket_extended_ByteSize(x) = p + PackedSize(i)
  BY <1>3 DEF IBLT_bucket_extended_ByteSize
<1>6. p \in Nat
  <2> DEFINE n == Len(s)
             sizes == [l \in DOMAIN s |-> IBLT_bucket_ByteSize(s[l])]
  <2>1. n \in Nat /\ DOMAIN s = 1 .. n /\ \A l \in 1 .. n : s[l] \in IBLT_bucket_Class
    <3>1. s \in Seq(IBLT_bucket_Class)
      BY <1>1 DEF Single
    <3> QED
      BY <3>1, LenProperties, ElementOfSeq
  <2>2. DOMAIN sizes = 1 .. n /\ \A l \in 1 .. n : sizes[l] \in Nat
    BY <2>1, IBLT_bucket_Size
  <2> HIDE DEF sizes, n
  <2>3. FieldsSize(sizes) \in Nat
    BY <2>1, <2>2, FieldsSizeFacts
  <2> QED
    BY <2>3 DEF sizes
<1>7. i < Word32 /\ p < Word32
  <2> HIDE DEF i, p
  <2>1. PackedSize(i) \in Nat /\ i <= PackedSize(i)
    BY <1>3, SizeFacts
  <2>2. p + PackedSize(i) < Word32
    BY <1>5
  <2> QED
    BY <1>3, <1>6, <2>1, <2>2, WordFacts
<1>8. /\ a \in Bytes /\ b \in Bytes /\ Len(a) = p /\ Len(b) = PackedSize(i)
  <2>1. a \in Bytes /\ Len(a) = p
    BY <1>1, <1>7, IBLT_bucket_extended_IsMerge, SubBucket, Zenon
  <2>2. b \in Bytes /\ Len(b) = PackedSize(i)
    BY <1>1, <1>2, <1>7, PackedLen
  <2> QED
    BY <2>1, <2>2
<1>9. ASSUME NEW m \in IBLT_bucket_extended_Class
      PROVE  Reads(IBLT_bucket_extended_MergePartial, m, a \o b,
                 IBLT_bucket_extended_MergeFrom(m, x))
  <2> DEFINE m1 == [m EXCEPT !["bucket"] = IF s = << >> THEN @
                        ELSE <<IBLT_bucket_MergeFrom(Or(@, IBLT_bucket_New), s[1])>>]
             m2 == [m1 EXCEPT !["has_key"] = @ \o x.has_key]
  <2>1. m2 = IBLT_bucket_extended_MergeFrom(m, x)
    <3>1. m2.bucket = IF s = << >> THEN m.bucket
                      ELSE <<IBLT_bucket_MergeFrom(Or(m.bucket, IBLT_bucket_New), s[1])>>
      BY DEF IBLT_bucket_extended_Class
    <3>2. m2.has_key = m.has_key \o x.has_key
      BY DEF IBLT_bucket_extended_Class
    <3>3. DOMAIN m2 = DOMAIN m /\ m2 = [f \in DOMAIN m |-> m2[f]]
      OBVIOUS
    <3>4. DOMAIN m = {"bucket", "has_key"}
      BY DEF IBLT_bucket_extended_Class
    <3> HIDE DEF m2
    <3>5. m2 = [bucket |-> m2.bucket, has_key |-> m2.has_key]
      BY <3>3, <3>4
    <3> QED
      BY <3>1, <3>2, <3>5 DEF IBLT_bucket_extended_MergeFrom
  <2>2. Reads(IBLT_bucket_extended_MergePartial, m, a, m1)
    BY <1>1, <1>7, SubBucket, Zenon
  <2>3. m1 \in IBLT_bucket_extended_Class
    <3> DEFINE y == IF s = << >> THEN m.bucket
                    ELSE <<IBLT_bucket_MergeFrom(Or(m.bucket, IBLT_bucket_New), s[1])>>
    <3>1. IBLT_bucket_extended_MergeFrom(m, x) \in IBLT_bucket_extended_Class
      BY IBLT_bucket_extended_Merged
    <3>2. IBLT_bucket_extended_MergeFrom(m, x).bucket = y
      BY DEF IBLT_bucket_extended_MergeFrom
    <3>3. y \in Single(IBLT_bucket_Class)
      BY <3>1, <3>2 DEF IBLT_bucket_extended_Class
    <3>4. m1 = [m EXCEPT !["bucket"] = y]
      BY DEF IBLT_bucket_extended_Class
    <3> HIDE DEF m1, y
    <3> QED
      BY <3>3, <3>4 DEF IBLT_bucket_extended_Class
  <2> HIDE DEF m1
  <2>4. Reads(IBLT_bucket_extended_MergePartial, m1, b, m2)
    BY <1>1, <1>2, <1>7, <2>3, IBLT_bucket_extended_Fields, IBLT_bucket_extended_IsMerge,
       IBLT_bucket_extended_Reads, PackedField
  <2> HIDE DEF m2, a, b
  <2>5. Reads(IBLT_bucket_extended_MergePartial, m, a \o b, m2)
    BY <1>8, <2>2, <2>4, ReadsBoth
  <2> QED
    BY <2>1, <2>5
<1> HIDE DEF a, b
<1>10. a \o b \in Bytes /\ Len(a \o b) = Len(a) + Len(b)
  BY <1>8, BytesConcat, BytesConcatLen
<1> QED
  BY <1>4, <1>5, <1>8, <1>9, <1>10

-----------------------------------------------------------------------------
(* Messages of any class.                                                  *)

MergeOf(type) ==
    CASE type = "Round2"           -> Round2_MergePartial
      [] type = "strata_estimator" -> strata_estimator_MergePartial
      [] type = "IBLT"             -> IBLT_MergePartial
      [] type = "IBLT2"            -> IBLT2_MergePartial
      [] type = "IBLT_bucket_extended" -> IBLT_bucket_extended_MergePartial

\* Every class has its loop, which starts from a new message.
LEMMA MessageMerge ==
    ASSUME NEW type \in Types
    PROVE  /\ New(type) \in Class(type)
           /\ \E ReadField : IsMerge(MergeOf(type), Class(type), ReadField)
           /\ \A m, in : MergePartial(type, m, in) = MergeOf(type)[Input(m, in)]
<1>1. CASE type = "IBLT"
  <2>1. New(type) = IBLT_New /\ Class(type) = IBLT_Class
            /\ MergeOf(type) = IBLT_MergePartial
        /\ \A m, in : MergePartial(type, m, in) = IBLT_MergePartial[Input(m, in)]
    BY <1>1 DEF New, Class, MergeOf, MergePartial
  <2> QED
    BY <2>1, IBLT_IsMerge
<1>2. CASE type = "IBLT2"
  <2>1. New(type) = IBLT2_New /\ Class(type) = IBLT2_Class
            /\ MergeOf(type) = IBLT2_MergePartial
        /\ \A m, in : MergePartial(type, m, in) = IBLT2_MergePartial[Input(m, in)]
    BY <1>2 DEF New, Class, MergeOf, MergePartial
  <2> QED
    BY <2>1, IBLT2_IsMerge
<1>3. CASE type = "strata_estimator"
  <2>1. New(type) = strata_estimator_New /\ Class(type) = strata_estimator_Class
            /\ MergeOf(type) = strata_estimator_MergePartial
        /\ \A m, in : MergePartial(type, m, in)
             = strata_estimator_MergePartial[Input(m, in)]
    BY <1>3 DEF New, Class, MergeOf, MergePartial
  <2> QED
    BY <2>1, strata_estimator_IsMerge
<1>4. CASE type = "IBLT_bucket_extended"
  <2>1. New(type) = IBLT_bucket_extended_New /\ Class(type) = IBLT_bucket_extended_Class
            /\ MergeOf(type) = IBLT_bucket_extended_MergePartial
        /\ \A m, in : MergePartial(type, m, in)
             = IBLT_bucket_extended_MergePartial[Input(m, in)]
    BY <1>4 DEF New, Class, MergeOf, MergePartial
  <2> QED
    BY <2>1, IBLT_bucket_extended_IsMerge
<1>5. CASE type = "Round2"
  <2>1. New(type) = Round2_New /\ Class(type) = Round2_Class
            /\ MergeOf(type) = Round2_MergePartial
        /\ \A m, in : MergePartial(type, m, in) = Round2_MergePartial[Input(m, in)]
    BY <1>5 DEF New, Class, MergeOf, MergePartial
  <2> QED
    BY <2>1, Round2_IsMerge
<1> QED
  BY <1>1, <1>2, <1>3, <1>4, <1>5 DEF Types

\* What an object's message becomes on the wire and is there again: its bytes are as
\* many as ByteSize says, and reading them into any message is MergeFrom.
Codes(type, x) ==
    /\ Serialize(type, x) \in Bytes
    /\ Len(Serialize(type, x)) = ByteSize(type, x)
    /\ MergeFrom(type, New(type), x) = x
    /\ \A m \in Class(type) :
          /\ MergeFrom(type, m, x) \in Class(type)
          /\ Reads(MergeOf(type), m, Serialize(type, x), MergeFrom(type, m, x))

\* Every message whose size is an int has that size and is read back.
LEMMA MessageCodes ==
    ASSUME NEW type \in Types, NEW x \in Class(type), ByteSize(type, x) < Word32
    PROVE  Codes(type, x)
<1>1. CASE type = "IBLT"
  <2>1. New(type) = IBLT_New /\ Class(type) = IBLT_Class
            /\ MergeOf(type) = IBLT_MergePartial
    BY <1>1 DEF New, Class, MergeOf
  <2>2. /\ Serialize(type, x) = IBLT_Serialize(x) /\ ByteSize(type, x) = IBLT_ByteSize(x)
        /\ \A m : MergeFrom(type, m, x) = IBLT_MergeFrom(m, x)
    BY <1>1 DEF Serialize, ByteSize, MergeFrom
  <2>3. x \in IBLT_Class /\ IBLT_ByteSize(x) < Word32
    BY <2>1, <2>2
  <2>4. /\ IBLT_MergeFrom(IBLT_New, x) = x
        /\ \A m \in IBLT_Class : IBLT_MergeFrom(m, x) \in IBLT_Class
    BY <2>3, IBLT_Merged
  <2>5. /\ IBLT_Serialize(x) \in Bytes /\ Len(IBLT_Serialize(x)) = IBLT_ByteSize(x)
        /\ \A m \in IBLT_Class :
              Reads(IBLT_MergePartial, m, IBLT_Serialize(x), IBLT_MergeFrom(m, x))
    BY <2>3, IBLT_Codec
  <2> QED
    BY <2>1, <2>2, <2>4, <2>5 DEF Codes
<1>2. CASE type = "IBLT2"
  <2>1. New(type) = IBLT2_New /\ Class(type) = IBLT2_Class
            /\ MergeOf(type) = IBLT2_MergePartial
    BY <1>2 DEF New, Class, MergeOf
  <2>2. /\ Serialize(type, x) = IBLT2_Serialize(x)
             /\ ByteSize(type, x) = IBLT2_ByteSize(x)
        /\ \A m : MergeFrom(type, m, x) = IBLT2_MergeFrom(m, x)
    BY <1>2 DEF Serialize, ByteSize, MergeFrom
  <2>3. x \in IBLT2_Class /\ IBLT2_ByteSize(x) < Word32
    BY <2>1, <2>2
  <2>4. /\ IBLT2_MergeFrom(IBLT2_New, x) = x
        /\ \A m \in IBLT2_Class : IBLT2_MergeFrom(m, x) \in IBLT2_Class
    BY <2>3, IBLT2_Merged
  <2>5. /\ IBLT2_Serialize(x) \in Bytes /\ Len(IBLT2_Serialize(x)) = IBLT2_ByteSize(x)
        /\ \A m \in IBLT2_Class :
              Reads(IBLT2_MergePartial, m, IBLT2_Serialize(x), IBLT2_MergeFrom(m, x))
    BY <2>3, IBLT2_Codec
  <2> QED
    BY <2>1, <2>2, <2>4, <2>5 DEF Codes
<1>3. CASE type = "strata_estimator"
  <2>1. New(type) = strata_estimator_New /\ Class(type) = strata_estimator_Class
            /\ MergeOf(type) = strata_estimator_MergePartial
    BY <1>3 DEF New, Class, MergeOf
  <2>2. /\ Serialize(type, x) = strata_estimator_Serialize(x)
             /\ ByteSize(type, x) = strata_estimator_ByteSize(x)
        /\ \A m : MergeFrom(type, m, x) = strata_estimator_MergeFrom(m, x)
    BY <1>3 DEF Serialize, ByteSize, MergeFrom
  <2>3. x \in strata_estimator_Class /\ strata_estimator_ByteSize(x) < Word32
    BY <2>1, <2>2
  <2>4. /\ strata_estimator_MergeFrom(strata_estimator_New, x) = x
        /\ \A m \in strata_estimator_Class :
             strata_estimator_MergeFrom(m, x) \in strata_estimator_Class
    BY <2>3, strata_estimator_Merged
  <2>5. /\ strata_estimator_Serialize(x) \in Bytes
             /\ Len(strata_estimator_Serialize(x)) = strata_estimator_ByteSize(x)
        /\ \A m \in strata_estimator_Class :
              Reads(strata_estimator_MergePartial, m, strata_estimator_Serialize(x),
                  strata_estimator_MergeFrom(m, x))
    BY <2>3, strata_estimator_Codec
  <2> QED
    BY <2>1, <2>2, <2>4, <2>5 DEF Codes
<1>4. CASE type = "IBLT_bucket_extended"
  <2>1. New(type) = IBLT_bucket_extended_New /\ Class(type) = IBLT_bucket_extended_Class
            /\ MergeOf(type) = IBLT_bucket_extended_MergePartial
    BY <1>4 DEF New, Class, MergeOf
  <2>2. /\ Serialize(type, x) = IBLT_bucket_extended_Serialize(x)
             /\ ByteSize(type, x) = IBLT_bucket_extended_ByteSize(x)
        /\ \A m : MergeFrom(type, m, x) = IBLT_bucket_extended_MergeFrom(m, x)
    BY <1>4 DEF Serialize, ByteSize, MergeFrom
  <2>3. x \in IBLT_bucket_extended_Class /\ IBLT_bucket_extended_ByteSize(x) < Word32
    BY <2>1, <2>2
  <2>4. /\ IBLT_bucket_extended_MergeFrom(IBLT_bucket_extended_New, x) = x
        /\ \A m \in IBLT_bucket_extended_Class :
             IBLT_bucket_extended_MergeFrom(m, x) \in IBLT_bucket_extended_Class
    BY <2>3, IBLT_bucket_extended_Merged
  <2>5. /\ IBLT_bucket_extended_Serialize(x) \in Bytes
             /\ Len(IBLT_bucket_extended_Serialize(x)) = IBLT_bucket_extended_ByteSize(x)
        /\ \A m \in IBLT_bucket_extended_Class :
              Reads(IBLT_bucket_extended_MergePartial, m,
                  IBLT_bucket_extended_Serialize(x), IBLT_bucket_extended_MergeFrom(m, x))
    BY <2>3, IBLT_bucket_extended_Codec
  <2> QED
    BY <2>1, <2>2, <2>4, <2>5 DEF Codes
<1>5. CASE type = "Round2"
  <2>1. New(type) = Round2_New /\ Class(type) = Round2_Class
            /\ MergeOf(type) = Round2_MergePartial
    BY <1>5 DEF New, Class, MergeOf
  <2>2. /\ Serialize(type, x) = Round2_Serialize(x)
             /\ ByteSize(type, x) = Round2_ByteSize(x)
        /\ \A m : MergeFrom(type, m, x) = Round2_MergeFrom(m, x)
    BY <1>5 DEF Serialize, ByteSize, MergeFrom
  <2>3. x \in Round2_Class /\ Round2_ByteSize(x) < Word32
    BY <2>1, <2>2
  <2>4. /\ Round2_MergeFrom(Round2_New, x) = x
        /\ \A m \in Round2_Class : Round2_MergeFrom(m, x) \in Round2_Class
    BY <2>3, Round2_Merged
  <2>5. /\ Round2_Serialize(x) \in Bytes /\ Len(Round2_Serialize(x)) = Round2_ByteSize(x)
        /\ \A m \in Round2_Class :
              Reads(Round2_MergePartial, m, Round2_Serialize(x), Round2_MergeFrom(m, x))
    BY <2>3, Round2_Codec
  <2> QED
    BY <2>1, <2>2, <2>4, <2>5 DEF Codes
<1> QED
  BY <1>1, <1>2, <1>3, <1>4, <1>5 DEF Types

\* One message read, or two one after the other.
LEMMA CodesParse ==
    ASSUME NEW type \in Types, NEW x \in Class(type), Codes(type, x),
           NEW m \in Class(type)
    PROVE  /\ MergePartial(type, m, Serialize(type, x))
                = Merged(TRUE, MergeFrom(type, m, x))
           /\ MergePartial(type, New(type), Serialize(type, x)) = Merged(TRUE, x)
<1>1. PICK ReadField : IsMerge(MergeOf(type), Class(type), ReadField)
  BY MessageMerge
<1>2. New(type) \in Class(type)
  BY MessageMerge
<1> DEFINE w == Serialize(type, x)
<1>3. w \in Bytes /\ MergeFrom(type, New(type), x) = x
  BY DEF Codes
<1>4. ASSUME NEW k \in Class(type)
      PROVE  MergePartial(type, k, w) = Merged(TRUE, MergeFrom(type, k, x))
  <2> DEFINE k2 == MergeFrom(type, k, x)
             merge == MergeOf(type)
             C == Class(type)
  <2>1. k2 \in C /\ Reads(merge, k, w, k2)
    BY DEF Codes
  <2>2. MergePartial(type, k, w) = merge[Input(k, w)]
    BY MessageMerge
  <2>3. IsMerge(merge, C, ReadField)
    BY <1>1
  <2> HIDE DEF w, k2, merge, C
  <2>4. merge[Input(k, w)] = Merged(TRUE, k2)
    BY <1>3, <2>1, <2>3, ReadsAll
  <2> QED
    BY <2>2, <2>4 DEF k2
<1> QED
  BY <1>2, <1>3, <1>4

\* Two messages in one string are read as the second merged into the first.
LEMMA CodesParseBoth ==
    ASSUME NEW type \in Types, NEW x \in Class(type), NEW y \in Class(type),
           Codes(type, x), Codes(type, y)
    PROVE  MergePartial(type, New(type), Serialize(type, x) \o Serialize(type, y))
              = Merged(TRUE, MergeFrom(type, x, y))
<1> DEFINE v == Serialize(type, x)
           w == Serialize(type, y)
           z == MergeFrom(type, x, y)
           merge == MergeOf(type)
           C == Class(type)
           new == New(type)
<1>1. PICK ReadField : IsMerge(merge, C, ReadField)
  BY MessageMerge
<1>2. new \in C /\ MergePartial(type, new, v \o w) = merge[Input(new, v \o w)]
  BY MessageMerge
<1>3. v \in Bytes /\ Reads(merge, new, v, x)
  BY <1>2 DEF Codes
<1>4. w \in Bytes /\ z \in C /\ Reads(merge, x, w, z)
  BY DEF Codes
<1> HIDE DEF v, w, z, merge, C, new
<1>5. v \o w \in Bytes /\ Reads(merge, new, v \o w, z)
  BY <1>3, <1>4, BytesConcat, ReadsBoth
<1> DEFINE vw == v \o w
<1>6. vw \in Bytes /\ Reads(merge, new, vw, z)
  BY <1>5
<1> HIDE DEF vw
<1>7. merge[Input(new, vw)] = Merged(TRUE, z)
  <2>1. IsMerge(merge, C, ReadField) /\ z \in C
    BY <1>1, <1>4
  <2> QED
    BY <1>6, <2>1, ReadsAll
<1> QED
  BY <1>2, <1>7 DEF v, w, vw, z, new

\* Whatever is read, the message has the numbers of its class.
LEMMA ParseType ==
    ASSUME NEW type \in Types, NEW in \in Bytes
    PROVE  ParseFromString(type, in).m \in Class(type)
<1>1. PICK ReadField : IsMerge(MergeOf(type), Class(type), ReadField)
  BY MessageMerge
<1>2. New(type) \in Class(type)
      /\ MergePartial(type, New(type), in) = MergeOf(type)[Input(New(type), in)]
  BY MessageMerge
<1>3. MergePartial(type, New(type), in).m \in Class(type)
  BY <1>1, <1>2 DEF IsMerge
<1> QED
  BY <1>3 DEF ParseFromString, Merged

-----------------------------------------------------------------------------
(* Compression.                                                            *)

Ending(complete) == IF complete THEN "Z_STREAM_END" ELSE "Z_BUF_ERROR"
Remaining(data, t) == SubSeq(data, t + 1, Len(data))

\* One call writes the next block, of one element at least when it returns Z_OK, and
\* the last call the rest of the data.
LEMMA OneCall ==
    ASSUME NEW V, NEW data \in Seq(V), NEW complete \in BOOLEAN, NEW t \in 0 .. Len(data)
    PROVE  LET call == zlib(data, complete, t)
               n == Len(call.block)
           IN  /\ call.block \in Seq(V) /\ n \in Nat /\ t + n \in 0 .. Len(data)
               /\ call.ret = "Z_OK" => n > 0
                    /\ call.block \o Remaining(data, t + n) = Remaining(data, t)
               /\ call.ret # "Z_OK" => call = Call(Remaining(data, t), Ending(complete))
<1> DEFINE S == {OutBuffer, Len(data) - t}
           n == Min(S)
           block == SubSeq(data, t + 1, t + n)
           call == zlib(data, complete, t)
<1>1. Len(data) \in Nat /\ t \in Nat /\ t <= Len(data) /\ OutBuffer \in Nat
          /\ OutBuffer > 0
  BY OutBufferAssumption
<1>2. /\ n \in Nat /\ t + n <= Len(data)
      /\ n = 0 => t = Len(data)
  <2>1. S \in SUBSET Int
    BY <1>1
  <2>2. CASE OutBuffer <= Len(data) - t
    <3>1. OutBuffer \in S /\ \A y \in S : OutBuffer <= y
      BY <1>1, <2>2
    <3>2. n = OutBuffer
      BY <2>1, <3>1, MinIs
    <3> QED
      BY <1>1, <2>2, <3>2
  <2>3. CASE ~(OutBuffer <= Len(data) - t)
    <3> DEFINE x == Len(data) - t
    <3>1. x \in S /\ \A y \in S : x <= y
      BY <1>1, <2>3
    <3> HIDE DEF x
    <3>2. n = x
      BY <2>1, <3>1, MinIs
    <3> QED
      BY <1>1, <3>2 DEF x
  <2> QED
    BY <2>2, <2>3
<1>3. call = CASE complete /\ t + n = Len(data) -> Call(block, "Z_STREAM_END")
               [] ~complete /\ n = 0            -> Call(block, "Z_BUF_ERROR")
               [] OTHER                         -> Call(block, "Z_OK")
  BY Zenon DEF zlib
<1> HIDE DEF n, call
<1>4. block \in Seq(V) /\ Len(block) = n /\ call.block = block
  <2>1. \A r : Call(block, r).block = block
    BY DEF Call
  <2>2. call.block = block
    <3> HIDE DEF block
    <3> QED
      BY <1>3, <2>1
  <2>3. block \in Seq(V) /\ Len(block) = n
    <3>1. CASE n = 0
      <4>1. t + n < t + 1 /\ t + 1 \in Int /\ t + n \in Int
        BY <1>1, <1>2, <3>1
      <4>2. block = << >>
        BY <4>1, SubSeqEmpty
      <4> QED
        BY <3>1, <4>2
    <3>2. CASE n > 0
      <4>1. t + 1 \in 1 .. Len(data) /\ t + n \in 1 .. Len(data)
                /\ t + n \in t + 1 .. Len(data)
        BY <1>1, <1>2, <3>2
      <4> QED
        BY <1>1, <1>2, <4>1, SubSeqProperties
    <3> QED
      BY <1>2, <3>1, <3>2
  <2> QED
    BY <2>2, <2>3
<1>5. block \o Remaining(data, t + n) = Remaining(data, t)
  <2> DEFINE a == t + 1
             b == t + n
  <2>1. a \in 1 .. Len(data) + 1 /\ b \in a - 1 .. Len(data)
            /\ Len(data) \in b .. Len(data)
    BY <1>1, <1>2
  <2> HIDE DEF a, b
  <2>2. SubSeq(data, a, b) \o SubSeq(data, b + 1, Len(data)) = SubSeq(data, a, Len(data))
    BY <2>1, ConcatAdjacentSubSeq
  <2> QED
    BY <2>2 DEF a, b, Remaining
<1>6. call.ret = "Z_OK" => n > 0
  <2>1. \A r : Call(block, r).ret = r
    BY DEF Call
  <2> HIDE DEF block
  <2>2. CASE n = 0
    <3>1. t + n = Len(data)
      BY <1>1, <1>2, <2>2
    <3>2. call.ret = IF complete THEN "Z_STREAM_END" ELSE "Z_BUF_ERROR"
      BY <1>3, <2>1, <2>2, <3>1
    <3> QED
      BY <3>2
  <2> QED
    BY <1>2, <2>2
<1>7. call.ret # "Z_OK" => call = Call(Remaining(data, t), Ending(complete))
  <2>1. \A r : Call(block, r).ret = r
    BY DEF Call
  <2>2. ASSUME t + n = Len(data) PROVE block = Remaining(data, t)
    BY <2>2, <1>4 DEF Remaining
  <2> HIDE DEF block
  <2>3. CASE complete /\ t + n = Len(data)
    BY <1>3, <2>2, <2>3 DEF Ending
  <2>4. CASE ~complete /\ n = 0
    <3>1. t + n = Len(data)
      BY <1>1, <1>2, <2>4
    <3> QED
      BY <1>3, <2>2, <2>4, <3>1 DEF Ending
  <2>5. CASE ~(complete /\ t + n = Len(data)) /\ ~(~complete /\ n = 0)
    BY <1>3, <2>1, <2>5
  <2> QED
    BY <2>3, <2>4, <2>5
<1>8. t + n \in 0 .. Len(data)
  BY <1>1, <1>2
<1> QED
  BY <1>2, <1>4, <1>5, <1>6, <1>7, <1>8 DEF call

\* The loop writes all of the data, however many calls that takes, and ends as the
\* data does.
LEMMA LoopIs ==
    ASSUME NEW V, NEW data \in Seq(V), NEW complete \in BOOLEAN
    PROVE  Loop(data, complete) = Call(data, Ending(complete))
<1> DEFINE D == 0 .. Len(data)
           c(t) == zlib(data, complete, t)
           n(t) == Len(c(t).block)
           More(g, t) == IF c(t).ret = "Z_OK"
                         THEN Call(c(t).block \o g[t + n(t)].block, g[t + n(t)].ret)
                             ELSE c(t)
           Solves(g) == g = [t \in D |-> More(g, t)]
           e == CHOOSE g : Solves(g)
           h == [t \in D |-> Call(Remaining(data, t), Ending(complete))]
           mu == [t \in D |-> Len(data) - t]
<1>1. Loop(data, complete) = e[0]
  BY Zenon DEF Loop
<1>2. \A t \in D : /\ t + n(t) \in D /\ n(t) \in Nat
                   /\ c(t).ret = "Z_OK" => n(t) > 0
                        /\ c(t).block \o Remaining(data, t + n(t)) = Remaining(data, t)
                   /\ c(t).ret # "Z_OK"
                        => c(t) = Call(Remaining(data, t), Ending(complete))
  BY OneCall
<1>3. mu \in [D -> Nat] /\ Len(data) \in Nat /\ 0 \in D
          /\ \A t \in D : mu[t] = Len(data) - t /\ t \in Nat
  BY LenProperties
<1> HIDE DEF D, mu, c
<1>4. \A t \in D : More(h, t) = h[t]
  <2> SUFFICES ASSUME NEW t \in D PROVE More(h, t) = h[t]
    OBVIOUS
  <2>1. t + n(t) \in D
    BY <1>2
  <2>2. h[t] = Call(Remaining(data, t), Ending(complete))
    OBVIOUS
  <2>3. /\ h[t + n(t)].block = Remaining(data, t + n(t))
        /\ h[t + n(t)].ret = Ending(complete)
    <3> DEFINE u == t + n(t)
    <3>1. u \in D
      BY <2>1
    <3> HIDE DEF u
    <3>2. h[u].block = Remaining(data, u) /\ h[u].ret = Ending(complete)
      BY <3>1 DEF Call
    <3> QED
      BY <3>2 DEF u
  <2> HIDE DEF h
  <2>4. CASE c(t).ret = "Z_OK"
    <3>1. c(t).block \o h[t + n(t)].block = Remaining(data, t)
      BY <1>2, <2>3, <2>4
    <3> QED
      BY <2>2, <2>3, <2>4, <3>1
  <2>5. CASE c(t).ret # "Z_OK"
    <3>1. c(t) = Call(Remaining(data, t), Ending(complete))
      BY <1>2, <2>5
    <3> QED
      BY <2>2, <2>5, <3>1
  <2> QED
    BY <2>4, <2>5
<1>5. Solves(h)
  <2>1. h = [t \in D |-> h[t]]
    OBVIOUS
  <2> HIDE DEF h, More
  <2> QED
    BY <1>4, <2>1
<1>6. Solves(e)
  <2> HIDE DEF Solves, h
  <2> QED
    BY <1>5
<1> HIDE DEF e, h
<1>7. \A t \in D : e[t] = More(e, t)
  <2> HIDE DEF More
  <2> QED
    BY <1>6
<1> DEFINE S == {t \in D : h[t] = e[t]}
<1>8. ASSUME NEW t \in D, \A y \in D : mu[y] < mu[t] => y \in S PROVE t \in S
  <2>1. More(h, t) = More(e, t)
    <3>1. CASE c(t).ret = "Z_OK"
      <4> DEFINE u == t + n(t)
                 k == n(t)
      <4>1. u \in D /\ k \in Nat /\ k > 0 /\ u = t + k
        BY <1>2, <3>1
      <4> HIDE DEF u, k
      <4>2. mu[u] < mu[t]
        BY <1>3, <4>1
      <4>3. h[u] = e[u]
        BY <1>8, <4>1, <4>2
      <4> QED
        BY <3>1, <4>3, Zenon DEF u
    <3>2. CASE c(t).ret # "Z_OK"
      BY <3>2
    <3> QED
      BY <3>1, <3>2
  <2> HIDE DEF More
  <2> QED
    BY <1>4, <1>7, <2>1
<1>9. D \subseteq S
  <2> HIDE DEF S
  <2>1. mu \in [D -> Nat]
    BY <1>3
  <2>2. \A t \in D : (\A y \in D : mu[y] < mu[t] => y \in S) => t \in S
    BY <1>8
  <2> QED
    BY <2>1, <2>2, MeasuredInduction
<1>10. e[0] = h[0]
  BY <1>3, <1>9
<1>11. h[0] = Call(data, Ending(complete))
  <2>1. Remaining(data, 0) = data
    <3>1. 0 + 1 = 1
      OBVIOUS
    <3>2. SubSeq(data, 1, Len(data)) = data
      BY SubSeqFull
    <3> QED
      BY <3>1, <3>2 DEF Remaining
  <2> QED
    BY <1>3, <2>1 DEF h
<1> QED
  BY <1>1, <1>10, <1>11

\* What compress_string writes is the string and the mark of its end.
LEMMA Compressed ==
    ASSUME NEW s \in Bytes
    PROVE  /\ compress_string(s) = Append(s, EndOfStream)
           /\ compress_string(s) \in Seq(0 .. EndOfStream)
           /\ Len(compress_string(s)) = Len(s) + 1
<1> DEFINE V == 0 .. EndOfStream
<1>1. s \in Seq(V) /\ EndOfStream \in V
  <2>1. Byte \subseteq V
    BY DEF Byte, EndOfStream
  <2>2. EndOfStream \in V
    BY DEF EndOfStream
  <2> HIDE DEF V
  <2> QED
    BY <2>1, <2>2, SeqMonotonic DEF Bytes
<1> HIDE DEF V
<1> DEFINE a == Append(s, EndOfStream)
<1>2. a \in Seq(V) /\ Len(a) = Len(s) + 1
  BY <1>1, AppendProperties
<1>3. Loop(a, TRUE).block = a
  <2> HIDE DEF a
  <2>1. Loop(a, TRUE) = Call(a, Ending(TRUE))
    BY <1>2, LoopIs
  <2>2. \A r : Call(a, r).block = a
    BY DEF Call
  <2> QED
    BY <2>1, <2>2
<1> QED
  BY <1>2, <1>3 DEF compress_string, V

\* decompress_string gives a whole stream back, and the bytes of a part of one with
\* an error.
LEMMA Decompressed ==
    ASSUME NEW s \in Bytes, NEW n \in 0 .. Len(s)
    PROVE  /\ decompress_string(compress_string(s)) = Call(s, "Z_STREAM_END")
           /\ decompress_string(SubSeq(compress_string(s), 1, n))
                = Call(SubSeq(s, 1, n), "Z_BUF_ERROR")
           /\ SubSeq(s, 1, n) \in Bytes
<1> DEFINE V == 0 .. EndOfStream
           z == compress_string(s)
<1>1. s \in Seq(V) /\ Len(s) \in Nat /\ EndOfStream \in V
          /\ \A i \in 1 .. Len(s) : s[i] # EndOfStream
  <2>1. Byte \subseteq V /\ EndOfStream \notin Byte /\ EndOfStream \in V
    BY DEF Byte, EndOfStream
  <2> HIDE DEF V
  <2> QED
    BY <2>1, SeqMonotonic DEF Bytes
<1> HIDE DEF V
<1>2. /\ z \in Seq(V) /\ Len(z) = Len(s) + 1
      /\ \A i \in 1 .. Len(s) : z[i] = s[i]
      /\ z[Len(s) + 1] = EndOfStream
  BY <1>1, Compressed, AppendProperties
<1>3. z = s \o <<EndOfStream>>
  BY <1>1, Compressed, AppendIsConcat
<1> HIDE DEF z
<1>4. SubSeq(z, 1, Len(s)) = s
  <2>1. <<EndOfStream>> \in Seq(V)
    BY <1>1
  <2> QED
    BY <1>1, <1>3, <2>1, CutConcat
<1>5. decompress_string(z) = Call(s, "Z_STREAM_END")
  <2> DEFINE last == Len(s) + 1
  <2>1. Marks(z) = {last}
    BY <1>1, <1>2 DEF Marks
  <2>2. Min({last}) = last
    <3>1. last \in Int
      BY <1>1
    <3> HIDE DEF last
    <3>2. {last} \in SUBSET Int /\ last \in {last} /\ \A y \in {last} : last <= y
      BY <3>1
    <3> QED
      BY <3>2, MinIs
  <2>3. Inflatable(z) = s /\ Marks(z) # {}
    <3>1. last - 1 = Len(s)
      BY <1>1
    <3> HIDE DEF last
    <3> QED
      BY <1>4, <2>1, <2>2, <3>1 DEF Inflatable
  <2>4. Loop(s, TRUE) = Call(s, Ending(TRUE))
    BY <1>1, LoopIs
  <2> QED
    BY <2>3, <2>4 DEF decompress_string, Ending
<1> DEFINE y == SubSeq(z, 1, n)
           p == SubSeq(s, 1, n)
<1>6. /\ y \in Seq(V) /\ Len(y) = n /\ \A i \in 1 .. n : y[i] = z[i]
  <2>1. CASE n = 0
    BY <2>1, SubSeqEmpty
  <2>2. CASE n # 0
    <3>1. 1 \in 1 .. Len(z) /\ n \in 1 .. Len(z) /\ n \in Nat
      BY <1>1, <1>2, <2>2
    <3>2. SubSeq(z, 1, n) \in Seq(V) /\ Len(SubSeq(z, 1, n)) = n
          /\ \A i \in 1 .. n : SubSeq(z, 1, n)[i] = z[i]
      BY <1>2, <3>1
    <3> QED
      BY <3>2
  <2> QED
    BY <2>1, <2>2
<1>7. /\ p \in Bytes /\ Len(p) = n /\ \A i \in 1 .. n : p[i] = s[i]
  <2>1. CASE n = 0
    BY <2>1, SubSeqEmpty DEF Bytes
  <2>2. CASE n # 0
    <3>1. 1 \in 1 .. Len(s) /\ n \in 1 .. Len(s) /\ n \in Nat
      BY <1>1, <2>2
    <3> QED
      BY <3>1 DEF Bytes
  <2> QED
    BY <2>1, <2>2
<1>8. y = p
  <2> HIDE DEF y, p
  <2>1. y \in Seq(V) /\ p \in Seq(Byte) /\ Len(y) = n /\ Len(p) = n /\ n \in Nat
    BY <1>6, <1>7 DEF Bytes
  <2>2. \A i \in 1 .. n : y[i] = p[i]
    BY <1>1, <1>2, <1>6, <1>7
  <2>3. y \in [1 .. n -> V] /\ p \in [1 .. n -> Byte]
    BY <2>1
  <2> QED
    BY <2>2, <2>3
<1>9. decompress_string(y) = Call(p, "Z_BUF_ERROR")
  <2>1. Marks(y) = {}
    BY <1>1, <1>2, <1>6 DEF Marks
  <2>2. Inflatable(y) = y
    BY <2>1 DEF Inflatable
  <2>3. Loop(y, FALSE) = Call(y, Ending(FALSE))
    <3> HIDE DEF y
    <3> QED
      BY <1>6, LoopIs
  <2>4. decompress_string(y) = Call(y, "Z_BUF_ERROR")
    <3> HIDE DEF y
    <3> QED
      BY <2>1, <2>2, <2>3 DEF decompress_string, Ending
  <2> QED
    BY <1>8, <2>4
<1> QED
  BY <1>5, <1>7, <1>9 DEF z

-----------------------------------------------------------------------------
(* Objects and messages.                                                   *)

\* The cell of a row and column in rows of one length, written one after the other.
LEMMA CellAt ==
    ASSUME NEW V, NEW rows \in Seq(Seq(V)), NEW w \in Nat,
           \A i \in 1 .. Len(rows) : Len(rows[i]) = w
    PROVE  \A i \in 1 .. Len(rows), j \in 1 .. w :
              /\ (i - 1) * w + j \in DOMAIN FlattenSeq(rows)
              /\ FlattenSeq(rows)[(i - 1) * w + j] = rows[i][j]
<1> DEFINE n == Len(rows)
           at(i) == w * (i - 1)
<1>1. PICK F : IsFlattening(F, rows, V)
  BY FlattenSteps
<1>2. /\ n \in Nat /\ \A i \in 1 .. n : rows[i] \in Seq(V) /\ Len(rows[i]) = w
      /\ \A k \in 0 .. n : F[k] \in Seq(V)
      /\ F[0] = << >> /\ F[n] = FlattenSeq(rows) /\ FlattenSeq(rows) \in Seq(V)
  <2>1. \A i \in 1 .. n : rows[i] \in Seq(V)
    BY ElementOfSeq
  <2>2. \A k \in 0 .. n : F[k] \in Seq(V)
    BY <1>1 DEF IsFlattening
  <2> QED
    BY <1>1, <2>1, <2>2, LenProperties, FlattenType DEF IsFlattening
<1>3. \A i \in Nat \ {0} : at(i) \in Nat /\ at(i + 1) = at(i) + w
  <2> SUFFICES ASSUME NEW i \in Nat \ {0} PROVE at(i) \in Nat /\ at(i + 1) = at(i) + w
    OBVIOUS
  <2> DEFINE d == i - 1
  <2>1. d \in Nat /\ i - 1 = d /\ i + 1 - 1 = d + 1
    OBVIOUS
  <2> HIDE DEF d
  <2>2. w * d \in Nat /\ w * (d + 1) = w * d + w
    BY <2>1
  <2> QED
    BY <2>1, <2>2
<1>4. \A i, k \in Nat \ {0} : i < k => at(i) + w <= at(k)
  <2> SUFFICES ASSUME NEW i \in Nat \ {0}, NEW k \in Nat \ {0}, i < k
                          PROVE at(i) + w <= at(k)
    OBVIOUS
  <2> DEFINE p == i - 1
             q == k - 1
  <2>1. p \in Int /\ q \in Int /\ p < q /\ p \in Nat /\ q \in Nat /\ q > 0
    OBVIOUS
  <2> HIDE DEF p, q
  <2>2. w * p + w <= w * q
    <3>1. CASE w > 0
      BY <2>1, <3>1, MultiplesApart
    <3>2. CASE w = 0
      BY <2>1, <3>2
    <3> QED
      BY <3>1, <3>2
  <2> QED
    BY <2>2 DEF p, q
<1>5. \A i \in Nat \ {0} : (i - 1) * w = at(i)
  OBVIOUS
<1>6. at(1) = 0
  <2>1. 1 - 1 = 0 /\ w * 0 = 0
    OBVIOUS
  <2> QED
    BY <2>1
<1> HIDE DEF at
<1> DEFINE Q == {k \in Nat : k <= n => /\ Len(F[k]) = at(k + 1)
                                       /\ \A i \in 1 .. k, j \in 1 .. w :
                                             F[k][at(i) + j] = rows[i][j]}
<1>7. 0 \in Q
  <2>1. 0 + 1 = 1 /\ Len(F[0]) = 0
    BY <1>2, EmptySeq
  <2>2. 1 .. 0 = {}
    OBVIOUS
  <2> QED
    BY <1>6, <2>1, <2>2
<1>8. ASSUME NEW k \in Nat, k \in Q PROVE k + 1 \in Q
  <2> SUFFICES ASSUME k + 1 <= n
               PROVE  /\ Len(F[k + 1]) = at(k + 1 + 1)
                      /\ \A i \in 1 .. k + 1, j \in 1 .. w : F[k + 1][at(i) + j]
                           = rows[i][j]
    OBVIOUS
  <2> DEFINE l == k + 1
             s == F[k]
             r == rows[l]
  <2>1. l \in 1 .. n /\ k \in 0 .. n /\ l - 1 = k /\ l \in Nat \ {0} /\ l \in 0 .. n
    BY <1>2
  <2>2. F[l] = s \o r
    <3>1. \A i \in 1 .. n : F[i] = F[i - 1] \o rows[i]
      BY <1>1 DEF IsFlattening
    <3> HIDE DEF n, l
    <3> QED
      BY <2>1, <3>1
  <2>3. s \in Seq(V) /\ r \in Seq(V) /\ Len(r) = w
    <3> HIDE DEF l
    <3> QED
      BY <1>2, <2>1
  <2>4. Len(s) = at(l) /\ \A i \in 1 .. k, j \in 1 .. w : s[at(i) + j] = rows[i][j]
    BY <1>8, <2>1
  <2> HIDE DEF s, r, Q
  <2>5. /\ Len(s \o r) = at(l) + w
        /\ \A x \in 1 .. at(l) : (s \o r)[x] = s[x]
        /\ \A j \in 1 .. w : (s \o r)[at(l) + j] = r[j]
    <3>1. Len(s) \in Nat /\ at(l) \in Nat
      BY <2>3, LenProperties, <2>4
    <3>2. /\ Len(s \o r) = Len(s) + Len(r)
          /\ \A x \in 1 .. Len(s) + Len(r) :
               (s \o r)[x] = IF x <= Len(s) THEN s[x] ELSE r[x - Len(s)]
      BY <2>3, ConcatProperties
    <3> HIDE DEF l
    <3>3. \A x \in 1 .. at(l) + w : (s \o r)[x] = IF x <= at(l) THEN s[x]
              ELSE r[x - at(l)]
      BY <2>3, <2>4, <3>2
    <3>4. ASSUME NEW j \in 1 .. w PROVE (s \o r)[at(l) + j] = r[j]
      <4> DEFINE x == at(l) + j
      <4>1. x \in 1 .. at(l) + w /\ ~(x <= at(l)) /\ x - at(l) = j
        BY <3>1
      <4> HIDE DEF x
      <4>2. (s \o r)[x] = r[j]
        BY <3>3, <4>1
      <4> QED
        BY <4>2 DEF x
    <3>5. ASSUME NEW x \in 1 .. at(l) PROVE (s \o r)[x] = s[x]
      <4>1. x \in 1 .. at(l) + w /\ x <= at(l)
        BY <3>1
      <4> QED
        BY <3>3, <4>1
    <3> QED
      BY <2>3, <2>4, <3>2, <3>4, <3>5
  <2>6. Len(F[l]) = at(l + 1)
    BY <1>3, <2>1, <2>2, <2>5
  <2>7. ASSUME NEW i \in 1 .. l, NEW j \in 1 .. w PROVE F[l][at(i) + j] = rows[i][j]
    <3>1. CASE i = l
      <4> HIDE DEF l
      <4> QED
        BY <2>2, <2>5, <3>1 DEF r
    <3>2. CASE i # l
      <4>1. i \in 1 .. k /\ i < l /\ i \in Nat \ {0}
        BY <3>2
      <4>2. at(i) \in Nat /\ at(l) \in Nat /\ at(i) + w <= at(l)
        BY <1>3, <1>4, <2>1, <4>1
      <4> DEFINE x == at(i) + j
      <4>3. x \in 1 .. at(l)
        BY <4>2
      <4>4. s[x] = rows[i][j]
        BY <2>4, <4>1
      <4> HIDE DEF x, l
      <4>5. F[l][x] = rows[i][j]
        BY <2>2, <2>5, <4>3, <4>4
      <4> QED
        BY <4>5 DEF x
    <3> QED
      BY <3>1, <3>2
  <2> QED
    BY <2>6, <2>7
<1>9. n \in Q
  <2> HIDE DEF Q
  <2> QED
    BY <1>2, <1>7, <1>8, NatsByInduction
<1>10. Len(FlattenSeq(rows)) = at(n + 1)
       /\ \A i \in 1 .. n, j \in 1 .. w : FlattenSeq(rows)[at(i) + j] = rows[i][j]
  BY <1>2, <1>9
<1>11. ASSUME NEW i \in 1 .. n, NEW j \in 1 .. w
       PROVE  /\ (i - 1) * w + j \in DOMAIN FlattenSeq(rows)
              /\ FlattenSeq(rows)[(i - 1) * w + j] = rows[i][j]
  <2>1. i \in Nat \ {0} /\ n + 1 \in Nat \ {0} /\ i < n + 1
    BY <1>2
  <2>2. at(i) \in Nat /\ at(n + 1) \in Nat /\ at(i) + w <= at(n + 1)
            /\ (i - 1) * w = at(i)
    BY <1>3, <1>4, <1>5, <2>1
  <2>3. DOMAIN FlattenSeq(rows) = 1 .. at(n + 1)
    BY <1>2, <1>10, LenProperties
  <2>4. at(i) + j \in 1 .. at(n + 1)
    BY <2>2
  <2> HIDE DEF n
  <2> QED
    BY <1>10, <2>2, <2>3, <2>4
<1> QED
  BY <1>11

\* An int comes back from an unsigned field.
LEMMA IntBack ==
    ASSUME NEW c \in Int32
    PROVE  ToUint(c) \in UInt32 /\ (ToUint(c) % Word32) = ToUint(c)
               /\ ToInt(ToUint(c)) = c
<1> DEFINE half == Word32 \div 2
           u == c % Word32
<1>1. /\ Word32 \in Nat /\ Word32 > 0 /\ half \in Nat /\ c \in Int
      /\ half - Word32 <= c /\ c < half /\ half <= Word32
  BY WordAssumption DEF Int32
<1>2. u \in 0 .. Word32 - 1
  BY <1>1, ModType
<1>3. (u % Word32) = u
  <2> HIDE DEF u
  <2> QED
    BY <1>1, <1>2, ModSmall
<1>4. (c >= 0 => u = c) /\ (c < 0 => u = c + Word32)
  <2>1. CASE c >= 0
    <3>1. c \in 0 .. Word32 - 1
      BY <1>1, <2>1
    <3> QED
      BY <1>1, <2>1, <3>1, ModSmall
  <2>2. CASE c < 0
    <3> DEFINE d == c + Word32
    <3>1. d \in 0 .. Word32 - 1 /\ Word32 * 1 + c = d
      BY <1>1, <2>2
    <3>2. (Word32 * 1 + c) % Word32 = c % Word32
      BY <1>1, ModSame
    <3> HIDE DEF d
    <3>3. d % Word32 = d
      BY <1>1, <3>1, ModSmall
    <3> QED
      BY <1>1, <2>2, <3>1, <3>2, <3>3 DEF d
  <2> QED
    BY <1>1, <2>1, <2>2
<1> HIDE DEF u, half
<1>5. (IF u < half THEN u ELSE u - Word32) = c
  BY <1>1, <1>2, <1>4
<1> QED
  BY <1>2, <1>3, <1>5 DEF ToUint, ToInt, UInt32, u, half

\* A bucket's message has its three fields and gives its half back.
LEMMA BucketBack ==
    ASSUME NEW b \in Buckets
    PROVE  /\ SerializeBucket(IBLT_bucket_New, b) \in IBLT_bucket_Class
           /\ IBLT_bucket_IsInitialized(SerializeBucket(IBLT_bucket_New, b))
           /\ DeserializeBucket(SerializeBucket(IBLT_bucket_New, b)) = Half(b)
<1> DEFINE k == b.key_sum % Word32
           h == b.hash_sum % Word32
           c == ToUint(b.count)
           m == SerializeBucket(IBLT_bucket_New, b)
<1>1. b.key_sum \in Int /\ b.hash_sum \in Int /\ b.count \in Int32
  BY WordAssumption DEF Buckets, UInt64
<1>2. k \in UInt32 /\ h \in UInt32 /\ c \in UInt32 /\ (c % Word32) = c
          /\ ToInt(c) = b.count
  <2>1. Word32 \in Nat /\ Word32 > 0
    BY WordAssumption
  <2> QED
    BY <1>1, <2>1, ModType, IntBack DEF UInt32
<1>3. m = [key_sum |-> <<k>>, hash_sum |-> <<h>>, count |-> <<c % Word32>>]
  <2> HIDE DEF c
  <2> QED
    BY DEF SerializeBucket, IBLT_bucket_set, IBLT_bucket_New, set, Decode, c
<1>4. m = [key_sum |-> <<k>>, hash_sum |-> <<h>>, count |-> <<c>>]
  BY <1>2, <1>3
<1> HIDE DEF m, k, h, c
<1>5. m \in IBLT_bucket_Class
  <2>1. <<k>> \in Single(UInt32) /\ <<h>> \in Single(UInt32) /\ <<c>> \in Single(UInt32)
    BY <1>2 DEF Single
  <2> QED
    BY <1>4, <2>1 DEF IBLT_bucket_Class
<1>6. IBLT_bucket_IsInitialized(m)
  BY <1>4 DEF IBLT_bucket_IsInitialized
<1>7. DeserializeBucket(m) = Half(b)
  <2>1. IBLT_bucket_get(m) = [key_sum |-> k, hash_sum |-> h, count |-> c]
    BY <1>4 DEF IBLT_bucket_get, Or
  <2>2. DeserializeBucket(m) = [key_sum |-> k, hash_sum |-> h, count |-> ToInt(c)]
    BY <2>1 DEF DeserializeBucket
  <2> QED
    BY <1>2, <2>2 DEF Half, Bucket, k, h
<1> QED
  BY <1>5, <1>6, <1>7 DEF m

\* Values that a field's type does not change, added to an empty field.
Keeps(type, V) == \A v \in V : Decode(type, v) = v

LEMMA Added ==
    ASSUME NEW V, NEW values \in Seq(V), NEW type, Keeps(type, V),
           NEW m, NEW field, m[field] = << >>
    PROVE  add(m, field, type, values) = [m EXCEPT ![field] = values]
<1> DEFINE d == [i \in DOMAIN values |-> Decode(type, values[i])]
<1>1. d = values
  <2>1. \A i \in DOMAIN values : values[i] \in V
    BY ElementOfSeq
  <2> QED
    BY <2>1 DEF Keeps
<1> HIDE DEF d
<1>2. m[field] \o d = values
  BY <1>1, ConcatEmptySeq
<1> QED
  BY <1>2 DEF add, d

\* The cells of a table, and where the receiver's rows and columns find them.
LEMMA TableCells ==
    ASSUME NEW t \in Tables
    PROVE  /\ Cells(t) \in Seq(Buckets)
           /\ \A i \in DOMAIN t : \A j \in DOMAIN t[i] :
                 /\ Index(t, i, j) \in DOMAIN Cells(t)
                 /\ Cells(t)[Index(t, i, j)] = t[i][j]
                 /\ t[i][j] \in Buckets
<1>1. /\ t \in Seq(Seq(Buckets)) /\ Len(t) \in Nat /\ DOMAIN t = 1 .. Len(t)
      /\ \A i, j \in DOMAIN t : Len(t[i]) = Len(t[j])
  BY LenProperties DEF Tables
<1>2. Cells(t) \in Seq(Buckets)
  BY <1>1, FlattenType DEF Cells
<1>3. \A i \in DOMAIN t : t[i] \in Seq(Buckets) /\ Len(t[i]) \in Nat
          /\ DOMAIN t[i] = 1 .. Len(t[i])
  BY <1>1, ElementOfSeq, LenProperties
<1>4. ASSUME NEW i \in DOMAIN t, NEW j \in DOMAIN t[i]
      PROVE  /\ Index(t, i, j) \in DOMAIN Cells(t)
             /\ Cells(t)[Index(t, i, j)] = t[i][j]
             /\ t[i][j] \in Buckets
  <2> DEFINE w == Len(t[i])
  <2>1. w \in Nat /\ j \in 1 .. w /\ \A k \in 1 .. Len(t) : Len(t[k]) = w
    BY <1>1, <1>3
  <2>2. t[i][j] \in Buckets
    BY <1>3, ElementOfSeq
  <2>3. Index(t, i, j) = (i - 1) * w + j
    BY DEF Index
  <2> HIDE DEF w
  <2>4. \A r \in 1 .. Len(t), c \in 1 .. w :
           /\ (r - 1) * w + c \in DOMAIN FlattenSeq(t)
           /\ FlattenSeq(t)[(r - 1) * w + c] = t[r][c]
    BY <1>1, <2>1, CellAt
  <2>5. /\ (i - 1) * w + j \in DOMAIN FlattenSeq(t)
        /\ FlattenSeq(t)[(i - 1) * w + j] = t[i][j]
    BY <1>1, <2>1, <2>4
  <2> QED
    BY <2>2, <2>3, <2>5 DEF Cells
<1> QED
  BY <1>2, <1>4

\* What the classes and the objects have to do with each other.
Faithful(type, v) ==
    /\ ToMessage(type, v) \in Class(type)
    /\ IsInitialized(type, ToMessage(type, v))
    /\ FromMessage(type, v, ToMessage(type, v)) = Kept(type, v)

\* Every cell of a table is where the receiver looks for it, as an IBLT_bucket.
LEMMA IBLT_Faithful ==
    ASSUME NEW t \in Tables PROVE Faithful("IBLT", t)
<1> DEFINE cells == Cells(t)
           b(i) == SerializeBucket(IBLT_bucket_New, cells[i])
           buckets == [i \in DOMAIN cells |-> b(i)]
           m == SerializeIBLT(t)
<1>1. cells \in Seq(Buckets) /\ \A i \in DOMAIN cells : cells[i] \in Buckets
  BY TableCells, ElementOfSeq
<1>2. \A i \in DOMAIN t : \A j \in DOMAIN t[i] :
         /\ Index(t, i, j) \in DOMAIN cells /\ cells[Index(t, i, j)] = t[i][j]
         /\ t[i][j] \in Buckets
  BY TableCells
<1>3. m = IBLT_add_buckets(IBLT_New, buckets)
  BY DEF SerializeIBLT, Map
<1>4. DOMAIN cells = 1 .. Len(cells) /\ Len(cells) \in Nat
  BY <1>1, LenProperties
<1> HIDE DEF cells
<1>5. \A i \in DOMAIN cells : /\ b(i) \in IBLT_bucket_Class
                              /\ IBLT_bucket_IsInitialized(b(i))
                              /\ DeserializeBucket(b(i)) = Half(cells[i])
  BY <1>1, BucketBack
<1> HIDE DEF b
<1>6. buckets \in Seq(IBLT_bucket_Class)
  <2> DEFINE n == Len(cells)
  <2> HIDE DEF n
  <2>1. n \in Nat /\ DOMAIN cells = 1 .. n
    BY <1>4 DEF n
  <2>2. [i \in 1 .. n |-> b(i)] \in Seq(IBLT_bucket_Class)
    BY <1>5, <2>1
  <2> QED
    BY <2>1, <2>2
<1>7. DOMAIN buckets = DOMAIN cells /\ \A i \in DOMAIN cells : buckets[i] = b(i)
  OBVIOUS
<1> HIDE DEF buckets
<1>8. m = [buckets |-> buckets]
  <2>1. Keeps("IBLT_bucket", IBLT_bucket_Class)
    BY DEF Decode, Keeps
  <2>2. IBLT_New["buckets"] = << >>
            /\ [IBLT_New EXCEPT !["buckets"] = buckets] = [buckets |-> buckets]
    BY DEF IBLT_New
  <2>3. add(IBLT_New, "buckets", "IBLT_bucket", buckets)
            = [IBLT_New EXCEPT !["buckets"] = buckets]
    BY <1>6, <2>1, <2>2, Added
  <2> QED
    BY <1>3, <2>2, <2>3 DEF IBLT_add_buckets
<1> HIDE DEF m
<1>9. m \in IBLT_Class
  BY <1>6, <1>8 DEF IBLT_Class
<1>10. IBLT_IsInitialized(m)
  BY <1>5, <1>7, <1>8 DEF IBLT_IsInitialized
<1>11. DeserializeIBLT(t, m) = [i \in DOMAIN t |-> [j \in DOMAIN t[i] |-> Half(t[i][j])]]
  <2>1. ASSUME NEW i \in DOMAIN t, NEW j \in DOMAIN t[i]
        PROVE  DeserializeBucket(IBLT_get_buckets(m, Index(t, i, j))) = Half(t[i][j])
    <3> DEFINE x == Index(t, i, j)
    <3>1. x \in DOMAIN cells /\ cells[x] = t[i][j]
      BY <1>2
    <3> HIDE DEF x
    <3>2. IBLT_get_buckets(m, x) = b(x)
      BY <1>7, <1>8, <3>1 DEF IBLT_get_buckets, get
    <3> QED
      BY <1>5, <3>1, <3>2 DEF x
  <2> QED
    BY <2>1, Zenon DEF DeserializeIBLT
<1>12. /\ ToMessage("IBLT", t) = m /\ Class("IBLT") = IBLT_Class
       /\ IsInitialized("IBLT", m) = IBLT_IsInitialized(m)
       /\ FromMessage("IBLT", t, m) = DeserializeIBLT(t, m)
       /\ Kept("IBLT", t) = [i \in DOMAIN t |-> [j \in DOMAIN t[i] |-> Half(t[i][j])]]
  BY DEF ToMessage, Class, IsInitialized, FromMessage, Kept, m
<1> QED
  BY <1>9, <1>10, <1>11, <1>12 DEF Faithful

\* The three arrays of a table, and the buckets read from them.
LEMMA IBLT2_Back ==
    ASSUME NEW t \in Tables
    PROVE  /\ SerializeIBLT2(t) \in IBLT2_Class
           /\ DeserializeIBLT2(t, SerializeIBLT2(t)) = t
<1> DEFINE cells == Cells(t)
           keys == [i \in DOMAIN cells |-> cells[i].key_sum]
           hashes == [i \in DOMAIN cells |-> cells[i].hash_sum]
           counts == [i \in DOMAIN cells |-> ToUint(cells[i].count)]
           m == SerializeIBLT2(t)
<1>1. cells \in Seq(Buckets) /\ \A i \in DOMAIN cells : cells[i] \in Buckets
  BY TableCells, ElementOfSeq
<1>2. \A i \in DOMAIN t : \A j \in DOMAIN t[i] :
         /\ Index(t, i, j) \in DOMAIN cells /\ cells[Index(t, i, j)] = t[i][j]
         /\ t[i][j] \in Buckets
  BY TableCells
<1>3. m = IBLT2_add(IBLT2_New, keys, hashes, counts)
  BY DEF SerializeIBLT2, Map
<1>4. DOMAIN cells = 1 .. Len(cells) /\ Len(cells) \in Nat
  BY <1>1, LenProperties
<1> HIDE DEF cells
<1>5. \A i \in DOMAIN cells : /\ cells[i].key_sum \in UInt64
                                   /\ cells[i].hash_sum \in UInt64
                              /\ ToUint(cells[i].count) \in UInt32
  BY <1>1, IntBack DEF Buckets
<1>6. keys \in Seq(UInt64) /\ hashes \in Seq(UInt64) /\ counts \in Seq(UInt32)
  <2> DEFINE n == Len(cells)
  <2> HIDE DEF n
  <2>1. n \in Nat /\ DOMAIN cells = 1 .. n
    BY <1>4 DEF n
  <2> DEFINE A == UInt64
             B == UInt32
  <2>2. \A i \in 1 .. n : cells[i].key_sum \in A /\ cells[i].hash_sum \in A
            /\ ToUint(cells[i].count) \in B
    BY <1>5, <2>1
  <2> HIDE DEF A, B
  <2>3. [i \in 1 .. n |-> cells[i].key_sum] \in Seq(A)
    BY <2>1, <2>2
  <2>4. [i \in 1 .. n |-> cells[i].hash_sum] \in Seq(A)
    BY <2>1, <2>2
  <2>5. [i \in 1 .. n |-> ToUint(cells[i].count)] \in Seq(B)
    BY <2>1, <2>2
  <2> QED
    BY <2>1, <2>3, <2>4, <2>5 DEF A, B
<1>7. /\ DOMAIN keys = DOMAIN cells /\ DOMAIN hashes = DOMAIN cells
           /\ DOMAIN counts = DOMAIN cells
      /\ \A i \in DOMAIN cells : /\ keys[i] = cells[i].key_sum
                                      /\ hashes[i] = cells[i].hash_sum
                                 /\ counts[i] = ToUint(cells[i].count)
  OBVIOUS
<1> HIDE DEF keys, hashes, counts
<1>8. m = [key_sum |-> keys, hash_sum |-> hashes, count |-> counts]
  <2>1. Keeps("uint64", UInt64) /\ Keeps("uint32", UInt32)
    BY DecodeType DEF IsNumeric, Keeps
  <2> DEFINE m1 == [IBLT2_New EXCEPT !["key_sum"] = keys]
             m2 == [m1 EXCEPT !["hash_sum"] = hashes]
             m3 == [m2 EXCEPT !["count"] = counts]
  <2>2. /\ IBLT2_New["key_sum"] = << >> /\ m1["hash_sum"] = << >> /\ m2["count"] = << >>
        /\ m3 = [key_sum |-> keys, hash_sum |-> hashes, count |-> counts]
    BY DEF IBLT2_New
  <2> HIDE DEF m1, m2, m3
  <2>3. add(IBLT2_New, "key_sum", "uint64", keys) = m1
    BY <1>6, <2>1, <2>2, Added DEF m1
  <2>4. add(m1, "hash_sum", "uint64", hashes) = m2
    BY <1>6, <2>1, <2>2, Added DEF m2
  <2>5. add(m2, "count", "uint32", counts) = m3
    BY <1>6, <2>1, <2>2, Added DEF m3
  <2> QED
    BY <1>3, <2>2, <2>3, <2>4, <2>5 DEF IBLT2_add
<1> HIDE DEF m
<1>9. m \in IBLT2_Class
  BY <1>6, <1>8 DEF IBLT2_Class
<1>10. DeserializeIBLT2(t, m) = [i \in DOMAIN t |-> [j \in DOMAIN t[i] |-> t[i][j]]]
  <2>1. ASSUME NEW i \in DOMAIN t, NEW j \in DOMAIN t[i]
        PROVE  [IBLT2_get(m, Index(t, i, j)) EXCEPT !.count = ToInt(@)] = t[i][j]
    <3> DEFINE x == Index(t, i, j)
               b == t[i][j]
    <3>1. x \in DOMAIN cells /\ cells[x] = b /\ b \in Buckets
      BY <1>2
    <3> HIDE DEF x, b
    <3>2. IBLT2_get(m, x) = [key_sum |-> b.key_sum, hash_sum |-> b.hash_sum,
              count |-> ToUint(b.count)]
      <4>1. DOMAIN m = {"key_sum", "hash_sum", "count"}
        BY <1>8
      <4>2. /\ get(m, "key_sum", x, Garbage) = b.key_sum
            /\ get(m, "hash_sum", x, Garbage) = b.hash_sum
            /\ get(m, "count", x, Garbage) = ToUint(b.count)
        BY <1>7, <1>8, <3>1 DEF get
      <4> DEFINE r == [field \in DOMAIN m |-> get(m, field, x, Garbage)]
      <4>3. IBLT2_get(m, x) = r
        BY Zenon DEF IBLT2_get
      <4>4. DOMAIN r = {"key_sum", "hash_sum", "count"} /\ r = [f \in DOMAIN r |-> r[f]]
            /\ r.key_sum = b.key_sum /\ r.hash_sum = b.hash_sum
                 /\ r.count = ToUint(b.count)
        BY <4>1, <4>2
      <4> HIDE DEF r
      <4> QED
        BY <4>3, <4>4
    <3>3. ToInt(ToUint(b.count)) = b.count
      BY <3>1, IntBack DEF Buckets
    <3>4. b = [key_sum |-> b.key_sum, hash_sum |-> b.hash_sum, count |-> b.count]
      BY <3>1 DEF Buckets
    <3> DEFINE g == IBLT2_get(m, x)
    <3>5. g = [key_sum |-> b.key_sum, hash_sum |-> b.hash_sum, count |-> ToUint(b.count)]
      BY <3>2
    <3> HIDE DEF g
    <3>6. [g EXCEPT !.count = ToInt(@)]
              = [key_sum |-> b.key_sum, hash_sum |-> b.hash_sum,
                  count |-> ToInt(ToUint(b.count))]
      BY <3>5
    <3> QED
      BY <3>3, <3>4, <3>6 DEF g, x, b
  <2> QED
    BY <2>1, Zenon DEF DeserializeIBLT2
<1>11. t = [i \in DOMAIN t |-> [j \in DOMAIN t[i] |-> t[i][j]]]
  <2>1. t \in Seq(Seq(Buckets))
    BY DEF Tables
  <2>2. t = [i \in DOMAIN t |-> t[i]]
    BY <2>1
  <2>3. \A i \in DOMAIN t : t[i] = [j \in DOMAIN t[i] |-> t[i][j]]
    <3>1. \A i \in DOMAIN t : t[i] \in Seq(Buckets)
      BY <2>1, ElementOfSeq
    <3> QED
      BY <3>1
  <2> QED
    BY <2>2, <2>3
<1> QED
  BY <1>9, <1>10, <1>11 DEF m

\* A table in three arrays comes back.
LEMMA IBLT2_Faithful ==
    ASSUME NEW t \in Tables PROVE Faithful("IBLT2", t)
<1>1. /\ ToMessage("IBLT2", t) = SerializeIBLT2(t) /\ Class("IBLT2") = IBLT2_Class
      /\ Kept("IBLT2", t) = t
      /\ \A m : IsInitialized("IBLT2", m)
           /\ FromMessage("IBLT2", t, m) = DeserializeIBLT2(t, m)
  BY DEF ToMessage, Class, IsInitialized, FromMessage, Kept
<1> QED
  BY <1>1, IBLT2_Back DEF Faithful

\* An estimator comes back stratum by stratum.
LEMMA strata_estimator_Faithful ==
    ASSUME NEW strata \in Seq(Tables) PROVE Faithful("strata_estimator", strata)
<1> DEFINE s(i) == SerializeIBLT2(strata[i])
           all == [i \in DOMAIN strata |-> s(i)]
           m == SerializeStrata(strata)
           n == Len(strata)
<1>1. m = strata_estimator_add_strata(strata_estimator_New, all)
  BY DEF SerializeStrata, Map
<1>2. n \in Nat /\ DOMAIN strata = 1 .. n /\ \A i \in 1 .. n : strata[i] \in Tables
  BY LenProperties, ElementOfSeq
<1>3. \A i \in 1 .. n : s(i) \in IBLT2_Class
          /\ DeserializeIBLT2(strata[i], s(i)) = strata[i]
  BY <1>2, IBLT2_Back
<1>4. strata = [i \in 1 .. n |-> strata[i]]
  <2> DEFINE T == Tables
  <2>1. strata \in Seq(T)
    OBVIOUS
  <2> HIDE DEF T
  <2>2. strata = [i \in DOMAIN strata |-> strata[i]]
    BY <2>1
  <2> QED
    BY <1>2, <2>2
<1> HIDE DEF s, n
<1>5. all \in Seq(IBLT2_Class) /\ DOMAIN all = 1 .. n /\ \A i \in 1 .. n : all[i] = s(i)
  <2>1. [i \in 1 .. n |-> s(i)] \in Seq(IBLT2_Class)
    BY <1>2, <1>3
  <2> QED
    BY <1>2, <2>1
<1> HIDE DEF all
<1>6. m = [strata |-> all]
  <2>1. Keeps("IBLT2", IBLT2_Class)
    BY DEF Decode, Keeps
  <2>2. strata_estimator_New["strata"] = << >>
        /\ [strata_estimator_New EXCEPT !["strata"] = all] = [strata |-> all]
    BY DEF strata_estimator_New
  <2>3. add(strata_estimator_New, "strata", "IBLT2", all)
            = [strata_estimator_New EXCEPT !["strata"] = all]
    BY <1>5, <2>1, <2>2, Added
  <2> QED
    BY <1>1, <2>2, <2>3 DEF strata_estimator_add_strata
<1> HIDE DEF m
<1>7. m \in strata_estimator_Class
  BY <1>5, <1>6 DEF strata_estimator_Class
<1>8. DeserializeStrata(strata, m) = strata
  <2>1. ASSUME NEW i \in 1 .. n
        PROVE  DeserializeIBLT2(strata[i], strata_estimator_get_strata(m, i)) = strata[i]
    <3>1. strata_estimator_get_strata(m, i) = s(i)
      BY <1>5, <1>6 DEF strata_estimator_get_strata, get
    <3> QED
      BY <1>3, <3>1
  <2>2. DeserializeStrata(strata, m) = [i \in 1 .. n |-> strata[i]]
    BY <1>2, <2>1, Zenon DEF DeserializeStrata
  <2> QED
    BY <1>4, <2>2
<1>9. /\ ToMessage("strata_estimator", strata) = m
           /\ Class("strata_estimator") = strata_estimator_Class
      /\ Kept("strata_estimator", strata) = strata
      /\ IsInitialized("strata_estimator", m)
      /\ FromMessage("strata_estimator", strata, m) = DeserializeStrata(strata, m)
  BY DEF ToMessage, Class, IsInitialized, FromMessage, Kept, m
<1> QED
  BY <1>7, <1>8, <1>9 DEF Faithful

\* A bucket comes back with a bit for each party.
LEMMA IBLT_bucket_extended_Faithful ==
    ASSUME NEW v \in [bucket : Buckets, has_key : Seq(Bool)]
    PROVE  Faithful("IBLT_bucket_extended", v)
<1> DEFINE b == SerializeBucket(IBLT_bucket_New, v.bucket)
           bits == v.has_key
           n == Len(bits)
           m == SerializeExtended(v)
<1>1. /\ v.bucket \in Buckets /\ bits \in Seq(Bool)
      /\ v = [bucket |-> v.bucket, has_key |-> bits]
  OBVIOUS
<1>2. /\ b \in IBLT_bucket_Class /\ IBLT_bucket_IsInitialized(b)
      /\ DeserializeBucket(b) = Half(v.bucket)
  BY <1>1, BucketBack
<1>3. m = IBLT_bucket_extended_set(IBLT_bucket_extended_New, b, bits)
  BY DEF SerializeExtended
<1>4. n \in Nat /\ DOMAIN bits = 1 .. n
  BY <1>1, LenProperties
<1> HIDE DEF b, bits
<1>5. m = [bucket |-> <<b>>, has_key |-> bits]
  <2> DEFINE m1 == [IBLT_bucket_extended_New EXCEPT !["bucket"] = <<b>>]
             m2 == [m1 EXCEPT !["has_key"] = bits]
  <2>1. set(IBLT_bucket_extended_New, "bucket", "IBLT_bucket", b) = m1
    BY DEF set, Decode
  <2>2. m1["has_key"] = << >> /\ m2 = [bucket |-> <<b>>, has_key |-> bits]
    BY DEF IBLT_bucket_extended_New
  <2>3. Keeps("bool", Bool)
    BY DecodeType DEF IsNumeric, Keeps
  <2> HIDE DEF m1, m2
  <2>4. add(m1, "has_key", "bool", bits) = m2
    BY <1>1, <2>2, <2>3, Added DEF m2
  <2> QED
    BY <1>3, <2>1, <2>2, <2>4 DEF IBLT_bucket_extended_set
<1> HIDE DEF m
<1>6. m \in IBLT_bucket_extended_Class
  <2>1. <<b>> \in Single(IBLT_bucket_Class)
    BY <1>2 DEF Single
  <2> QED
    BY <1>1, <1>5, <2>1 DEF IBLT_bucket_extended_Class
<1>7. IBLT_bucket_extended_IsInitialized(m)
  BY <1>2, <1>5 DEF IBLT_bucket_extended_IsInitialized
<1>8. IBLT_bucket_extended_get(m, n) = [bucket |-> b, has_key |-> bits]
  <2>1. \A i \in 1 .. n : get(m, "has_key", i, Garbage) = bits[i]
    BY <1>4, <1>5 DEF get
  <2>2. bits = [i \in 1 .. n |-> bits[i]]
    BY <1>1, <1>4
  <2>3. [i \in 1 .. n |-> get(m, "has_key", i, Garbage)] = bits
    BY <2>1, <2>2
  <2>4. Or(m.bucket, IBLT_bucket_New) = b
    BY <1>5 DEF Or
  <2> QED
    BY <2>3, <2>4, Zenon DEF IBLT_bucket_extended_get
<1>9. DeserializeExtended(v, m) = [bucket |-> Half(v.bucket), has_key |-> bits]
  <2>1. DeserializeExtended(v, m) = [[bucket |-> b, has_key |-> bits] EXCEPT !.bucket
            = DeserializeBucket(@)]
    BY <1>8 DEF DeserializeExtended, bits
  <2> QED
    BY <1>2, <2>1
<1>10. /\ ToMessage("IBLT_bucket_extended", v) = m
       /\ Class("IBLT_bucket_extended") = IBLT_bucket_extended_Class
       /\ Kept("IBLT_bucket_extended", v) = [v EXCEPT !.bucket = Half(@)]
       /\ IsInitialized("IBLT_bucket_extended", m) = IBLT_bucket_extended_IsInitialized(m)
       /\ FromMessage("IBLT_bucket_extended", v, m) = DeserializeExtended(v, m)
  BY DEF ToMessage, Class, IsInitialized, FromMessage, Kept, m
<1>11. [v EXCEPT !.bucket = Half(@)] = [bucket |-> Half(v.bucket), has_key |-> bits]
  BY <1>1
<1> QED
  BY <1>6, <1>7, <1>9, <1>10, <1>11 DEF Faithful

\* The chunk encoding comes back.
LEMMA Round2_Faithful ==
    ASSUME NEW r \in Round2Infos PROVE Faithful("Round2", r)
<1> DEFINE ce == r.chunk_exists
           he == r.hash_exists
           ni == r.new_chunk_info
           ee == r.existing_chunk_encoding
           sha == r.SHAHash
           m == SerializeRound2(r)
<1>1. /\ ce \in Seq(Bool) /\ he \in Seq(Bool) /\ ni \in Seq(Bytes) /\ ee \in Seq(UInt32)
           /\ sha \in Bytes
      /\ r = [chunk_exists |-> ce, hash_exists |-> he, new_chunk_info |-> ni,
              existing_chunk_encoding |-> ee, SHAHash |-> sha]
  <2> DEFINE A == Bool
             B == Bytes
             C == UInt32
  <2>1. r \in [chunk_exists : Seq(A), hash_exists : Seq(A), new_chunk_info : Seq(B),
               existing_chunk_encoding : Seq(C), SHAHash : B]
    BY DEF Round2Infos
  <2> HIDE DEF A, B, C
  <2>2. /\ ce \in Seq(A) /\ he \in Seq(A) /\ ni \in Seq(B) /\ ee \in Seq(C) /\ sha \in B
        /\ r = [chunk_exists |-> ce, hash_exists |-> he, new_chunk_info |-> ni,
                existing_chunk_encoding |-> ee, SHAHash |-> sha]
    BY <2>1
  <2> QED
    BY <2>2 DEF A, B, C
<1>2. m = Round2_set_shahash(
             Round2_add(Round2_add(Round2_add(Round2_add(Round2_New, "chunk_exists", ce),
                 "hash_exists", he), "new_chunk_info", ni), "existing_chunk_encoding",
                     ee), sha)
  BY DEF SerializeRound2
<1>3. \A f : Round2_add(f, "chunk_exists", ce) = add(f, "chunk_exists", "bool", ce)
  BY DEF Round2_add, Round2_types
<1>4. \A f : Round2_add(f, "hash_exists", he) = add(f, "hash_exists", "bool", he)
  BY DEF Round2_add, Round2_types
<1>5. \A f : Round2_add(f, "new_chunk_info", ni) = add(f, "new_chunk_info", "bytes", ni)
  BY DEF Round2_add, Round2_types
<1>6. \A f : Round2_add(f, "existing_chunk_encoding", ee)
          = add(f, "existing_chunk_encoding", "uint32", ee)
  BY DEF Round2_add, Round2_types
<1>7. \A f : Round2_set_shahash(f, sha) = [f EXCEPT !["SHAHash"] = <<sha>>]
  BY DEF Round2_set_shahash, set, Decode
<1> HIDE DEF ce, he, ni, ee, sha
<1> DEFINE m1 == [Round2_New EXCEPT !["chunk_exists"] = ce]
           m2 == [m1 EXCEPT !["hash_exists"] = he]
           m3 == [m2 EXCEPT !["new_chunk_info"] = ni]
           m4 == [m3 EXCEPT !["existing_chunk_encoding"] = ee]
           m5 == [m4 EXCEPT !["SHAHash"] = <<sha>>]
           whole == [chunk_exists |-> ce, hash_exists |-> he, new_chunk_info |-> ni,
                     existing_chunk_encoding |-> ee, SHAHash |-> <<sha>>]
<1>8. /\ Round2_New["chunk_exists"] = << >> /\ m1["hash_exists"] = << >>
      /\ m2["new_chunk_info"] = << >> /\ m3["existing_chunk_encoding"] = << >>
  BY DEF Round2_New
<1>9. m5 = whole
  <2>1. /\ m5.chunk_exists = ce /\ m5.hash_exists = he /\ m5.new_chunk_info = ni
        /\ m5.existing_chunk_encoding = ee /\ m5.SHAHash = <<sha>>
        /\ DOMAIN m5 = {"chunk_exists", "hash_exists", "new_chunk_info",
             "existing_chunk_encoding", "SHAHash"}
        /\ m5 = [f \in DOMAIN m5 |-> m5[f]]
    BY DEF Round2_New
  <2> HIDE DEF m5
  <2> QED
    BY <2>1
<1>10. Keeps("bool", Bool) /\ Keeps("uint32", UInt32) /\ Keeps("bytes", Bytes)
  <2>1. Keeps("bool", Bool) /\ Keeps("uint32", UInt32)
    BY DecodeType DEF IsNumeric, Keeps
  <2>2. Keeps("bytes", Bytes)
    BY DEF Decode, Keeps
  <2> QED
    BY <2>1, <2>2
<1> HIDE DEF m1, m2, m3, m4, m5, whole
<1>11. add(Round2_New, "chunk_exists", "bool", ce) = m1
  <2>1. ce \in Seq(Bool) /\ Round2_New["chunk_exists"] = << >> /\ Keeps("bool", Bool)
    BY <1>1, <1>8, <1>10
  <2>2. m1 = [Round2_New EXCEPT !["chunk_exists"] = ce]
    BY Zenon DEF m1
  <2>3. add(Round2_New, "chunk_exists", "bool", ce)
            = [Round2_New EXCEPT !["chunk_exists"] = ce]
    BY <2>1, Added
  <2> QED
    BY <2>2, <2>3, Zenon
<1>12. add(m1, "hash_exists", "bool", he) = m2
  <2>1. he \in Seq(Bool) /\ m1["hash_exists"] = << >> /\ Keeps("bool", Bool)
    BY <1>1, <1>8, <1>10
  <2>2. m2 = [m1 EXCEPT !["hash_exists"] = he]
    BY Zenon DEF m2
  <2>3. add(m1, "hash_exists", "bool", he) = [m1 EXCEPT !["hash_exists"] = he]
    BY <2>1, Added
  <2> QED
    BY <2>2, <2>3, Zenon
<1>13. add(m2, "new_chunk_info", "bytes", ni) = m3
  <2>1. ni \in Seq(Bytes) /\ m2["new_chunk_info"] = << >> /\ Keeps("bytes", Bytes)
    BY <1>1, <1>8, <1>10
  <2>2. m3 = [m2 EXCEPT !["new_chunk_info"] = ni]
    BY Zenon DEF m3
  <2>3. add(m2, "new_chunk_info", "bytes", ni) = [m2 EXCEPT !["new_chunk_info"] = ni]
    BY <2>1, Added
  <2> QED
    BY <2>2, <2>3, Zenon
<1>14. add(m3, "existing_chunk_encoding", "uint32", ee) = m4
  <2>1. ee \in Seq(UInt32) /\ m3["existing_chunk_encoding"] = << >>
            /\ Keeps("uint32", UInt32)
    BY <1>1, <1>8, <1>10
  <2>2. m4 = [m3 EXCEPT !["existing_chunk_encoding"] = ee]
    BY Zenon DEF m4
  <2>3. add(m3, "existing_chunk_encoding", "uint32", ee)
            = [m3 EXCEPT !["existing_chunk_encoding"] = ee]
    BY <2>1, Added
  <2> QED
    BY <2>2, <2>3, Zenon
<1>15. m = whole
  BY <1>2, <1>3, <1>4, <1>5, <1>6, <1>7, <1>9, <1>11, <1>12, <1>13, <1>14 DEF m5
<1> HIDE DEF m
<1>16. m \in Round2_Class
  <2>1. <<sha>> \in Single(Bytes)
    <3> DEFINE B == Bytes
    <3>1. sha \in B
      BY <1>1
    <3> HIDE DEF B
    <3>2. <<sha>> \in Single(B)
      BY <3>1 DEF Single
    <3> QED
      BY <3>2 DEF B
  <2> DEFINE A == Seq(Bool)
             B == Seq(Bytes)
             C == Seq(UInt32)
             D == Single(Bytes)
  <2>2. ce \in A /\ he \in A /\ ni \in B /\ ee \in C /\ <<sha>> \in D
    BY <1>1, <2>1
  <2> HIDE DEF A, B, C, D
  <2>3. whole \in [chunk_exists : A, hash_exists : A, new_chunk_info : B,
                   existing_chunk_encoding : C, SHAHash : D]
    BY <2>2 DEF whole
  <2> QED
    BY <1>15, <2>3 DEF Round2_Class, A, B, C, D
<1>17. DeserializeRound2(m) = r
  <2>1. Round2_shahash(whole) = sha
    BY DEF Round2_shahash, Or, whole
  <2>2. [whole EXCEPT !.SHAHash = sha]
          = [chunk_exists |-> ce, hash_exists |-> he, new_chunk_info |-> ni,
             existing_chunk_encoding |-> ee, SHAHash |-> sha]
    BY DEF whole
  <2> QED
    BY <1>1, <1>15, <2>1, <2>2 DEF DeserializeRound2
<1>18. /\ ToMessage("Round2", r) = m /\ Class("Round2") = Round2_Class
            /\ Kept("Round2", r) = r
       /\ IsInitialized("Round2", m) /\ FromMessage("Round2", r, m) = DeserializeRound2(m)
  BY DEF ToMessage, Class, IsInitialized, FromMessage, Kept, m
<1> QED
  BY <1>16, <1>17, <1>18 DEF Faithful

\* Every object of the program has a message and comes back from it.
LEMMA ObjectsFaithful ==
    ASSUME NEW type \in Types, NEW v \in Values(type) PROVE Faithful(type, v)
<1>1. CASE type = "IBLT"
  BY <1>1, IBLT_Faithful DEF Values
<1>2. CASE type = "IBLT2"
  BY <1>2, IBLT2_Faithful DEF Values
<1>3. CASE type = "strata_estimator"
  BY <1>3, strata_estimator_Faithful DEF Values
<1>4. CASE type = "IBLT_bucket_extended"
  BY <1>4, IBLT_bucket_extended_Faithful DEF Values
<1>5. CASE type = "Round2"
  BY <1>5, Round2_Faithful DEF Values
<1> QED
  BY <1>1, <1>2, <1>3, <1>4, <1>5 DEF Types

\* Merging keeps the required fields that a message has.
LEMMA MergeInitialized ==
    ASSUME NEW type \in Types, NEW x \in Class(type), NEW y \in Class(type),
           IsInitialized(type, x), IsInitialized(type, y)
    PROVE  IsInitialized(type, MergeFrom(type, x, y))
<1>1. CASE type = "IBLT"
  <2>1. /\ x \in IBLT_Class /\ y \in IBLT_Class /\ IBLT_IsInitialized(x)
             /\ IBLT_IsInitialized(y)
        /\ IsInitialized(type, MergeFrom(type, x, y))
             = IBLT_IsInitialized(IBLT_MergeFrom(x, y))
    BY <1>1 DEF Class, IsInitialized, MergeFrom
  <2> DEFINE C == IBLT_bucket_Class
             s == x.buckets
             t == y.buckets
  <2>2. s \in Seq(C) /\ t \in Seq(C) /\ Len(s) \in Nat /\ Len(t) \in Nat
    BY <2>1, LenProperties DEF IBLT_Class
  <2>3. /\ \A i \in 1 .. Len(s) : IBLT_bucket_IsInitialized(s[i])
        /\ \A i \in 1 .. Len(t) : IBLT_bucket_IsInitialized(t[i])
    BY <2>1, <2>2, LenProperties DEF IBLT_IsInitialized
  <2>4. IBLT_MergeFrom(x, y).buckets = s \o t
    BY <2>1 DEF IBLT_MergeFrom, IBLT_Class
  <2> HIDE DEF s, t, C
  <2>5. DOMAIN (s \o t) = 1 .. Len(s) + Len(t)
        /\ \A i \in 1 .. Len(s) + Len(t) : (s \o t)[i] = IF i <= Len(s) THEN s[i]
             ELSE t[i - Len(s)]
    BY <2>2, ConcatProperties, LenProperties
  <2>6. ASSUME NEW i \in DOMAIN (s \o t) PROVE IBLT_bucket_IsInitialized((s \o t)[i])
    <3>1. CASE i <= Len(s)
      BY <2>2, <2>3, <2>5, <3>1
    <3>2. CASE ~(i <= Len(s))
      <4>1. i - Len(s) \in 1 .. Len(t)
        BY <2>2, <2>5, <3>2
      <4> QED
        BY <2>2, <2>3, <2>5, <3>2, <4>1
    <3> QED
      BY <3>1, <3>2
  <2>7. IBLT_IsInitialized(IBLT_MergeFrom(x, y))
    BY <2>4, <2>6 DEF IBLT_IsInitialized
  <2> QED
    BY <2>1, <2>7
<1>2. CASE type = "IBLT_bucket_extended"
  <2>1. /\ x \in IBLT_bucket_extended_Class /\ y \in IBLT_bucket_extended_Class
        /\ IBLT_bucket_extended_IsInitialized(x) /\ IBLT_bucket_extended_IsInitialized(y)
        /\ IsInitialized(type, MergeFrom(type, x, y))
             = IBLT_bucket_extended_IsInitialized(IBLT_bucket_extended_MergeFrom(x, y))
    BY <1>2 DEF Class, IsInitialized, MergeFrom
  <2> DEFINE a == x.bucket[1]
             b == y.bucket[1]
  <2>2. x.bucket # << >> /\ y.bucket # << >> /\ IBLT_bucket_IsInitialized(a)
            /\ IBLT_bucket_IsInitialized(b)
    BY <2>1 DEF IBLT_bucket_extended_IsInitialized
  <2>3. a \in IBLT_bucket_Class /\ b \in IBLT_bucket_Class
    <3> DEFINE C == IBLT_bucket_Class
    <3>1. x.bucket \in Single(C) /\ y.bucket \in Single(C)
      BY <2>1 DEF IBLT_bucket_extended_Class
    <3> HIDE DEF C
    <3>2. x.bucket \in Seq(C) /\ y.bucket \in Seq(C)
      BY <3>1 DEF Single
    <3>3. a \in C /\ b \in C
      BY <2>2, <3>2
    <3> QED
      BY <3>3 DEF C
  <2>4. IBLT_bucket_extended_MergeFrom(x, y).bucket = <<IBLT_bucket_MergeFrom(a, b)>>
    BY <2>2 DEF IBLT_bucket_extended_MergeFrom, Or
  <2> HIDE DEF a, b
  <2>5. IBLT_bucket_IsInitialized(IBLT_bucket_MergeFrom(a, b))
    BY <2>2, <2>3 DEF IBLT_bucket_IsInitialized, IBLT_bucket_MergeFrom,
           IBLT_bucket_Class, Later
  <2>6. IBLT_bucket_extended_IsInitialized(IBLT_bucket_extended_MergeFrom(x, y))
    BY <2>4, <2>5 DEF IBLT_bucket_extended_IsInitialized
  <2> QED
    BY <2>1, <2>6
<1>3. CASE type # "IBLT" /\ type # "IBLT_bucket_extended"
  BY <1>3 DEF IsInitialized
<1> QED
  BY <1>1, <1>2, <1>3

-----------------------------------------------------------------------------
(* The exchange.                                                           *)

MessageOf(o) == ToMessage(o.type, o.value)
StringOf(o) == Serialize(o.type, MessageOf(o))

\* What holds of every object that may be sent.
Sendable(o) ==
    /\ o.type \in Types /\ MessageOf(o) \in Class(o.type)
    /\ IsInitialized(o.type, MessageOf(o)) /\ Codes(o.type, MessageOf(o))
    /\ StringOf(o) \in Bytes /\ Len(StringOf(o)) = ByteSize(o.type, MessageOf(o))
    /\ FromMessage(o.type, o.value, ParseFromString(o.type, StringOf(o)).m)
         = Kept(o.type, o.value)

\* The assumption on the objects is all that sending them needs.
LEMMA AllSendable == \A o \in Objects \cup Earlier : Sendable(o)
<1> SUFFICES ASSUME NEW o \in Objects \cup Earlier PROVE Sendable(o)
  OBVIOUS
<1> DEFINE type == o.type
           v == o.value
           m == ToMessage(type, v)
<1>1. type \in Types /\ v \in Values(type) /\ ByteSize(type, m) < Word32
  BY ObjectsAssumption
<1> HIDE DEF type, v
<1>2. Faithful(type, v)
  BY <1>1, ObjectsFaithful
<1>3. m \in Class(type) /\ IsInitialized(type, m)
          /\ FromMessage(type, v, m) = Kept(type, v)
  BY <1>2 DEF Faithful
<1> HIDE DEF m
<1>4. Codes(type, m)
  BY <1>1, <1>3, MessageCodes
<1>5. Serialize(type, m) \in Bytes /\ Len(Serialize(type, m)) = ByteSize(type, m)
  BY <1>4 DEF Codes
<1>6. ParseFromString(type, Serialize(type, m)).m = m
  <2>1. New(type) \in Class(type)
    BY <1>1, MessageMerge
  <2>2. MergePartial(type, New(type), Serialize(type, m)) = Merged(TRUE, m)
    BY <1>1, <1>3, <1>4, <2>1, CodesParse
  <2> DEFINE merged == MergePartial(type, New(type), Serialize(type, m))
  <2>3. merged.m = m
    BY <2>2 DEF Merged
  <2> HIDE DEF merged
  <2>4. ParseFromString(type, Serialize(type, m))
            = Merged(merged.ok /\ IsInitialized(type, merged.m), merged.m)
    BY Zenon DEF ParseFromString, merged
  <2>5. \A ok, x : Merged(ok, x).m = x
    BY DEF Merged
  <2> QED
    BY <2>3, <2>4, <2>5
<1>7. MessageOf(o) = m /\ StringOf(o) = Serialize(type, m) /\ o.type = type /\ o.value = v
  BY DEF MessageOf, StringOf, m, type, v
<1> QED
  BY <1>1, <1>3, <1>4, <1>5, <1>6, <1>7 DEF Sendable

\* What is in the channel is the compressed string of the object, or a part of it.
WireIsString ==
    LET string == StringOf(sent)
    IN  IF cut THEN \E n \in 0 .. Len(string) : wire
            = SubSeq(compress_string(string), 1, n)
        ELSE wire = compress_string(string)

\* The strengthening of TypeOK, SizesAgree and DeliveredIntact.
TransferInv ==
    /\ outcome \in {"idle", "sent", "threw", "received"} /\ cut \in BOOLEAN
    /\ outcome = "idle" => wire = << >> /\ ~cut
    /\ outcome # "idle" => sent \in Objects /\ WireIsString
    /\ outcome = "threw" => cut
    /\ outcome = "received" => ~cut
         /\ received = [sent EXCEPT !.value = Kept(sent.type, @)]

\* The inductive invariant holds at the beginning,
LEMMA TransferInvInit == TransferInit => TransferInv
BY DEF TransferInit, TransferInv

\* SerializeToString does not abort: every object's message is complete and of its size.
LEMMA SendStep == TransferInv /\ Send => TransferInv'
<1> SUFFICES ASSUME TransferInv, Send PROVE TransferInv'
  OBVIOUS
<1>1. PICK o \in Objects :
         LET m == ToMessage(o.type, o.value)
             string == Serialize(o.type, m)
         IN  /\ sent' = o
             /\ IF IsInitialized(o.type, m) /\ Len(string) = ByteSize(o.type, m)
                THEN outcome' = "sent" /\ wire' = compress_string(string)
                ELSE outcome' = "aborted" /\ wire' = << >>
  BY DEF Send
<1>2. Sendable(o)
  BY AllSendable
<1>3. sent' = o /\ outcome' = "sent" /\ wire' = compress_string(StringOf(o))
  BY <1>1, <1>2 DEF Sendable, MessageOf, StringOf
<1>4. cut' = cut /\ ~cut /\ cut \in BOOLEAN
  BY DEF Send, TransferInv
<1>5. WireIsString'
  <2>1. StringOf(sent)' = StringOf(o)
    BY <1>3 DEF StringOf, MessageOf
  <2> QED
    BY <1>3, <1>4, <2>1 DEF WireIsString
<1> QED
  BY <1>3, <1>4, <1>5 DEF TransferInv

\* A cut leaves a part of the string in the channel.
LEMMA CutStep == TransferInv /\ Cut => TransferInv'
<1> SUFFICES ASSUME TransferInv, Cut PROVE TransferInv'
  OBVIOUS
<1>1. /\ outcome = "sent" /\ ~cut /\ sent \in Objects /\ WireIsString
      /\ cut' = TRUE /\ sent' = sent /\ outcome' = outcome /\ received' = received
  BY DEF Cut, TransferInv
<1> DEFINE string == StringOf(sent)
<1>2. PICK n \in 0 .. Len(wire) - 1 : wire' = SubSeq(wire, 1, n)
  BY DEF Cut
<1>3. wire = compress_string(string)
  BY <1>1 DEF WireIsString
<1>4. n \in 0 .. Len(string)
  <2>1. string \in Bytes
    BY <1>1, AllSendable DEF Sendable
  <2> HIDE DEF string
  <2>2. Len(wire) = Len(string) + 1 /\ Len(string) \in Nat
    BY <1>3, <2>1, Compressed, LenProperties DEF Bytes
  <2> QED
    BY <1>2, <2>2
<1>5. WireIsString'
  <2>1. StringOf(sent)' = string
    BY <1>1 DEF StringOf, MessageOf
  <2> HIDE DEF string
  <2>2. \E k \in 0 .. Len(string) : wire' = SubSeq(compress_string(string), 1, k)
    BY <1>2, <1>3, <1>4
  <2> QED
    BY <1>1, <2>1, <2>2 DEF WireIsString
<1> QED
  BY <1>1, <1>5 DEF TransferInv

\* A whole string is the object again; inflate has no end to report of another one.
LEMMA ReceiveStep == TransferInv /\ Receive => TransferInv'
<1> SUFFICES ASSUME TransferInv, Receive PROVE TransferInv'
  OBVIOUS
<1> DEFINE string == decompress_string(wire)
           type == sent.type
           m == ParseFromString(type, string.block).m
           whole == StringOf(sent)
<1>1. /\ outcome = "sent" /\ sent \in Objects /\ WireIsString /\ cut \in BOOLEAN
      /\ sent' = sent /\ wire' = wire /\ cut' = cut
      /\ IF string.ret # "Z_STREAM_END"
         THEN outcome' = "threw" /\ received' = received
         ELSE /\ outcome' = "received"
              /\ received' = [sent EXCEPT !.value = FromMessage(type, @, m)]
  BY DEF Receive, TransferInv
<1>2. WireIsString'
  <2>1. StringOf(sent)' = StringOf(sent)
    BY <1>1 DEF StringOf, MessageOf
  <2> QED
    BY <1>1, <2>1 DEF WireIsString
<1>3. Sendable(sent)
  BY <1>1, AllSendable
<1>4. whole \in Bytes /\ FromMessage(type, sent.value, ParseFromString(type, whole).m)
          = Kept(type, sent.value)
  BY <1>3 DEF Sendable
<1>5. CASE cut
  <2>1. PICK n \in 0 .. Len(whole) : wire = SubSeq(compress_string(whole), 1, n)
    BY <1>1, <1>5 DEF WireIsString
  <2>2. string = Call(SubSeq(whole, 1, n), "Z_BUF_ERROR")
    <3> HIDE DEF whole
    <3> QED
      BY <1>4, <2>1, Decompressed
  <2>3. string.ret = "Z_BUF_ERROR"
    BY <2>2 DEF Call
  <2>4. outcome' = "threw"
    BY <1>1, <2>3
  <2> QED
    BY <1>1, <1>2, <1>5, <2>4 DEF TransferInv
<1>6. CASE ~cut
  <2>1. wire = compress_string(whole)
    BY <1>1, <1>6 DEF WireIsString
  <2>2. string = Call(whole, "Z_STREAM_END")
    <3> HIDE DEF whole
    <3>1. 0 \in 0 .. Len(whole)
      BY <1>4, LenProperties DEF Bytes
    <3> QED
      BY <1>4, <2>1, <3>1, Decompressed
  <2>3. string.ret = "Z_STREAM_END" /\ string.block = whole
    <3> HIDE DEF whole
    <3> QED
      BY <2>2 DEF Call
  <2>4. outcome' = "received" /\ received'
            = [sent EXCEPT !.value = FromMessage(type, @, m)]
    BY <1>1, <2>3
  <2>5. FromMessage(type, sent.value, m) = Kept(type, sent.value)
    BY <1>4, <2>3
  <2>6. received' = [sent EXCEPT !.value = Kept(type, @)]
    <3> HIDE DEF m
    <3> QED
      BY <2>4, <2>5
  <2> QED
    BY <1>1, <1>2, <1>6, <2>4, <2>6 DEF TransferInv
<1> QED
  BY <1>1, <1>5, <1>6

\* and every step preserves it.
LEMMA TransferInvNext == TransferInv /\ [TransferNext]_transfer_vars => TransferInv'
<1> SUFFICES ASSUME TransferInv, [TransferNext]_transfer_vars PROVE TransferInv'
  OBVIOUS
<1>1. CASE Send
  BY <1>1, SendStep
<1>2. CASE Cut
  BY <1>2, CutStep
<1>3. CASE Receive
  BY <1>3, ReceiveStep
<1>4. CASE UNCHANGED transfer_vars
  BY <1>4 DEF transfer_vars, TransferInv, WireIsString, StringOf, MessageOf
<1> QED
  BY <1>1, <1>2, <1>3, <1>4 DEF TransferNext

\* What holds of every exchange at every step.
THEOREM TransferInvariant == TransferSpec => []TransferInv
BY TransferInvInit, TransferInvNext, PTL DEF TransferSpec

\* An object's message has the fields and numbers its class can hold, and so has the one
\* that the other end reads.
THEOREM MessageTypes == TransferSpec => []TypeOK
<1>1. TransferInv => TypeOK
  <2> SUFFICES ASSUME TransferInv PROVE TypeOK
    OBVIOUS
  <2> DEFINE string == StringOf(sent)
             W == Seq(0 .. EndOfStream)
  <2>1. outcome \in {"idle", "sent", "threw", "received"} /\ cut \in BOOLEAN
    BY DEF TransferInv
  <2>2. CASE outcome = "idle"
    BY <2>1, <2>2 DEF TransferInv, TypeOK
  <2>3. CASE outcome # "idle"
    <3>1. sent \in Objects /\ WireIsString /\ Sendable(sent)
      BY <2>3, AllSendable DEF TransferInv
    <3>2. string \in Bytes /\ MessageOf(sent) \in Class(sent.type) /\ sent.type \in Types
      BY <3>1 DEF Sendable
    <3>3. wire \in W
      <4> DEFINE z == compress_string(string)
      <4>1. z \in W /\ Len(string) \in Nat /\ Len(z) = Len(string) + 1
        <5> HIDE DEF string
        <5> QED
          BY <3>2, Compressed, LenProperties DEF Bytes
      <4>2. ASSUME NEW n \in 0 .. Len(string) PROVE SubSeq(z, 1, n) \in W
        <5> DEFINE V == 0 .. EndOfStream
        <5> HIDE DEF V, z, string
        <5>1. CASE n = 0
          BY <5>1, SubSeqEmpty, EmptySeq
        <5>2. CASE n # 0
          <6>1. 1 \in 1 .. Len(z) /\ n \in 1 .. Len(z) /\ z \in Seq(V)
            BY <4>1, <5>2 DEF V
          <6>2. SubSeq(z, 1, n) \in Seq(V)
            BY <6>1
          <6> QED
            BY <6>2 DEF V
        <5> QED
          BY <5>1, <5>2
      <4>3. wire = z \/ \E n \in 0 .. Len(string) : wire = SubSeq(z, 1, n)
        BY <3>1 DEF WireIsString
      <4> HIDE DEF z, string, W
      <4> QED
        BY <4>1, <4>2, <4>3
    <3>4. ASSUME outcome = "received"
          PROVE  ParseFromString(sent.type, decompress_string(wire).block).m
                     \in Class(sent.type)
      <4>1. wire = compress_string(string)
        BY <3>1, <3>4 DEF TransferInv, WireIsString
      <4>2. decompress_string(wire) = Call(string, "Z_STREAM_END")
        <5> HIDE DEF string
        <5>1. 0 \in 0 .. Len(string)
          BY <3>2, LenProperties DEF Bytes
        <5> QED
          BY <3>2, <4>1, <5>1, Decompressed
      <4>3. decompress_string(wire).block = string
        <5> HIDE DEF string
        <5> QED
          BY <4>2 DEF Call
      <4> QED
        BY <3>2, <4>3, ParseType
    <3> QED
      BY <2>1, <2>3, <3>2, <3>3, <3>4 DEF TypeOK, MessageOf
  <2> QED
    BY <2>2, <2>3
<1> QED
  BY <1>1, TransferInvariant, PTL

\* ByteSize is the number of the bytes written, so that SerializeToString never aborts.
THEOREM SizesComputed == TransferSpec => []SizesAgree
<1>1. TransferInv => SizesAgree
  BY DEF TransferInv, SizesAgree
<1> QED
  BY <1>1, TransferInvariant, PTL

\* What arrives is what was sent, and only what the channel has cut does not arrive.
THEOREM DeliveredAsSent == TransferSpec => []DeliveredIntact
<1>1. TransferInv => DeliveredIntact
  BY DEF TransferInv, DeliveredIntact
<1> QED
  BY <1>1, TransferInvariant, PTL

\* Parsing into a message that holds values is the generated MergeFrom.
THEOREM MergeIsParse == TransferSpec => []MergeAgreesWithParse
<1>1. TransferInv => MergeAgreesWithParse
  <2> SUFFICES ASSUME TransferInv, outcome = "sent", ~cut,
                      NEW o \in Earlier, o.type = sent.type
               PROVE  MergesAsParsed(o.type, ToMessage(o.type, o.value),
                                     ToMessage(o.type, sent.value))
    BY Zenon DEF MergeAgreesWithParse
  <2> DEFINE type == sent.type
             x == ToMessage(type, o.value)
             y == ToMessage(type, sent.value)
             z == MergeFrom(type, x, y)
             both == Serialize(type, x) \o Serialize(type, y)
  <2>1. Sendable(o) /\ Sendable(sent)
    BY AllSendable DEF TransferInv
  <2>2. /\ type \in Types /\ x \in Class(type) /\ y \in Class(type)
        /\ IsInitialized(type, x) /\ IsInitialized(type, y)
        /\ Codes(type, x) /\ Codes(type, y)
    BY <2>1 DEF Sendable, MessageOf
  <2> HIDE DEF x, y, type
  <2>3. MergePartial(type, x, Serialize(type, y)) = Merged(TRUE, z)
    BY <2>2, CodesParse
  <2>4. IsInitialized(type, z)
    BY <2>2, MergeInitialized
  <2>5. MergePartial(type, New(type), both) = Merged(TRUE, z)
    BY <2>2, CodesParseBoth
  <2>6. ParseFromString(type, both) = Merged(TRUE, z)
    <3> DEFINE merged == MergePartial(type, New(type), both)
    <3>1. merged.ok = TRUE /\ merged.m = z
      BY <2>5 DEF Merged
    <3> HIDE DEF merged
    <3>2. ParseFromString(type, both)
              = Merged(merged.ok /\ IsInitialized(type, merged.m), merged.m)
      BY Zenon DEF ParseFromString, merged
    <3>3. (merged.ok /\ IsInitialized(type, merged.m)) = TRUE
      BY <2>4, <3>1
    <3> QED
      BY <3>1, <3>2, <3>3
  <2> QED
    BY <2>3, <2>6, Zenon DEF MergesAsParsed, x, y, type
<1> QED
  BY <1>1, TransferInvariant, PTL

=============================================================================
