------------------------------ MODULE MCDirSync ------------------------------
(* Three names in one folder, one in a folder that A lacks, a hidden one,    *)
(* and every two directories of them with three contents, equal ones too.    *)
EXTENDS DirSync

MCHidden == {".hidden"}
MCName == {"f", "g", "h", "sub/k"} \cup MCHidden
MCFolder == [name \in MCName |-> IF name = "sub/k" THEN "sub" ELSE "."]
MCFolders == {"."}

Content == {"x", "y", "z"}
Directory(names) == UNION {[ns -> Content] : ns \in SUBSET names}
MCDirectories == {[A |-> a, B |-> b] : a \in Directory({"f", "g", "h"} \cup MCHidden),
                                       b \in Directory(MCName \ MCHidden)}

\* Below and at the limit of three hash functions.
MCEstimates == {0, 200}

=============================================================================
