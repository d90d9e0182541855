SPECIFICATION Spec
CONSTANTS
    Name <- MCName
    Hidden <- MCHidden
    Folder <- MCFolder
    Directories <- MCDirectories
    Folders <- MCFolders
    Estimates <- MCEstimates
INVARIANTS
    RenamesAgreeWithB
    AssertionHolds
PROPERTIES
    CommonContentSurvives
\* The driver ends.
CHECK_DEADLOCK FALSE
