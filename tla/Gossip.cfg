SPECIFICATION FairSpec
CONSTANTS
    n_nodes = 3
    prime = 3
    Key <- MixedKeys
    Assignment <- Mixed
INVARIANTS
    LinearCombination
    RetrievesWhatDiffers
PROPERTIES
    HeardIsKept
    AllHear
\* The driver stops when every node has retrieved its messages.
CHECK_DEADLOCK FALSE
