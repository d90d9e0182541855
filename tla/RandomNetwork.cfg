SPECIFICATION FairNetworkSpec
CONSTANT n_nodes = 5
INVARIANTS
    SearchInv
    AcceptsConnected
PROPERTIES
    SearchEnds
\* create_network returns once a network is accepted.
CHECK_DEADLOCK FALSE
