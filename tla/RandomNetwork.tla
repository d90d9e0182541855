---------------------------- MODULE RandomNetwork ----------------------------
(***************************************************************************)
(* random_network of network.hpp: edges are drawn until is_connected, a    *)
(* breadth-first search from node 0, accepts them.  The search is one step *)
(* for each node taken from the deque.                                     *)
(***************************************************************************)
EXTENDS Integers, FiniteSets, Sequences

CONSTANT n_nodes

\* With a single node the search rejects every network: see README.md.
ASSUME NodesAssumption == n_nodes \in Nat /\ n_nodes >= 2

Node == 0 .. n_nodes - 1

VARIABLES
    list,            \* list[i]: the neighbours of node i
    dq,              \* the nodes to visit; one may be there several times
    num_traversed, have_traversed,
    pc               \* "draw", "search", "accepted", "rejected"

network_vars == <<list, dq, num_traversed, have_traversed, pc>>

NetworkInit ==
    /\ list = [i \in Node |-> {}]
    /\ dq = << >>
    /\ num_traversed = 0
    /\ have_traversed = {}
    /\ pc = "draw"

\* Every pair of nodes gets an edge or not; both lists are extended.
Edges == {e \in SUBSET Node : Cardinality(e) = 2}

\* Mutant: only the list of the greater node is extended.
NeighboursOneWay(edges) ==
    [i \in Node |-> {j \in Node : {i, j} \in edges /\ j < i}]
Neighbours(edges) == [i \in Node |-> {j \in Node : {i, j} \in edges}]

\* create_network draws and calls is_connected.
Draw ==
    /\ pc = "draw"
    /\ \E edges \in SUBSET Edges : list' = Neighbours(edges)
    /\ dq' = <<0>>
    /\ pc' = "search"
    /\ UNCHANGED <<num_traversed, have_traversed>>

\* It clears the lists and draws again.
Clear ==
    /\ pc = "rejected"
    /\ list' = [i \in Node |-> {}]
    /\ dq' = << >>
    /\ num_traversed' = 0
    /\ have_traversed' = {}
    /\ pc' = "draw"

\* A list holds its nodes in ascending order, because of the order of drawing.
Ascending(S) ==
    {q \in [1 .. Cardinality(S) -> S] :
        /\ \A x \in S : \E i \in DOMAIN q : q[i] = x
        /\ \A i, j \in DOMAIN q : i < j => q[i] < q[j]}

\* Mutant: a node that is met twice is counted twice.
CountedAlways(node) == num_traversed + 1
Counted(node) == IF node \in have_traversed THEN num_traversed ELSE num_traversed + 1

Searching == pc = "search" /\ dq # << >> /\ num_traversed < n_nodes

Visit ==
    /\ Searching
    /\ num_traversed' = Counted(Head(dq))
    /\ have_traversed' = have_traversed \cup {Head(dq)}
    /\ IF list[Head(dq)] = {}
       THEN /\ pc' = "rejected"
            /\ dq' = Tail(dq)
       ELSE /\ \E q \in Ascending(list[Head(dq)] \ have_traversed') : dq' = Tail(dq) \o q
            /\ pc' = pc
    /\ UNCHANGED list

\* Mutant: the loop goes on when the deque is empty.
FinishOnlyAll ==
    /\ pc = "search" /\ num_traversed = n_nodes
    /\ pc' = "accepted"
    /\ UNCHANGED <<list, dq, num_traversed, have_traversed>>
Finish ==
    /\ pc = "search" /\ ~Searching
    /\ pc' = IF num_traversed = n_nodes THEN "accepted" ELSE "rejected"
    /\ UNCHANGED <<list, dq, num_traversed, have_traversed>>

Search == Visit \/ Finish

NetworkNext == Draw \/ Clear \/ Search

NetworkSpec == NetworkInit /\ [][NetworkNext]_network_vars
FairNetworkSpec == NetworkSpec /\ WF_network_vars(Search)

-----------------------------------------------------------------------------
NetworkTypeOK ==
    /\ list \in [Node -> SUBSET Node]
    /\ dq \in Seq(Node)
    /\ num_traversed \in 0 .. n_nodes
    /\ have_traversed \in SUBSET Node
    /\ pc \in {"draw", "search", "accepted", "rejected"}

\* Every set that contains node 0 and all neighbours of its members is the
\* whole network.
Closed(S) == 0 \in S /\ \A i \in S : list[i] \subseteq S
IsConnected == \A S \in SUBSET Node : Closed(S) => S = Node

(***************************************************************************)
(* is_connected accepts exactly the networks in which node 0 reaches every *)
(* node, although it stops as soon as it has counted n_nodes, gives up at  *)
(* a node without neighbours, and queues nodes several times.              *)
(***************************************************************************)
AcceptsConnected ==
    /\ pc = "accepted" => IsConnected
    /\ pc = "rejected" => ~IsConnected

(***************************************************************************)
(* The search ends, although a node is queued again by each neighbour that *)
(* is visited before it.                                                   *)
(***************************************************************************)
SearchEnds == pc = "search" ~> pc \in {"accepted", "rejected"}

-----------------------------------------------------------------------------
(* The inductive invariant.                                                *)

Symmetric == \A i, j \in Node : j \in list[i] <=> i \in list[j]

Members(s) == {s[x] : x \in DOMAIN s}
InDeque == Members(dq)

\* What is visited or queued can be reached from node 0.
OnlyReachable ==
    \A S \in SUBSET Node :
        pc # "draw" /\ Closed(S) => have_traversed \cup InDeque \subseteq S

\* The neighbours of a visited node are visited or queued, and so is node 0.
Frontier ==
    pc = "search" =>
        /\ 0 \in have_traversed \cup InDeque
        /\ \A i \in have_traversed : list[i] \subseteq have_traversed \cup InDeque

\* A queued node other than 0 was queued by a neighbour.
QueuedByNeighbour == pc = "search" => \A i \in InDeque : i # 0 => list[i] # {}

Cleared == pc = "draw" => num_traversed = 0 /\ have_traversed = {}

SearchInv ==
    /\ NetworkTypeOK /\ Symmetric
    /\ num_traversed = Cardinality(have_traversed)
    /\ Cleared /\ OnlyReachable /\ Frontier /\ QueuedByNeighbour
    /\ AcceptsConnected

=============================================================================
