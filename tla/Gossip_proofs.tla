---------------------------- MODULE Gossip_proofs ----------------------------
(***************************************************************************)
(* For every number of nodes, prime and assignment of keys: is_connected   *)
(* accepts exactly the connected networks, a node's table is the linear    *)
(* combination that coeff_sum and received_from say, what a node has heard *)
(* is never lost, and what it retrieves is what its coefficients leave of  *)
(* the keys in which others differ from it.                                *)
(***************************************************************************)
EXTENDS Gossip, Arithmetic, SequenceTheorems

-----------------------------------------------------------------------------
(* The search of random_network.                                           *)

\* There are n_nodes nodes.
LEMMA NodesFinite ==
    /\ IsFiniteSet(Node)
    /\ Cardinality(Node) = n_nodes
    /\ 0 \in Node
<1>1. n_nodes - 1 \in Int /\ 0 \in Int
  BY NodesAssumption
<1>2. IsFiniteSet(Node) /\ Cardinality(Node) = (n_nodes - 1) - 0 + 1
  BY <1>1, FS_Interval, NodesAssumption DEF Node
<1> QED
  BY <1>2, NodesAssumption DEF Node

\* The edges drawn give lists in which each is the neighbour of the other.
LEMMA NeighboursSymmetric ==
    ASSUME NEW edges \in SUBSET Edges
    PROVE  /\ Neighbours(edges) \in [Node -> SUBSET Node]
           /\ \A i, j \in Node : j \in Neighbours(edges)[i] <=> i \in Neighbours(edges)[j]
<1>1. Neighbours(edges) \in [Node -> SUBSET Node]
  BY DEF Neighbours
<1>2. ASSUME NEW i \in Node, NEW j \in Node
      PROVE  j \in Neighbours(edges)[i] <=> i \in Neighbours(edges)[j]
  <2>1. {i, j} = {j, i}
    OBVIOUS
  <2>2. /\ j \in Neighbours(edges)[i] <=> {i, j} \in edges
        /\ i \in Neighbours(edges)[j] <=> {j, i} \in edges
    BY DEF Neighbours
  <2> QED
    BY <2>1, <2>2
<1> QED
  BY <1>1, <1>2

\* What taking the head of the deque and queueing q does to its members.
LEMMA DequeStep ==
    ASSUME NEW d \in Seq(Node), d # << >>, NEW S \in SUBSET Node,
           NEW q \in Ascending(S)
    PROVE  /\ Head(d) \in Node
           /\ Tail(d) \in Seq(Node)
           /\ Members(d) = {Head(d)} \cup Members(Tail(d))
           /\ Tail(d) \o q \in Seq(Node)
           /\ Members(Tail(d) \o q) = Members(Tail(d)) \cup S
<1>1. /\ Head(d) \in Node /\ Tail(d) \in Seq(Node) /\ Len(d) \in Nat /\ Len(d) # 0
      /\ Len(Tail(d)) = Len(d) - 1 /\ Head(d) = d[1]
      /\ \A x \in 1 .. Len(d) - 1 : Tail(d)[x] = d[x + 1]
      /\ DOMAIN d = 1 .. Len(d)
      /\ DOMAIN Tail(d) = 1 .. Len(d) - 1
  OBVIOUS
<1>2. \A x \in DOMAIN d : x # 1 => x - 1 \in DOMAIN Tail(d) /\ d[x] = Tail(d)[x - 1]
  BY <1>1
<1>3. \A x \in DOMAIN Tail(d) : x + 1 \in DOMAIN d /\ Tail(d)[x] = d[x + 1]
  BY <1>1
<1>4. 1 \in DOMAIN d
  BY <1>1
<1>5. {d[x] : x \in DOMAIN d} = {Head(d)} \cup {Tail(d)[x] : x \in DOMAIN Tail(d)}
  <2>1. ASSUME NEW v \in {d[x] : x \in DOMAIN d}
        PROVE  v = Head(d) \/ v \in {Tail(d)[x] : x \in DOMAIN Tail(d)}
    BY <1>1, <1>2
  <2>2. Head(d) \in {d[x] : x \in DOMAIN d}
    BY <1>1, <1>4
  <2>3. ASSUME NEW v \in {Tail(d)[x] : x \in DOMAIN Tail(d)}
        PROVE  v \in {d[x] : x \in DOMAIN d}
    BY <1>3
  <2> QED
    BY <2>1, <2>2, <2>3
<1>6. /\ IsFiniteSet(S) /\ Cardinality(S) \in Nat
  BY NodesFinite, FS_Subset, FS_CardinalityType
<1>7. /\ q \in [1 .. Cardinality(S) -> S]
      /\ \A x \in S : \E i \in DOMAIN q : q[i] = x
  BY DEF Ascending
<1>8. q \in Seq(Node) /\ Len(q) = Cardinality(S) /\ DOMAIN q = 1 .. Len(q)
  BY <1>6, <1>7
<1>9. {q[x] : x \in DOMAIN q} = S
  BY <1>7
<1>10. /\ Tail(d) \o q \in Seq(Node)
       /\ DOMAIN (Tail(d) \o q) = 1 .. Len(Tail(d)) + Len(q)
       /\ \A x \in 1 .. Len(Tail(d)) + Len(q) :
            (Tail(d) \o q)[x] = IF x <= Len(Tail(d)) THEN Tail(d)[x]
                                                     ELSE q[x - Len(Tail(d))]
  BY <1>1, <1>8
<1> DEFINE t == Tail(d)
           c == t \o q
<1>11. DOMAIN t = 1 .. Len(t) /\ Len(t) \in Nat /\ Len(q) \in Nat
  BY <1>1, <1>8
<1>12. \A x \in DOMAIN c : \/ x \in DOMAIN t /\ c[x] = t[x]
                           \/ x - Len(t) \in DOMAIN q /\ c[x] = q[x - Len(t)]
  BY <1>8, <1>10, <1>11
<1>13. \A x \in DOMAIN t : x \in DOMAIN c /\ c[x] = t[x]
  BY <1>10, <1>11
<1>14. \A x \in DOMAIN q : x + Len(t) \in DOMAIN c /\ c[x + Len(t)] = q[x]
  BY <1>8, <1>10, <1>11
<1>15. {c[x] : x \in DOMAIN c} = {t[x] : x \in DOMAIN t} \cup {q[x] : x \in DOMAIN q}
  <2> HIDE DEF t, c
  <2>1. ASSUME NEW v \in {c[x] : x \in DOMAIN c}
        PROVE  v \in {t[x] : x \in DOMAIN t} \cup {q[x] : x \in DOMAIN q}
    BY <1>12
  <2>2. ASSUME NEW v \in {t[x] : x \in DOMAIN t}
        PROVE  v \in {c[x] : x \in DOMAIN c}
    BY <1>13
  <2>3. ASSUME NEW v \in {q[x] : x \in DOMAIN q}
        PROVE  v \in {c[x] : x \in DOMAIN c}
    BY <1>14
  <2> QED
    BY <2>1, <2>2, <2>3
<1> QED
  BY <1>1, <1>5, <1>9, <1>10, <1>15 DEF Members

-----------------------------------------------------------------------------
LEMMA InitSearchInv == NetworkInit => SearchInv
<1> SUFFICES ASSUME NetworkInit PROVE SearchInv
  OBVIOUS
<1>1. NetworkTypeOK
  BY NodesAssumption DEF NetworkInit, NetworkTypeOK
<1>2. Symmetric
  BY DEF NetworkInit, Symmetric
<1>3. num_traversed = Cardinality(have_traversed)
  BY FS_EmptySet DEF NetworkInit
<1> QED
  BY <1>1, <1>2, <1>3 DEF NetworkInit, SearchInv, Cleared, OnlyReachable, Frontier,
     QueuedByNeighbour, AcceptsConnected

LEMMA DrawKeepsSearchInv == SearchInv /\ Draw => SearchInv'
<1> SUFFICES ASSUME SearchInv, Draw PROVE SearchInv'
  OBVIOUS
<1>1. PICK edges \in SUBSET Edges : list' = Neighbours(edges)
  BY DEF Draw
<1>2. list' \in [Node -> SUBSET Node] /\ Symmetric'
  BY <1>1, NeighboursSymmetric DEF Symmetric
<1>3. 0 \in Node
  BY NodesFinite
<1>4. dq' = <<0>> /\ dq' \in Seq(Node) /\ InDeque' = {0}
  BY <1>3 DEF Draw, InDeque, Members
<1>5. NetworkTypeOK'
  BY <1>2, <1>4 DEF Draw, NetworkTypeOK, SearchInv
<1>6. num_traversed' = 0 /\ have_traversed' = {} /\ pc' = "search"
  BY DEF Draw, SearchInv, Cleared
<1>7. (num_traversed = Cardinality(have_traversed))'
  BY <1>6, FS_EmptySet
<1>8. OnlyReachable'
  BY <1>4, <1>6 DEF OnlyReachable, Closed
<1>9. Frontier' /\ QueuedByNeighbour' /\ Cleared' /\ AcceptsConnected'
  BY <1>4, <1>6 DEF Frontier, QueuedByNeighbour, Cleared, AcceptsConnected
<1> QED
  BY <1>2, <1>5, <1>7, <1>8, <1>9 DEF SearchInv

LEMMA ClearKeepsSearchInv == SearchInv /\ Clear => SearchInv'
<1> SUFFICES ASSUME SearchInv, Clear PROVE SearchInv'
  OBVIOUS
<1>1. NetworkTypeOK'
  BY NodesAssumption DEF Clear, NetworkTypeOK
<1>2. Symmetric'
  BY DEF Clear, Symmetric
<1>3. (num_traversed = Cardinality(have_traversed))'
  BY FS_EmptySet DEF Clear
<1> QED
  BY <1>1, <1>2, <1>3 DEF Clear, SearchInv, Cleared, OnlyReachable, Frontier,
     QueuedByNeighbour, AcceptsConnected

\* A visited node without neighbours is node 0, and then it is alone.
LEMMA IsolatedIsDisconnected ==
    ASSUME SearchInv, Searching, list[Head(dq)] = {}
    PROVE  ~IsConnected
<1>1. dq \in Seq(Node) /\ dq # << >> /\ Head(dq) \in Node /\ Head(dq) = dq[1]
      /\ 1 \in DOMAIN dq
  BY DEF SearchInv, NetworkTypeOK, Searching
<1>2. Head(dq) \in InDeque
  BY <1>1 DEF InDeque, Members
<1>3. Head(dq) = 0
  BY <1>2 DEF SearchInv, QueuedByNeighbour, Searching
<1>4. Closed({0})
  BY <1>3 DEF Closed
<1>5. {0} # Node /\ {0} \in SUBSET Node
  BY NodesAssumption DEF Node
<1> QED
  BY <1>4, <1>5 DEF IsConnected

LEMMA VisitKeepsSearchInv == SearchInv /\ Visit => SearchInv'
<1> SUFFICES ASSUME SearchInv, Visit PROVE SearchInv'
  OBVIOUS
<1> DEFINE node == Head(dq)
           new == list[node] \ have_traversed'
<1>1. /\ NetworkTypeOK /\ Searching /\ pc = "search" /\ dq \in Seq(Node) /\ dq # << >>
      /\ list' = list /\ have_traversed' = have_traversed \cup {node}
  BY DEF SearchInv, NetworkTypeOK, Visit, Searching
<1> DEFINE rest == Members(Tail(dq))
<1>2. node \in Node /\ new \in SUBSET Node
  BY <1>1 DEF NetworkTypeOK
<1>3. /\ InDeque = {node} \cup rest /\ dq' \in Seq(Node)
      /\ \/ list[node] = {} /\ pc' = "rejected" /\ InDeque' = rest
         \/ list[node] # {} /\ pc' = "search" /\ InDeque' = rest \cup new
  <2>1. CASE list[node] = {}
    <3>1. dq' = Tail(dq) /\ pc' = "rejected"
      BY <2>1 DEF Visit
    <3>2. << >> \in Ascending({})
      BY FS_EmptySet DEF Ascending
    <3>3. Tail(dq) \in Seq(Node) /\ Members(dq) = {Head(dq)} \cup Members(Tail(dq))
      BY <1>1, <3>2, DequeStep
    <3> QED
      BY <2>1, <3>1, <3>3 DEF InDeque
  <2>2. CASE list[node] # {}
    <3>1. PICK q \in Ascending(new) : dq' = Tail(dq) \o q
      BY <2>2 DEF Visit
    <3>2. pc' = "search"
      BY <2>2, <1>1 DEF Visit
    <3>3. /\ Tail(dq) \o q \in Seq(Node)
          /\ Members(dq) = {Head(dq)} \cup Members(Tail(dq))
          /\ Members(Tail(dq) \o q) = Members(Tail(dq)) \cup new
      <4> HIDE DEF new
      <4> QED
        BY <1>1, <1>2, <3>1, DequeStep
    <3> QED
      BY <2>2, <3>1, <3>2, <3>3 DEF InDeque
  <2> QED
    BY <2>1, <2>2
<1>4. IsFiniteSet(have_traversed) /\ have_traversed \in SUBSET Node
  BY <1>1, NodesFinite, FS_Subset DEF NetworkTypeOK
<1>5. have_traversed' \in SUBSET Node /\ IsFiniteSet(have_traversed')
  BY <1>1, <1>2, NodesFinite, FS_Subset, <1>4
<1>6. num_traversed' = Cardinality(have_traversed')
  <2>1. num_traversed = Cardinality(have_traversed) /\ num_traversed' = Counted(node)
    BY DEF SearchInv, Visit
  <2> QED
    BY <1>1, <1>4, <2>1, FS_AddElement DEF Counted
<1>7. num_traversed' \in 0 .. n_nodes
  BY <1>5, <1>6, NodesFinite, FS_Subset, FS_CardinalityType, NodesAssumption
<1>8. NetworkTypeOK'
  BY <1>1, <1>2, <1>3, <1>5, <1>7 DEF NetworkTypeOK
<1>9. Symmetric' /\ Cleared'
  BY <1>1, <1>3 DEF SearchInv, Symmetric, Cleared
<1>10. OnlyReachable'
  <2> SUFFICES ASSUME NEW S \in SUBSET Node, Closed(S)'
               PROVE  (have_traversed \cup InDeque)' \subseteq S
    BY DEF OnlyReachable
  <2>1. Closed(S)
    BY <1>1 DEF Closed
  <2>2. have_traversed \cup InDeque \subseteq S
    BY <1>1, <2>1 DEF SearchInv, OnlyReachable
  <2>3. node \in S /\ list[node] \subseteq S
    BY <1>3, <2>1, <2>2 DEF Closed
  <2> HIDE DEF rest, node
  <2> QED
    BY <1>1, <1>3, <2>2, <2>3
<1>11. Frontier'
  <2> SUFFICES ASSUME pc' = "search"
               PROVE  /\ 0 \in (have_traversed \cup InDeque)'
                      /\ \A i \in have_traversed' :
                           list'[i] \subseteq (have_traversed \cup InDeque)'
    BY DEF Frontier
  <2>1. InDeque' = rest \cup new /\ InDeque = {node} \cup rest
    BY <1>3
  <2>2. /\ 0 \in have_traversed \cup InDeque
        /\ \A i \in have_traversed : list[i] \subseteq have_traversed \cup InDeque
    BY <1>1 DEF SearchInv, Frontier
  <2>3. have_traversed \cup InDeque \subseteq (have_traversed \cup InDeque)'
    BY <1>1, <2>1
  <2>4. list[node] \subseteq (have_traversed \cup InDeque)'
    BY <2>1
  <2> QED
    BY <1>1, <2>2, <2>3, <2>4
<1>12. QueuedByNeighbour'
  <2> SUFFICES ASSUME pc' = "search", NEW i \in InDeque', i # 0
               PROVE  list'[i] # {}
    BY DEF QueuedByNeighbour
  <2>1. CASE i \in InDeque
    BY <1>1, <2>1 DEF SearchInv, QueuedByNeighbour
  <2>2. CASE i \in new
    <3>1. i \in Node /\ i \in list[node] /\ node \in Node
      BY <1>2, <2>2
    <3>2. node \in list[i]
      BY <3>1 DEF SearchInv, Symmetric
    <3> QED
      BY <1>1, <3>2
  <2> QED
    BY <1>3, <2>1, <2>2
<1>13. AcceptsConnected'
  <2>1. pc' # "accepted"
    BY <1>3
  <2>2. ASSUME pc' = "rejected" PROVE ~IsConnected'
    <3>1. ~IsConnected
      BY <1>1, <1>3, <2>2, IsolatedIsDisconnected
    <3>2. IsConnected' <=> IsConnected
      BY <1>1 DEF IsConnected, Closed
    <3> QED
      BY <3>1, <3>2
  <2> QED
    BY <2>1, <2>2 DEF AcceptsConnected
<1> QED
  BY <1>6, <1>8, <1>9, <1>10, <1>11, <1>12, <1>13 DEF SearchInv

LEMMA FinishKeepsSearchInv == SearchInv /\ Finish => SearchInv'
<1> SUFFICES ASSUME SearchInv, Finish PROVE SearchInv'
  OBVIOUS
<1>1. /\ pc = "search" /\ pc' \in {"accepted", "rejected"}
      /\ UNCHANGED <<list, dq, num_traversed, have_traversed>>
  BY DEF Finish
<1>2. NetworkTypeOK' /\ Symmetric' /\ (num_traversed = Cardinality(have_traversed))'
  BY <1>1 DEF SearchInv, NetworkTypeOK, Symmetric
<1>3. InDeque' = InDeque
  BY <1>1 DEF InDeque
<1>4. OnlyReachable'
  BY <1>1, <1>3 DEF SearchInv, OnlyReachable, Closed
<1>5. Cleared' /\ Frontier' /\ QueuedByNeighbour'
  BY <1>1 DEF Cleared, Frontier, QueuedByNeighbour
<1>6. IsConnected' <=> IsConnected
  BY <1>1 DEF IsConnected, Closed
<1>7. have_traversed \in SUBSET Node /\ num_traversed = Cardinality(have_traversed)
  BY DEF SearchInv, NetworkTypeOK
<1>8. ASSUME pc' = "accepted" PROVE IsConnected
  <2>1. Cardinality(have_traversed) = Cardinality(Node)
    BY <1>7, <1>8, NodesFinite DEF Finish
  <2>2. have_traversed = Node
    BY <1>7, <2>1, NodesFinite, FS_Subset
  <2> QED
    BY <1>1, <2>2 DEF SearchInv, OnlyReachable, IsConnected
<1>9. ASSUME pc' = "rejected" PROVE ~IsConnected
  <2>1. num_traversed # n_nodes
    BY <1>9 DEF Finish
  <2>2. num_traversed <= n_nodes
    BY NodesAssumption DEF SearchInv, NetworkTypeOK
  <2>3. dq = << >>
    BY <1>1, <2>1, <2>2, NodesAssumption DEF Finish, Searching, SearchInv, NetworkTypeOK
  <2>4. InDeque = {}
    BY <2>3 DEF InDeque, Members
  <2>5. Closed(have_traversed)
    BY <1>1, <2>4 DEF SearchInv, Frontier, Closed
  <2>6. have_traversed # Node
    BY <1>7, <2>1, NodesFinite
  <2> QED
    BY <1>7, <2>5, <2>6 DEF IsConnected
<1>10. AcceptsConnected'
  BY <1>6, <1>8, <1>9 DEF AcceptsConnected
<1> QED
  BY <1>2, <1>4, <1>5, <1>10 DEF SearchInv

LEMMA SearchUnchanged == SearchInv /\ UNCHANGED network_vars => SearchInv'
BY DEF SearchInv, network_vars, NetworkTypeOK, Symmetric, Cleared, OnlyReachable, Closed,
       Frontier, QueuedByNeighbour, InDeque, Members, AcceptsConnected, IsConnected

LEMMA SearchStep == SearchInv /\ [NetworkNext]_network_vars => SearchInv'
BY SearchUnchanged, DrawKeepsSearchInv, ClearKeepsSearchInv, VisitKeepsSearchInv,
   FinishKeepsSearchInv DEF NetworkNext, Search

\* The complete network is connected.
LEMMA CompleteSearchInv == CompleteInit => SearchInv
<1> SUFFICES ASSUME CompleteInit PROVE SearchInv
  OBVIOUS
<1>1. NetworkTypeOK
  BY NodesAssumption DEF CompleteInit, complete_network, NetworkTypeOK
<1>2. Symmetric
  BY DEF CompleteInit, complete_network, Symmetric
<1>3. num_traversed = Cardinality(have_traversed)
  BY FS_EmptySet DEF CompleteInit
<1>4. have_traversed \cup InDeque = {}
  BY DEF CompleteInit, InDeque, Members
<1>5. IsConnected
  <2> SUFFICES ASSUME NEW S \in SUBSET Node, Closed(S) PROVE S = Node
    BY DEF IsConnected
  <2>1. 0 \in S /\ list[0] = Node \ {0} /\ list[0] \subseteq S
    BY NodesFinite DEF Closed, CompleteInit, complete_network
  <2> QED
    BY <2>1
<1> QED
  BY <1>1, <1>2, <1>3, <1>4, <1>5 DEF CompleteInit, SearchInv, Cleared, OnlyReachable,
     Frontier, QueuedByNeighbour, AcceptsConnected

(***************************************************************************)
(* The inductive invariant of the search holds for every number of nodes.  *)
(***************************************************************************)
THEOREM SearchInvariance == NetworkSpec => []SearchInv
BY InitSearchInv, SearchStep, PTL DEF NetworkSpec

(***************************************************************************)
(* is_connected accepts exactly the networks in which node 0 reaches every *)
(* node.                                                                   *)
(***************************************************************************)
THEOREM SearchIsExact == NetworkSpec => []AcceptsConnected
<1>1. SearchInv => AcceptsConnected
  BY DEF SearchInv
<1> QED
  BY <1>1, SearchInvariance, PTL

-----------------------------------------------------------------------------
(* Residues.                                                               *)

LEMMA ModIsResidue ==
    ASSUME NEW n \in Int
    PROVE  n % prime \in Residue
<1>1. prime \in Nat /\ prime > 0
  BY GossipAssumption
<1>2. n % prime \in 0 .. prime - 1
  BY <1>1
<1> QED
  BY <1>2 DEF Residue

LEMMA TablesStayTables ==
    ASSUME NEW t \in Table, NEW u \in Table, NEW c \in Nat
    PROVE  Plus(t, u) \in Table /\ Times(t, c) \in Table
<1>1. \A k \in Key : t[k] \in Int /\ u[k] \in Int
  BY GossipAssumption DEF Table, Residue
<1>2. \A k \in Key : t[k] + u[k] \in Int /\ t[k] * c \in Int
  BY <1>1
<1>3. \A k \in Key : (t[k] + u[k]) % prime \in Residue /\ (t[k] * c) % prime \in Residue
  BY <1>2, ModIsResidue
<1> QED
  BY <1>3 DEF Plus, Times, Table

\* A message received changes one table and one sum.
LEMMA ReceivedTypes ==
    ASSUME NEW tables \in [Node -> Table], NEW sums \in [Node -> Residue],
           NEW i \in Node, NEW message \in Table, NEW message_sum \in Residue
    PROVE  /\ PlusAt(tables, i, message) \in [Node -> Table]
           /\ SumAt(sums, i, message_sum) \in [Node -> Residue]
<1>1. Plus(tables[i], message) \in Table
  BY TablesStayTables, GossipAssumption
<1>2. sums[i] + message_sum \in Int
  BY GossipAssumption DEF Residue
<1> QED
  BY <1>1, <1>2, ModIsResidue DEF PlusAt, SumAt

-----------------------------------------------------------------------------
(* Linear combinations.                                                    *)

LEMMA PrimePositive == prime \in Nat /\ prime > 0
BY GossipAssumption

LEMMA CoefficientsAreFinite ==
    ASSUME NEW S \in SUBSET Node, NEW c \in [S -> Residue]
    PROVE  /\ \A U : IsFiniteSet(S \cap U)
           /\ \A p \in S : c[p] \in Int
           /\ SumFunction(c) = SumFunctionOnSet(c, S \cap Node)
<1>1. IsFiniteSet(S) /\ \A U : S \cap U \in SUBSET S
  BY NodesFinite, FS_Subset
<1>2. \A p \in S : c[p] \in Int
  BY PrimePositive DEF Residue
<1>3. DOMAIN c = S /\ S \cap Node = S
  OBVIOUS
<1>4. SumFunction(c) = SumFunctionOnSet(c, S)
  BY <1>3 DEF SumFunction, SumFunctionOnSet, FoldFunction
<1> QED
  BY <1>1, <1>2, <1>3, <1>4, FS_Subset

\* Coefficients are extended with zeros.
Extends(f, T, c, S) == \A p \in T : f[p] = IF p \in S THEN c[p] ELSE 0

LEMMA SumExtended ==
    ASSUME NEW S \in SUBSET Node, NEW T \in SUBSET Node,
           NEW c \in [S -> Residue], NEW f, Extends(f, T, c, S),
           NEW V \in SUBSET T, NEW R \in SUBSET S, R = S \cap V
    PROVE  SumFunctionOnSet(f, V) = SumFunctionOnSet(c, R)
<1>1. IsFiniteSet(R) /\ IsFiniteSet(V)
  BY NodesFinite, FS_Subset
<1>2. \A p \in T : f[p] \in Int
  <2>1. \A p \in S : c[p] \in Int
    BY CoefficientsAreFinite
  <2> QED
    BY <2>1 DEF Extends
<1>3. SumFunctionOnSet(f, R) = SumFunctionOnSet(c, R)
  <2>1. \A p \in R : f[p] = c[p]
    BY DEF Extends
  <2> QED
    BY <1>1, <2>1, SumSame
<1>4. /\ \A p \in V : f[p] \in Int
      /\ \A p \in V \ R : f[p] = 0
      /\ R \in SUBSET V
  BY <1>2 DEF Extends
<1>5. SumFunctionOnSet(f, V) = SumFunctionOnSet(f, R)
  BY <1>1, <1>4, SumNonzero
<1> QED
  BY <1>3, <1>5

\* The coefficients of a sum of two combinations are the sums of the coefficients.
Adds(e, W, c, S, d, T) ==
    \A U : SumFunctionOnSet(e, W \cap U) % prime
             = ((SumFunctionOnSet(c, S \cap U) % prime)
                 + (SumFunctionOnSet(d, T \cap U) % prime)) % prime

LEMMA CoefficientsPlus ==
    ASSUME NEW S \in SUBSET Node, NEW T \in SUBSET Node,
           NEW W \in SUBSET Node, S \subseteq W, T \subseteq W,
           NEW c \in [S -> Residue], NEW d \in [T -> Residue]
    PROVE  \E e \in [W -> Residue] : Adds(e, W, c, S, d, T)
<1> DEFINE f == [p \in W |-> IF p \in S THEN c[p] ELSE 0]
           g == [p \in W |-> IF p \in T THEN d[p] ELSE 0]
           h == [p \in W |-> f[p] + g[p]]
           e == [p \in W |-> h[p] % prime]
<1>1. \A p \in W : f[p] \in Int /\ g[p] \in Int
  <2>1. (\A p \in S : c[p] \in Int) /\ (\A p \in T : d[p] \in Int)
    BY CoefficientsAreFinite
  <2> QED
    BY <2>1
<1>2. \A p \in W : h[p] = f[p] + g[p] /\ h[p] \in Int /\ e[p] = h[p] % prime
  <2> HIDE DEF f, g
  <2> QED
    BY <1>1
<1>3. e \in [W -> Residue]
  <2> HIDE DEF h
  <2> QED
    BY <1>2, ModIsResidue
<1>4. ASSUME NEW U
      PROVE  SumFunctionOnSet(e, W \cap U) % prime
                 = ((SumFunctionOnSet(c, S \cap U) % prime)
                     + (SumFunctionOnSet(d, T \cap U) % prime)) % prime
  <2> DEFINE V == W \cap U
             a == SumFunctionOnSet(c, S \cap U)
             b == SumFunctionOnSet(d, T \cap U)
  <2>1. IsFiniteSet(V)
    BY NodesFinite, FS_Subset
  <2>2. \A p \in W : /\ f[p] = IF p \in S THEN c[p] ELSE 0
                     /\ g[p] = IF p \in T THEN d[p] ELSE 0
    OBVIOUS
  <2> HIDE DEF f, g, h, e
  <2>3. S \subseteq W /\ T \subseteq W
    OBVIOUS
  <2>4. SumFunctionOnSet(f, V) = a
    <3>1. Extends(f, W, c, S)
      BY <2>2 DEF Extends
    <3> DEFINE R == S \cap U
    <3>2. V \in SUBSET W /\ R \in SUBSET S /\ R = S \cap V
      BY <2>3
    <3> HIDE DEF V, R
    <3>3. SumFunctionOnSet(f, V) = SumFunctionOnSet(c, R)
      BY <3>1, <3>2, SumExtended
    <3> QED
      BY <3>3 DEF R
  <2>5. SumFunctionOnSet(g, V) = b
    <3>1. Extends(g, W, d, T)
      BY <2>2 DEF Extends
    <3> DEFINE R == T \cap U
    <3>2. V \in SUBSET W /\ R \in SUBSET T /\ R = T \cap V
      BY <2>3
    <3> HIDE DEF V, R
    <3>3. SumFunctionOnSet(g, V) = SumFunctionOnSet(d, R)
      BY <3>1, <3>2, SumExtended
    <3> QED
      BY <3>3 DEF R
  <2>6. \A p \in V : /\ f[p] \in Int /\ g[p] \in Int /\ h[p] = f[p] + g[p]
                     /\ h[p] \in Int /\ e[p] \in Int /\ e[p] % prime = h[p] % prime
    <3>1. \A p \in V : e[p] \in 0 .. prime - 1 /\ e[p] = h[p] % prime
      BY <1>2, <1>3 DEF Residue
    <3>2. \A x \in 0 .. prime - 1 : x % prime = x
      BY PrimePositive
    <3> QED
      BY <1>1, <1>2, <3>1, <3>2
  <2> HIDE DEF V, a, b
  <2>7. SumFunctionOnSet(h, V) = SumFunctionOnSet(f, V) + SumFunctionOnSet(g, V)
    BY <2>1, <2>6, SumPlus
  <2>8. SumFunctionOnSet(e, V) % prime = SumFunctionOnSet(h, V) % prime
    BY <2>1, <2>6, SumMod, PrimePositive
  <2>9. a \in Int /\ b \in Int
    BY <2>1, <2>4, <2>5, <2>6, SumType
  <2>10. ((a % prime) + (b % prime)) % prime = (a + b) % prime
    BY <2>9, ModBoth, PrimePositive
  <2> QED
    BY <2>4, <2>5, <2>7, <2>8, <2>10 DEF V, a, b
<1> HIDE DEF e
<1> QED
  BY <1>3, <1>4 DEF Adds

LEMMA CoefficientsTimes ==
    ASSUME NEW S \in SUBSET Node, NEW c \in [S -> Residue], NEW m \in Int
    PROVE  \E e \in [S -> Residue] : \A U :
               SumFunctionOnSet(e, S \cap U) % prime
                 = ((SumFunctionOnSet(c, S \cap U) % prime) * m) % prime
<1> DEFINE h == [p \in S |-> c[p] * m]
           e == [p \in S |-> h[p] % prime]
<1>1. \A p \in S : c[p] \in Int
  BY CoefficientsAreFinite
<1>2. \A p \in S : h[p] = c[p] * m /\ h[p] \in Int /\ e[p] = h[p] % prime
  BY <1>1
<1>3. e \in [S -> Residue]
  <2> HIDE DEF h
  <2> QED
    BY <1>2, ModIsResidue
<1>4. ASSUME NEW U
      PROVE  SumFunctionOnSet(e, S \cap U) % prime
                 = ((SumFunctionOnSet(c, S \cap U) % prime) * m) % prime
  <2> DEFINE V == S \cap U
             a == SumFunctionOnSet(c, V)
  <2>1. IsFiniteSet(V)
    BY NodesFinite, FS_Subset
  <2> HIDE DEF h, e
  <2>2. \A p \in V : /\ c[p] \in Int /\ h[p] = c[p] * m
                     /\ h[p] \in Int /\ e[p] \in Int /\ e[p] % prime = h[p] % prime
    <3>1. \A p \in V : e[p] \in 0 .. prime - 1 /\ e[p] = h[p] % prime
      BY <1>2, <1>3 DEF Residue
    <3>2. \A x \in 0 .. prime - 1 : x % prime = x
      BY PrimePositive
    <3> QED
      BY <1>1, <1>2, <3>1, <3>2
  <2> HIDE DEF V
  <2>3. SumFunctionOnSet(h, V) = SumFunctionOnSet(c, V) * m
    BY <2>1, <2>2, SumTimes
  <2>4. SumFunctionOnSet(e, V) % prime = SumFunctionOnSet(h, V) % prime
    BY <2>1, <2>2, SumMod, PrimePositive
  <2>5. a \in Int
    BY <2>1, <2>2, SumType
  <2> HIDE DEF a
  <2>6. ((a % prime) * m) % prime = (a * m) % prime
    BY <2>5, ModTimes, PrimePositive
  <2> QED
    BY <2>3, <2>4, <2>6 DEF V, a
<1> HIDE DEF e
<1> QED
  BY <1>3, <1>4

\* Hence sums and multiples of combinations are combinations.
LEMMA CombinationPlus ==
    ASSUME NEW S \in SUBSET Node, NEW T \in SUBSET Node, NEW t, NEW u, NEW s, NEW r,
           IsCombination(t, s, S), IsCombination(u, r, T)
    PROVE  IsCombination(Plus(t, u), (s + r) % prime, S \cup T)
<1> DEFINE W == S \cup T
<1>0. W \in SUBSET Node /\ S \subseteq W /\ T \subseteq W
  OBVIOUS
<1> HIDE DEF W
<1>1. PICK c \in [S -> Residue] :
          /\ \A k \in Key : t[k] = SumFunctionOnSet(c, S \cap Holders(k)) % prime
          /\ s = SumFunction(c) % prime
  BY DEF IsCombination, Combines
<1>2. PICK d \in [T -> Residue] :
          /\ \A k \in Key : u[k] = SumFunctionOnSet(d, T \cap Holders(k)) % prime
          /\ r = SumFunction(d) % prime
  BY DEF IsCombination, Combines
<1>3. PICK e \in [W -> Residue] : Adds(e, W, c, S, d, T)
  BY <1>0, CoefficientsPlus
<1>4. \A k \in Key :
          Plus(t, u)[k] = SumFunctionOnSet(e, W \cap Holders(k)) % prime
  BY <1>1, <1>2, <1>3 DEF Plus, Adds
<1>5. (s + r) % prime = SumFunction(e) % prime
  <2>1. /\ SumFunction(c) = SumFunctionOnSet(c, S \cap Node)
        /\ SumFunction(d) = SumFunctionOnSet(d, T \cap Node)
        /\ SumFunction(e) = SumFunctionOnSet(e, W \cap Node)
    BY <1>0, CoefficientsAreFinite
  <2> QED
    BY <1>1, <1>2, <1>3, <2>1 DEF Adds
<1> QED
  BY <1>4, <1>5 DEF IsCombination, Combines, W


LEMMA CombinationTimes ==
    ASSUME NEW S \in SUBSET Node, NEW t, NEW s, NEW m \in Int, IsCombination(t, s, S)
    PROVE  IsCombination(Times(t, m), (s * m) % prime, S)
<1>1. PICK c \in [S -> Residue] :
          /\ \A k \in Key : t[k] = SumFunctionOnSet(c, S \cap Holders(k)) % prime
          /\ s = SumFunction(c) % prime
  BY DEF IsCombination, Combines
<1>2. PICK e \in [S -> Residue] : \A U :
          SumFunctionOnSet(e, S \cap U) % prime
            = ((SumFunctionOnSet(c, S \cap U) % prime) * m) % prime
  BY CoefficientsTimes
<1>3. \A k \in Key : Times(t, m)[k] = SumFunctionOnSet(e, S \cap Holders(k)) % prime
  BY <1>1, <1>2 DEF Times
<1>4. (s * m) % prime = SumFunction(e) % prime
  <2>1. /\ SumFunction(c) = SumFunctionOnSet(c, S \cap Node)
        /\ SumFunction(e) = SumFunctionOnSet(e, S \cap Node)
    BY CoefficientsAreFinite
  <2> QED
    BY <1>1, <1>2, <2>1
<1> QED
  BY <1>3, <1>4 DEF IsCombination, Combines

\* The table of node i is once its own, and the empty table combines nothing.
LEMMA CombinationStart ==
    ASSUME NEW i \in Node
    PROVE  IsCombination(Start(i), 1 % prime, {i})
<1> DEFINE c == [p \in {i} |-> 1]
<1>1. c \in [{i} -> Residue] /\ \A p \in {i} : c[p] = 1
  BY GossipAssumption DEF Residue
<1> HIDE DEF c
<1>2. ASSUME NEW U
      PROVE  SumFunctionOnSet(c, {i} \cap U) = IF i \in U THEN 1 ELSE 0
  <2>1. CASE i \in U
    <3>1. {i} \cap U = {i} /\ IsFiniteSet({i}) /\ Cardinality({i}) = 1
      BY <2>1, FS_Singleton
    <3> QED
      BY <1>1, <2>1, <3>1, SumOnes
  <2>2. CASE i \notin U
    <3>1. {i} \cap U = {}
      BY <2>2
    <3> QED
      BY <2>2, <3>1, SumEmpty
  <2> QED
    BY <2>1, <2>2
<1>3. 1 % prime = 1 /\ 0 % prime = 0
  BY GossipAssumption
<1>4. \A k \in Key : Start(i)[k] = SumFunctionOnSet(c, {i} \cap Holders(k)) % prime
  BY <1>2, <1>3 DEF Start, Holders
<1>5. SumFunction(c) = SumFunctionOnSet(c, {i} \cap Node)
  BY <1>1, CoefficientsAreFinite
<1>6. 1 % prime = SumFunction(c) % prime
  BY <1>2, <1>5
<1> QED
  BY <1>1, <1>4, <1>6 DEF IsCombination, Combines

LEMMA CombinationEmpty == IsCombination(EmptyTable, 0, {})
<1> DEFINE c == [p \in {} |-> 0]
<1>1. c \in [{} -> Residue]
  OBVIOUS
<1> HIDE DEF c
<1>2. \A U : SumFunctionOnSet(c, {} \cap U) = 0
  <2>1. \A U : {} \cap U = {}
    OBVIOUS
  <2> QED
    BY <2>1, SumEmpty
<1>3. 0 % prime = 0
  BY PrimePositive
<1>4. SumFunction(c) = SumFunctionOnSet(c, {} \cap Node)
  BY <1>1, CoefficientsAreFinite
<1> QED
  BY <1>1, <1>2, <1>3, <1>4 DEF IsCombination, Combines, EmptyTable

Combine(tables, sums, bits) ==
    \A p \in Node : IsCombination(tables[p], sums[p], bits[p])

\* The same with the assignment as a parameter, for use in two states.
CombineFor(assignment, tables, sums, bits) ==
    \A p \in Node : \E c \in [bits[p] -> Residue] :
        /\ \A k \in Key :
              tables[p][k]
                = SumFunctionOnSet(c, bits[p] \cap {q \in Node : k \in assignment[q]}) % prime
        /\ sums[p] = SumFunction(c) % prime

LEMMA CombineIsFor ==
    ASSUME NEW tables, NEW sums, NEW bits
    PROVE  Combine(tables, sums, bits) <=> CombineFor(key_assignments, tables, sums, bits)
BY DEF Combine, CombineFor, IsCombination, Combines, Holders

LEMMA LinearIsCombine ==
    LinearCombination <=> /\ CombineFor(key_assignments, inter_iblt, coeff_sum, received_from)
                          /\ CombineFor(key_assignments, temp_iblt, temp_coeff_sum,
                                        temp_received_from)
<1>1. LinearCombination <=> /\ Combine(inter_iblt, coeff_sum, received_from)
                            /\ Combine(temp_iblt, temp_coeff_sum, temp_received_from)
  BY DEF LinearCombination, Combine
<1> QED
  BY <1>1, CombineIsFor

LEMMA LinearPrimed ==
    LinearCombination' <=> /\ CombineFor(key_assignments', inter_iblt', coeff_sum', received_from')
                           /\ CombineFor(key_assignments', temp_iblt', temp_coeff_sum',
                                         temp_received_from')
<1>1. (LinearCombination <=>
         /\ CombineFor(key_assignments, inter_iblt, coeff_sum, received_from)
         /\ CombineFor(key_assignments, temp_iblt, temp_coeff_sum, temp_received_from))'
  BY LinearIsCombine, PTL
<1> QED
  BY <1>1

\* What a node receives goes into its table, its sum and its bits.
LEMMA ReceivedCombines ==
    ASSUME NEW tables \in [Node -> Table], NEW sums \in [Node -> Residue],
           NEW bits \in [Node -> SUBSET Node], Combine(tables, sums, bits),
           NEW i \in Node, NEW message, NEW message_sum, NEW from \in SUBSET Node,
           IsCombination(message, message_sum, from)
    PROVE  Combine(PlusAt(tables, i, message), SumAt(sums, i, message_sum),
                   HeardAt(bits, i, from))
<1>1. IsCombination(Plus(tables[i], message), (sums[i] + message_sum) % prime,
                    bits[i] \cup from)
  BY CombinationPlus DEF Combine
<1>2. ASSUME NEW p \in Node
      PROVE  IsCombination(PlusAt(tables, i, message)[p], SumAt(sums, i, message_sum)[p],
                           HeardAt(bits, i, from)[p])
  <2>1. CASE p = i
    BY <1>1, <2>1 DEF PlusAt, SumAt, HeardAt
  <2>2. CASE p # i
    <3>1. /\ PlusAt(tables, i, message)[p] = tables[p]
          /\ SumAt(sums, i, message_sum)[p] = sums[p]
          /\ HeardAt(bits, i, from)[p] = bits[p]
      BY <2>2 DEF PlusAt, SumAt, HeardAt
    <3> QED
      BY <3>1 DEF Combine
  <2> QED
    BY <2>1, <2>2
<1> QED
  BY <1>2 DEF Combine

-----------------------------------------------------------------------------
(* The inductive invariant.                                                *)

\* Messages are retrieved when everything has been received, and no table changes then.
RetrievedAtTheEnd ==
    \A i \in Node : result[i] # "none" => turn = n_nodes /\ all_messages_received

IInv ==
    /\ SearchInv /\ TypeOK
    /\ LinearCombination
    /\ RetrievedAtTheEnd /\ RetrievesWhatDiffers

LEMMA InitHolds == Init => IInv
<1> SUFFICES ASSUME Init PROVE IInv
  OBVIOUS
<1>1. /\ 1 % prime = 1 /\ 0 \in Residue /\ 1 \in Residue
      /\ n_nodes \in 0 .. n_nodes
  BY GossipAssumption, NodesAssumption DEF Residue
<1>2. EmptyTable \in Table /\ \A i \in Node : Start(i) \in Table
  BY <1>1 DEF EmptyTable, Start, Table
<1>6. SearchInv
  BY InitSearchInv, CompleteSearchInv DEF Init
<1>3. TypeOK
  BY <1>1, <1>2, <1>6 DEF Init, TypeOK, SearchInv
<1>4. \A i \in Node : result[i] = "none"
  BY DEF Init
<1>5. RetrievedAtTheEnd /\ RetrievesWhatDiffers
  BY <1>4 DEF RetrievedAtTheEnd, RetrievesWhatDiffers
<1>7. LinearCombination
  BY CombinationStart, CombinationEmpty DEF Init, LinearCombination
<1> QED
  BY <1>3, <1>5, <1>6, <1>7 DEF IInv

\* The gossip does not touch what the search left.
LEMMA NetworkStays == SearchInv /\ NetworkTypeOK /\ UNCHANGED setting
                        => SearchInv' /\ NetworkTypeOK'
BY SearchUnchanged DEF setting, SearchInv

\* While the nodes still gossip nothing has been retrieved.
LEMMA NothingRetrieved ==
    ASSUME IInv, turn \in Node \/ ~all_messages_received, UNCHANGED result
    PROVE  RetrievedAtTheEnd' /\ RetrievesWhatDiffers'
<1>1. n_nodes \notin Node
  BY NodesAssumption DEF Node
<1>2. \A i \in Node : result'[i] = "none"
  BY <1>1 DEF IInv, RetrievedAtTheEnd, TypeOK
<1> QED
  BY <1>2 DEF RetrievedAtTheEnd, RetrievesWhatDiffers

LEMMA StartKeeps == IInv /\ StartIteration => IInv'
<1> SUFFICES ASSUME IInv, StartIteration PROVE IInv'
  OBVIOUS
<1>1. 0 \in 0 .. n_nodes
  BY NodesAssumption
<1>4. SearchInv' /\ NetworkTypeOK'
  BY NetworkStays DEF IInv, TypeOK, StartIteration
<1>2. TypeOK'
  BY <1>1, <1>4 DEF IInv, TypeOK, StartIteration, setting, epoch, temp, retrieved
<1>3. RetrievedAtTheEnd' /\ RetrievesWhatDiffers'
  BY NothingRetrieved DEF StartIteration, retrieved
<1>5. LinearCombination'
  BY LinearIsCombine, LinearPrimed DEF IInv, StartIteration, setting, epoch, temp
<1> QED
  BY <1>2, <1>3, <1>4, <1>5 DEF IInv

\* Message and reply: both tables and both sums change alike.
LEMMA PushPullKeeps ==
    ASSUME IInv, NEW i \in Node, NEW j \in Node, NEW rand_mult \in 1 .. prime - 1,
           PushPull(i, j, rand_mult)
    PROVE  IInv'
<1>1. UNCHANGED <<setting, epoch, turn, retrieved>>
  BY DEF PushPull
<1>2. /\ rand_mult \in Nat
      /\ \A p \in Node : /\ inter_iblt[p] \in Table /\ temp_iblt[p] \in Table
                          /\ coeff_sum[p] \in Int /\ temp_coeff_sum[p] \in Int
  BY GossipAssumption DEF IInv, TypeOK, Residue
<1> DEFINE sent == Times(inter_iblt[i], rand_mult)
           sum == MessageSum(coeff_sum[i], rand_mult)
           tables == PlusAt(PlusAt(temp_iblt, j, sent), i, inter_iblt[j])
           sums == SumAt(SumAt(temp_coeff_sum, j, sum), i, coeff_sum[j])
<1>3. temp_iblt' = tables /\ temp_coeff_sum' = sums /\ pushed' = TRUE
  BY DEF PushPull
<1>4. sent \in Table /\ sum \in Residue
  <2>1. coeff_sum[i] * rand_mult \in Int
    BY <1>2
  <2> QED
    BY <1>2, <2>1, TablesStayTables, ModIsResidue DEF MessageSum
<1>8. SearchInv' /\ NetworkTypeOK'
  BY <1>1, NetworkStays DEF IInv, TypeOK
<1> DEFINE bits == HeardAt(HeardAt(temp_received_from, j, received_from[i]),
                           i, received_from[j])
<1>5. TypeOK'
  <2>1. tables \in [Node -> Table] /\ sums \in [Node -> Residue]
    <3> HIDE DEF sent, sum
    <3> QED
      BY <1>2, <1>4, ReceivedTypes DEF IInv, TypeOK
  <2>2. temp_received_from' \in [Node -> SUBSET Node]
    BY DEF PushPull, HeardFrom, HeardAt, IInv, TypeOK
  <2> HIDE DEF tables, sums
  <2> QED
    BY <1>1, <1>3, <1>8, <2>1, <2>2 DEF IInv, TypeOK, setting, epoch, retrieved
<1>6. RetrievedAtTheEnd' /\ RetrievesWhatDiffers'
  BY NothingRetrieved DEF PushPull, retrieved
<1>9. LinearCombination'
  <2>1. Combine(tables, sums, bits)
    <3>1. /\ Combine(temp_iblt, temp_coeff_sum, temp_received_from)
          /\ \A p \in Node : IsCombination(inter_iblt[p], coeff_sum[p], received_from[p])
      BY DEF IInv, LinearCombination, Combine
    <3>2. /\ temp_iblt \in [Node -> Table] /\ temp_coeff_sum \in [Node -> Residue]
          /\ temp_received_from \in [Node -> SUBSET Node]
          /\ \A p \in Node : received_from[p] \in SUBSET Node
      BY DEF IInv, TypeOK
    <3>3. IsCombination(sent, sum, received_from[i])
      BY <1>2, <3>1, <3>2, CombinationTimes DEF MessageSum
    <3> DEFINE half == PlusAt(temp_iblt, j, sent)
               halfsums == SumAt(temp_coeff_sum, j, sum)
               halfbits == HeardAt(temp_received_from, j, received_from[i])
    <3> HIDE DEF sent, sum
    <3>4. half \in [Node -> Table] /\ halfsums \in [Node -> Residue]
      BY <1>4, <3>2, ReceivedTypes
    <3>5. halfbits \in [Node -> SUBSET Node]
      BY <3>2 DEF HeardAt
    <3>6. Combine(half, halfsums, halfbits)
      BY <3>1, <3>2, <3>3, ReceivedCombines
    <3> HIDE DEF half, halfsums, halfbits
    <3>7. Combine(PlusAt(half, i, inter_iblt[j]), SumAt(halfsums, i, coeff_sum[j]),
                  HeardAt(halfbits, i, received_from[j]))
      BY <3>1, <3>2, <3>4, <3>5, <3>6, ReceivedCombines
    <3> QED
      BY <3>7 DEF half, halfsums, halfbits
  <2>2. temp_received_from' = bits
    BY DEF PushPull, HeardFrom
  <2> HIDE DEF tables, sums, bits
  <2> QED
    BY <1>1, <1>3, <2>1, <2>2, CombineIsFor, LinearIsCombine, LinearPrimed
       DEF IInv, setting, epoch
<1> QED
  BY <1>5, <1>6, <1>8, <1>9 DEF IInv

LEMMA EndEpochKeeps ==
    ASSUME IInv, NEW i \in Node, EndEpoch(i)
    PROVE  IInv'
<1>1. /\ inter_iblt' = PlusAt(inter_iblt, i, temp_iblt[i])
      /\ coeff_sum' = SumAt(coeff_sum, i, temp_coeff_sum[i])
      /\ received_from' = [received_from EXCEPT ![i] = HeardAfter(i)]
      /\ temp_iblt' = [temp_iblt EXCEPT ![i] = EmptyTable]
      /\ temp_coeff_sum' = [temp_coeff_sum EXCEPT ![i] = 0]
      /\ temp_received_from' = [temp_received_from EXCEPT ![i] = {}]
      /\ turn' = i + 1 /\ pushed' = FALSE
      /\ UNCHANGED <<setting, retrieved>>
  BY DEF EndEpoch, PlusAt, SumAt
<1>2. /\ inter_iblt \in [Node -> Table] /\ coeff_sum \in [Node -> Residue]
      /\ temp_iblt[i] \in Table /\ temp_coeff_sum[i] \in Residue
  BY DEF IInv, TypeOK
<1>3. 0 \in Residue /\ EmptyTable \in Table /\ i + 1 \in 0 .. n_nodes
  BY GossipAssumption, NodesAssumption DEF Residue, EmptyTable, Table, Node
<1>4. inter_iblt' \in [Node -> Table] /\ coeff_sum' \in [Node -> Residue]
  BY <1>1, <1>2, ReceivedTypes
<1>5. HeardAfter(i) \in SUBSET Node
  BY DEF HeardAfter, IInv, TypeOK
<1>9. SearchInv' /\ NetworkTypeOK'
  BY <1>1, NetworkStays DEF IInv, TypeOK
<1>6. TypeOK'
  BY <1>1, <1>3, <1>4, <1>5, <1>9 DEF IInv, TypeOK, setting, retrieved
<1>7. RetrievedAtTheEnd' /\ RetrievesWhatDiffers'
  BY NothingRetrieved DEF EndEpoch, retrieved
<1>10. LinearCombination'
  <2> DEFINE tables == PlusAt(inter_iblt, i, temp_iblt[i])
             sums == SumAt(coeff_sum, i, temp_coeff_sum[i])
             bits == HeardAt(received_from, i, temp_received_from[i])
  <2>1. Combine(tables, sums, bits)
    <3>1. /\ Combine(inter_iblt, coeff_sum, received_from)
          /\ IsCombination(temp_iblt[i], temp_coeff_sum[i], temp_received_from[i])
      BY DEF IInv, LinearCombination, Combine
    <3>2. received_from \in [Node -> SUBSET Node] /\ temp_received_from[i] \in SUBSET Node
      BY DEF IInv, TypeOK
    <3> QED
      BY <1>2, <3>1, <3>2, ReceivedCombines
  <2>2. inter_iblt' = tables /\ coeff_sum' = sums /\ received_from' = bits
    BY <1>1 DEF HeardAfter, HeardAt
  <2>3. Combine(temp_iblt', temp_coeff_sum', temp_received_from')
    <3>1. /\ temp_iblt \in [Node -> Table] /\ temp_coeff_sum \in [Node -> Residue]
          /\ temp_received_from \in [Node -> SUBSET Node]
      BY DEF IInv, TypeOK
    <3>2. \A p \in Node : IF p = i
                          THEN /\ temp_iblt'[p] = EmptyTable /\ temp_coeff_sum'[p] = 0
                               /\ temp_received_from'[p] = {}
                          ELSE /\ temp_iblt'[p] = temp_iblt[p]
                               /\ temp_coeff_sum'[p] = temp_coeff_sum[p]
                               /\ temp_received_from'[p] = temp_received_from[p]
      BY <1>1, <3>1
    <3> QED
      BY <3>2, CombinationEmpty DEF IInv, LinearCombination, Combine
  <2> HIDE DEF tables, sums, bits
  <2> QED
    BY <1>1, <2>1, <2>2, <2>3, CombineIsFor, LinearPrimed DEF setting
<1> QED
  BY <1>6, <1>7, <1>9, <1>10 DEF IInv

-----------------------------------------------------------------------------
(* What is left when a node takes its own keys out.                        *)

\* The sum over the nodes is that over some and that over the others.
LEMMA SumSplit ==
    ASSUME NEW c \in [Node -> Residue], NEW H \in SUBSET Node
    PROVE  /\ SumFunctionOnSet(c, H) \in Int /\ SumFunctionOnSet(c, Node \ H) \in Int
           /\ SumFunction(c) = SumFunctionOnSet(c, H) + SumFunctionOnSet(c, Node \ H)
<1>1. PICK R : R = Node \ H
  OBVIOUS
<1>2. IsFiniteSet(Node) /\ IsFiniteSet(H) /\ IsFiniteSet(R) /\ R \in SUBSET Node
  BY <1>1, NodesFinite, FS_Subset
<1>3. \A p \in Node : c[p] \in Int
  BY PrimePositive DEF Residue
<1>4. PICK f : f = [p \in Node |-> IF p \in H THEN c[p] ELSE 0]
  OBVIOUS
<1>5. PICK g : g = [p \in Node |-> IF p \in R THEN c[p] ELSE 0]
  OBVIOUS
<1>6. /\ \A p \in Node : f[p] \in Int /\ g[p] \in Int /\ c[p] = f[p] + g[p]
      /\ \A p \in Node \ H : f[p] = 0
      /\ \A p \in Node \ R : g[p] = 0
      /\ \A p \in H : f[p] = c[p]
      /\ \A p \in R : g[p] = c[p]
  BY <1>1, <1>3, <1>4, <1>5
<1>7. SumFunctionOnSet(c, Node) = SumFunctionOnSet(f, Node) + SumFunctionOnSet(g, Node)
  BY <1>2, <1>6, SumPlus
<1>8. SumFunctionOnSet(f, Node) = SumFunctionOnSet(f, H)
  BY <1>2, <1>6, SumNonzero
<1>9. SumFunctionOnSet(g, Node) = SumFunctionOnSet(g, R)
  BY <1>2, <1>6, SumNonzero
<1>10. /\ SumFunctionOnSet(f, H) = SumFunctionOnSet(c, H)
       /\ SumFunctionOnSet(g, R) = SumFunctionOnSet(c, R)
  BY <1>2, <1>6, SumSame
<1>11. SumFunction(c) = SumFunctionOnSet(c, Node)
  <2>1. Node \in SUBSET Node /\ Node \cap Node = Node
    OBVIOUS
  <2> QED
    BY <2>1, CoefficientsAreFinite
<1>12. SumFunctionOnSet(c, H) \in Int /\ SumFunctionOnSet(c, R) \in Int
  BY <1>1, <1>2, <1>3, SumType
<1> QED
  BY <1>1, <1>7, <1>8, <1>9, <1>10, <1>11, <1>12

\* What is left of a when a + b is taken out is zero exactly when b is.
LEMMA RestIsZero ==
    ASSUME NEW a \in Int, NEW b \in Int
    PROVE  ((a % prime) + ((1 * (prime - ((a + b) % prime))) % prime)) % prime # 0
               <=> b % prime # 0
<1> DEFINE s == (a + b) % prime
           q == (a + b) \div prime
           r == b % prime
           d == b \div prime
           t == ((a % prime) + ((1 * (prime - s)) % prime)) % prime
<1>1. prime \in Nat /\ prime > 0
  BY PrimePositive
<1>2. s \in Int /\ q \in Int /\ a + b = prime * q + s
  BY <1>1, ModType
<1>3. r \in 0 .. prime - 1 /\ d \in Int /\ b = prime * d + r
  BY <1>1, ModType
<1> HIDE DEF s, q, r, d
<1>4. t = (a + (prime - s)) % prime
  <2> DEFINE u == prime - s
  <2>1. u \in Int /\ 1 * u = u
    BY <1>1, <1>2
  <2> HIDE DEF u
  <2>2. ((a % prime) + (u % prime)) % prime = (a + u) % prime
    BY <1>1, <2>1, ModBoth
  <2>3. t = ((a % prime) + ((1 * u) % prime)) % prime
    BY DEF u
  <2> QED
    BY <2>1, <2>2, <2>3 DEF u
<1>5. t = (0 - r) % prime
  <2> DEFINE z == q + 1 - d
  <2>1. z \in Int /\ prime * z = prime * q + prime - prime * d
    BY <1>1, <1>2, <1>3
  <2>2. a + (prime - s) = prime * z + (0 - r)
    BY <1>1, <1>2, <1>3, <2>1
  <2> DEFINE m == 0 - r
  <2>3. m \in Int
    BY <1>3
  <2> HIDE DEF z, m
  <2>4. (prime * z + m) % prime = m % prime
    BY <1>1, <2>1, <2>3, ModSame
  <2> HIDE DEF t
  <2> QED
    BY <1>4, <2>2, <2>4 DEF m
<1>6. (0 - r) % prime # 0 <=> r # 0
  <2>1. CASE r = 0
    BY <1>1, <2>1, ModSmall
  <2>2. CASE r # 0
    <3>1. prime - r \in 0 .. prime - 1 /\ prime - r # 0
      BY <1>1, <1>3, <2>2
    <3>2. (prime * (-1) + (prime - r)) % prime = prime - r
      BY <1>1, <3>1, ModUnique
    <3>3. prime * (-1) + (prime - r) = 0 - r
      BY <1>1, <1>3
    <3> QED
      BY <2>2, <3>1, <3>2, <3>3
  <2> QED
    BY <2>1, <2>2
<1> QED
  BY <1>5, <1>6 DEF s, r

\* So what is left are the keys whose coefficients at the nodes that differ from this
\* one do not cancel.
LEMMA LeftUncancelled ==
    ASSUME NEW i \in Node, NEW c \in [Node -> Residue],
           Combines(c, inter_iblt[i], coeff_sum[i], Node)
    PROVE  ToPeel(i) = {k \in Key : SumFunctionOnSet(c, Differing(i, k)) % prime # 0}
<1> SUFFICES ASSUME NEW k \in Key
             PROVE  Plus(inter_iblt[i], Times(Start(i), OwnFactor(i)))[k] # 0
                      <=> SumFunctionOnSet(c, Differing(i, k)) % prime # 0
  BY DEF ToPeel
<1> DEFINE H == Holders(k)
           a == SumFunctionOnSet(c, H)
           b == SumFunctionOnSet(c, Node \ H)
<1>1. H \in SUBSET Node /\ Node \cap H = H
  BY DEF Holders
<1>2. inter_iblt[i][k] = a % prime /\ coeff_sum[i] = SumFunction(c) % prime
  BY <1>1 DEF Combines
<1> HIDE DEF H
<1>3. a \in Int /\ b \in Int /\ SumFunction(c) = a + b
  BY <1>1, SumSplit
<1>4. Plus(inter_iblt[i], Times(Start(i), OwnFactor(i)))[k]
          = ((a % prime) + ((Start(i)[k] * (prime - ((a + b) % prime))) % prime)) % prime
  BY <1>2, <1>3 DEF Plus, Times, OwnFactor
<1> HIDE DEF a, b
<1>5. CASE k \in key_assignments[i]
  <2>1. Start(i)[k] = 1 /\ SumFunctionOnSet(c, Differing(i, k)) = b
    BY <1>5 DEF Start, Differing, b, H
  <2> QED
    BY <1>3, <1>4, <2>1, RestIsZero
<1>6. CASE k \notin key_assignments[i]
  <2>1. Start(i)[k] = 0 /\ SumFunctionOnSet(c, Differing(i, k)) = a
    BY <1>6 DEF Start, Differing, a, H
  <2>2. /\ (a + b) % prime \in Int /\ a % prime \in 0 .. prime - 1
        /\ prime \in Nat /\ prime > 0
    BY <1>3, PrimePositive, ModType
  <2>3. 0 * (prime - ((a + b) % prime)) = 0 /\ 0 % prime = 0
    BY <2>2
  <2>4. (a % prime) + 0 = a % prime /\ (a % prime) % prime = a % prime
    BY <2>2, ModSmall
  <2> QED
    BY <1>4, <2>1, <2>3, <2>4
<1> QED
  BY <1>5, <1>6

\* RetrievesWhatDiffers of one node, as it stands in what the node's step leaves alone.
Retrieved(i, keys, res) ==
    res # "none" =>
        \E c \in [Node -> Residue] :
            LET uncancelled == {k \in Key : SumFunctionOnSet(c, Differing(i, k)) % prime # 0}
            IN  /\ Combines(c, inter_iblt[i], coeff_sum[i], Node)
                /\ keys \subseteq uncancelled
                /\ res = "success" => keys = uncancelled

LEMMA RetrievedStays ==
    ASSUME UNCHANGED <<key_assignments, inter_iblt, coeff_sum>>,
           NEW i, NEW keys, NEW res, Retrieved(i, keys, res)
    PROVE  Retrieved(i, keys, res)'
<1>1. \A k : Holders(k)' = Holders(k)
  BY DEF Holders
<1>2. \A k : Differing(i, k)' = Differing(i, k)
  BY <1>1 DEF Differing
<1>3. ASSUME NEW c
      PROVE  Combines(c, inter_iblt[i], coeff_sum[i], Node)'
               <=> Combines(c, inter_iblt[i], coeff_sum[i], Node)
  BY <1>1 DEF Combines
<1> QED
  BY <1>2, <1>3 DEF Retrieved

LEMMA RetrievedNext ==
    ASSUME UNCHANGED <<key_assignments, inter_iblt, coeff_sum>>,
           \A p \in Node : Retrieved(p, messages'[p], result'[p])
    PROVE  RetrievesWhatDiffers'
<1>1. ASSUME NEW p \in Node PROVE Retrieved(p, messages[p], result[p])'
  <2>1. PICK keys, res : keys = messages'[p] /\ res = result'[p]
    OBVIOUS
  <2>2. Retrieved(p, keys, res)
    BY <2>1
  <2>3. Retrieved(p, keys, res)'
    BY <2>2, RetrievedStays
  <2> QED
    BY <2>1, <2>3 DEF Retrieved
<1> QED
  BY <1>1 DEF RetrievesWhatDiffers, Retrieved

LEMMA RetrieveKeeps ==
    ASSUME IInv, NEW i \in Node, RetrieveAll(i) \/ RetrieveSome(i)
    PROVE  IInv'
<1>1. UNCHANGED <<setting, epoch, temp, turn, pushed>>
  BY DEF RetrieveAll, RetrieveSome, Retrieve
<1>2. PICK S \in SUBSET ToPeel(i), r \in {"success", "failure"} :
          /\ messages' = [messages EXCEPT ![i] = S]
          /\ result' = [result EXCEPT ![i] = r]
          /\ r = "success" => S = ToPeel(i)
  BY DEF RetrieveAll, RetrieveSome
<1>3. S \in SUBSET Key
  BY <1>2 DEF ToPeel
<1>8. SearchInv' /\ NetworkTypeOK'
  BY <1>1, NetworkStays DEF IInv, TypeOK
<1>5. TypeOK'
  BY <1>1, <1>2, <1>3, <1>8 DEF IInv, TypeOK, setting, epoch, temp
<1>4. turn = n_nodes /\ all_messages_received
  BY DEF RetrieveAll, RetrieveSome, Retrieve
<1>6. RetrievedAtTheEnd'
  BY <1>1, <1>4 DEF RetrievedAtTheEnd, all_messages_received, epoch
<1>9. LinearCombination'
  BY <1>1, LinearIsCombine, LinearPrimed DEF IInv, setting, epoch, temp
<1>7. RetrievesWhatDiffers'
  <2>1. Retrieved(i, S, r)
    <3>1. PICK c \in [Node -> Residue] : Combines(c, inter_iblt[i], coeff_sum[i], Node)
      BY <1>4 DEF all_messages_received, IInv, LinearCombination, IsCombination
    <3>2. ToPeel(i) = {k \in Key : SumFunctionOnSet(c, Differing(i, k)) % prime # 0}
      BY <3>1, LeftUncancelled
    <3> QED
      BY <1>2, <3>1, <3>2 DEF Retrieved
  <2>2. ASSUME NEW p \in Node
        PROVE  Retrieved(p, messages'[p], result'[p])
    <3>1. CASE p = i
      BY <1>2, <2>1, <3>1 DEF IInv, TypeOK
    <3>2. CASE p # i
      <4>1. messages'[p] = messages[p] /\ result'[p] = result[p]
        BY <1>2, <3>2
      <4>2. Retrieved(p, messages[p], result[p])
        BY DEF IInv, RetrievesWhatDiffers, Retrieved
      <4> QED
        BY <4>1, <4>2
    <3> QED
      BY <3>1, <3>2
  <2> QED
    BY <1>1, <2>2, RetrievedNext DEF setting, epoch
<1> QED
  BY <1>5, <1>6, <1>7, <1>8, <1>9 DEF IInv

\* While the network is created, and when nothing happens.
LEMMA NetworkKeeps ==
    IInv /\ [NetworkNext]_network_vars /\ UNCHANGED gossip_vars => IInv'
<1> SUFFICES ASSUME IInv, [NetworkNext]_network_vars, UNCHANGED gossip_vars PROVE IInv'
  OBVIOUS
<1>1. SearchInv' /\ NetworkTypeOK'
  <2>1. SearchInv'
    BY SearchStep DEF IInv
  <2>2. SearchInv' => NetworkTypeOK'
    BY DEF SearchInv
  <2> QED
    BY <2>1, <2>2
<1>2. TypeOK'
  BY <1>1 DEF IInv, TypeOK, gossip_vars, epoch, temp, retrieved
<1>3. RetrievedAtTheEnd' /\ RetrievesWhatDiffers'
  <2>1. UNCHANGED <<key_assignments, inter_iblt, coeff_sum, received_from, turn,
                    messages, result>>
    BY DEF gossip_vars, epoch, retrieved
  <2>2. RetrievedAtTheEnd'
    BY <2>1 DEF IInv, RetrievedAtTheEnd, all_messages_received
  <2>3. RetrievesWhatDiffers'
    <3>1. \A p \in Node : Retrieved(p, messages'[p], result'[p])
      BY <2>1 DEF IInv, RetrievesWhatDiffers, Retrieved
    <3> QED
      BY <2>1, <3>1, RetrievedNext
  <2> QED
    BY <2>2, <2>3
<1>4. LinearCombination'
  BY LinearIsCombine, LinearPrimed DEF IInv, gossip_vars, epoch, temp
<1> QED
  BY <1>1, <1>2, <1>3, <1>4 DEF IInv

-----------------------------------------------------------------------------
(* The theorems.                                                           *)

\* In every reachable state of every network, each table is the combination that its
\* sum and bits say (send_message, receive_message and end_epoch of iblt_node change the
\* three alike), messages are retrieved from the last of them, and all variables have
\* their types.
THEOREM Invariance == Spec => []IInv
<1>1. Init => IInv
  BY InitHolds
<1>2. IInv /\ [Next]_vars => IInv'
  <2> SUFFICES ASSUME IInv, [Next]_vars PROVE IInv'
    OBVIOUS
  <2>1. CASE UNCHANGED vars
    BY <2>1, NetworkKeeps DEF vars
  <2>2. CASE NetworkNext /\ UNCHANGED gossip_vars
    BY <2>2, NetworkKeeps
  <2>3. CASE StartIteration
    BY <2>3, StartKeeps
  <2>4. ASSUME NEW i \in Node, NEW j \in Node, NEW rand_mult \in 1 .. prime - 1,
               PushPull(i, j, rand_mult)
        PROVE  IInv'
    BY <2>4, PushPullKeeps
  <2>5. ASSUME NEW i \in Node, EndEpoch(i) PROVE IInv'
    BY <2>5, EndEpochKeeps
  <2>6. ASSUME NEW i \in Node, RetrieveAll(i) \/ RetrieveSome(i) PROVE IInv'
    BY <2>6, RetrieveKeeps
  <2> QED
    BY <2>1, <2>2, <2>3, <2>4, <2>5, <2>6 DEF Next
<1> QED
  BY <1>1, <1>2, PTL DEF Spec

\* Gossip begins only on connected networks, drawn or complete: the guard of
\* StartIteration is that create_network has returned.
THEOREM GossipsConnected == Spec => []AcceptsConnected
<1>1. IInv => AcceptsConnected
  BY DEF IInv, SearchInv
<1> QED
  BY <1>1, Invariance, PTL

\* For every network, prime and assignment, a node's combined table is the linear
\* combination of the tables of the nodes that it has heard from, with coefficients
\* that sum up to coeff_sum, and so is what has come in since it ended its epoch.
THEOREM CombinesWhatItHeard == Spec => []LinearCombination
<1>1. IInv => LinearCombination
  BY DEF IInv
<1> QED
  BY <1>1, Invariance, PTL

\* For every network, prime and assignment, a successful retrieve_messages yields the
\* keys whose coefficients at the nodes that differ from this one do not cancel, all of
\* them and no other, hence no key that all nodes began with.
THEOREM RetrievesUncancelled == Spec => []RetrievesWhatDiffers
<1>1. IInv => RetrievesWhatDiffers
  BY DEF IInv
<1> QED
  BY <1>1, Invariance, PTL

\* For every network, what a node has been sent is never lost: end_epoch keeps what it
\* clears, and a push that comes after a node's turn is kept for its next one.
THEOREM NeverForgotten == Spec => HeardIsKept
<1>1. IInv /\ [Next]_vars => [\A i \in Node : Heard(i) \subseteq Heard(i)']_vars
  <2> SUFFICES ASSUME IInv, Next PROVE \A i \in Node : Heard(i) \subseteq Heard(i)'
    OBVIOUS
  <2>1. /\ DOMAIN received_from = Node /\ DOMAIN temp_received_from = Node
    BY DEF IInv, TypeOK
  <2>6. CASE NetworkNext /\ UNCHANGED gossip_vars
    BY <2>6 DEF gossip_vars, epoch, temp, Heard
  <2>2. CASE StartIteration
    BY <2>2 DEF StartIteration, epoch, temp, Heard
  <2>3. ASSUME NEW i \in Node, NEW j \in Node, NEW rand_mult \in 1 .. prime - 1,
               PushPull(i, j, rand_mult)
        PROVE  \A p \in Node : Heard(p) \subseteq Heard(p)'
    <3> DEFINE half == HeardAt(temp_received_from, j, HeardFrom(i))
    <3>1. /\ DOMAIN half = Node
          /\ \A p \in Node : temp_received_from[p] \subseteq half[p]
      BY <2>1 DEF HeardAt
    <3>2. temp_received_from' = HeardAt(half, i, HeardFrom(j))
      BY <2>3 DEF PushPull
    <3>3. received_from' = received_from
      BY <2>3 DEF PushPull, epoch
    <3> HIDE DEF half
    <3>4. \A p \in Node : half[p] \subseteq temp_received_from'[p]
      BY <3>1, <3>2 DEF HeardAt
    <3> QED
      BY <3>1, <3>3, <3>4 DEF Heard
  <2>4. ASSUME NEW i \in Node, EndEpoch(i)
        PROVE  \A p \in Node : Heard(p) \subseteq Heard(p)'
    BY <2>1, <2>4 DEF EndEpoch, Heard, HeardAfter
  <2>5. ASSUME NEW i \in Node, RetrieveAll(i) \/ RetrieveSome(i)
        PROVE  \A p \in Node : Heard(p) \subseteq Heard(p)'
    BY <2>5 DEF RetrieveAll, RetrieveSome, Retrieve, epoch, temp, Heard
  <2> QED
    BY <2>2, <2>3, <2>4, <2>5, <2>6 DEF Next
<1> QED
  BY <1>1, Invariance, PTL DEF Spec, HeardIsKept

=============================================================================
