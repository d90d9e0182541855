------------------------------- MODULE Gossip -------------------------------
(***************************************************************************)
(* The gossip network of network.hpp, on the network that RandomNetwork    *)
(* draws and accepts, or on the complete one: in every iteration each node *)
(* in turn pushes a random multiple of its combined table to a neighbour,  *)
(* pulls that neighbour's table, and ends its epoch.  When every node has  *)
(* heard from every other, each peels what it lacks.                       *)
(*                                                                         *)
(* A table is the number of times, modulo prime, that it holds each key:   *)
(* ResidueEncodesRest of MultiReconciliation says that it is.  A peel      *)
(* succeeds with every key, or fails with two or more keys missing.        *)
(***************************************************************************)
EXTENDS RandomNetwork, Functions

CONSTANTS
    prime, Key,
    Assignment    \* the keys that each node may begin with

Residue == 0 .. prime - 1
Table == [Key -> Residue]

ASSUME GossipAssumption ==
    /\ prime \in Nat /\ prime >= 3
    /\ IsFiniteSet(Key)
    /\ Assignment \subseteq [Node -> SUBSET Key]

VARIABLES
    key_assignments,
    inter_iblt,      \* inter_iblt[i]: the combination of what i has heard
    temp_iblt,       \* temp_iblt[i]: what came in since i ended its epoch
    coeff_sum, temp_coeff_sum,
    received_from, temp_received_from,
    turn,            \* the loop variable i of run_iter; n_nodes between iterations
    pushed,          \* has node turn done its push_pull?
    messages,        \* messages[i]: the caller's set of keys peeled by i
    result           \* result[i]: what retrieve_messages of i returned

setting == <<network_vars, key_assignments>>
epoch == <<inter_iblt, coeff_sum, received_from>>
temp == <<temp_iblt, temp_coeff_sum, temp_received_from>>
retrieved == <<messages, result>>
gossip_vars == <<key_assignments, epoch, temp, turn, pushed, retrieved>>
vars == <<network_vars, gossip_vars>>

-----------------------------------------------------------------------------
(* The complete network.                                                   *)

complete_network == [i \in Node |-> Node \ {i}]

\* Its create_network neither draws nor searches.
CompleteInit ==
    /\ list = complete_network
    /\ dq = << >>
    /\ num_traversed = 0
    /\ have_traversed = {}
    /\ pc = "accepted"

-----------------------------------------------------------------------------
(* Tables and coefficients.                                                *)

EmptyTable == [k \in Key |-> 0]
\* start_iblt of node i.
Start(i) == [k \in Key |-> IF k \in key_assignments[i] THEN 1 ELSE 0]
Plus(t, u) == [k \in Key |-> (t[k] + u[k]) % prime]
Times(t, c) == [k \in Key |-> (t[k] * c) % prime]

\* Mutant: the sum of coefficients is not multiplied with the message.
MessageSumPlain(s, rand_mult) == s
MessageSum(s, rand_mult) == (s * rand_mult) % prime

HeardFrom(j) == received_from[j]

\* The nodes after setup; until create_network returns, nothing happens to them.
Init ==
    /\ NetworkInit \/ CompleteInit
    /\ key_assignments \in Assignment
    /\ inter_iblt = [i \in Node |-> Start(i)]
    /\ temp_iblt = [i \in Node |-> EmptyTable]
    /\ coeff_sum = [i \in Node |-> 1 % prime]
    /\ temp_coeff_sum = [i \in Node |-> 0]
    /\ received_from = [i \in Node |-> {i}]
    /\ temp_received_from = [i \in Node |-> {}]
    /\ turn = n_nodes
    /\ pushed = FALSE
    /\ messages = [i \in Node |-> {}]
    /\ result = [i \in Node |-> "none"]

all_messages_received == \A i \in Node : received_from[i] = Node

-----------------------------------------------------------------------------
(* One iteration.                                                          *)

\* Mutant: the iterations end as soon as one node has heard from everyone.
StartIterationUnlessOne ==
    /\ pc = "accepted"
    /\ turn = n_nodes /\ \A i \in Node : received_from[i] # Node
    /\ turn' = 0
    /\ UNCHANGED <<setting, epoch, temp, pushed, retrieved>>
\* The caller runs another iteration as long as something has not arrived.
StartIteration ==
    /\ pc = "accepted"
    /\ turn = n_nodes /\ ~all_messages_received
    /\ turn' = 0
    /\ UNCHANGED <<setting, epoch, temp, pushed, retrieved>>

\* What receive_message adds at node i to the tables, the sums and the bits.
PlusAt(tables, i, message) == [tables EXCEPT ![i] = Plus(@, message)]
SumAt(sums, i, message_sum) == [sums EXCEPT ![i] = (@ + message_sum) % prime]
HeardAt(bits, i, from) == [bits EXCEPT ![i] = @ \cup from]

\* i sends rand_mult times its table to j and takes j's table as it is.
PushPull(i, j, rand_mult) ==
    /\ turn = i /\ ~pushed
    /\ j \in list[i]
    /\ temp_iblt' = PlusAt(PlusAt(temp_iblt, j, Times(inter_iblt[i], rand_mult)),
                           i, inter_iblt[j])
    /\ temp_coeff_sum' = SumAt(SumAt(temp_coeff_sum, j, MessageSum(coeff_sum[i], rand_mult)),
                               i, coeff_sum[j])
    /\ temp_received_from' = HeardAt(HeardAt(temp_received_from, j, HeardFrom(i)),
                                     i, HeardFrom(j))
    /\ pushed' = TRUE
    /\ UNCHANGED <<setting, epoch, turn, retrieved>>

\* Mutant: what a node has heard from is replaced, not extended.
HeardAfterReplaced(i) == temp_received_from[i]
HeardAfter(i) == received_from[i] \cup temp_received_from[i]

EndEpoch(i) ==
    /\ turn = i /\ pushed
    /\ inter_iblt' = [inter_iblt EXCEPT ![i] = Plus(@, temp_iblt[i])]
    /\ coeff_sum' = [coeff_sum EXCEPT ![i] = (@ + temp_coeff_sum[i]) % prime]
    /\ received_from' = [received_from EXCEPT ![i] = HeardAfter(i)]
    /\ temp_iblt' = [temp_iblt EXCEPT ![i] = EmptyTable]
    /\ temp_coeff_sum' = [temp_coeff_sum EXCEPT ![i] = 0]
    /\ temp_received_from' = [temp_received_from EXCEPT ![i] = {}]
    /\ turn' = i + 1
    /\ pushed' = FALSE
    /\ UNCHANGED <<setting, retrieved>>

-----------------------------------------------------------------------------
(* Retrieving the messages.                                                *)

\* Mutant: the node's own table is added coeff_sum times instead of removed.
OwnFactorPlus(i) == coeff_sum[i]
OwnFactor(i) == prime - coeff_sum[i]

\* What i peels: its combination without its own keys' share of every table.
ToPeel(i) ==
    LET t == Plus(inter_iblt[i], Times(Start(i), OwnFactor(i)))
    IN  {k \in Key : t[k] # 0}

\* peel_keys asks the nodes one after the other.
Retrieve(i) ==
    /\ turn = n_nodes /\ all_messages_received
    /\ result[i] = "none" /\ \A j \in 0 .. i - 1 : result[j] # "none"
    /\ UNCHANGED <<setting, epoch, temp, turn, pushed>>

RetrieveAll(i) ==
    /\ Retrieve(i)
    /\ messages' = [messages EXCEPT ![i] = ToPeel(i)]
    /\ result' = [result EXCEPT ![i] = "success"]

RetrieveSome(i) ==
    /\ Retrieve(i)
    /\ \E S \in SUBSET ToPeel(i) :
          /\ Cardinality(ToPeel(i) \ S) >= 2
          /\ messages' = [messages EXCEPT ![i] = S]
    /\ result' = [result EXCEPT ![i] = "failure"]

Next ==
    \/ NetworkNext /\ UNCHANGED gossip_vars
    \/ StartIteration
    \/ \E i, j \in Node, rand_mult \in 1 .. prime - 1 : PushPull(i, j, rand_mult)
    \/ \E i \in Node : EndEpoch(i) \/ RetrieveAll(i) \/ RetrieveSome(i)

Spec == Init /\ [][Next]_vars

\* The loops take their next step, a connected network is drawn in the end, each
\* edge having a probability of its own, and a neighbour chosen at random with equal
\* probability again and again is chosen again and again.  It is enough to assume it
\* of the lesser node of each pair.
DrawConnected == Draw /\ IsConnected' /\ UNCHANGED gossip_vars
Contact(i, j) == \E rand_mult \in 1 .. prime - 1 : PushPull(i, j, rand_mult)
FairSpec ==
    /\ Spec /\ WF_vars(Next) /\ SF_vars(DrawConnected)
    /\ \A i \in Node : \A j \in i + 1 .. n_nodes - 1 : SF_vars(Contact(i, j))

-----------------------------------------------------------------------------
TypeOK ==
    /\ NetworkTypeOK /\ key_assignments \in Assignment
    /\ inter_iblt \in [Node -> Table] /\ temp_iblt \in [Node -> Table]
    /\ coeff_sum \in [Node -> Residue] /\ temp_coeff_sum \in [Node -> Residue]
    /\ received_from \in [Node -> SUBSET Node]
    /\ temp_received_from \in [Node -> SUBSET Node]
    /\ turn \in 0 .. n_nodes /\ pushed \in BOOLEAN
    /\ messages \in [Node -> SUBSET Key]
    /\ result \in [Node -> {"none", "success", "failure"}]

Heard(i) == received_from[i] \cup temp_received_from[i]
Holders(k) == {p \in Node : k \in key_assignments[p]}

\* t is what the start tables of the nodes S sum to, each times its coefficient,
\* and s is the sum of the coefficients.
Combines(c, t, s, S) ==
    /\ \A k \in Key : t[k] = SumFunctionOnSet(c, S \cap Holders(k)) % prime
    /\ s = SumFunction(c) % prime
IsCombination(t, s, S) == \E c \in [S -> Residue] : Combines(c, t, s, S)

(***************************************************************************)
(* A node's combined table is a linear combination of the tables of the    *)
(* nodes it has heard from and no others, coeff_sum is the sum of its      *)
(* coefficients, and so for what has come in during the epoch (the         *)
(* comments network.hpp:111-117).  The three are updated separately, at    *)
(* two nodes, in two stages.                                               *)
(***************************************************************************)
LinearCombination ==
    \A i \in Node :
        /\ IsCombination(inter_iblt[i], coeff_sum[i], received_from[i])
        /\ IsCombination(temp_iblt[i], temp_coeff_sum[i], temp_received_from[i])

\* The nodes that have k while i lacks it, or lack it while i has it.
Differing(i, k) ==
    IF k \in key_assignments[i] THEN Node \ Holders(k) ELSE Holders(k)

(***************************************************************************)
(* A successful retrieve_messages yields each key for which the            *)
(* coefficients of the nodes that differ from this one do not sum up to    *)
(* zero, and no other; a failing one yields some of these keys.  So a key  *)
(* that all nodes began with is never retrieved: network_testing.cpp:62    *)
(* counts the missing keys on that ground.  And all_messages_received and  *)
(* a success do not mean that every message has arrived: one is missing    *)
(* exactly when the multiples of the tables that have it cancelled.        *)
(***************************************************************************)
RetrievesWhatDiffers ==
    \A i \in Node : result[i] # "none" =>
        \E c \in [Node -> Residue] :
            LET uncancelled == {k \in Key : SumFunctionOnSet(c, Differing(i, k)) % prime # 0}
            IN  /\ Combines(c, inter_iblt[i], coeff_sum[i], Node)
                /\ messages[i] \subseteq uncancelled
                /\ result[i] = "success" => messages[i] = uncancelled

(***************************************************************************)
(* What a node has been sent is never lost: neither when it ends its epoch *)
(* nor when a push reaches it after its turn (end_epoch, receive_message). *)
(***************************************************************************)
HeardIsKept ==
    [][\A i \in Node : Heard(i) \subseteq Heard(i)']_vars

(***************************************************************************)
(* Every node hears from every other, on whatever network is_connected     *)
(* accepts, and the loop of network_testing.cpp:114 ends.                  *)
(***************************************************************************)
AllHear == <>all_messages_received

=============================================================================
