----------------------------- MODULE AudioGraph -----------------------------
(***************************************************************************)
(* The graph an application edits on the control thread: nodes in slots    *)
(* with generations, connections in the order they were made, and the node *)
(* designated as the output.  Each edit is checked for what can be decided *)
(* locally; whether the whole makes sense is left to the compiler.         *)
(*                                                                         *)
(* A node is the three numbers the graph asks it for.  Edits that fail, or *)
(* that find nothing to do, change nothing and have no action.             *)
(***************************************************************************)
EXTENDS Integers, Sequences, FiniteSets

CONSTANTS
  MaxNodes,         \* GraphConfig::max_nodes
  MaxConnections,   \* GraphConfig::max_connections
  NodeTypes,        \* the nodes an application builds, by name
  ExpectedInputs,   \* AudioNode::expected_input_count, of each type
  InputChannels,    \* AudioNode::input_channel_count
  OutputChannels,   \* AudioNode::output_channel_count
  MostOfType,       \* bound: nodes of each type in the graph at once
  MaxAdditions      \* bound: nodes ever added

MaxNodeInputs == 8   \* kMaxNodeInputs

ASSUME GraphAssumption ==
  /\ MaxNodes \in Nat /\ MaxConnections \in Nat
  /\ "none" \notin NodeTypes
  /\ ExpectedInputs \in [NodeTypes -> 0..MaxNodeInputs]
  /\ InputChannels \in [NodeTypes -> Nat]
  /\ OutputChannels \in [NodeTypes -> Nat]
  /\ MostOfType \in [NodeTypes -> Nat]
  /\ MaxAdditions \in Nat

(* Of the nodes with inputs only the pan has more channels than it takes,  *)
(* two for one.                                                            *)
ASSUME WidthsAssumption ==
  \A t \in NodeTypes :
    \/ ExpectedInputs[t] = 0 \/ OutputChannels[t] = InputChannels[t]
    \/ InputChannels[t] = 1 /\ OutputChannels[t] = 2

VARIABLES
  node,         \* the type of the node in each slot, or "none"
  generation,   \* 0 for a slot the vector has not grown to
  connections,  \* in the order of the Connect calls
  output        \* the NodeId of the output

graphVars == <<node, generation, connections, output>>

Slots == 0..(MaxNodes - 1)
Indices == 0..(MaxNodeInputs - 1)

NodeId == [index: Slots, generation: Nat]
NoNodeId == [index |-> MaxNodes, generation |-> 0]

Connection(s, d, k) ==
  [source_node |-> s, destination_node |-> d, destination_input_index |-> k]

GraphInit ==
  /\ node = [i \in Slots |-> "none"]
  /\ generation = [i \in Slots |-> 0]
  /\ connections = <<>>
  /\ output = NoNodeId
-----------------------------------------------------------------------------
(* The identifiers AddNode returned, those of removed nodes included. *)
Issued ==
  UNION {[index: {i}, generation: 1..generation[i]] : i \in Slots}

IsValidNode(id) ==
  /\ id.index \in Slots
  /\ node[id.index] # "none"
  /\ generation[id.index] = id.generation

NodeAt(i) == [index |-> i, generation |-> generation[i]]

Leads(c, d, k) ==
  c.destination_node = d /\ c.destination_input_index = k

Touches(c, id) == c.source_node = id \/ c.destination_node = id

Wires == {connections[n] : n \in DOMAIN connections}

(* The connections but those, in their order. *)
Without(those) ==
  LET left[n \in 0..Len(connections)] ==
        IF n = 0 THEN <<>>
        ELSE IF connections[n] \in those THEN left[n - 1]
        ELSE Append(left[n - 1], connections[n])
  IN  left[Len(connections)]

WithinBounds(t) ==
  /\ Cardinality({i \in Slots : node[i] = t}) < MostOfType[t]
  /\ Cardinality(Issued) < MaxAdditions

(* The first slot not in use; a slot beyond the vector's end is one the    *)
(* vector grows to.                                                        *)
AddNode(t) ==
  \E i \in Slots :
    /\ WithinBounds(t)
    /\ node[i] = "none" /\ \A j \in 0..(i - 1) : node[j] # "none"
    /\ node' = [node EXCEPT ![i] = t]
    /\ generation' = [generation EXCEPT ![i] = @ + 1]
    /\ UNCHANGED <<connections, output>>

RemoveNode(id) ==
  /\ IsValidNode(id)
  /\ node' = [node EXCEPT ![id.index] = "none"]
  /\ connections' = Without({c \in Wires : Touches(c, id)})
  /\ output' = IF output = id THEN NoNodeId ELSE output
  /\ UNCHANGED generation

Connect(s, d, k) ==
  /\ IsValidNode(s) /\ IsValidNode(d)
  /\ s # d
  /\ k < ExpectedInputs[node[d.index]]
  /\ \A n \in DOMAIN connections : ~Leads(connections[n], d, k)
  /\ OutputChannels[node[s.index]] = InputChannels[node[d.index]]
  /\ Len(connections) < MaxConnections
  /\ connections' = Append(connections, Connection(s, d, k))
  /\ UNCHANGED <<node, generation, output>>

(* Neither the node nor the input is checked: a call that finds nothing    *)
(* succeeds too.                                                           *)
Disconnect(d, k) ==
  /\ connections' = Without({c \in Wires : Leads(c, d, k)})
  /\ UNCHANGED <<node, generation, output>>

SetOutput(id) ==
  /\ IsValidNode(id)
  /\ output' = id
  /\ UNCHANGED <<node, generation, connections>>

GraphNext ==
  \/ \E t \in NodeTypes : AddNode(t)
  \/ \E id \in Issued : RemoveNode(id) \/ SetOutput(id)
  \/ \E s, d \in Issued, k \in Indices : Connect(s, d, k)
  \/ \E d \in Issued, k \in Indices : Disconnect(d, k)

GraphSpec == GraphInit /\ [][GraphNext]_graphVars

-----------------------------------------------------------------------------
(* What the edits keep, and the compiler takes for granted: it indexes its *)
(* tables by the slots of connections and asks nodes without checking that *)
(* they are there.                                                         *)

(* Every variable has its type, and the graph is well formed: a connection *)
(* joins two different nodes that are in the graph, at an input the node   *)
(* has, with the channels it takes, no two lead to one input, and the      *)
(* output, when there is one, is in the graph.                             *)
TypeOK ==
  /\ node \in [Slots -> NodeTypes \cup {"none"}]
  /\ generation \in [Slots -> Nat]
  /\ output = NoNodeId \/ IsValidNode(output)
  /\ Len(connections) <= MaxConnections
  /\ \A n \in DOMAIN connections :
       LET c == connections[n]
           s == c.source_node
           d == c.destination_node
       IN  /\ IsValidNode(s) /\ IsValidNode(d) /\ s # d
           /\ c.destination_input_index < ExpectedInputs[node[d.index]]
           /\ OutputChannels[node[s.index]] = InputChannels[node[d.index]]
           /\ \A m \in DOMAIN connections :
                Leads(connections[m], d, c.destination_input_index) => m = n
=============================================================================
