---------------------------- MODULE GraphCompiler ----------------------------
(***************************************************************************)
(* GraphCompiler::Compile as operators over the graph being edited: which  *)
(* graphs it accepts, the order in which it runs their nodes and the       *)
(* buffers it gives them; and GraphExecutor::Render over the result, with  *)
(* symbols for samples.  What a plan renders is compared with what its     *)
(* graph means, which no buffer and no order enters.                       *)
(*                                                                         *)
(* The binding of assets is left out: it refuses a compilation and changes *)
(* neither order nor buffers.  Buffers are numbered from 1.  A definition  *)
(* named as a fault stands before the one it varies.                       *)
(***************************************************************************)
EXTENDS AudioGraph

(* The connections to i, by their places. *)
Into(i) == {n \in DOMAIN connections : connections[n].destination_node = NodeAt(i)}

Links == {<<c.source_node.index, c.destination_node.index>> : c \in Wires}

(* The connections from i to j: a node may feed two inputs of another. *)
Edges(i, j) ==
  Cardinality({n \in Into(j) : connections[n].source_node = NodeAt(i)})

Inputs(i) == 0..(ExpectedInputs[node[i]] - 1)

(* The slots of the nodes that lead to input k of i: one, if connected. *)
Sources(i, k) ==
  {c.source_node.index :
     c \in {c \in Wires : Leads(c, NodeAt(i), k)}}

SourceOf(i, k) == CHOOSE j \in Sources(i, k) : TRUE

-----------------------------------------------------------------------------
(* Validation and order. *)

(* The slots from which the output can be reached, by walking connections  *)
(* backwards; no path is longer than the number of nodes.                  *)
Reachable ==
  LET walk[n \in 0..MaxNodes] ==
        IF n = 0 THEN {output.index}
        ELSE walk[n - 1] \cup {l[1] : l \in {m \in Links : m[2] \in walk[n - 1]}}
  IN  walk[MaxNodes]

RequiredInputsConnected(reachable) ==
  \A i \in reachable : \A k \in Inputs(i) : Sources(i, k) # {}

(* Fault: a consumer is counted down once, although it has two inputs from *)
(* the node.                                                               *)
TakenOffOnce(i, j) == IF Edges(i, j) > 0 THEN 1 ELSE 0

(* What taking node i in order takes off the in-degree of j. *)
TakenOff(i, j) == Edges(i, j)

(* The ready node with the smallest index is taken. *)
TakeReady(st) ==
  LET current == CHOOSE i \in st.ready : \A j \in st.ready : i <= j
      degree  == [i \in DOMAIN st.degree |->
                    st.degree[i] - TakenOff(current, i)]
  IN  [ready  |-> (st.ready \ {current}) \cup
                  {i \in DOMAIN degree : degree[i] = 0 /\ st.degree[i] > 0},
       degree |-> degree,
       order  |-> Append(st.order, current)]

(* Kahn's algorithm; short of some node if there is a cycle. *)
Order(reachable) ==
  LET degree == [i \in reachable |-> Cardinality(Into(i))]
      sort[n \in 0..MaxNodes] ==
        IF n = 0 THEN [ready  |-> {i \in reachable : degree[i] = 0},
                       degree |-> degree, order |-> <<>>]
        ELSE LET st == sort[n - 1]
             IN  IF st.ready = {} THEN st ELSE TakeReady(st)
  IN  sort[MaxNodes].order

Ordered(reachable, order) == Len(order) = Cardinality(reachable)

Compiles ==
  /\ IsValidNode(output)
  /\ LET reachable == Reachable
     IN  /\ RequiredInputsConnected(reachable)
         /\ Ordered(reachable, Order(reachable))

-----------------------------------------------------------------------------
(* Buffers. *)

(* The list a free buffer of so many channels is kept in. *)
FreeList(channels) == IF channels <= 1 THEN "mono" ELSE "stereo"

(* The latest buffer freed is taken, or a new one made. *)
Allocate(st, i) ==
  LET channels == OutputChannels[node[i]]
      list     == FreeList(channels)
      free     == st.free[list]
  IN  IF free # <<>>
      THEN [st EXCEPT !.buffer[i] = free[Len(free)],
                      !.free[list] = SubSeq(free, 1, Len(free) - 1)]
      ELSE [st EXCEPT !.buffer[i] = Len(st.channels) + 1,
                      !.channels = Append(@, channels)]

(* One connection's source has been read; its buffer is free when that was *)
(* the last time.                                                          *)
Release(st, c) ==
  LET i    == c.source_node.index
      list == FreeList(st.channels[st.buffer[i]])
      read == [st EXCEPT !.remaining[i] = @ - 1]
  IN  IF read.remaining[i] = 0
      THEN [read EXCEPT !.free[list] = Append(@, st.buffer[i])]
      ELSE read

ReleaseInputs(st, i) ==
  LET after[n \in 0..Len(connections)] ==
        IF n = 0 THEN st
        ELSE IF n \in Into(i) THEN Release(after[n - 1], connections[n])
        ELSE after[n - 1]
  IN  after[Len(connections)]

(* The step of node i, its inputs in the buffers of the nodes they come    *)
(* from.                                                                   *)
Step(st, i) ==
  [node |-> i, output_buffer |-> st.buffer[i],
   input_buffers |-> [k \in Inputs(i) |-> st.buffer[SourceOf(i, k)]]]

AddStep(st, i) == [st EXCEPT !.steps = Append(@, Step(st, i))]

(* Fault: the inputs are released before the output is allocated. *)
AssignReleasingFirst(st, i) == AddStep(Allocate(ReleaseInputs(st, i), i), i)

(* A step's output is allocated, and then its inputs are released. *)
Assign(st, i) == ReleaseInputs(AddStep(Allocate(st, i), i), i)

(* Fault: consumers that no step is made for count too. *)
ConsumersAnywhere(i, reachable) ==
  Cardinality({n \in DOMAIN connections : connections[n].source_node = NodeAt(i)})

(* How often the output of i is read. *)
Consumers(i, reachable) ==
  Cardinality({n \in DOMAIN connections :
                 /\ connections[n].source_node = NodeAt(i)
                 /\ connections[n].destination_node.index \in reachable})

Unplanned(reachable) ==
  [steps     |-> <<>>,
   channels  |-> <<>>,
   buffer    |-> [i \in Slots |-> 0],
   remaining |-> [i \in reachable |-> Consumers(i, reachable)],
   free      |-> [list \in {"mono", "stereo"} |-> <<>>]]

(* The plan: its steps, and the channels of its buffers. *)
PlanOf(reachable, order) ==
  LET upTo[n \in 0..Len(order)] ==
        IF n = 0 THEN Unplanned(reachable) ELSE Assign(upTo[n - 1], order[n])
  IN  upTo[Len(order)]

Plan == LET reachable == Reachable IN PlanOf(reachable, Order(reachable))

-----------------------------------------------------------------------------
(* Rendering.  A sample is the term of the node that made it; a node       *)
(* applied to its inputs is <<node, term, ...>>.                           *)

Silent == <<>>
Leftover == <<-1>>   \* of an earlier block, or beside a frame

(* Mixer and pan clear their output before they read an input, the others  *)
(* write it frame by frame as they read.  A node whose channels are not    *)
(* those of its buffer writes beside it.                                   *)
Process(content, step, channels) ==
  LET out     == step.output_buffer
      cleared == [content EXCEPT ![out] = Silent]
      i       == step.node
      term    == <<i>> \o [k \in 1..ExpectedInputs[node[i]] |->
                             cleared[step.input_buffers[k - 1]]]
  IN  [content EXCEPT ![out] =
         IF channels[out] = OutputChannels[node[i]] THEN term ELSE Leftover]

Render(plan) ==
  LET content[n \in 0..Len(plan.steps)] ==
        IF n = 0 THEN [b \in DOMAIN plan.channels |-> Leftover]
        ELSE Process(content[n - 1], plan.steps[n], plan.channels)
  IN  content[Len(plan.steps)][plan.buffer[output.index]]

-----------------------------------------------------------------------------
(* Reference. *)

(* The least set with the output and the sources of all its members. *)
Needed ==
  {i \in Slots :
     \A S \in SUBSET Slots :
       output.index \in S /\ (\A c \in Links : c[2] \in S => c[1] \in S)
         => i \in S}

(* What the output needs is complete, and acyclic: in every set of nodes   *)
(* some node reads no other of the set.                                    *)
Sound ==
  /\ output # NoNodeId
  /\ \A i \in Needed : Cardinality(Into(i)) = ExpectedInputs[node[i]]
  /\ \A S \in (SUBSET Needed) \ {{}} :
       \E i \in S : \A c \in Links : ~(c[2] = i /\ c[1] \in S)

(* The term of the output, read off the graph. *)
Meaning ==
  LET term[d \in 0..MaxNodes] ==
        [i \in Slots |->
           IF d = 0 \/ node[i] = "none" THEN Silent
           ELSE <<i>> \o [k \in 1..ExpectedInputs[node[i]] |->
                  IF Sources(i, k - 1) = {} THEN Silent
                  ELSE term[d - 1][SourceOf(i, k - 1)]]]
  IN  term[MaxNodes][output.index]

(* The nodes whose output must be kept while step n of an order runs: made *)
(* in that step, or made before and read in it or later.                   *)
LiveAt(n, order) ==
  {order[m] : m \in
     {m \in 1..n : \/ m = n
                   \/ \E l \in n..Len(order) : Edges(order[m], order[l]) > 0}}

Greatest(S) == IF S = {} THEN 0 ELSE CHOOSE m \in S : \A n \in S : n <= m

-----------------------------------------------------------------------------
(* The graph stays well formed, whatever edits made it, and Compile        *)
(* accepts it exactly when its output is designated, has all the inputs it *)
(* needs and does not depend on itself, whatever is wrong in the parts it  *)
(* does not need.                                                          *)
CompilesExactlySound == TypeOK /\ (Compiles <=> Sound)

(* A plan renders what the graph means: each node runs once, after those   *)
(* it reads, and no buffer is written while a later step still needs what  *)
(* is in it, nor by a node of another width.                               *)
RendersMeaning == Compiles => Render(Plan) = Meaning

(* Buffers are reused as soon as they can be: there are as many of each    *)
(* width as outputs of that width are needed at once, at some step.        *)
BuffersReused ==
  Compiles =>
    LET order == Order(Reachable)
        plan  == PlanOf(Reachable, order)
    IN  \A c \in {OutputChannels[t] : t \in NodeTypes} :
          Cardinality({b \in DOMAIN plan.channels : plan.channels[b] = c}) =
            Greatest({Cardinality({i \in LiveAt(n, order) :
                                     OutputChannels[node[i]] = c}) :
                        n \in DOMAIN order})
=============================================================================
