-------------------------- MODULE RenderingProofs ---------------------------
(***************************************************************************)
(* Proofs about what is rendered.                                          *)
(*                                                                         *)
(* Of GraphCompiler, for every set of node types, every number of slots    *)
(* and of connections: edits keep the graph well formed; the walk, the     *)
(* order and the buffers that Compile computes in its loops are what they  *)
(* should be, so that it accepts exactly the sound graphs, its plan        *)
(* renders what the graph means, and has no buffer more than it needs.     *)
(*                                                                         *)
(* Of VoiceRendering, for every length of segments, asset and delay, all   *)
(* gains, ratios and ramps: what is heard does not depend on where a block *)
(* is cut, every frame is heard when it should be, and nothing jumps that  *)
(* is meant to glide.                                                      *)
(*                                                                         *)
(* The loops are recursive functions. That each is the function its        *)
(* definition says, and that a property is kept by each of its turns, is   *)
(* shown by the inductions of Recursion.                                   *)
(***************************************************************************)
EXTENDS GraphCompiler, VoiceRendering, Recursion, FiniteSetTheorems, SequenceTheorems

-----------------------------------------------------------------------------
(* The graph that edits make.                                              *)

Wire == [source_node: NodeId, destination_node: NodeId, destination_input_index: Nat]

GraphInv == TypeOK /\ connections \in Seq(Wire) /\ output \in NodeId \cup {NoNodeId}

(* What is left of the connections are other connections, each once. *)
IsLeft(t, s, those) ==
  \E g \in [1..Len(t) -> 1..Len(s)] :
    /\ \A m \in 1..Len(t) : t[m] = s[g[m]] /\ t[m] \notin those
    /\ \A m, n \in 1..Len(t) : g[m] = g[n] => m = n

(* Each turn of the loop. *)
LeftSoFar(t, s, those, n) ==
  /\ t \in Seq(Wire) /\ Len(t) <= n
  /\ \E g \in [1..Len(t) -> 1..n] :
       /\ \A m \in 1..Len(t) : t[m] = s[g[m]] /\ t[m] \notin those
       /\ \A l, m \in 1..Len(t) : g[l] = g[m] => l = m

LEMMA LeftAppended ==
  ASSUME NEW s \in Seq(Wire), NEW those, NEW n \in 0..(Len(s) - 1), NEW t,
         LeftSoFar(t, s, those, n), s[n + 1] \notin those
  PROVE  LeftSoFar(Append(t, s[n + 1]), s, those, n + 1)
<1> DEFINE u == Append(t, s[n + 1])
<1>1. PICK g \in [1..Len(t) -> 1..n] :
        /\ \A m \in 1..Len(t) : t[m] = s[g[m]] /\ t[m] \notin those
        /\ \A l, m \in 1..Len(t) : g[l] = g[m] => l = m
  BY DEF LeftSoFar
<1>2. t \in Seq(Wire) /\ Len(t) \in Nat /\ Len(t) <= n /\ n \in Nat /\ s[n + 1] \in Wire
  BY DEF LeftSoFar
<1>3. /\ u \in Seq(Wire) /\ Len(u) = Len(t) + 1 /\ u[Len(t) + 1] = s[n + 1]
      /\ \A m \in 1..Len(t) : u[m] = t[m]
  BY <1>2
<1> DEFINE h == [m \in 1..(Len(t) + 1) |-> IF m = Len(t) + 1 THEN n + 1 ELSE g[m]]
<1> HIDE DEF u
<1>4. \A m \in 1..(Len(t) + 1) : m \in 1..Len(t) \/ m = Len(t) + 1
  BY <1>2
<1>5. \A m \in 1..Len(t) : m # Len(t) + 1 /\ g[m] \in 1..n /\ g[m] # n + 1 /\ m \in 1..(Len(t) + 1)
  BY <1>2
<1>6. /\ \A m \in 1..Len(t) : h[m] = g[m]
      /\ h[Len(t) + 1] = n + 1
  BY <1>2, <1>5
<1>7. h \in [1..(Len(t) + 1) -> 1..(n + 1)]
  BY <1>2, <1>4, <1>5
<1> HIDE DEF h
<1>8. \A m \in 1..(Len(t) + 1) : u[m] = s[h[m]] /\ u[m] \notin those
  BY <1>1, <1>3, <1>4, <1>6
<1>9. \A l, m \in 1..(Len(t) + 1) : h[l] = h[m] => l = m
  BY <1>1, <1>4, <1>5, <1>6
<1>10. Len(u) <= n + 1
  BY <1>2, <1>3
<1>11. \E f \in [1..Len(u) -> 1..(n + 1)] :
         /\ \A m \in 1..Len(u) : u[m] = s[f[m]] /\ u[m] \notin those
         /\ \A l, m \in 1..Len(u) : f[l] = f[m] => l = m
  <2>1. h \in [1..Len(u) -> 1..(n + 1)]
    BY <1>3, <1>7
  <2>2. \A m \in 1..Len(u) : u[m] = s[h[m]] /\ u[m] \notin those
    BY <1>3, <1>8
  <2>3. \A l, m \in 1..Len(u) : h[l] = h[m] => l = m
    BY <1>3, <1>9
  <2> QED
    BY <2>1, <2>2, <2>3, Zenon
<1>12. LeftSoFar(u, s, those, n + 1)
  BY <1>3, <1>10, <1>11 DEF LeftSoFar
<1> QED
  BY <1>12 DEF u

LEMMA WithoutThose ==
  ASSUME NEW those, connections \in Seq(Wire)
  PROVE  /\ Without(those) \in Seq(Wire) /\ Len(Without(those)) <= Len(connections)
         /\ IsLeft(Without(those), connections, those)
<1> DEFINE N == Len(connections)
           Is(e) == e = [n \in 0..N |->
                           IF n = 0 THEN <<>>
                           ELSE IF connections[n] \in those THEN e[n - 1]
                           ELSE Append(e[n - 1], connections[n])]
           next == [p \in Nat \X Seq(Wire) |->
                      IF p[1] + 1 \in 1..N /\ connections[p[1] + 1] \notin those
                      THEN Append(p[2], connections[p[1] + 1]) ELSE p[2]]
<1>1. N \in Nat /\ \A n \in 1..N : connections[n] \in Wire
  OBVIOUS
<1>2. next \in [Nat \X Seq(Wire) -> Seq(Wire)]
  BY <1>1
<1>3. \A n \in 0..(N - 1), t \in Seq(Wire) :
        next[<<n, t>>] = IF connections[n + 1] \in those THEN t
                         ELSE Append(t, connections[n + 1])
  BY <1>1
<1> HIDE DEF next, N
<1>4. <<>> \in Seq(Wire)
  OBVIOUS
<1>5. PICK e \in [0..N -> Seq(Wire)] : Runs(e, N, <<>>, next)
  BY <1>1, <1>2, <1>4, RecursionTo
<1>6. e[0] = <<>> /\ \A n \in 0..(N - 1) :
        e[n + 1] = IF connections[n + 1] \in those THEN e[n]
                   ELSE Append(e[n], connections[n + 1])
  <2>1. \A n \in 0..(N - 1) : e[n] \in Seq(Wire)
    BY <1>1
  <2> QED
    BY <1>3, <1>5, <2>1 DEF Runs
<1>7. Is(e)
  <2>1. ASSUME NEW n \in 0..N
        PROVE  e[n] = IF n = 0 THEN <<>>
                      ELSE IF connections[n] \in those THEN e[n - 1]
                      ELSE Append(e[n - 1], connections[n])
    <3>1. CASE n # 0
      <4>1. n - 1 \in 0..(N - 1) /\ (n - 1) + 1 = n
        BY <1>1, <3>1
      <4> QED
        BY <1>6, <3>1, <4>1
    <3> QED
      BY <1>6, <3>1
  <2> QED
    BY <1>5, <2>1
<1> DEFINE left == CHOOSE d : Is(d)
<1>8. Without(those) = left[N]
  BY DEF Without, N
<1> HIDE DEF Is
<1>9. Is(left)
  BY <1>7
<1> HIDE DEF left
<1>10. left = [n \in 0..N |->
                 IF n = 0 THEN <<>>
                 ELSE IF connections[n] \in those THEN left[n - 1]
                 ELSE Append(left[n - 1], connections[n])]
  BY <1>9 DEF Is
<1>11. \A n \in 0..N : left[n] = e[n]
  <2>1. left[0] = e[0]
    BY <1>1, <1>6, <1>10
  <2>2. ASSUME NEW n \in 0..(N - 1), left[n] = e[n] PROVE left[n + 1] = e[n + 1]
    <3>1. n + 1 \in 0..N /\ n + 1 # 0 /\ (n + 1) - 1 = n
      BY <1>1
    <3>2. left[n + 1] = IF connections[n + 1] \in those THEN left[n]
                        ELSE Append(left[n], connections[n + 1])
      BY <1>10, <3>1
    <3> QED
      BY <1>6, <2>2, <3>2
  <2>3. Alike(left, e, N)
    BY <1>1, <2>1, <2>2 DEF Alike
  <2> QED
    BY <1>1, <2>3, Agree
<1> DEFINE S == {n \in 0..N : LeftSoFar(e[n], connections, those, n)}
<1>12. 0 \in S
  <2>1. LeftSoFar(<<>>, connections, those, 0)
    <3>1. Len(<<>>) = 0 /\ <<>> \in Seq(Wire) /\ 1..0 = {}
      OBVIOUS
    <3> DEFINE g == [m \in 1..0 |-> 0]
    <3>2. g \in [1..0 -> 1..0]
      BY <3>1
    <3> HIDE DEF g
    <3>3. \E f \in [1..Len(<<>>) -> 1..0] :
            /\ \A m \in 1..Len(<<>>) : <<>>[m] = connections[f[m]] /\ <<>>[m] \notin those
            /\ \A l, m \in 1..Len(<<>>) : f[l] = f[m] => l = m
      <4>1. g \in [1..Len(<<>>) -> 1..0] /\ 1..Len(<<>>) = {}
        BY <3>1, <3>2
      <4> QED
        BY <4>1
    <3> QED
      <4>1. Len(<<>>) <= 0
        BY <3>1
      <4> QED
        BY <3>1, <3>3, <4>1, Zenon DEF LeftSoFar
  <2> QED
    BY <1>1, <1>6, <2>1
<1>13. ASSUME NEW n \in 0..(N - 1), n \in S PROVE n + 1 \in S
  <2>1. LeftSoFar(e[n], connections, those, n) /\ n + 1 \in 0..N
    BY <1>1, <1>13
  <2>2. CASE connections[n + 1] \in those
    <3>1. PICK g \in [1..Len(e[n]) -> 1..n] :
            /\ \A m \in 1..Len(e[n]) : e[n][m] = connections[g[m]] /\ e[n][m] \notin those
            /\ \A l, m \in 1..Len(e[n]) : g[l] = g[m] => l = m
      BY <2>1 DEF LeftSoFar
    <3>2. g \in [1..Len(e[n]) -> 1..(n + 1)]
      <4>1. \A m \in 1..n : m \in 1..(n + 1)
        BY <1>1
      <4> QED
        BY <4>1
    <3>3. e[n] \in Seq(Wire) /\ Len(e[n]) <= n
      BY <2>1 DEF LeftSoFar
    <3>4. Len(e[n]) <= n + 1
      BY <1>1, <3>3
    <3>5. LeftSoFar(e[n], connections, those, n + 1)
      BY <3>1, <3>2, <3>3, <3>4 DEF LeftSoFar
    <3> QED
      BY <1>6, <2>1, <2>2, <3>5
  <2>3. CASE connections[n + 1] \notin those
    <3>1. LeftSoFar(Append(e[n], connections[n + 1]), connections, those, n + 1)
      BY <2>1, <2>3, LeftAppended DEF N
    <3> QED
      BY <1>6, <2>1, <2>3, <3>1
  <2> QED
    BY <2>2, <2>3
<1> HIDE DEF S
<1>14. N \in S
  <2>1. \A n \in 0..N : n \in S
    BY <1>1, <1>12, <1>13, InductionTo
  <2> QED
    BY <1>1, <2>1
<1>15. LeftSoFar(Without(those), connections, those, N)
  BY <1>1, <1>8, <1>11, <1>14 DEF S
<1> QED
  BY <1>15 DEF LeftSoFar, IsLeft, N

(* A connection as the graph keeps it. *)
WireOK(c) ==
  /\ IsValidNode(c.source_node) /\ IsValidNode(c.destination_node)
  /\ c.source_node # c.destination_node
  /\ c.destination_input_index < ExpectedInputs[node[c.destination_node.index]]
  /\ OutputChannels[node[c.source_node.index]] = InputChannels[node[c.destination_node.index]]

OneWirePerInput ==
  \A m, n \in DOMAIN connections :
    Leads(connections[m], connections[n].destination_node,
          connections[n].destination_input_index) => m = n

LEMMA GraphParts ==
  GraphInv <=>
    /\ node \in [Slots -> NodeTypes \cup {"none"}]
    /\ generation \in [Slots -> Nat]
    /\ output = NoNodeId \/ IsValidNode(output)
    /\ Len(connections) <= MaxConnections
    /\ \A n \in DOMAIN connections : WireOK(connections[n])
    /\ OneWirePerInput
    /\ connections \in Seq(Wire)
    /\ output \in NodeId \cup {NoNodeId}
BY Zenon DEF GraphInv, TypeOK, WireOK, OneWirePerInput

(* A step that keeps the connections, and the nodes they join, keeps them  *)
(* well formed.                                                            *)
LEMMA InitGraphInv == GraphInit => GraphInv
<1> SUFFICES ASSUME GraphInit PROVE GraphInv
  OBVIOUS
<1>1. /\ connections = <<>> /\ connections \in Seq(Wire) /\ Len(connections) = 0
      /\ DOMAIN connections = {}
  BY DEF GraphInit
<1>2. node \in [Slots -> NodeTypes \cup {"none"}] /\ generation \in [Slots -> Nat]
  BY DEF GraphInit
<1>3. output = NoNodeId
  BY DEF GraphInit
<1>4. Len(connections) <= MaxConnections
  BY <1>1, GraphAssumption
<1>5. OneWirePerInput
  BY <1>1, Zenon DEF OneWirePerInput
<1> QED
  BY <1>1, <1>2, <1>3, <1>4, <1>5, GraphParts

LEMMA IssuedNodeIds ==
  ASSUME GraphInv, NEW id \in Issued
  PROVE  id \in NodeId
<1>1. PICK i \in Slots : id \in [index: {i}, generation: 1..generation[i]]
  BY DEF Issued
<1>2. generation[i] \in Nat
  BY GraphParts
<1> QED
  BY <1>1, <1>2 DEF NodeId

LEMMA AddKeepsGraphInv ==
  ASSUME GraphInv, NEW t \in NodeTypes, AddNode(t)
  PROVE  GraphInv'
<1>1. PICK i \in Slots :
        /\ node[i] = "none"
        /\ node' = [node EXCEPT ![i] = t]
        /\ generation' = [generation EXCEPT ![i] = @ + 1]
  BY DEF AddNode
<1>2. connections' = connections /\ output' = output
  BY DEF AddNode
<1>3. /\ node \in [Slots -> NodeTypes \cup {"none"}] /\ generation \in [Slots -> Nat]
      /\ output = NoNodeId \/ IsValidNode(output)
      /\ Len(connections) <= MaxConnections
      /\ \A n \in DOMAIN connections : WireOK(connections[n])
      /\ OneWirePerInput
      /\ connections \in Seq(Wire)
      /\ output \in NodeId \cup {NoNodeId}
  BY GraphParts
<1>4. node' \in [Slots -> NodeTypes \cup {"none"}]
  BY <1>1, <1>3
<1>5. generation' \in [Slots -> Nat]
  BY <1>1, <1>3
<1>6. \A j \in Slots : node[j] # "none" => node'[j] = node[j] /\ generation'[j] = generation[j]
  BY <1>1, <1>3
<1>7. ASSUME NEW id, IsValidNode(id) PROVE IsValidNode(id)'
  BY <1>6, <1>7 DEF IsValidNode
<1>8. output' = NoNodeId' \/ IsValidNode(output)'
  BY <1>2, <1>3, <1>6 DEF IsValidNode, NoNodeId
<1>9. ASSUME NEW c, WireOK(c) PROVE WireOK(c)'
  <2>1. IsValidNode(c.source_node) /\ IsValidNode(c.destination_node)
    BY <1>9 DEF WireOK
  <2>2. IsValidNode(c.source_node)' /\ IsValidNode(c.destination_node)'
    BY <2>1, <1>7
  <2>3. /\ node'[c.source_node.index] = node[c.source_node.index]
        /\ node'[c.destination_node.index] = node[c.destination_node.index]
    BY <2>1, <1>6 DEF IsValidNode
  <2> QED
    BY <1>9, <2>2, <2>3 DEF WireOK
<1>10. \A n \in DOMAIN connections' : WireOK(connections[n])'
  <2>1. ASSUME NEW n \in DOMAIN connections' PROVE WireOK(connections[n])'
    <3>1. PICK c : c = connections[n]
      OBVIOUS
    <3>2. WireOK(c)'
      BY <1>2, <1>3, <1>9, <3>1
    <3>3. connections'[n] = c
      BY <1>2, <3>1
    <3> QED
      BY <3>2, <3>3 DEF WireOK, IsValidNode
  <2> QED
    BY <2>1
<1>11. OneWirePerInput'
  BY <1>2, <1>3 DEF OneWirePerInput, Leads
<1>12. /\ Len(connections') <= MaxConnections /\ connections' \in Seq(Wire)
       /\ output' \in NodeId \cup {NoNodeId}
  BY <1>2, <1>3
<1> QED
  BY <1>4, <1>5, <1>8, <1>10, <1>11, <1>12 DEF GraphInv, TypeOK, WireOK, OneWirePerInput

(* An edit that only leaves out connections keeps each input to one. *)
LEMMA LeftOnePerInput ==
  ASSUME GraphInv, NEW those, connections' = Without(those)
  PROVE  /\ connections' \in Seq(Wire) /\ Len(connections') <= MaxConnections
         /\ OneWirePerInput'
         /\ \A n \in DOMAIN connections' :
              \E m \in DOMAIN connections :
                connections'[n] = connections[m] /\ connections'[n] \notin those
<1>1. connections \in Seq(Wire) /\ Len(connections) <= MaxConnections /\ OneWirePerInput
  BY GraphParts
<1>2. /\ connections' \in Seq(Wire) /\ Len(connections') <= Len(connections)
      /\ IsLeft(connections', connections, those)
  BY <1>1, WithoutThose
<1>3. Len(connections') <= MaxConnections
  <2>1. Len(connections') \in Nat /\ Len(connections) \in Nat /\ MaxConnections \in Nat
    BY <1>1, <1>2, GraphAssumption
  <2> QED
    BY <1>1, <1>2, <2>1
<1>4. DOMAIN connections' = 1..Len(connections') /\ DOMAIN connections = 1..Len(connections)
  BY <1>1, <1>2
<1>5. PICK g \in [1..Len(connections') -> 1..Len(connections)] :
        /\ \A m \in 1..Len(connections') :
             connections'[m] = connections[g[m]] /\ connections'[m] \notin those
        /\ \A m, n \in 1..Len(connections') : g[m] = g[n] => m = n
  BY <1>2 DEF IsLeft
<1>6. ASSUME NEW m \in 1..Len(connections'), NEW n \in 1..Len(connections'),
             Leads(connections'[m], connections'[n].destination_node,
                   connections'[n].destination_input_index)
      PROVE  m = n
  <2>1. g[m] \in DOMAIN connections /\ g[n] \in DOMAIN connections
    BY <1>4
  <2>2. connections'[m] = connections[g[m]] /\ connections'[n] = connections[g[n]]
    BY <1>5
  <2>3. Leads(connections[g[m]], connections[g[n]].destination_node,
              connections[g[n]].destination_input_index)
    BY <1>6, <2>2
  <2>4. g[m] = g[n]
    BY <1>1, <2>1, <2>3 DEF OneWirePerInput
  <2> QED
    BY <1>5, <2>4
<1>7. OneWirePerInput'
  BY <1>4, <1>6 DEF OneWirePerInput, Leads
<1>8. ASSUME NEW n \in DOMAIN connections'
      PROVE  \E m \in DOMAIN connections :
               connections'[n] = connections[m] /\ connections'[n] \notin those
  <2>1. g[n] \in DOMAIN connections
    BY <1>4
  <2> QED
    BY <1>4, <1>5, <2>1
<1> QED
  BY <1>2, <1>3, <1>7, <1>8

LEMMA RemoveKeepsGraphInv ==
  ASSUME GraphInv, NEW id \in Issued, RemoveNode(id)
  PROVE  GraphInv'
<1> DEFINE those == {c \in Wires : Touches(c, id)}
<1>1. /\ IsValidNode(id) /\ node' = [node EXCEPT ![id.index] = "none"]
      /\ connections' = Without(those)
      /\ output' = IF output = id THEN NoNodeId ELSE output
      /\ generation' = generation
  BY DEF RemoveNode
<1>2. id \in NodeId
  BY IssuedNodeIds
<1>3. /\ node \in [Slots -> NodeTypes \cup {"none"}] /\ generation \in [Slots -> Nat]
      /\ output = NoNodeId \/ IsValidNode(output)
      /\ \A n \in DOMAIN connections : WireOK(connections[n])
      /\ connections \in Seq(Wire)
      /\ output \in NodeId \cup {NoNodeId}
  BY GraphParts
<1>4. node' \in [Slots -> NodeTypes \cup {"none"}] /\ generation' \in [Slots -> Nat]
  BY <1>1, <1>3
<1>5. ASSUME NEW j \in NodeId, IsValidNode(j), j # id
      PROVE  IsValidNode(j)' /\ node'[j.index] = node[j.index]
  <2>1. j.index # id.index
    BY <1>1, <1>2, <1>5 DEF IsValidNode, NodeId
  <2> QED
    BY <1>1, <1>3, <1>5, <2>1 DEF IsValidNode
<1>6. output' = NoNodeId' \/ IsValidNode(output)'
  <2>1. CASE output = id \/ output = NoNodeId
    BY <1>1, <2>1 DEF NoNodeId
  <2>2. CASE output # id /\ output # NoNodeId
    <3>1. PICK j \in NodeId : j = output
      BY <1>3, <2>2
    <3>2. IsValidNode(j)' /\ output' = j
      BY <1>1, <1>3, <1>5, <2>2, <3>1
    <3> QED
      BY <3>2 DEF IsValidNode
  <2> QED
    BY <2>1, <2>2
<1>7. output' \in NodeId \cup {NoNodeId}
  BY <1>1, <1>3
<1> HIDE DEF those
<1>8. /\ connections' \in Seq(Wire) /\ Len(connections') <= MaxConnections
      /\ OneWirePerInput'
      /\ \A n \in DOMAIN connections' :
           \E m \in DOMAIN connections :
             connections'[n] = connections[m] /\ connections'[n] \notin those
  BY <1>1, LeftOnePerInput
<1>9. \A n \in DOMAIN connections' : WireOK(connections[n])'
  <2>1. ASSUME NEW n \in DOMAIN connections' PROVE WireOK(connections[n])'
    <3>1. PICK m \in DOMAIN connections :
            connections'[n] = connections[m] /\ connections'[n] \notin those
      BY <1>8
    <3>2. PICK c : c = connections[m]
      OBVIOUS
    <3>3. c \in Wire /\ WireOK(c) /\ c \in Wires /\ c \notin those
      BY <1>3, <3>1, <3>2 DEF Wires
    <3>4. c.source_node # id /\ c.destination_node # id
      BY <3>3 DEF those, Touches
    <3>5. /\ c.source_node \in NodeId /\ c.destination_node \in NodeId
          /\ IsValidNode(c.source_node) /\ IsValidNode(c.destination_node)
      BY <3>3 DEF Wire, WireOK
    <3>6. WireOK(c)'
      BY <1>5, <3>3, <3>4, <3>5 DEF WireOK
    <3>7. connections'[n] = c
      BY <3>1, <3>2
    <3> QED
      BY <3>6, <3>7 DEF WireOK, IsValidNode
  <2> QED
    BY <2>1
<1> QED
  BY <1>4, <1>6, <1>7, <1>8, <1>9 DEF GraphInv, TypeOK, WireOK, OneWirePerInput

LEMMA DisconnectKeepsGraphInv ==
  ASSUME GraphInv, NEW d \in Issued, NEW k \in Indices, Disconnect(d, k)
  PROVE  GraphInv'
<1> DEFINE those == {c \in Wires : Leads(c, d, k)}
<1>1. /\ connections' = Without(those)
      /\ node' = node /\ generation' = generation /\ output' = output
  BY DEF Disconnect
<1>2. /\ node \in [Slots -> NodeTypes \cup {"none"}] /\ generation \in [Slots -> Nat]
      /\ output = NoNodeId \/ IsValidNode(output)
      /\ \A n \in DOMAIN connections : WireOK(connections[n])
      /\ output \in NodeId \cup {NoNodeId}
  BY GraphParts
<1> HIDE DEF those
<1>3. /\ connections' \in Seq(Wire) /\ Len(connections') <= MaxConnections
      /\ OneWirePerInput'
      /\ \A n \in DOMAIN connections' :
           \E m \in DOMAIN connections :
             connections'[n] = connections[m] /\ connections'[n] \notin those
  BY <1>1, LeftOnePerInput
<1>4. /\ node' \in [Slots -> NodeTypes \cup {"none"}] /\ generation' \in [Slots -> Nat]
      /\ output' = NoNodeId' \/ IsValidNode(output)'
      /\ output' \in NodeId \cup {NoNodeId}
  BY <1>1, <1>2 DEF IsValidNode, NoNodeId
<1>5. \A n \in DOMAIN connections' : WireOK(connections[n])'
  BY <1>1, <1>2, <1>3 DEF WireOK, IsValidNode
<1> QED
  BY <1>3, <1>4, <1>5 DEF GraphInv, TypeOK, WireOK, OneWirePerInput

LEMMA ConnectKeepsGraphInv ==
  ASSUME GraphInv, NEW s \in Issued, NEW d \in Issued, NEW k \in Indices, Connect(s, d, k)
  PROVE  GraphInv'
<1> DEFINE w == Connection(s, d, k)
           N == Len(connections)
<1>1. s \in NodeId /\ d \in NodeId
  BY IssuedNodeIds
<1>2. k \in Nat
  BY DEF Indices, MaxNodeInputs
<1>3. w \in Wire /\ w.source_node = s /\ w.destination_node = d /\ w.destination_input_index = k
  BY <1>1, <1>2 DEF Wire, Connection
<1>4. /\ node \in [Slots -> NodeTypes \cup {"none"}] /\ generation \in [Slots -> Nat]
      /\ output = NoNodeId \/ IsValidNode(output)
      /\ \A n \in DOMAIN connections : WireOK(connections[n])
      /\ OneWirePerInput
      /\ connections \in Seq(Wire)
      /\ output \in NodeId \cup {NoNodeId}
  BY GraphParts
<1>5. /\ WireOK(w) /\ \A n \in DOMAIN connections : ~Leads(connections[n], d, k)
      /\ N < MaxConnections /\ connections' = Append(connections, w)
      /\ node' = node /\ generation' = generation /\ output' = output
  BY <1>3 DEF Connect, WireOK
<1> HIDE DEF w
<1>6. N \in Nat /\ DOMAIN connections = 1..N
  BY <1>4
<1>7. /\ connections' \in Seq(Wire) /\ Len(connections') = N + 1
      /\ DOMAIN connections' = 1..(N + 1)
      /\ connections'[N + 1] = w /\ \A n \in 1..N : connections'[n] = connections[n]
  BY <1>3, <1>4, <1>5
<1>8. Len(connections') <= MaxConnections
  BY <1>5, <1>6, <1>7, GraphAssumption
<1>9. \A n \in 1..(N + 1) : n \in 1..N \/ n = N + 1
  BY <1>6
<1> HIDE DEF N
<1>10. \A n \in DOMAIN connections' : WireOK(connections'[n])
  BY <1>4, <1>5, <1>6, <1>7, <1>9
<1>11. \A n \in DOMAIN connections' : WireOK(connections[n])'
  BY <1>5, <1>10 DEF WireOK, IsValidNode
<1>12. OneWirePerInput'
  <2>1. ASSUME NEW m \in 1..(N + 1), NEW n \in 1..(N + 1),
               Leads(connections'[m], connections'[n].destination_node,
                     connections'[n].destination_input_index)
        PROVE  m = n
    <3>1. CASE m \in 1..N /\ n \in 1..N
      BY <1>4, <1>6, <1>7, <2>1, <3>1 DEF OneWirePerInput
    <3>2. CASE m = N + 1 /\ n \in 1..N
      <4>1. connections'[m] = w /\ connections'[n] = connections[n] /\ n \in DOMAIN connections
        BY <1>6, <1>7, <3>2
      <4>2. Leads(connections[n], d, k)
        BY <1>3, <2>1, <4>1 DEF Leads
      <4> QED
        BY <1>5, <4>1, <4>2
    <3>3. CASE m \in 1..N /\ n = N + 1
      <4>1. connections'[n] = w /\ connections'[m] = connections[m] /\ m \in DOMAIN connections
        BY <1>6, <1>7, <3>3
      <4>2. Leads(connections[m], d, k)
        BY <1>3, <2>1, <4>1 DEF Leads
      <4> QED
        BY <1>5, <4>1, <4>2
    <3> QED
      BY <1>9, <3>1, <3>2, <3>3
  <2> QED
    BY <1>7, <2>1 DEF OneWirePerInput, Leads
<1>13. /\ node' \in [Slots -> NodeTypes \cup {"none"}] /\ generation' \in [Slots -> Nat]
       /\ output' = NoNodeId' \/ IsValidNode(output)'
       /\ output' \in NodeId \cup {NoNodeId}
  BY <1>4, <1>5 DEF IsValidNode, NoNodeId
<1> QED
  BY <1>7, <1>8, <1>11, <1>12, <1>13 DEF GraphInv, TypeOK, WireOK, OneWirePerInput

LEMMA SetOutputKeepsGraphInv ==
  ASSUME GraphInv, NEW id \in Issued, SetOutput(id)
  PROVE  GraphInv'
<1>1. /\ IsValidNode(id) /\ output' = id /\ node' = node /\ generation' = generation
      /\ connections' = connections
  BY DEF SetOutput
<1>2. id \in NodeId
  BY IssuedNodeIds
<1> QED
  BY <1>1, <1>2 DEF GraphInv, TypeOK, IsValidNode, NoNodeId, Leads

LEMMA StutterKeepsGraphInv ==
  ASSUME GraphInv, UNCHANGED graphVars
  PROVE  GraphInv'
BY DEF GraphInv, TypeOK, IsValidNode, NoNodeId, Leads, graphVars

(* Whatever edits an application makes, the graph stays well formed: every *)
(* connection joins two nodes that are there, at an input the node has,    *)
(* with the channels it takes, and no two lead to one input.               *)
THEOREM GraphWellFormed == GraphSpec => []GraphInv
<1>1. GraphInit => GraphInv
  BY InitGraphInv
<1>2. GraphInv /\ [GraphNext]_graphVars => GraphInv'
  <2> SUFFICES ASSUME GraphInv, [GraphNext]_graphVars PROVE GraphInv'
    OBVIOUS
  <2>1. CASE \E t \in NodeTypes : AddNode(t)
    BY <2>1, AddKeepsGraphInv
  <2>2. CASE \E id \in Issued : RemoveNode(id) \/ SetOutput(id)
    BY <2>2, RemoveKeepsGraphInv, SetOutputKeepsGraphInv
  <2>3. CASE \E s, d \in Issued, k \in Indices : Connect(s, d, k)
    BY <2>3, ConnectKeepsGraphInv
  <2>4. CASE \E d \in Issued, k \in Indices : Disconnect(d, k)
    BY <2>4, DisconnectKeepsGraphInv
  <2>5. CASE UNCHANGED graphVars
    BY <2>5, StutterKeepsGraphInv
  <2> QED
    BY <2>1, <2>2, <2>3, <2>4, <2>5 DEF GraphNext
<1> QED
  BY <1>1, <1>2, PTL DEF GraphSpec

-----------------------------------------------------------------------------
(* Connections by the slots they join. *)

Src(n) == connections[n].source_node.index
Dst(n) == connections[n].destination_node.index
Inp(n) == connections[n].destination_input_index

LEMMA WireEnds ==
  ASSUME GraphInv
  PROVE  \A n \in DOMAIN connections :
           /\ Src(n) \in Slots /\ connections[n].source_node = NodeAt(Src(n))
           /\ Dst(n) \in Slots /\ connections[n].destination_node = NodeAt(Dst(n))
           /\ node[Src(n)] \in NodeTypes /\ node[Dst(n)] \in NodeTypes
           /\ Inp(n) \in Inputs(Dst(n))
           /\ Src(n) # Dst(n)
           /\ OutputChannels[node[Src(n)]] = InputChannels[node[Dst(n)]]
<1> SUFFICES ASSUME NEW n \in DOMAIN connections
             PROVE  /\ Src(n) \in Slots /\ connections[n].source_node = NodeAt(Src(n))
                    /\ Dst(n) \in Slots /\ connections[n].destination_node = NodeAt(Dst(n))
                    /\ node[Src(n)] \in NodeTypes /\ node[Dst(n)] \in NodeTypes
                    /\ Inp(n) \in Inputs(Dst(n))
                    /\ Src(n) # Dst(n)
                    /\ OutputChannels[node[Src(n)]] = InputChannels[node[Dst(n)]]
  OBVIOUS
<1>1. /\ node \in [Slots -> NodeTypes \cup {"none"}] /\ connections \in Seq(Wire)
      /\ WireOK(connections[n])
  BY GraphParts
<1>2. connections[n] \in Wire
  BY <1>1
<1>3. \A id \in NodeId : IsValidNode(id) =>
        id.index \in Slots /\ id = NodeAt(id.index) /\ node[id.index] \in NodeTypes
  BY <1>1 DEF IsValidNode, NodeId, NodeAt
<1>4. /\ connections[n].source_node \in NodeId /\ IsValidNode(connections[n].source_node)
      /\ connections[n].destination_node \in NodeId
      /\ IsValidNode(connections[n].destination_node)
      /\ connections[n].source_node # connections[n].destination_node
      /\ Inp(n) \in Nat
  BY <1>1, <1>2 DEF Wire, WireOK, Inp
<1>5. /\ Src(n) \in Slots /\ connections[n].source_node = NodeAt(Src(n))
      /\ Dst(n) \in Slots /\ connections[n].destination_node = NodeAt(Dst(n))
      /\ node[Src(n)] \in NodeTypes /\ node[Dst(n)] \in NodeTypes
  BY <1>3, <1>4, Zenon DEF Src, Dst
<1>6. Src(n) # Dst(n)
  BY <1>4, <1>5, Zenon
<1>7. Inp(n) \in Inputs(Dst(n))
  <2>1. ExpectedInputs[node[Dst(n)]] \in 0..MaxNodeInputs
    BY <1>5, GraphAssumption
  <2>2. Inp(n) < ExpectedInputs[node[Dst(n)]]
    BY <1>1 DEF WireOK, Inp, Dst
  <2> QED
    BY <1>4, <2>1, <2>2 DEF Inputs, MaxNodeInputs
<1>8. OutputChannels[node[Src(n)]] = InputChannels[node[Dst(n)]]
  BY <1>1 DEF WireOK, Src, Dst
<1> QED
  BY <1>5, <1>6, <1>7, <1>8

LEMMA NodeAtOnce == \A i, j : NodeAt(i) = NodeAt(j) => i = j
BY DEF NodeAt

LEMMA PlacesFinite ==
  ASSUME GraphInv
  PROVE  IsFiniteSet(DOMAIN connections) /\ DOMAIN connections = 1..Len(connections)
         /\ Len(connections) \in Nat
<1>1. DOMAIN connections = 1..Len(connections) /\ Len(connections) \in Nat
  BY GraphParts
<1>2. IsFiniteSet(1..Len(connections))
  BY <1>1, FS_Interval
<1> QED
  BY <1>1, <1>2

LEMMA IntoIs ==
  ASSUME GraphInv, NEW i \in Slots
  PROVE  Into(i) = {n \in DOMAIN connections : Dst(n) = i}
<1>1. \A n \in DOMAIN connections :
        connections[n].destination_node = NodeAt(i) <=> Dst(n) = i
  BY WireEnds, NodeAtOnce, Zenon
<1> QED
  BY <1>1 DEF Into

LEMMA FromIs ==
  ASSUME GraphInv, NEW i \in Slots
  PROVE  \A n \in DOMAIN connections : connections[n].source_node = NodeAt(i) <=> Src(n) = i
BY WireEnds, NodeAtOnce, Zenon

LEMMA EdgesIs ==
  ASSUME GraphInv, NEW i \in Slots, NEW j \in Slots
  PROVE  Edges(i, j) = Cardinality({n \in Into(j) : Src(n) = i})
<1>1. {n \in Into(j) : connections[n].source_node = NodeAt(i)} = {n \in Into(j) : Src(n) = i}
  BY FromIs DEF Into
<1> QED
  BY <1>1 DEF Edges

LEMMA LinksIs ==
  ASSUME GraphInv
  PROVE  Links = {<<Src(n), Dst(n)>> : n \in DOMAIN connections}
BY DEF Links, Wires, Src, Dst

LEMMA SourcesIs ==
  ASSUME GraphInv, NEW i \in Slots, NEW k
  PROVE  Sources(i, k) = {Src(n) : n \in {n \in Into(i) : Inp(n) = k}}
<1>1. \A n \in DOMAIN connections :
        Leads(connections[n], NodeAt(i), k) <=> n \in Into(i) /\ Inp(n) = k
  BY DEF Leads, Into, Inp
<1>2. ASSUME NEW x \in Sources(i, k)
      PROVE  x \in {Src(n) : n \in {n \in Into(i) : Inp(n) = k}}
  <2>1. PICK c \in Wires : Leads(c, NodeAt(i), k) /\ x = c.source_node.index
    BY <1>2 DEF Sources
  <2>2. PICK n \in DOMAIN connections : c = connections[n]
    BY DEF Wires
  <2> QED
    BY <1>1, <2>1, <2>2 DEF Src
<1>3. ASSUME NEW n \in Into(i), Inp(n) = k PROVE Src(n) \in Sources(i, k)
  <2>1. n \in DOMAIN connections
    BY DEF Into
  <2>2. connections[n] \in Wires /\ Leads(connections[n], NodeAt(i), k)
    BY <1>1, <1>3, <2>1 DEF Wires
  <2> QED
    BY <2>2 DEF Sources, Src
<1> QED
  BY <1>2, <1>3

(* One connection leads to an input, if any does. *)
LEMMA OneIntoInput ==
  ASSUME GraphInv, NEW i \in Slots, NEW m \in Into(i), NEW n \in Into(i), Inp(m) = Inp(n)
  PROVE  m = n
<1>1. m \in DOMAIN connections /\ n \in DOMAIN connections
  BY DEF Into
<1>2. Leads(connections[m], connections[n].destination_node,
            connections[n].destination_input_index)
  BY DEF Into, Leads, Inp
<1> QED
  BY <1>1, <1>2, GraphParts DEF OneWirePerInput

LEMMA IntoInputs ==
  ASSUME GraphInv, NEW i \in Slots, node[i] \in NodeTypes
  PROVE  (\A k \in Inputs(i) : Sources(i, k) # {})
           <=> Cardinality(Into(i)) = ExpectedInputs[node[i]]
<1> DEFINE E == ExpectedInputs[node[i]]
           f == [n \in Into(i) |-> Inp(n)]
<1>1. E \in Nat
  BY GraphAssumption DEF MaxNodeInputs
<1>2. Inputs(i) = 0..(E - 1)
  BY DEF Inputs
<1>3. Into(i) \subseteq DOMAIN connections /\ \A n \in Into(i) : Dst(n) = i
  BY IntoIs
<1>4. \A n \in Into(i) : Inp(n) \in Inputs(i)
  BY <1>3, WireEnds, Zenon
<1>5. f \in [Into(i) -> Inputs(i)]
  BY <1>4
<1>6. f \in Injection(Into(i), Inputs(i))
  <2>1. \A m, n \in Into(i) : f[m] = f[n] => m = n
    BY OneIntoInput
  <2> HIDE DEF f
  <2> QED
    BY <1>5, <2>1 DEF Injection, IsInjective
<1> HIDE DEF E
<1>7. IsFiniteSet(0..(E - 1)) /\ Cardinality(0..(E - 1)) = E
  <2>1. 0 \in Int /\ E - 1 \in Int
    BY <1>1
  <2>2. /\ IsFiniteSet(0..(E - 1))
        /\ Cardinality(0..(E - 1)) = IF 0 > E - 1 THEN 0 ELSE (E - 1) - 0 + 1
    BY <2>1, FS_Interval
  <2> QED
    BY <1>1, <2>2
<1>8. IsFiniteSet(Inputs(i)) /\ Cardinality(Inputs(i)) = E
  BY <1>2, <1>7
<1> HIDE DEF f
<1>9. Cardinality(Into(i)) = Cardinality(Inputs(i)) <=> f \in Surjection(Into(i), Inputs(i))
  BY <1>6, <1>8, FS_Injection
<1>10. f \in Surjection(Into(i), Inputs(i))
         <=> \A k \in Inputs(i) : \E n \in Into(i) : f[n] = k
  BY <1>5 DEF Surjection
<1>11. \A k \in Inputs(i) : Sources(i, k) # {} <=> \E n \in Into(i) : f[n] = k
  <2>1. \A n \in Into(i) : f[n] = Inp(n)
    BY DEF f
  <2>2. \A k : Sources(i, k) = {Src(n) : n \in {n \in Into(i) : Inp(n) = k}}
    BY SourcesIs
  <2> QED
    BY <2>1, <2>2
<1> QED
  BY <1>8, <1>9, <1>10, <1>11 DEF E

-----------------------------------------------------------------------------
(* The walk backwards from the output. *)

(* All that is read by a member is a member. *)
Closed(S) == \A c \in Links : c[2] \in S => c[1] \in S

(* One turn of the walk. *)
WithSources(S) == S \cup {l[1] : l \in {m \in Links : m[2] \in S}}

(* What Needed ranges over. *)
LEMMA NeededIs ==
  ASSUME NEW i
  PROVE  i \in Needed <=>
           i \in Slots /\ \A S \in SUBSET Slots : output.index \in S /\ Closed(S) => i \in S
BY DEF Needed, Closed

LEMMA LinksAre ==
  ASSUME GraphInv
  PROVE  \A c \in Links : c[1] \in Slots /\ c[2] \in Slots
<1>1. \A n \in DOMAIN connections : Src(n) \in Slots /\ Dst(n) \in Slots
  BY WireEnds
<1> QED
  BY <1>1, LinksIs

LEMMA ClosedIs ==
  ASSUME GraphInv, NEW S
  PROVE  Closed(S) <=> \A n \in DOMAIN connections : Dst(n) \in S => Src(n) \in S
<1>1. Links = {<<Src(n), Dst(n)>> : n \in DOMAIN connections}
  BY LinksIs
<1>2. \A n \in DOMAIN connections :
        <<Src(n), Dst(n)>> \in Links
          /\ <<Src(n), Dst(n)>>[1] = Src(n) /\ <<Src(n), Dst(n)>>[2] = Dst(n)
  BY <1>1
<1>3. ASSUME NEW c \in Links
      PROVE  \E n \in DOMAIN connections : c[1] = Src(n) /\ c[2] = Dst(n)
  BY <1>1
<1>4. ASSUME Closed(S), NEW n \in DOMAIN connections, Dst(n) \in S PROVE Src(n) \in S
  <2>1. PICK c \in Links : c[1] = Src(n) /\ c[2] = Dst(n)
    BY <1>2
  <2> QED
    BY <1>4, <2>1 DEF Closed
<1>5. ASSUME \A n \in DOMAIN connections : Dst(n) \in S => Src(n) \in S,
             NEW c \in Links, c[2] \in S
      PROVE  c[1] \in S
  <2>1. PICK n \in DOMAIN connections : c[1] = Src(n) /\ c[2] = Dst(n)
    BY <1>3
  <2> QED
    BY <1>5, <2>1
<1> QED
  BY <1>4, <1>5 DEF Closed

LEMMA BackType ==
  ASSUME GraphInv, NEW S \in SUBSET Slots
  PROVE  /\ WithSources(S) \in SUBSET Slots /\ S \subseteq WithSources(S)
         /\ Closed(S) => WithSources(S) = S
         /\ WithSources(S) = S => Closed(S)
         /\ \A T : S \subseteq T /\ Closed(T) => WithSources(S) \subseteq T
<1>1. WithSources(S) \in SUBSET Slots
  BY LinksAre DEF WithSources
<1> QED
  BY <1>1 DEF WithSources, Closed

LEMMA ReachableWalk ==
  ASSUME GraphInv, output.index \in Slots
  PROVE  \E w \in [0..MaxNodes -> SUBSET Slots] :
           /\ w[0] = {output.index}
           /\ \A n \in 0..(MaxNodes - 1) : w[n + 1] = WithSources(w[n])
           /\ Reachable = w[MaxNodes]
<1> DEFINE Is(e) == e = [n \in 0..MaxNodes |->
                           IF n = 0 THEN {output.index}
                           ELSE e[n - 1] \cup {l[1] : l \in {m \in Links : m[2] \in e[n - 1]}}]
           next == [p \in Nat \X SUBSET Slots |-> WithSources(p[2])]
<1>1. MaxNodes \in Nat
  BY GraphAssumption
<1>2. next \in [Nat \X SUBSET Slots -> SUBSET Slots]
  BY BackType
<1>3. \A n \in Nat, S \in SUBSET Slots : next[<<n, S>>] = WithSources(S)
  OBVIOUS
<1> HIDE DEF next
<1>4. {output.index} \in SUBSET Slots
  OBVIOUS
<1>5. PICK e \in [0..MaxNodes -> SUBSET Slots] : Runs(e, MaxNodes, {output.index}, next)
  BY <1>1, <1>2, <1>4, RecursionTo
<1>6. e[0] = {output.index} /\ \A n \in 0..(MaxNodes - 1) : e[n + 1] = WithSources(e[n])
  <2>1. \A n \in 0..(MaxNodes - 1) : e[n] \in SUBSET Slots /\ n \in Nat
    BY <1>1
  <2> QED
    BY <1>3, <1>5, <2>1 DEF Runs
<1>7. Is(e)
  <2>1. ASSUME NEW n \in 0..MaxNodes
        PROVE  e[n] = IF n = 0 THEN {output.index} ELSE WithSources(e[n - 1])
    <3>1. CASE n # 0
      <4>1. n - 1 \in 0..(MaxNodes - 1) /\ (n - 1) + 1 = n
        BY <1>1, <3>1
      <4> QED
        BY <1>6, <3>1, <4>1
    <3> QED
      BY <1>6, <3>1
  <2> QED
    BY <1>5, <2>1 DEF WithSources
<1> DEFINE walk == CHOOSE d : Is(d)
<1>8. Reachable = walk[MaxNodes]
  BY DEF Reachable
<1> HIDE DEF Is
<1>9. Is(walk)
  BY <1>7
<1> HIDE DEF walk
<1>10. walk = [n \in 0..MaxNodes |->
                 IF n = 0 THEN {output.index} ELSE WithSources(walk[n - 1])]
  BY <1>9 DEF Is, WithSources
<1>11. \A n \in 0..MaxNodes : walk[n] = e[n]
  <2>1. walk[0] = e[0]
    BY <1>1, <1>6, <1>10
  <2>2. ASSUME NEW n \in 0..(MaxNodes - 1), walk[n] = e[n] PROVE walk[n + 1] = e[n + 1]
    <3>1. n + 1 \in 0..MaxNodes /\ n + 1 # 0 /\ (n + 1) - 1 = n
      BY <1>1
    <3>2. walk[n + 1] = WithSources(walk[n])
      BY <1>10, <3>1
    <3> QED
      BY <1>6, <2>2, <3>2
  <2>3. Alike(walk, e, MaxNodes)
    BY <1>1, <2>1, <2>2 DEF Alike
  <2> QED
    BY <1>1, <2>3, Agree
<1>12. Reachable = e[MaxNodes]
  BY <1>1, <1>8, <1>11
<1> QED
  BY <1>6, <1>12

LEMMA SlotsFinite ==
  MaxNodes \in Nat /\ IsFiniteSet(Slots) /\ Cardinality(Slots) = MaxNodes
<1>1. MaxNodes \in Nat /\ 0 \in Int /\ MaxNodes - 1 \in Int
  BY GraphAssumption
<1>2. /\ IsFiniteSet(0..(MaxNodes - 1))
      /\ Cardinality(0..(MaxNodes - 1)) = IF 0 > MaxNodes - 1 THEN 0 ELSE (MaxNodes - 1) - 0 + 1
  BY <1>1, FS_Interval
<1>3. Cardinality(0..(MaxNodes - 1)) = MaxNodes
  BY <1>1, <1>2
<1> QED
  BY <1>1, <1>2, <1>3 DEF Slots

(* The walk has all the nodes the output needs, and no others. *)
LEMMA ReachableNeeded ==
  ASSUME GraphInv, output.index \in Slots
  PROVE  /\ Reachable = Needed /\ Reachable \in SUBSET Slots
         /\ output.index \in Reachable /\ Closed(Reachable)
<1>1. PICK w \in [0..MaxNodes -> SUBSET Slots] :
        /\ w[0] = {output.index}
        /\ \A n \in 0..(MaxNodes - 1) : w[n + 1] = WithSources(w[n])
        /\ Reachable = w[MaxNodes]
  BY ReachableWalk
<1>2. MaxNodes \in Nat
  BY GraphAssumption
<1> DEFINE H == {n \in 0..MaxNodes : output.index \in w[n] /\ w[n] \subseteq Needed}
<1>3. 0 \in H
  BY <1>1, <1>2, NeededIs
<1>4. ASSUME NEW n \in 0..(MaxNodes - 1), n \in H PROVE n + 1 \in H
  <2>1. w[n] \in SUBSET Slots /\ w[n + 1] = WithSources(w[n]) /\ n + 1 \in 0..MaxNodes
    BY <1>1, <1>2
  <2>2. output.index \in w[n + 1]
    BY <1>4, <2>1, BackType
  <2>3. ASSUME NEW i \in w[n + 1] PROVE i \in Needed
    <3>1. i \in Slots
      BY <2>1, BackType
    <3>2. ASSUME NEW S \in SUBSET Slots, output.index \in S, Closed(S) PROVE i \in S
      <4>1. w[n] \subseteq S
        BY <1>4, <3>2, NeededIs
      <4> QED
        BY <2>1, <3>2, <4>1, BackType
    <3> QED
      BY <3>1, <3>2, NeededIs
  <2> QED
    BY <2>1, <2>2, <2>3
<1> HIDE DEF H
<1>5. MaxNodes \in H
  <2>1. \A n \in 0..MaxNodes : n \in H
    BY <1>2, <1>3, <1>4, InductionTo
  <2> QED
    BY <1>2, <2>1
<1>6. output.index \in Reachable /\ Reachable \subseteq Needed /\ Reachable \in SUBSET Slots
  BY <1>1, <1>2, <1>5 DEF H
<1> DEFINE K == {n \in 0..MaxNodes : Closed(w[n]) \/ Cardinality(w[n]) >= n + 1}
<1>7. 0 \in K
  <2>1. Cardinality({output.index}) = 1
    BY FS_Singleton
  <2> QED
    <3>1. Cardinality(w[0]) = 1
      BY <1>1, <2>1
    <3>2. Cardinality(w[0]) >= 0 + 1
      BY <3>1
    <3> QED
      BY <1>2, <3>2
<1>8. ASSUME NEW n \in 0..(MaxNodes - 1), n \in K PROVE n + 1 \in K
  <2>1. w[n] \in SUBSET Slots /\ w[n + 1] = WithSources(w[n]) /\ n + 1 \in 0..MaxNodes
    BY <1>1, <1>2
  <2>2. CASE Closed(w[n])
    BY <2>1, <2>2, BackType
  <2>3. CASE ~Closed(w[n])
    <3>1. w[n] \in SUBSET w[n + 1] /\ w[n + 1] # w[n] /\ w[n + 1] \in SUBSET Slots
      BY <2>1, <2>3, BackType
    <3>2. IsFiniteSet(w[n + 1])
      BY <3>1, SlotsFinite, FS_Subset
    <3>3. /\ IsFiniteSet(w[n]) /\ Cardinality(w[n]) <= Cardinality(w[n + 1])
          /\ Cardinality(w[n + 1]) # Cardinality(w[n])
      BY <3>1, <3>2, FS_Subset
    <3>4. Cardinality(w[n]) \in Nat /\ Cardinality(w[n + 1]) \in Nat
      BY <3>2, <3>3, FS_CardinalityType
    <3>5. Cardinality(w[n]) >= n + 1
      BY <1>8, <2>3
    <3>6. Cardinality(w[n + 1]) >= (n + 1) + 1
      BY <1>2, <3>3, <3>4, <3>5
    <3> QED
      BY <2>1, <3>6
  <2> QED
    BY <2>2, <2>3
<1> HIDE DEF K
<1>9. MaxNodes \in K
  <2>1. \A n \in 0..MaxNodes : n \in K
    BY <1>2, <1>7, <1>8, InductionTo
  <2> QED
    BY <1>2, <2>1
<1>10. Closed(Reachable)
  <2>1. Closed(Reachable) \/ Cardinality(Reachable) >= MaxNodes + 1
    BY <1>1, <1>9 DEF K
  <2>2. IsFiniteSet(Reachable) /\ Cardinality(Reachable) <= MaxNodes
    BY <1>6, SlotsFinite, FS_Subset
  <2>3. Cardinality(Reachable) \in Nat
    BY <2>2, FS_CardinalityType
  <2> QED
    BY <1>2, <2>1, <2>2, <2>3
<1>11. Needed \subseteq Reachable
  BY <1>6, <1>10, NeededIs
<1> QED
  BY <1>6, <1>10, <1>11

-----------------------------------------------------------------------------
(* Kahn's algorithm. *)

(* The nodes taken so far. *)
Done(st) == {st.order[l] : l \in 1..Len(st.order)}

(* The connections into j whose source is not among those. *)
Waiting(j, those) == {n \in Into(j) : Src(n) \notin those}

SortState(R) == [ready: SUBSET R, degree: [R -> Int], order: Seq(R)]

(* Each node is taken once, and after those it reads. *)
Sorted(order) ==
  /\ \A l, m \in 1..Len(order) : order[l] = order[m] => l = m
  /\ \A l \in 1..Len(order) : \A n \in Into(order[l]) :
       \E m \in 1..(l - 1) : order[m] = Src(n)

(* A node's in-degree is what it waits for, and the nodes that wait for    *)
(* nothing are ready.                                                      *)
SortInv(R, st) ==
  /\ Sorted(st.order)
  /\ \A j \in R : st.degree[j] = Cardinality(Waiting(j, Done(st)))
  /\ st.ready = {i \in R : i \notin Done(st) /\ st.degree[i] = 0}

Sorts(R) == {st \in SortState(R) : SortInv(R, st)}

LEMMA WaitingLess ==
  ASSUME GraphInv, NEW j \in Slots, NEW i \in Slots, NEW those, i \notin those
  PROVE  /\ Cardinality(Waiting(j, those)) \in Nat
         /\ Cardinality(Waiting(j, those \cup {i}))
              = Cardinality(Waiting(j, those)) - Edges(i, j)
<1> DEFINE W == Waiting(j, those)
           V == Waiting(j, those \cup {i})
           F == {n \in Into(j) : Src(n) = i}
<1>1. IsFiniteSet(DOMAIN connections)
  BY PlacesFinite
<1>2. W \in SUBSET DOMAIN connections
  BY DEF Waiting, Into
<1>3. F \in SUBSET W /\ V = W \ F /\ W \cap F = F
  BY DEF Waiting
<1>4. Edges(i, j) = Cardinality(F)
  BY EdgesIs
<1> HIDE DEF W, V, F
<1>5. IsFiniteSet(W)
  BY <1>1, <1>2, FS_Subset
<1>6. Cardinality(W) \in Nat
  BY <1>5, FS_CardinalityType
<1>7. Cardinality(W \ F) = Cardinality(W) - Cardinality(W \cap F)
  BY <1>5, FS_Difference
<1>8. Cardinality(V) = Cardinality(W) - Edges(i, j)
  BY <1>3, <1>4, <1>7
<1> QED
  BY <1>6, <1>8 DEF W, V

LEMMA LeastReady ==
  ASSUME NEW S \in SUBSET Slots, S # {}
  PROVE  (CHOOSE i \in S : \A j \in S : i <= j) \in S
<1>1. S \subseteq Nat
  BY DEF Slots
<1>2. \E i \in S : \A j \in S : i <= j
  BY <1>1, LeastMember
<1> QED
  BY <1>2

LEMMA TakeReadySorts ==
  ASSUME GraphInv, NEW R \in SUBSET Slots, NEW st \in Sorts(R), st.ready # {}
  PROVE  /\ TakeReady(st) \in Sorts(R)
         /\ Len(TakeReady(st).order) = Len(st.order) + 1
<1> DEFINE cur == CHOOSE i \in st.ready : \A j \in st.ready : i <= j
           degree == [i \in DOMAIN st.degree |-> st.degree[i] - TakenOff(cur, i)]
           order == Append(st.order, cur)
           ready == (st.ready \ {cur}) \cup
                    {i \in DOMAIN degree : degree[i] = 0 /\ st.degree[i] > 0}
           t == TakeReady(st)
           N == Len(st.order)
<1>1. /\ st.ready \in SUBSET R /\ st.degree \in [R -> Int] /\ st.order \in Seq(R)
      /\ SortInv(R, st) /\ N \in Nat
  BY DEF Sorts, SortState
<1>2. t = [ready |-> ready, degree |-> degree, order |-> order]
  BY DEF TakeReady
<1>3. cur \in st.ready
  BY <1>1, LeastReady
<1> HIDE DEF cur
<1>4. /\ Sorted(st.order)
      /\ \A j \in R : st.degree[j] = Cardinality(Waiting(j, Done(st)))
      /\ st.ready = {i \in R : i \notin Done(st) /\ st.degree[i] = 0}
  BY <1>1 DEF SortInv
<1>5. cur \in R /\ cur \in Slots /\ cur \notin Done(st) /\ st.degree[cur] = 0
  BY <1>3, <1>4
<1>6. /\ order \in Seq(R) /\ Len(order) = N + 1 /\ order[N + 1] = cur
      /\ \A l \in 1..N : order[l] = st.order[l]
  BY <1>1, <1>5
<1> HIDE DEF order
<1>7. \A l \in 1..(N + 1) : l \in 1..N \/ l = N + 1
  BY <1>1
<1>8. 1..N \subseteq 1..(N + 1) /\ N + 1 \in 1..(N + 1)
  BY <1>1
<1>9. Done(t) = Done(st) \cup {cur}
  <2>1. Done(t) = {order[l] : l \in 1..(N + 1)}
    BY <1>2, <1>6 DEF Done
  <2>2. Done(st) = {st.order[l] : l \in 1..N}
    BY DEF Done
  <2> HIDE DEF N, t
  <2> QED
    BY <1>6, <1>7, <1>8, <2>1, <2>2
<1>10. \A j \in R : degree[j] = st.degree[j] - Edges(cur, j)
  BY <1>1 DEF TakenOff
<1>11. DOMAIN degree = R
  BY <1>1
<1>12. \A j \in R : degree[j] = Cardinality(Waiting(j, Done(t)))
  <2>1. ASSUME NEW j \in R PROVE degree[j] = Cardinality(Waiting(j, Done(t)))
    <3>1. /\ Cardinality(Waiting(j, Done(st) \cup {cur}))
               = Cardinality(Waiting(j, Done(st))) - Edges(cur, j)
      BY <1>5, WaitingLess
    <3> HIDE DEF degree, t
    <3> QED
      BY <1>4, <1>9, <1>10, <3>1
  <2> QED
    BY <2>1
<1>13. \A j \in R : Cardinality(Waiting(j, Done(t))) \in Nat /\ st.degree[j] \in Nat
  <2>1. ASSUME NEW j \in R
        PROVE  Cardinality(Waiting(j, Done(t))) \in Nat /\ st.degree[j] \in Nat
    <3> HIDE DEF t
    <3>1. IsFiniteSet(DOMAIN connections)
      BY PlacesFinite
    <3>2. /\ Waiting(j, Done(t)) \in SUBSET DOMAIN connections
          /\ Waiting(j, Done(st)) \in SUBSET DOMAIN connections
      BY DEF Waiting, Into
    <3>3. IsFiniteSet(Waiting(j, Done(t))) /\ IsFiniteSet(Waiting(j, Done(st)))
      BY <3>1, <3>2, FS_Subset
    <3> QED
      BY <1>4, <3>3, FS_CardinalityType
  <2> QED
    BY <2>1
<1>14. degree \in [R -> Int]
  <2>1. \A j \in R : degree[j] \in Int
    BY <1>12, <1>13
  <2>2. degree = [i \in R |-> degree[i]]
    BY <1>11
  <2> HIDE DEF degree
  <2> QED
    BY <2>1, <2>2
<1> HIDE DEF degree, t
<1>15. \A l \in 1..N : st.degree[st.order[l]] = 0 /\ st.order[l] \in R
  <2>1. ASSUME NEW l \in 1..N PROVE st.degree[st.order[l]] = 0 /\ st.order[l] \in R
    <3>1. st.order[l] \in R
      BY <1>1
    <3>2. \A n \in Into(st.order[l]) : Src(n) \in Done(st)
      <4>1. \A m \in 1..(l - 1) : m \in 1..N
        BY <1>1
      <4>2. \A n \in Into(st.order[l]) : \E m \in 1..(l - 1) : st.order[m] = Src(n)
        BY <1>4 DEF Sorted
      <4> QED
        BY <4>1, <4>2 DEF Done
    <3>3. Waiting(st.order[l], Done(st)) = {}
      BY <3>2 DEF Waiting
    <3> QED
      BY <1>4, <3>1, <3>3, FS_EmptySet
  <2> QED
    BY <2>1
<1>16. \A i \in Done(st) : i \in R /\ st.degree[i] = 0
  BY <1>15 DEF Done
<1>17. ready = {i \in R : i \notin Done(t) /\ degree[i] = 0}
  <2>1. ASSUME NEW i \in R
        PROVE  i \in ready <=> i \notin Done(t) /\ degree[i] = 0
    <3>1. i \in ready <=>
            \/ i \in st.ready /\ i # cur
            \/ degree[i] = 0 /\ st.degree[i] > 0
      BY <1>11
    <3>2. i \in st.ready <=> i \notin Done(st) /\ st.degree[i] = 0
      BY <1>4
    <3>3. i \in Done(t) <=> i \in Done(st) \/ i = cur
      BY <1>9
    <3>4. st.degree[i] = 0 => degree[i] = 0
      <4>1. Waiting(i, Done(t)) \in SUBSET Waiting(i, Done(st))
        BY <1>9 DEF Waiting
      <4>2. IsFiniteSet(Waiting(i, Done(st)))
        <5>1. Waiting(i, Done(st)) \in SUBSET DOMAIN connections
          BY DEF Waiting, Into
        <5> QED
          BY <5>1, PlacesFinite, FS_Subset
      <4>3. Cardinality(Waiting(i, Done(t))) <= Cardinality(Waiting(i, Done(st)))
        BY <4>1, <4>2, FS_Subset
      <4> QED
        BY <1>4, <1>12, <1>13, <4>3
    <3>5. st.degree[i] = 0 \/ st.degree[i] > 0
      BY <1>13
    <3>6. i \in Done(st) \/ i = cur => ~(st.degree[i] > 0)
      BY <1>5, <1>16
    <3>7. ~(st.degree[i] = 0 /\ st.degree[i] > 0)
      BY <1>13
    <3> HIDE DEF ready
    <3> QED
      BY <3>1, <3>2, <3>3, <3>4, <3>5, <3>6, <3>7
  <2>2. ready \subseteq R
    BY <1>1, <1>11
  <2> HIDE DEF ready
  <2> QED
    BY <2>1, <2>2
<1>18. \A l, m \in 1..(N + 1) : order[l] = order[m] => l = m
  <2>1. \A l \in 1..N : st.order[l] # cur
    BY <1>5 DEF Done
  <2>2. \A l, m \in 1..N : st.order[l] = st.order[m] => l = m
    BY <1>4 DEF Sorted
  <2> QED
    BY <1>6, <1>7, <2>1, <2>2
<1>19. ASSUME NEW l \in 1..(N + 1), NEW n \in Into(order[l])
       PROVE  \E m \in 1..(l - 1) : order[m] = Src(n)
  <2>1. CASE l \in 1..N
    <3>1. order[l] = st.order[l]
      BY <1>6, <2>1
    <3>2. PICK m \in 1..(l - 1) : st.order[m] = Src(n)
      BY <1>4, <1>19, <2>1, <3>1 DEF Sorted
    <3>3. m \in 1..N
      BY <1>1, <2>1
    <3> QED
      BY <1>6, <3>2, <3>3
  <2>2. CASE l = N + 1
    <3>1. n \in Into(cur) /\ l - 1 = N
      BY <1>1, <1>6, <1>19, <2>2
    <3>2. Waiting(cur, Done(st)) = {}
      <4>1. IsFiniteSet(Waiting(cur, Done(st)))
        <5>1. Waiting(cur, Done(st)) \in SUBSET DOMAIN connections
          BY DEF Waiting, Into
        <5> QED
          BY <5>1, PlacesFinite, FS_Subset
      <4>2. Cardinality(Waiting(cur, Done(st))) = 0
        BY <1>4, <1>5
      <4> QED
        BY <4>1, <4>2, FS_EmptySet
    <3>3. Src(n) \in Done(st)
      BY <3>1, <3>2 DEF Waiting
    <3>4. PICK m \in 1..N : st.order[m] = Src(n)
      BY <3>3 DEF Done
    <3> QED
      BY <1>6, <3>1, <3>4
  <2> QED
    BY <1>7, <2>1, <2>2
<1> HIDE DEF ready
<1>20. t \in SortState(R)
  <2>1. ready \in SUBSET R
    BY <1>17
  <2> QED
    BY <1>2, <1>6, <1>14, <2>1 DEF SortState
<1>21. Sorted(t.order)
  <2>1. t.order = order
    BY <1>2
  <2>2. Sorted(order)
    BY <1>6, <1>18, <1>19 DEF Sorted
  <2> QED
    BY <2>1, <2>2
<1>22. SortInv(R, t)
  <2>1. t.degree = degree /\ t.ready = ready
    BY <1>2
  <2> QED
    BY <1>12, <1>17, <1>21, <2>1 DEF SortInv
<1>23. Len(t.order) = N + 1
  BY <1>2, <1>6
<1> QED
  BY <1>20, <1>22, <1>23 DEF Sorts, t

SortStart(R) ==
  [ready  |-> {i \in R : [j \in R |-> Cardinality(Into(j))][i] = 0},
   degree |-> [i \in R |-> Cardinality(Into(i))],
   order  |-> <<>>]

SortNext(st) == IF st.ready = {} THEN st ELSE TakeReady(st)

LEMMA IntoFinite ==
  ASSUME GraphInv, NEW i
  PROVE  IsFiniteSet(Into(i)) /\ Cardinality(Into(i)) \in Nat
<1>1. Into(i) \in SUBSET DOMAIN connections
  BY DEF Into
<1>2. IsFiniteSet(Into(i))
  BY <1>1, PlacesFinite, FS_Subset
<1> QED
  BY <1>2, FS_CardinalityType

LEMMA SortStarts ==
  ASSUME GraphInv, NEW R \in SUBSET Slots
  PROVE  SortStart(R) \in Sorts(R) /\ Len(SortStart(R).order) = 0
<1> DEFINE st == SortStart(R)
<1>1. /\ st.ready = {i \in R : Cardinality(Into(i)) = 0}
      /\ st.degree = [i \in R |-> Cardinality(Into(i))]
      /\ st.order = <<>> /\ Len(st.order) = 0
  BY DEF SortStart
<1>2. Done(st) = {}
  BY <1>1 DEF Done
<1>3. \A j \in R : Waiting(j, Done(st)) = Into(j)
  BY <1>2 DEF Waiting
<1>4. \A j \in R : Cardinality(Into(j)) \in Int
  BY IntoFinite
<1>5. st \in SortState(R)
  <2>1. [i \in R |-> Cardinality(Into(i))] \in [R -> Int]
    BY <1>4
  <2>2. <<>> \in Seq(R)
    OBVIOUS
  <2> QED
    BY <1>1, <2>1, <2>2 DEF SortState, SortStart
<1>6. Sorted(st.order)
  BY <1>1 DEF Sorted
<1>7. SortInv(R, st)
  <2> HIDE DEF st
  <2> QED
    BY <1>1, <1>2, <1>3, <1>6 DEF SortInv
<1> QED
  BY <1>1, <1>5, <1>7 DEF Sorts

LEMMA SortRuns ==
  ASSUME GraphInv, NEW R \in SUBSET Slots
  PROVE  \E s \in [0..MaxNodes -> Sorts(R)] :
           /\ s[0] = SortStart(R)
           /\ \A n \in 0..(MaxNodes - 1) : s[n + 1] = SortNext(s[n])
           /\ Order(R) = s[MaxNodes].order
<1> DEFINE degree == [i \in R |-> Cardinality(Into(i))]
           Is(e) == e = [n \in 0..MaxNodes |->
                           IF n = 0 THEN [ready  |-> {i \in R : degree[i] = 0},
                                          degree |-> degree, order |-> <<>>]
                           ELSE LET st == e[n - 1]
                                IN  IF st.ready = {} THEN st ELSE TakeReady(st)]
           next == [p \in Nat \X Sorts(R) |-> SortNext(p[2])]
<1>1. MaxNodes \in Nat
  BY GraphAssumption
<1>2. next \in [Nat \X Sorts(R) -> Sorts(R)]
  BY TakeReadySorts DEF SortNext
<1>3. \A n \in Nat, st \in Sorts(R) : next[<<n, st>>] = SortNext(st)
  OBVIOUS
<1> HIDE DEF next
<1>4. SortStart(R) \in Sorts(R)
  BY SortStarts
<1>5. PICK e \in [0..MaxNodes -> Sorts(R)] : Runs(e, MaxNodes, SortStart(R), next)
  BY <1>1, <1>2, <1>4, RecursionTo
<1>6. e[0] = SortStart(R) /\ \A n \in 0..(MaxNodes - 1) : e[n + 1] = SortNext(e[n])
  <2>1. \A n \in 0..(MaxNodes - 1) : e[n] \in Sorts(R) /\ n \in Nat
    BY <1>1
  <2> QED
    BY <1>3, <1>5, <2>1 DEF Runs
<1>7. Is(e)
  <2>1. ASSUME NEW n \in 0..MaxNodes
        PROVE  e[n] = IF n = 0 THEN SortStart(R) ELSE SortNext(e[n - 1])
    <3>1. CASE n # 0
      <4>1. n - 1 \in 0..(MaxNodes - 1) /\ (n - 1) + 1 = n
        BY <1>1, <3>1
      <4> QED
        BY <1>6, <3>1, <4>1
    <3> QED
      BY <1>6, <3>1
  <2> QED
    BY <1>5, <2>1 DEF SortStart, SortNext
<1> DEFINE sort == CHOOSE d : Is(d)
<1>8. Order(R) = sort[MaxNodes].order
  BY DEF Order
<1> HIDE DEF Is
<1>9. Is(sort)
  BY <1>7
<1> HIDE DEF sort
<1>10. sort = [n \in 0..MaxNodes |->
                 IF n = 0 THEN SortStart(R) ELSE SortNext(sort[n - 1])]
  BY <1>9 DEF Is, SortStart, SortNext
<1>11. \A n \in 0..MaxNodes : sort[n] = e[n]
  <2>1. sort[0] = e[0]
    BY <1>1, <1>6, <1>10
  <2>2. ASSUME NEW n \in 0..(MaxNodes - 1), sort[n] = e[n] PROVE sort[n + 1] = e[n + 1]
    <3>1. n + 1 \in 0..MaxNodes /\ n + 1 # 0 /\ (n + 1) - 1 = n
      BY <1>1
    <3>2. sort[n + 1] = SortNext(sort[n])
      BY <1>10, <3>1
    <3> QED
      BY <1>6, <2>2, <3>2
  <2>3. Alike(sort, e, MaxNodes)
    BY <1>1, <2>1, <2>2 DEF Alike
  <2> QED
    BY <1>1, <2>3, Agree
<1>12. Order(R) = e[MaxNodes].order
  BY <1>1, <1>8, <1>11
<1> QED
  BY <1>6, <1>12

(* In every set of nodes some node reads no other of the set. *)
Acyclic(R) ==
  \A S \in (SUBSET R) \ {{}} : \E i \in S : \A n \in Into(i) : Src(n) \notin S

(* As many as are taken have been taken. *)
LEMMA DoneCount ==
  ASSUME NEW R \in SUBSET Slots, NEW order \in Seq(R), Sorted(order),
         NEW those, \A l \in 1..Len(order) : order[l] \in those,
         \A i \in those : \E l \in 1..Len(order) : order[l] = i
  PROVE  /\ those \in SUBSET R /\ Cardinality(those) = Len(order)
         /\ Len(order) \in Nat /\ Len(order) <= Cardinality(R)
         /\ Cardinality(R) <= MaxNodes /\ Cardinality(R) \in Nat
         /\ Len(order) = Cardinality(R) <=> those = R
<1> DEFINE N == Len(order)
<1>1. N \in Nat /\ \A l \in 1..N : order[l] \in R
  OBVIOUS
<1>2. those \in SUBSET R
  <2>1. \A i \in those : i \in R
    BY <1>1
  <2> QED
    BY <2>1
<1>3. IsFiniteSet(1..N) /\ Cardinality(1..N) = N
  <2>1. /\ IsFiniteSet(1..N) /\ Cardinality(1..N) = IF 1 > N THEN 0 ELSE N - 1 + 1
    BY <1>1, FS_Interval
  <2> QED
    BY <1>1, <2>1
<1> DEFINE f == [l \in 1..N |-> order[l]]
<1>4. f \in [1..N -> those]
  OBVIOUS
<1>5. \A l, m \in 1..N : f[l] = f[m] => l = m
  BY DEF Sorted
<1>6. \A i \in those : \E l \in 1..N : f[l] = i
  OBVIOUS
<1> HIDE DEF f, N
<1>7. f \in Bijection(1..N, those)
  BY <1>4, <1>5, <1>6 DEF Bijection, Injection, IsInjective, Surjection
<1>8. Cardinality(those) = N
  <2>1. ExistsBijection(1..N, those)
    BY <1>7 DEF ExistsBijection
  <2> QED
    BY <1>3, <2>1, FS_Bijection
<1>9. IsFiniteSet(R) /\ Cardinality(R) <= MaxNodes
  BY SlotsFinite, FS_Subset
<1>10. Cardinality(R) \in Nat
  BY <1>9, FS_CardinalityType
<1>11. Cardinality(those) <= Cardinality(R) /\ (Cardinality(R) = Cardinality(those) => R = those)
  BY <1>2, <1>9, FS_Subset
<1> QED
  BY <1>1, <1>2, <1>8, <1>9, <1>10, <1>11 DEF N

LEMMA AllCount ==
  ASSUME NEW R \in SUBSET Slots, NEW order \in Seq(R), Sorted(order),
         \A i \in R : \E l \in 1..Len(order) : order[l] = i
  PROVE  Len(order) <= MaxNodes
<1>1. \A l \in 1..Len(order) : order[l] \in R
  OBVIOUS
<1>2. PICK those : those = R
  OBVIOUS
<1>3. /\ those \in SUBSET R /\ Cardinality(those) = Len(order)
      /\ Len(order) \in Nat /\ Len(order) <= Cardinality(R)
      /\ Cardinality(R) <= MaxNodes /\ Cardinality(R) \in Nat
      /\ Len(order) = Cardinality(R) <=> those = R
  BY <1>1, <1>2, DoneCount
<1> QED
  BY <1>3, GraphAssumption

LEMMA OrderSorted ==
  ASSUME GraphInv, NEW R \in SUBSET Slots, Closed(R)
  PROVE  /\ Order(R) \in Seq(R) /\ Sorted(Order(R))
         /\ Ordered(R, Order(R)) <=> R = {Order(R)[l] : l \in 1..Len(Order(R))}
         /\ Ordered(R, Order(R)) <=> Acyclic(R)
<1>1. PICK s \in [0..MaxNodes -> Sorts(R)] :
        /\ s[0] = SortStart(R)
        /\ \A n \in 0..(MaxNodes - 1) : s[n + 1] = SortNext(s[n])
        /\ Order(R) = s[MaxNodes].order
  BY SortRuns
<1>2. MaxNodes \in Nat
  BY GraphAssumption
<1>3. \A st \in Sorts(R) :
        /\ st.order \in Seq(R) /\ Sorted(st.order) /\ Done(st) \in SUBSET R
        /\ Len(st.order) \in Nat /\ Len(st.order) <= Cardinality(R)
        /\ Cardinality(R) <= MaxNodes /\ Cardinality(R) \in Nat
        /\ Len(st.order) = Cardinality(R) <=> Done(st) = R
        /\ st.ready = {i \in R : i \notin Done(st) /\ st.degree[i] = 0}
        /\ \A j \in R : st.degree[j] = Cardinality(Waiting(j, Done(st)))
  <2>1. ASSUME NEW st \in Sorts(R)
        PROVE  /\ st.order \in Seq(R) /\ Sorted(st.order) /\ Done(st) \in SUBSET R
               /\ Len(st.order) \in Nat /\ Len(st.order) <= Cardinality(R)
               /\ Cardinality(R) <= MaxNodes /\ Cardinality(R) \in Nat
               /\ Len(st.order) = Cardinality(R) <=> Done(st) = R
               /\ st.ready = {i \in R : i \notin Done(st) /\ st.degree[i] = 0}
               /\ \A j \in R : st.degree[j] = Cardinality(Waiting(j, Done(st)))
    <3>1. /\ st.order \in Seq(R) /\ Sorted(st.order)
          /\ st.ready = {i \in R : i \notin Done(st) /\ st.degree[i] = 0}
          /\ \A j \in R : st.degree[j] = Cardinality(Waiting(j, Done(st)))
      BY DEF Sorts, SortState, SortInv
    <3>2. Done(st) = {st.order[l] : l \in 1..Len(st.order)}
      BY DEF Done
    <3>3. /\ Done(st) \in SUBSET R
          /\ Len(st.order) \in Nat /\ Len(st.order) <= Cardinality(R)
          /\ Cardinality(R) <= MaxNodes /\ Cardinality(R) \in Nat
          /\ Len(st.order) = Cardinality(R) <=> Done(st) = R
      <4>1. PICK order, those : order = st.order /\ those = Done(st)
        OBVIOUS
      <4>2. /\ those \in SUBSET R
            /\ Len(order) \in Nat /\ Len(order) <= Cardinality(R)
            /\ Cardinality(R) <= MaxNodes /\ Cardinality(R) \in Nat
            /\ Len(order) = Cardinality(R) <=> those = R
        <5>1. order \in Seq(R)
          BY <3>1, <4>1
        <5>2. Sorted(order)
          BY <3>1, <4>1
        <5>3. /\ \A l \in 1..Len(order) : order[l] \in those
              /\ \A i \in those : \E l \in 1..Len(order) : order[l] = i
          BY <3>2, <4>1
        <5>4. /\ those \in SUBSET R /\ Cardinality(those) = Len(order)
              /\ Len(order) \in Nat /\ Len(order) <= Cardinality(R)
              /\ Cardinality(R) <= MaxNodes /\ Cardinality(R) \in Nat
              /\ Len(order) = Cardinality(R) <=> those = R
          BY <5>1, <5>2, <5>3, DoneCount
        <5> QED
          BY <5>4
      <4> QED
        BY <4>1, <4>2
    <3> QED
      BY <3>1, <3>3
  <2> QED
    BY <2>1
<1> DEFINE H == {n \in 0..MaxNodes : s[n].ready = {} \/ Len(s[n].order) >= n}
<1>4. 0 \in H
  BY <1>1, <1>2, SortStarts
<1>5. ASSUME NEW n \in 0..(MaxNodes - 1), n \in H PROVE n + 1 \in H
  <2>1. s[n] \in Sorts(R) /\ n + 1 \in 0..MaxNodes /\ s[n + 1] = SortNext(s[n])
    BY <1>1, <1>2
  <2>2. CASE s[n].ready = {}
    BY <2>1, <2>2 DEF SortNext
  <2>3. CASE s[n].ready # {}
    <3>1. Len(s[n + 1].order) = Len(s[n].order) + 1
      BY <2>1, <2>3, TakeReadySorts DEF SortNext
    <3>2. Len(s[n].order) >= n /\ Len(s[n].order) \in Nat
      BY <1>3, <1>5, <2>1, <2>3
    <3>3. Len(s[n + 1].order) >= n + 1
      BY <1>2, <3>1, <3>2
    <3> QED
      BY <2>1, <3>3
  <2> QED
    BY <2>2, <2>3
<1> HIDE DEF H
<1>6. MaxNodes \in H
  <2>1. \A n \in 0..MaxNodes : n \in H
    BY <1>2, <1>4, <1>5, InductionTo
  <2> QED
    BY <1>2, <2>1
<1> DEFINE st == s[MaxNodes]
<1>7. st \in Sorts(R) /\ Order(R) = st.order
  BY <1>1, <1>2
<1>8. st.ready = {} \/ Len(st.order) >= MaxNodes
  BY <1>6 DEF H
<1> HIDE DEF st
<1>9. st.ready = {}
  <2>1. CASE Len(st.order) >= MaxNodes
    <3>1. Done(st) = R
      BY <1>2, <1>3, <1>7, <2>1
    <3> QED
      BY <1>3, <1>7, <3>1
  <2> QED
    BY <1>8, <2>1
<1>10. Ordered(R, Order(R)) <=> Done(st) = R
  BY <1>3, <1>7 DEF Ordered
<1>11. ASSUME Done(st) = R PROVE Acyclic(R)
  <2>1. ASSUME NEW S \in SUBSET R, S # {}
        PROVE  \E i \in S : \A n \in Into(i) : Src(n) \notin S
    <3> DEFINE places == {l \in 1..Len(st.order) : st.order[l] \in S}
    <3>1. places \subseteq Nat /\ places # {}
      <4>1. PICK i : i \in S
        BY <2>1
      <4>2. i \in Done(st)
        BY <1>11, <4>1
      <4> QED
        BY <4>1, <4>2 DEF Done
    <3>2. PICK l \in places : \A m \in places : l <= m
      BY <3>1, LeastMember
    <3>3. l \in 1..Len(st.order) /\ st.order[l] \in S /\ Len(st.order) \in Nat
      BY <1>3, <1>7
    <3>4. ASSUME NEW n \in Into(st.order[l]) PROVE Src(n) \notin S
      <4>1. PICK m \in 1..(l - 1) : st.order[m] = Src(n)
        BY <1>3, <1>7, <3>3 DEF Sorted
      <4>2. m \in 1..Len(st.order) /\ ~(l <= m)
        BY <3>3
      <4>3. m \notin places
        BY <3>2, <4>2
      <4> QED
        BY <4>1, <4>2, <4>3
    <3> QED
      BY <3>3, <3>4
  <2> QED
    BY <2>1 DEF Acyclic
<1>12. ASSUME Acyclic(R) PROVE Done(st) = R
  <2> SUFFICES ASSUME Done(st) # R PROVE FALSE
    OBVIOUS
  <2> DEFINE S == R \ Done(st)
  <2>1. S \in SUBSET R /\ S # {}
    BY <1>3, <1>7
  <2>2. PICK i \in S : \A n \in Into(i) : Src(n) \notin S
    BY <1>12, <2>1 DEF Acyclic
  <2>3. i \in R /\ i \notin Done(st)
    BY <2>2
  <2>4. \A n \in Into(i) : Src(n) \in R
    <3>1. \A n \in Into(i) : n \in DOMAIN connections /\ Dst(n) = i
      BY <2>3, IntoIs
    <3> QED
      BY <2>3, <3>1, ClosedIs
  <2>5. Waiting(i, Done(st)) = {}
    BY <2>2, <2>4 DEF Waiting
  <2>6. st.degree[i] = 0
    BY <1>3, <1>7, <2>3, <2>5, FS_EmptySet
  <2>7. i \in st.ready
    BY <1>3, <1>7, <2>3, <2>6
  <2> QED
    BY <1>9, <2>7
<1> QED
  BY <1>3, <1>7, <1>10, <1>11, <1>12 DEF Done

(* Compile accepts what is sound and nothing else. *)
LEMMA CompilesSound ==
  ASSUME GraphInv
  PROVE  Compiles <=> Sound
<1>1. IsValidNode(output) <=> output # NoNodeId
  <2>1. output = NoNodeId \/ IsValidNode(output)
    BY GraphParts
  <2>2. ~IsValidNode(NoNodeId)
    BY SlotsFinite DEF IsValidNode, NoNodeId, Slots
  <2> QED
    BY <2>1, <2>2
<1>2. CASE ~IsValidNode(output)
  BY <1>1, <1>2 DEF Compiles, Sound
<1>3. CASE IsValidNode(output)
  <2> DEFINE R == Reachable
  <2>1. output.index \in Slots
    BY <1>3 DEF IsValidNode
  <2>2. R = Needed /\ R \in SUBSET Slots /\ Closed(R) /\ output.index \in R
    BY <2>1, ReachableNeeded
  <2>3. Compiles <=> RequiredInputsConnected(R) /\ Ordered(R, Order(R))
    BY <1>3 DEF Compiles
  <2> HIDE DEF R
  <2>4. \A i \in R : node[i] \in NodeTypes
    <3> DEFINE S == {i \in Slots : node[i] # "none"}
    <3>1. S \in SUBSET Slots /\ output.index \in S
      BY <1>3 DEF IsValidNode
    <3>2. \A i \in S : node[i] \in NodeTypes
      BY GraphParts
    <3>3. \A n \in DOMAIN connections : Src(n) \in S
      BY WireEnds, GraphAssumption
    <3>4. Closed(S)
      <4> HIDE DEF S
      <4> QED
        BY <3>3, ClosedIs
    <3>5. R \subseteq S
      BY <2>2, <3>1, <3>4, NeededIs
    <3> QED
      BY <3>2, <3>5
  <2>5. RequiredInputsConnected(R)
          <=> \A i \in Needed : Cardinality(Into(i)) = ExpectedInputs[node[i]]
    <3>1. \A i \in R : (\A k \in Inputs(i) : Sources(i, k) # {})
                         <=> Cardinality(Into(i)) = ExpectedInputs[node[i]]
      BY <2>2, <2>4, IntoInputs
    <3> QED
      BY <2>2, <3>1 DEF RequiredInputsConnected
  <2>6. Ordered(R, Order(R)) <=> Acyclic(R)
    BY <2>2, OrderSorted
  <2>7. Acyclic(R) <=>
          \A S \in (SUBSET Needed) \ {{}} :
            \E i \in S : \A c \in Links : ~(c[2] = i /\ c[1] \in S)
    <3>1. ASSUME NEW S \in SUBSET R, NEW i \in S
          PROVE  (\A n \in Into(i) : Src(n) \notin S)
                   <=> \A c \in Links : ~(c[2] = i /\ c[1] \in S)
      <4>1. Into(i) = {n \in DOMAIN connections : Dst(n) = i}
        BY <2>2, IntoIs
      <4>2. Links = {<<Src(n), Dst(n)>> : n \in DOMAIN connections}
        BY LinksIs
      <4>3. ASSUME \A n \in Into(i) : Src(n) \notin S, NEW c \in Links, c[2] = i
            PROVE  c[1] \notin S
        <5>1. PICK n \in DOMAIN connections : c = <<Src(n), Dst(n)>>
          BY <4>2
        <5>2. c[1] = Src(n) /\ c[2] = Dst(n)
          BY <5>1
        <5> QED
          BY <4>1, <4>3, <5>2
      <4>4. ASSUME \A c \in Links : ~(c[2] = i /\ c[1] \in S), NEW n \in Into(i)
            PROVE  Src(n) \notin S
        <5>1. n \in DOMAIN connections /\ Dst(n) = i
          BY <4>1
        <5>2. PICK c : c = <<Src(n), Dst(n)>>
          OBVIOUS
        <5>3. c \in Links /\ c[1] = Src(n) /\ c[2] = Dst(n)
          BY <4>2, <5>1, <5>2
        <5> QED
          BY <4>4, <5>1, <5>3
      <4> QED
        BY <4>3, <4>4
    <3>2. \A S \in (SUBSET R) \ {{}} :
            (\E i \in S : \A n \in Into(i) : Src(n) \notin S)
              <=> \E i \in S : \A c \in Links : ~(c[2] = i /\ c[1] \in S)
      BY <3>1
    <3> QED
      BY <2>2, <3>2 DEF Acyclic
  <2> QED
    BY <1>1, <1>3, <2>3, <2>5, <2>6, <2>7 DEF Sound
<1> QED
  BY <1>2, <1>3

(* Whatever edits made the graph, Compile accepts it exactly when its      *)
(* output is designated, and what the output needs has all its inputs and  *)
(* no cycle.                                                               *)
THEOREM CompilesExactlySoundAlways == GraphSpec => []CompilesExactlySound
<1>1. GraphInv => CompilesExactlySound
  BY CompilesSound DEF CompilesExactlySound, GraphInv
<1> QED
  BY <1>1, GraphWellFormed, PTL

-----------------------------------------------------------------------------
(* What a compiled graph is like. *)

WidthOf(i) == OutputChannels[node[i]]

(* Of the nodes that are needed, only the output has no reader; it is run  *)
(* last, and widths are told apart by the list their buffers go to.        *)
Compiled(R, order) ==
  /\ R \in SUBSET Slots /\ Closed(R) /\ output.index \in R
  /\ \A i \in R : node[i] \in NodeTypes /\ WidthOf(i) \in Nat
  /\ order \in Seq(R) /\ Sorted(order) /\ Len(order) <= MaxNodes
  /\ \A i \in R : \E l \in 1..Len(order) : order[l] = i
  /\ \A i \in R : \A k \in Inputs(i) : \E n \in Into(i) : Inp(n) = k
  /\ Len(order) > 0 /\ order[Len(order)] = output.index
  /\ \A n \in DOMAIN connections : Dst(n) \in R => Src(n) # output.index
  /\ \A i \in R \ {output.index} : \E n \in DOMAIN connections : Src(n) = i /\ Dst(n) \in R
  /\ \A i, j \in R : FreeList(WidthOf(i)) = FreeList(WidthOf(j)) => WidthOf(i) = WidthOf(j)

(* What has the output and is closed has all that is needed. *)
LEMMA NeededOnly ==
  ASSUME GraphInv, output.index \in Slots, NEW S \in SUBSET Slots, output.index \in S,
         \A n \in DOMAIN connections : Dst(n) \in S => Src(n) \in S
  PROVE  Reachable \subseteq S
<1>1. Closed(S)
  BY ClosedIs
<1>2. Reachable = Needed
  BY ReachableNeeded
<1> QED
  BY <1>1, <1>2, NeededIs

LEMMA CompiledGraph ==
  ASSUME GraphInv, Compiles, NEW R, NEW order, R = Reachable, order = Order(R)
  PROVE  Compiled(R, order)
<1> DEFINE o == output.index
           N == Len(order)
<1>1. IsValidNode(output) /\ RequiredInputsConnected(R) /\ Ordered(R, order)
  BY DEF Compiles
<1>2. o \in Slots /\ node[o] # "none"
  BY <1>1 DEF IsValidNode
<1>3. R \in SUBSET Slots /\ Closed(R) /\ o \in R
  BY <1>2, ReachableNeeded
<1>4. \A n \in DOMAIN connections : Dst(n) \in R => Src(n) \in R
  BY <1>3, ClosedIs
<1>5. \A i \in R : node[i] \in NodeTypes /\ WidthOf(i) \in Nat
  <2> DEFINE S == {i \in Slots : node[i] # "none"}
  <2>1. S \in SUBSET Slots /\ o \in S
    BY <1>2
  <2>2. \A i \in S : node[i] \in NodeTypes
    BY GraphParts
  <2>3. \A n \in DOMAIN connections : Src(n) \in S
    BY WireEnds, GraphAssumption
  <2> HIDE DEF S
  <2>4. R \subseteq S
    BY <1>2, <2>1, <2>3, NeededOnly
  <2> QED
    BY <2>2, <2>4, GraphAssumption DEF WidthOf
<1>6. order \in Seq(R) /\ Sorted(order)
  BY <1>3, OrderSorted
<1>7. \A i \in R : \E l \in 1..N : order[l] = i
  <2>1. Ordered(R, Order(R)) <=> R = {Order(R)[l] : l \in 1..Len(Order(R))}
    BY <1>3, OrderSorted
  <2>2. R = {Order(R)[l] : l \in 1..Len(Order(R))}
    BY <1>1, <2>1
  <2> QED
    BY <2>2
<1>8. N \in Nat /\ N <= MaxNodes /\ \A l \in 1..N : order[l] \in R
  <2>1. N \in Nat /\ \A l \in 1..N : order[l] \in R
    BY <1>6
  <2>2. Len(order) <= MaxNodes
    BY <1>3, <1>6, <1>7, AllCount
  <2> QED
    BY <2>1, <2>2
<1>9. \A i \in R : \A k \in Inputs(i) : \E n \in Into(i) : Inp(n) = k
  <2>1. ASSUME NEW i \in R, NEW k \in Inputs(i) PROVE \E n \in Into(i) : Inp(n) = k
    <3>1. Sources(i, k) # {}
      BY <1>1 DEF RequiredInputsConnected
    <3>2. Sources(i, k) = {Src(n) : n \in {n \in Into(i) : Inp(n) = k}}
      BY <1>3, SourcesIs
    <3> QED
      BY <3>1, <3>2
  <2> QED
    BY <2>1
<1>10. \A i \in R \ {o} : \E n \in DOMAIN connections : Src(n) = i /\ Dst(n) \in R
  <2>1. ASSUME NEW i \in R \ {o}, \A n \in DOMAIN connections : Dst(n) \in R => Src(n) # i
        PROVE  FALSE
    <3> DEFINE S == R \ {i}
    <3>1. S \in SUBSET Slots /\ o \in S
      BY <1>3
    <3>2. \A n \in DOMAIN connections : Dst(n) \in S => Src(n) \in S
      BY <1>4, <2>1
    <3>3. i \notin S
      OBVIOUS
    <3> HIDE DEF S
    <3>4. R \subseteq S
      BY <1>2, <3>1, <3>2, NeededOnly
    <3> QED
      BY <3>3, <3>4
  <2> QED
    BY <2>1
<1>11. PICK p \in 1..N : order[p] = o
  BY <1>3, <1>7
<1>12. ASSUME NEW l \in 1..N PROVE l <= p
  <2> DEFINE S == {i \in R : \E m \in 1..p : order[m] = i}
  <2>1. S \in SUBSET Slots /\ o \in S
    <3>1. p \in 1..p
      BY <1>8
    <3> QED
      BY <1>3, <1>11, <3>1
  <2>2. ASSUME NEW n \in DOMAIN connections, Dst(n) \in S PROVE Src(n) \in S
    <3>1. PICK m \in 1..p : order[m] = Dst(n)
      BY <2>2
    <3>2. m \in 1..N /\ Dst(n) \in R /\ Dst(n) \in Slots
      BY <1>3, <1>8, <2>2
    <3>3. n \in Into(Dst(n))
      BY <3>2, IntoIs
    <3>4. PICK q \in 1..(m - 1) : order[q] = Src(n)
      BY <1>6, <3>1, <3>2, <3>3 DEF Sorted
    <3>5. q \in 1..p
      BY <1>8, <3>1
    <3> QED
      BY <1>4, <3>2, <3>4, <3>5
  <2> HIDE DEF S
  <2>3. R \subseteq S
    BY <1>2, <2>1, <2>2, NeededOnly
  <2>4. PICK m \in 1..p : order[m] = order[l]
    BY <1>8, <2>3 DEF S
  <2>5. m \in 1..N
    BY <1>8
  <2>6. m = l
    BY <1>6, <2>4, <2>5 DEF Sorted
  <2> QED
    BY <1>8, <2>6
<1>13. N > 0 /\ order[N] = o
  <2>1. N \in 1..N
    BY <1>8, <1>11
  <2>2. N <= p
    BY <1>12, <2>1
  <2> QED
    BY <1>8, <1>11, <2>1, <2>2
<1>14. ASSUME NEW n \in DOMAIN connections, Dst(n) \in R PROVE Src(n) # o
  <2>1. PICK m \in 1..N : order[m] = Dst(n)
    BY <1>7, <1>14
  <2>2. n \in Into(Dst(n))
    BY <1>3, <1>14, IntoIs
  <2>3. PICK q \in 1..(m - 1) : order[q] = Src(n)
    BY <1>6, <2>1, <2>2 DEF Sorted
  <2>4. q \in 1..N /\ q # N /\ N \in 1..N
    BY <1>8, <2>1
  <2>5. order[q] # order[N]
    BY <1>6, <2>4 DEF Sorted
  <2> QED
    BY <1>13, <2>3, <2>5
<1>15. \A i, j \in R : FreeList(WidthOf(i)) = FreeList(WidthOf(j)) => WidthOf(i) = WidthOf(j)
  <2> DEFINE W == WidthOf(o)
             S == {i \in R : WidthOf(i) = W \/ (W = 2 /\ WidthOf(i) = 1)}
  <2>1. S \in SUBSET Slots /\ o \in S
    BY <1>3
  <2>2. ASSUME NEW n \in DOMAIN connections, Dst(n) \in S PROVE Src(n) \in S
    <3>1. Src(n) \in R
      BY <1>4, <2>2
    <3>2. /\ WidthOf(Src(n)) = InputChannels[node[Dst(n)]]
          /\ node[Dst(n)] \in NodeTypes /\ Inp(n) \in Inputs(Dst(n))
      BY WireEnds DEF WidthOf
    <3>3. ExpectedInputs[node[Dst(n)]] # 0
      BY <3>2 DEF Inputs
    <3>4. \/ WidthOf(Dst(n)) = InputChannels[node[Dst(n)]]
          \/ InputChannels[node[Dst(n)]] = 1 /\ WidthOf(Dst(n)) = 2
      BY <3>2, <3>3, WidthsAssumption DEF WidthOf
    <3>5. \/ WidthOf(Src(n)) = WidthOf(Dst(n))
          \/ WidthOf(Src(n)) = 1 /\ WidthOf(Dst(n)) = 2
      BY <3>2, <3>4
    <3>6. WidthOf(Dst(n)) = W \/ (W = 2 /\ WidthOf(Dst(n)) = 1)
      BY <2>2
    <3> QED
      BY <3>1, <3>5, <3>6
  <2>3. \A i \in S : WidthOf(i) = W \/ (W = 2 /\ WidthOf(i) = 1)
    OBVIOUS
  <2> HIDE DEF S
  <2>4. R \subseteq S
    BY <1>2, <2>1, <2>2, NeededOnly
  <2>5. FreeList(1) = "mono" /\ FreeList(2) = "stereo"
    BY DEF FreeList
  <2> HIDE DEF W
  <2> QED
    BY <2>3, <2>4, <2>5
<1> HIDE DEF o, N
<1>16. \A n \in DOMAIN connections : Dst(n) \in R => Src(n) # o
  BY <1>14
<1> QED
  BY <1>3, <1>5, <1>6, <1>7, <1>8, <1>9, <1>10, <1>13, <1>15, <1>16 DEF Compiled, o, N

-----------------------------------------------------------------------------
(* Buffers: the state while a plan is made. *)

Lists == {"mono", "stereo"}

StepSet(R) ==
  [node: R, output_buffer: Nat, input_buffers: UNION {[Inputs(i) -> Nat] : i \in R}]

PlanState(R) ==
  [steps: Seq(StepSet(R)), channels: Seq(Nat), buffer: [Slots -> Nat],
   remaining: [R -> Int], free: [Lists -> Seq(Nat)]]

IsFree(st, b) ==
  \E list \in Lists : \E p \in 1..Len(st.free[list]) : st.free[list][p] = b

(* The nodes of D whose output some connection of U has yet to read. *)
Held(D, U) == {i \in D : \E n \in U : Src(n) = i}

(* A free buffer is in the list for its width, once. *)
FreeOK(st) ==
  \A list \in Lists : \A p \in 1..Len(st.free[list]) :
    /\ st.free[list][p] \in 1..Len(st.channels)
    /\ FreeList(st.channels[st.free[list][p]]) = list
    /\ \A q \in 1..Len(st.free[list]) : st.free[list][p] = st.free[list][q] => p = q

(* A node's buffer has its width. *)
BuffersOK(D, st) ==
  \A i \in D : st.buffer[i] \in 1..Len(st.channels) /\ st.channels[st.buffer[i]] = WidthOf(i)

(* A buffer that is yet to be read is not free, and is no other node's. *)
HeldOK(H, st) ==
  /\ \A i \in H : ~IsFree(st, st.buffer[i])
  /\ \A i, j \in H : st.buffer[i] = st.buffer[j] => i = j

(* A node's readers are counted. *)
CountOK(R, U, st) ==
  \A i \in R : st.remaining[i] = Cardinality({n \in U : Src(n) = i})

(* No buffer is lost: it is free, or yet to be read, or the output's. *)
UsedOK(R, D, U, st) ==
  \A b \in 1..Len(st.channels) :
    /\ \E i \in R : st.channels[b] = WidthOf(i)
    /\ IsFree(st, b) \/ \E i \in D : (i \in Held(D, U) \/ i = output.index) /\ st.buffer[i] = b

PlanInv(R, D, U, st) ==
  /\ st \in PlanState(R)
  /\ FreeOK(st) /\ BuffersOK(D, st) /\ HeldOK(Held(D, U), st)
  /\ CountOK(R, U, st) /\ UsedOK(R, D, U, st)

LEMMA PlanFields ==
  ASSUME NEW R, NEW st \in PlanState(R)
  PROVE  /\ st.steps \in Seq(StepSet(R)) /\ st.channels \in Seq(Nat)
         /\ st.buffer \in [Slots -> Nat] /\ st.remaining \in [R -> Int]
         /\ st.free \in [Lists -> Seq(Nat)]
BY DEF PlanState

LEMMA FreeListIs == \A w : FreeList(w) \in Lists
BY DEF FreeList, Lists

(* The last free buffer is taken. *)
Reuses(st, i, t) ==
  LET list == FreeList(WidthOf(i))
      free == st.free[list]
  IN  /\ free # <<>>
      /\ t.buffer = [st.buffer EXCEPT ![i] = free[Len(free)]]
      /\ t.free = [st.free EXCEPT ![list] = SubSeq(free, 1, Len(free) - 1)]
      /\ t.channels = st.channels

(* A buffer is made. *)
Makes(st, i, t) ==
  /\ st.free[FreeList(WidthOf(i))] = <<>>
  /\ t.buffer = [st.buffer EXCEPT ![i] = Len(st.channels) + 1]
  /\ t.free = st.free
  /\ t.channels = Append(st.channels, WidthOf(i))

(* The last of a list, and the list without it. *)
LEMMA LastOff ==
  ASSUME NEW f \in Seq(Nat), f # <<>>
  PROVE  f[Len(f)] \in Nat /\ SubSeq(f, 1, Len(f) - 1) \in Seq(Nat)
OBVIOUS

LEMMA Appended ==
  ASSUME NEW f \in Seq(Nat), NEW b \in Nat
  PROVE  Append(f, b) \in Seq(Nat)
OBVIOUS

LEMMA AllocateIs ==
  ASSUME NEW R, NEW st \in PlanState(R), NEW i \in Slots, WidthOf(i) \in Nat
  PROVE  /\ Allocate(st, i) \in PlanState(R)
         /\ Allocate(st, i).steps = st.steps
         /\ Allocate(st, i).remaining = st.remaining
         /\ Reuses(st, i, Allocate(st, i)) \/ Makes(st, i, Allocate(st, i))
<1> DEFINE list == FreeList(WidthOf(i))
           free == st.free[list]
           t == Allocate(st, i)
<1>1. /\ st.steps \in Seq(StepSet(R)) /\ st.channels \in Seq(Nat)
      /\ st.buffer \in [Slots -> Nat] /\ st.remaining \in [R -> Int]
      /\ st.free \in [Lists -> Seq(Nat)]
  BY PlanFields
<1>2. list \in Lists
  BY FreeListIs
<1>3. free \in Seq(Nat)
  BY <1>1, <1>2
<1>4. t = IF free # <<>>
          THEN [st EXCEPT !.buffer[i] = free[Len(free)],
                          !.free[list] = SubSeq(free, 1, Len(free) - 1)]
          ELSE [st EXCEPT !.buffer[i] = Len(st.channels) + 1,
                          !.channels = Append(@, WidthOf(i))]
  BY DEF Allocate, WidthOf
<1> HIDE DEF t, list
<1>5. CASE free # <<>>
  <2>1. free[Len(free)] \in Nat /\ SubSeq(free, 1, Len(free) - 1) \in Seq(Nat)
    <3>1. PICK f : f = free
      OBVIOUS
    <3>2. f[Len(f)] \in Nat /\ SubSeq(f, 1, Len(f) - 1) \in Seq(Nat)
      BY <1>3, <1>5, <3>1, LastOff
    <3> QED
      BY <3>1, <3>2
  <2> DEFINE x == free[Len(free)]
             y == SubSeq(free, 1, Len(free) - 1)
  <2>2. t = [st EXCEPT !.buffer[i] = x, !.free[list] = y]
    BY <1>4, <1>5
  <2> HIDE DEF x, y
  <2>3. /\ t.steps = st.steps /\ t.remaining = st.remaining /\ t.channels = st.channels
        /\ t.buffer = [st.buffer EXCEPT ![i] = x]
        /\ t.free = [st.free EXCEPT ![list] = y]
    BY <2>2 DEF PlanState
  <2>4. x \in Nat /\ y \in Seq(Nat)
    BY <2>1 DEF x, y
  <2>5. t \in PlanState(R)
    BY <1>1, <1>2, <2>2, <2>4 DEF PlanState
  <2>6. Reuses(st, i, t)
    BY <1>5, <2>3 DEF Reuses, x, y, list
  <2> QED
    BY <2>3, <2>5, <2>6 DEF t
<1>6. CASE free = <<>>
  <2>1. Len(st.channels) + 1 \in Nat /\ Append(st.channels, WidthOf(i)) \in Seq(Nat)
    BY <1>1
  <2> DEFINE x == Len(st.channels) + 1
             y == Append(st.channels, WidthOf(i))
  <2>2. t = [st EXCEPT !.buffer[i] = x, !.channels = y]
    BY <1>4, <1>6
  <2> HIDE DEF x, y
  <2>3. /\ t.steps = st.steps /\ t.remaining = st.remaining /\ t.free = st.free
        /\ t.buffer = [st.buffer EXCEPT ![i] = x]
        /\ t.channels = y
    BY <2>2 DEF PlanState
  <2>4. x \in Nat /\ y \in Seq(Nat)
    BY <2>1 DEF x, y
  <2>5. t \in PlanState(R)
    BY <1>1, <2>2, <2>4 DEF PlanState
  <2>6. Makes(st, i, t)
    BY <1>6, <2>3 DEF Makes, x, y, list
  <2> QED
    BY <2>3, <2>5, <2>6 DEF t
<1> QED
  BY <1>5, <1>6

(* Reading a connection's source for the last time frees its buffer. *)
Released(st, i, t) ==
  LET list == FreeList(st.channels[st.buffer[i]])
  IN  /\ t.steps = st.steps /\ t.channels = st.channels /\ t.buffer = st.buffer
      /\ t.remaining = [st.remaining EXCEPT ![i] = st.remaining[i] - 1]
      /\ t.free = IF st.remaining[i] - 1 = 0
                  THEN [st.free EXCEPT ![list] = Append(st.free[list], st.buffer[i])]
                  ELSE st.free

LEMMA CountsReplaced ==
  ASSUME NEW R, NEW st \in PlanState(R), NEW r \in [R -> Int]
  PROVE  [st EXCEPT !.remaining = r] \in PlanState(R)
BY DEF PlanState

LEMMA ReleaseIs ==
  ASSUME NEW R \in SUBSET Slots, NEW st \in PlanState(R), NEW c,
         NEW i \in R, i = c.source_node.index, NEW t, t = Release(st, c)
  PROVE  t \in PlanState(R) /\ Released(st, i, t)
<1> DEFINE list == FreeList(st.channels[st.buffer[i]])
           x    == st.remaining[i] - 1
           y    == Append(st.free[list], st.buffer[i])
<1>1. /\ st.steps \in Seq(StepSet(R)) /\ st.channels \in Seq(Nat)
      /\ st.buffer \in [Slots -> Nat] /\ st.remaining \in [R -> Int]
      /\ st.free \in [Lists -> Seq(Nat)]
  BY PlanFields
<1>2. list \in Lists
  BY FreeListIs
<1>3. i \in R /\ i \in Slots
  OBVIOUS
<1> DEFINE read == [st EXCEPT !.remaining[i] = @ - 1]
<1>4. t = IF read.remaining[i] = 0
          THEN [read EXCEPT !.free[list] = Append(@, st.buffer[i])]
          ELSE read
  BY DEF Release
<1> HIDE DEF list
<1>5. /\ read.steps = st.steps /\ read.channels = st.channels /\ read.buffer = st.buffer
      /\ read.free = st.free
      /\ read.remaining = [st.remaining EXCEPT ![i] = x]
      /\ read.remaining[i] = x /\ x \in Int
  BY <1>1, <1>3 DEF PlanState
<1>6. read \in PlanState(R)
  <2>1. st.remaining[i] - 1 \in Int
    BY <1>1, <1>3
  <2> DEFINE r == [st.remaining EXCEPT ![i] = st.remaining[i] - 1]
  <2>2. r \in [R -> Int]
    BY <1>1, <1>3, <2>1
  <2>3. read = [st EXCEPT !.remaining = r]
    OBVIOUS
  <2> HIDE DEF r, read
  <2>4. [st EXCEPT !.remaining = r] \in PlanState(R)
    BY <2>2, CountsReplaced
  <2> QED
    BY <2>3, <2>4
<1> HIDE DEF read, x
<1>7. y \in Seq(Nat)
  <2>1. st.free[list] \in Seq(Nat)
    <3>1. st.free \in [Lists -> Seq(Nat)]
      BY <1>1, Zenon
    <3> QED
      BY <1>2, <3>1, Zenon
  <2>2. st.buffer[i] \in Nat
    <3>1. st.buffer \in [Slots -> Nat]
      BY <1>1, Zenon
    <3> QED
      BY <1>3, <3>1, Zenon
  <2> QED
    BY <2>1, <2>2, Appended
<1>8. CASE x = 0
  <2>1. t = [read EXCEPT !.free[list] = y]
    BY <1>4, <1>5, <1>6, <1>8 DEF PlanState
  <2> HIDE DEF y
  <2>2. /\ t.steps = st.steps /\ t.channels = st.channels /\ t.buffer = st.buffer
        /\ t.remaining = [st.remaining EXCEPT ![i] = x]
        /\ t.free = [st.free EXCEPT ![list] = y]
    BY <1>5, <1>6, <2>1 DEF PlanState
  <2>3. t \in PlanState(R)
    <3> DEFINE f == [st.free EXCEPT ![list] = y]
    <3>1. f \in [Lists -> Seq(Nat)]
      BY <1>1, <1>2, <1>7 DEF y
    <3>2. t = [read EXCEPT !.free = f]
      BY <1>5, <2>1
    <3> HIDE DEF f
    <3> QED
      BY <1>6, <3>1, <3>2 DEF PlanState
  <2> QED
    BY <1>8, <2>2, <2>3 DEF Released, x, y, list
<1>9. CASE x # 0
  <2>1. t = read
    BY <1>4, <1>5, <1>9
  <2> QED
    BY <1>5, <1>6, <1>9, <2>1 DEF Released, x, list
<1> QED
  BY <1>8, <1>9

(* What taking a buffer amounts to, a free one or a new one. *)
Takes(st, i, t, b) ==
  /\ t.buffer = [st.buffer EXCEPT ![i] = b]
  /\ b \in 1..Len(t.channels) /\ t.channels[b] = WidthOf(i)
  /\ \A x \in 1..Len(st.channels) : x \in 1..Len(t.channels) /\ t.channels[x] = st.channels[x]
  /\ \A x \in 1..Len(t.channels) : x \in 1..Len(st.channels) \/ x = b
  /\ \A x : IsFree(t, x) <=> IsFree(st, x) /\ x # b
  /\ b \in 1..Len(st.channels) => IsFree(st, b)
  /\ FreeOK(t)

LEMMA ReusesTakes ==
  ASSUME NEW R, NEW D, NEW U, NEW st, PlanInv(R, D, U, st), NEW i \in R, NEW t,
         Reuses(st, i, t),
         \A j, k \in R : FreeList(WidthOf(j)) = FreeList(WidthOf(k)) => WidthOf(j) = WidthOf(k)
  PROVE  \E b : Takes(st, i, t, b)
<1> DEFINE list == FreeList(WidthOf(i))
           free == st.free[list]
           N == Len(free)
           b == free[N]
<1>1. /\ st.channels \in Seq(Nat) /\ st.free \in [Lists -> Seq(Nat)]
      /\ FreeOK(st) /\ UsedOK(R, D, U, st)
  BY PlanFields DEF PlanInv
<1>2. list \in Lists
  BY FreeListIs
<1>3. /\ free # <<>> /\ t.buffer = [st.buffer EXCEPT ![i] = b]
      /\ t.free = [st.free EXCEPT ![list] = SubSeq(free, 1, N - 1)]
      /\ t.channels = st.channels
  BY DEF Reuses
<1>4. free \in Seq(Nat) /\ N \in Nat /\ N \in 1..N
  <2>1. PICK f : f = free
    OBVIOUS
  <2>2. f \in Seq(Nat) /\ f # <<>>
    BY <1>1, <1>2, <1>3, <2>1
  <2>3. Len(f) \in Nat /\ Len(f) \in 1..Len(f)
    BY <2>2
  <2> QED
    BY <2>1, <2>2, <2>3
<1> DEFINE less == SubSeq(free, 1, N - 1)
<1>5. /\ Len(less) = N - 1 /\ \A p \in 1..(N - 1) : less[p] = free[p]
  <2>1. PICK f : f = free
    OBVIOUS
  <2>2. f \in Seq(Nat) /\ Len(f) \in Nat /\ Len(f) \in 1..Len(f)
    BY <1>4, <2>1
  <2>3. /\ Len(SubSeq(f, 1, Len(f) - 1)) = Len(f) - 1
        /\ \A p \in 1..(Len(f) - 1) : SubSeq(f, 1, Len(f) - 1)[p] = f[p]
    <3>1. PICK m : m = Len(f) - 1
      OBVIOUS
    <3>2. m \in Nat /\ 1 \in Int /\ m \in Int /\ \A p \in 1..m : f[p] \in Nat
      BY <2>2, <3>1
    <3>3. /\ SubSeq(f, 1, m) \in Seq(Nat)
          /\ Len(SubSeq(f, 1, m)) = IF 1 <= m THEN m - 1 + 1 ELSE 0
          /\ \A p \in 1..(m - 1 + 1) : SubSeq(f, 1, m)[p] = f[1 + p - 1]
      BY <3>2, SubSeqProperties
    <3>4. Len(SubSeq(f, 1, m)) = m
      BY <3>2, <3>3
    <3>5. \A p \in 1..m : SubSeq(f, 1, m)[p] = f[p]
      <4>1. \A p \in 1..m : p \in 1..(m - 1 + 1) /\ 1 + p - 1 = p
        BY <3>2
      <4> QED
        BY <3>3, <4>1
    <3> QED
      BY <3>1, <3>4, <3>5
  <2> QED
    BY <2>1, <2>3
<1>6. /\ t.free[list] = less /\ \A l \in Lists \ {list} : t.free[l] = st.free[l]
  BY <1>1, <1>2, <1>3
<1> HIDE DEF less, N
<1>7. \A p \in 1..(N - 1) : p \in 1..N /\ p # N
  BY <1>4
<1>8. \A p \in 1..N : p \in 1..(N - 1) \/ p = N
  BY <1>4
<1>9. /\ b \in 1..Len(st.channels) /\ FreeList(st.channels[b]) = list
      /\ \A p \in 1..(N - 1) : free[p] # b
  <2>1. N \in 1..Len(st.free[list])
    BY <1>4 DEF N
  <2>2. b \in 1..Len(st.channels) /\ FreeList(st.channels[b]) = list
    BY <1>1, <1>2, <2>1 DEF FreeOK
  <2>3. \A p \in 1..(N - 1) : free[p] # free[N]
    BY <1>1, <1>2, <1>7, <2>1 DEF FreeOK, N
  <2> QED
    BY <2>2, <2>3
<1>10. st.channels[b] = WidthOf(i)
  <2>1. PICK j \in R : st.channels[b] = WidthOf(j)
    BY <1>1, <1>9 DEF UsedOK
  <2> QED
    BY <1>9, <2>1
<1>11. \A l \in Lists : \A p \in 1..Len(t.free[l]) :
         p \in 1..Len(st.free[l]) /\ t.free[l][p] = st.free[l][p] /\ t.free[l][p] # b
  <2>1. ASSUME NEW l \in Lists, NEW p \in 1..Len(t.free[l])
        PROVE  p \in 1..Len(st.free[l]) /\ t.free[l][p] = st.free[l][p] /\ t.free[l][p] # b
    <3>1. CASE l = list
      <4>1. p \in 1..(N - 1)
        BY <1>5, <1>6, <3>1
      <4>2. t.free[l][p] = free[p] /\ p \in 1..N /\ free[p] # b
        BY <1>5, <1>6, <1>7, <1>9, <3>1, <4>1
      <4> QED
        BY <3>1, <4>2 DEF N
    <3>2. CASE l # list
      <4>1. t.free[l] = st.free[l]
        BY <1>6, <3>2
      <4>2. FreeList(st.channels[st.free[l][p]]) = l
        BY <1>1, <4>1 DEF FreeOK
      <4> QED
        BY <1>9, <3>2, <4>1, <4>2
    <3> QED
      BY <3>1, <3>2
  <2> QED
    BY <2>1
<1>12. \A l \in Lists : \A p \in 1..Len(st.free[l]) : st.free[l][p] # b =>
         p \in 1..Len(t.free[l]) /\ t.free[l][p] = st.free[l][p]
  <2>1. ASSUME NEW l \in Lists, NEW p \in 1..Len(st.free[l]), st.free[l][p] # b
        PROVE  p \in 1..Len(t.free[l]) /\ t.free[l][p] = st.free[l][p]
    <3>1. CASE l = list
      <4>1. p \in 1..N
        BY <3>1 DEF N
      <4>2. p # N
        BY <2>1, <3>1
      <4> QED
        BY <1>5, <1>6, <1>8, <3>1, <4>1, <4>2
    <3>2. CASE l # list
      BY <1>6, <3>2
    <3> QED
      BY <3>1, <3>2
  <2> QED
    BY <2>1
<1> HIDE DEF b, free, list
<1>13. \A x : IsFree(t, x) <=> IsFree(st, x) /\ x # b
  BY <1>11, <1>12 DEF IsFree
<1>14. FreeOK(t)
  <2>1. ASSUME NEW l \in Lists, NEW p \in 1..Len(t.free[l])
        PROVE  /\ t.free[l][p] \in 1..Len(t.channels)
               /\ FreeList(t.channels[t.free[l][p]]) = l
               /\ \A q \in 1..Len(t.free[l]) : t.free[l][p] = t.free[l][q] => p = q
    <3>1. p \in 1..Len(st.free[l]) /\ t.free[l][p] = st.free[l][p]
      BY <1>11
    <3>2. /\ st.free[l][p] \in 1..Len(st.channels) /\ FreeList(st.channels[st.free[l][p]]) = l
          /\ \A q \in 1..Len(st.free[l]) : st.free[l][p] = st.free[l][q] => p = q
      BY <1>1, <3>1 DEF FreeOK
    <3>3. \A q \in 1..Len(t.free[l]) : q \in 1..Len(st.free[l]) /\ t.free[l][q] = st.free[l][q]
      BY <1>11
    <3> QED
      BY <1>3, <3>1, <3>2, <3>3
  <2> QED
    BY <2>1 DEF FreeOK
<1>15. IsFree(st, b)
  BY <1>2, <1>4 DEF IsFree, b, free, N
<1>16. Takes(st, i, t, b)
  BY <1>3, <1>9, <1>10, <1>13, <1>14, <1>15 DEF Takes
<1> QED
  BY <1>16

LEMMA MakesTakes ==
  ASSUME NEW R, NEW D, NEW U, NEW st, PlanInv(R, D, U, st), NEW i \in R, NEW t,
         Makes(st, i, t), WidthOf(i) \in Nat
  PROVE  Takes(st, i, t, Len(st.channels) + 1)
<1> DEFINE N == Len(st.channels)
<1>1. st.channels \in Seq(Nat) /\ N \in Nat /\ FreeOK(st)
  BY PlanFields DEF PlanInv
<1>2. /\ t.buffer = [st.buffer EXCEPT ![i] = N + 1]
      /\ t.free = st.free /\ t.channels = Append(st.channels, WidthOf(i))
  BY DEF Makes
<1>3. /\ Len(t.channels) = N + 1 /\ t.channels[N + 1] = WidthOf(i)
      /\ \A x \in 1..N : t.channels[x] = st.channels[x]
  <2>1. PICK s : s = st.channels
    OBVIOUS
  <2>2. /\ Len(Append(s, WidthOf(i))) = Len(s) + 1 /\ Append(s, WidthOf(i))[Len(s) + 1] = WidthOf(i)
        /\ \A x \in 1..Len(s) : Append(s, WidthOf(i))[x] = s[x]
    BY <1>1, <2>1
  <2> QED
    BY <1>2, <2>1, <2>2
<1>4. \A x \in 1..N : x \in 1..(N + 1) /\ x # N + 1
  BY <1>1
<1>5. \A x \in 1..(N + 1) : x \in 1..N \/ x = N + 1
  BY <1>1
<1>6. N + 1 \in 1..(N + 1) /\ N + 1 \notin 1..N
  BY <1>1
<1> HIDE DEF N
<1>7. \A x : IsFree(st, x) => x \in 1..N
  BY <1>1 DEF FreeOK, IsFree, N
<1>8. \A x : IsFree(t, x) <=> IsFree(st, x)
  BY <1>2 DEF IsFree
<1>9. FreeOK(t)
  <2>1. ASSUME NEW l \in Lists, NEW p \in 1..Len(t.free[l])
        PROVE  /\ t.free[l][p] \in 1..Len(t.channels)
               /\ FreeList(t.channels[t.free[l][p]]) = l
               /\ \A q \in 1..Len(t.free[l]) : t.free[l][p] = t.free[l][q] => p = q
    <3>1. /\ st.free[l][p] \in 1..N /\ FreeList(st.channels[st.free[l][p]]) = l
          /\ \A q \in 1..Len(st.free[l]) : st.free[l][p] = st.free[l][q] => p = q
      BY <1>1, <1>2 DEF FreeOK, N
    <3> QED
      BY <1>2, <1>3, <1>4, <3>1
  <2> QED
    BY <2>1 DEF FreeOK
<1>10. /\ N + 1 \in 1..Len(t.channels) /\ t.channels[N + 1] = WidthOf(i)
       /\ \A x \in 1..N : x \in 1..Len(t.channels) /\ t.channels[x] = st.channels[x]
       /\ \A x \in 1..Len(t.channels) : x \in 1..N \/ x = N + 1
       /\ \A x : IsFree(t, x) <=> IsFree(st, x) /\ x # N + 1
       /\ N + 1 \in 1..N => IsFree(st, N + 1)
  <2>1. ~IsFree(st, N + 1)
    BY <1>6, <1>7
  <2> QED
    BY <1>3, <1>4, <1>5, <1>6, <1>8, <2>1
<1> QED
  BY <1>2, <1>9, <1>10 DEF Takes, N

(* A node's output goes to a buffer that nothing is yet to be read from.   *)
Fresh(D, U, st, i, t) ==
  /\ \A j \in Slots \ {i} : t.buffer[j] = st.buffer[j]
  /\ \A j \in Held(D, U) : t.buffer[j] # t.buffer[i]

LEMMA AllocateKeeps ==
  ASSUME GraphInv, NEW R, NEW order, Compiled(R, order), NEW D, D \subseteq R,
         NEW i \in R, i \notin D, NEW E, E = D \cup {i},
         NEW U, NEW st, PlanInv(R, D, U, st),
         i = output.index \/ i \in Held(E, U), NEW t, t = Allocate(st, i)
  PROVE  PlanInv(R, E, U, t) /\ t.steps = st.steps /\ Fresh(D, U, st, i, t)
<1>1. /\ R \in SUBSET Slots /\ i \in Slots /\ WidthOf(i) \in Nat
      /\ \A j, k \in R : FreeList(WidthOf(j)) = FreeList(WidthOf(k)) => WidthOf(j) = WidthOf(k)
  BY DEF Compiled
<1>2. /\ st \in PlanState(R) /\ FreeOK(st) /\ BuffersOK(D, st) /\ HeldOK(Held(D, U), st)
      /\ CountOK(R, U, st) /\ UsedOK(R, D, U, st)
  BY DEF PlanInv
<1>3. /\ t \in PlanState(R) /\ t.steps = st.steps /\ t.remaining = st.remaining
      /\ Reuses(st, i, t) \/ Makes(st, i, t)
  BY <1>1, <1>2, AllocateIs
<1>4. PICK b : Takes(st, i, t, b)
  BY <1>1, <1>3, ReusesTakes, MakesTakes
<1>5. /\ t.buffer = [st.buffer EXCEPT ![i] = b]
      /\ b \in 1..Len(t.channels) /\ t.channels[b] = WidthOf(i)
      /\ \A x \in 1..Len(st.channels) : x \in 1..Len(t.channels) /\ t.channels[x] = st.channels[x]
      /\ \A x \in 1..Len(t.channels) : x \in 1..Len(st.channels) \/ x = b
      /\ \A x : IsFree(t, x) <=> IsFree(st, x) /\ x # b
      /\ b \in 1..Len(st.channels) => IsFree(st, b)
      /\ FreeOK(t)
  BY <1>4 DEF Takes
<1>6. t.buffer[i] = b /\ \A j \in Slots \ {i} : t.buffer[j] = st.buffer[j]
  BY <1>1, <1>2, <1>5, PlanFields
<1>7. \A j \in D : j \in Slots \ {i} /\ t.buffer[j] = st.buffer[j]
  BY <1>1, <1>6
<1>8. \A j \in Held(D, U) : j \in D /\ st.buffer[j] # b /\ t.buffer[j] = st.buffer[j]
  <2>1. ASSUME NEW j \in Held(D, U) PROVE j \in D /\ st.buffer[j] # b
    <3>1. j \in D
      BY DEF Held
    <3>2. st.buffer[j] \in 1..Len(st.channels) /\ ~IsFree(st, st.buffer[j])
      BY <1>2, <3>1 DEF BuffersOK, HeldOK
    <3> QED
      BY <1>5, <3>1, <3>2
  <2> QED
    BY <1>7, <2>1
<1>9. \A j \in Held(D \cup {i}, U) : j \in Held(D, U) \/ j = i
  BY DEF Held
<1>10. \A j \in Held(D, U) : j \in Held(D \cup {i}, U)
  BY DEF Held
<1>11. BuffersOK(D \cup {i}, t)
  <2>1. \A j \in D : st.buffer[j] \in 1..Len(st.channels) /\ st.channels[st.buffer[j]] = WidthOf(j)
    BY <1>2 DEF BuffersOK
  <2>2. \A j \in D : t.buffer[j] \in 1..Len(t.channels) /\ t.channels[t.buffer[j]] = WidthOf(j)
    BY <1>5, <1>7, <2>1
  <2> QED
    BY <1>5, <1>6, <2>2 DEF BuffersOK
<1>12. HeldOK(Held(D \cup {i}, U), t)
  <2>1. \A j \in Held(D \cup {i}, U) : ~IsFree(t, t.buffer[j])
    <3>1. ASSUME NEW j \in Held(D, U) PROVE ~IsFree(t, t.buffer[j])
      <4>1. ~IsFree(st, st.buffer[j])
        BY <1>2, <3>1 DEF HeldOK
      <4> QED
        BY <1>2, <1>5, <1>6, <1>8, <3>1, <4>1 DEF HeldOK
    <3>2. ~IsFree(t, t.buffer[i])
      BY <1>5, <1>6, <1>8
    <3> QED
      BY <1>9, <3>1, <3>2
  <2>2. \A j, k \in Held(D \cup {i}, U) : t.buffer[j] = t.buffer[k] => j = k
    BY <1>2, <1>6, <1>8, <1>9 DEF HeldOK
  <2> QED
    BY <2>1, <2>2 DEF HeldOK
<1>13. CountOK(R, U, t)
  BY <1>2, <1>3 DEF CountOK
<1>14. UsedOK(R, D \cup {i}, U, t)
  <2>1. ASSUME NEW x \in 1..Len(t.channels)
        PROVE  /\ \E j \in R : t.channels[x] = WidthOf(j)
               /\ IsFree(t, x) \/ \E j \in D \cup {i} :
                    (j \in Held(D \cup {i}, U) \/ j = output.index) /\ t.buffer[j] = x
    <3>1. CASE x = b
      <4>1. i \in Held(D \cup {i}, U) \/ i = output.index
        OBVIOUS
      <4> QED
        BY <1>5, <1>6, <3>1, <4>1
    <3>2. CASE x # b
      <4>1. x \in 1..Len(st.channels) /\ t.channels[x] = st.channels[x]
        BY <1>5, <3>2
      <4>2. /\ \E j \in R : st.channels[x] = WidthOf(j)
            /\ IsFree(st, x) \/ \E j \in D :
                 (j \in Held(D, U) \/ j = output.index) /\ st.buffer[j] = x
        BY <1>2, <4>1 DEF UsedOK
      <4> QED
        BY <1>5, <1>7, <1>10, <3>2, <4>1, <4>2
    <3> QED
      BY <3>1, <3>2
  <2> QED
    BY <2>1 DEF UsedOK
<1>15. PlanInv(R, D \cup {i}, U, t)
  BY <1>3, <1>5, <1>11, <1>12, <1>13, <1>14 DEF PlanInv
<1>16. \A j \in Held(D, U) : t.buffer[j] # t.buffer[i]
  BY <1>6, <1>8
<1> QED
  BY <1>3, <1>6, <1>15, <1>16 DEF Fresh

LEMMA SourceOfIs ==
  ASSUME GraphInv, NEW R, NEW order, Compiled(R, order), NEW i \in R, NEW k \in Inputs(i)
  PROVE  \E n \in Into(i) : Inp(n) = k /\ SourceOf(i, k) = Src(n) /\ Src(n) \in R
<1>1. R \in SUBSET Slots /\ i \in Slots /\ Closed(R)
  BY DEF Compiled
<1>2. PICK n \in Into(i) : Inp(n) = k
  BY DEF Compiled
<1>3. Sources(i, k) = {Src(m) : m \in {m \in Into(i) : Inp(m) = k}}
  BY <1>1, SourcesIs
<1>4. \A m \in Into(i) : Inp(m) = k => m = n
  BY <1>1, <1>2, OneIntoInput
<1>5. Sources(i, k) = {Src(n)}
  BY <1>2, <1>3, <1>4
<1>6. SourceOf(i, k) = Src(n)
  <2>1. PICK S : S = Sources(i, k)
    OBVIOUS
  <2>2. S = {Src(n)} /\ SourceOf(i, k) = CHOOSE j \in S : TRUE
    BY <1>5, <2>1 DEF SourceOf
  <2>3. SourceOf(i, k) \in S
    BY <2>2
  <2> QED
    BY <2>2, <2>3
<1>7. Src(n) \in R
  <2>1. n \in DOMAIN connections /\ Dst(n) = i
    BY <1>1, IntoIs
  <2> QED
    BY <1>1, <2>1, ClosedIs
<1> QED
  BY <1>2, <1>6, <1>7

(* The invariant is about all but the steps. *)
LEMMA SameKeeps ==
  ASSUME NEW R, NEW D, NEW U, NEW st, PlanInv(R, D, U, st),
         NEW t \in PlanState(R), t.channels = st.channels, t.buffer = st.buffer,
         t.free = st.free, t.remaining = st.remaining
  PROVE  PlanInv(R, D, U, t)
<1>1. /\ FreeOK(st) /\ BuffersOK(D, st) /\ HeldOK(Held(D, U), st)
      /\ CountOK(R, U, st) /\ UsedOK(R, D, U, st)
  BY DEF PlanInv
<1>2. \A b : IsFree(t, b) <=> IsFree(st, b)
  BY DEF IsFree
<1>3. FreeOK(t)
  BY <1>1 DEF FreeOK
<1>4. BuffersOK(D, t)
  BY <1>1 DEF BuffersOK
<1>5. HeldOK(Held(D, U), t)
  BY <1>1, <1>2 DEF HeldOK
<1>6. CountOK(R, U, t)
  BY <1>1 DEF CountOK
<1>7. UsedOK(R, D, U, t)
  BY <1>1, <1>2 DEF UsedOK
<1> QED
  BY <1>3, <1>4, <1>5, <1>6, <1>7 DEF PlanInv

LEMMA AddStepIs ==
  ASSUME GraphInv, NEW R, NEW order, Compiled(R, order),
         NEW st \in PlanState(R), NEW i \in R, NEW t, t = AddStep(st, i)
  PROVE  /\ t \in PlanState(R) /\ t.steps = Append(st.steps, Step(st, i))
         /\ t.channels = st.channels /\ t.buffer = st.buffer
         /\ t.free = st.free /\ t.remaining = st.remaining
<1>1. R \in SUBSET Slots
  BY DEF Compiled
<1>2. /\ st.steps \in Seq(StepSet(R)) /\ st.channels \in Seq(Nat)
      /\ st.buffer \in [Slots -> Nat]
  BY PlanFields
<1> DEFINE s == Step(st, i)
<1>3. s \in StepSet(R)
  <2>1. \A k \in Inputs(i) : SourceOf(i, k) \in Slots
    BY <1>1, SourceOfIs
  <2> DEFINE f == [k \in Inputs(i) |-> st.buffer[SourceOf(i, k)]]
  <2>2. f \in [Inputs(i) -> Nat]
    BY <1>2, <2>1
  <2>3. f \in UNION {[Inputs(j) -> Nat] : j \in R}
    BY <2>2
  <2>4. s = [node |-> i, output_buffer |-> st.buffer[i], input_buffers |-> f]
    BY DEF Step
  <2>5. st.buffer[i] \in Nat
    BY <1>1, <1>2
  <2> HIDE DEF f, s
  <2> QED
    BY <2>3, <2>4, <2>5 DEF StepSet
<1> HIDE DEF s
<1>4. Append(st.steps, s) \in Seq(StepSet(R))
  BY <1>2, <1>3
<1> DEFINE y == Append(st.steps, s)
<1>5. t = [st EXCEPT !.steps = y]
  BY DEF AddStep, s
<1> HIDE DEF y
<1>6. /\ t.steps = y /\ t.channels = st.channels /\ t.buffer = st.buffer
      /\ t.free = st.free /\ t.remaining = st.remaining
  BY <1>5 DEF PlanState
<1>7. t \in PlanState(R)
  BY <1>4, <1>5 DEF PlanState, y
<1> QED
  BY <1>6, <1>7 DEF y, s

LEMMA AddStepKeeps ==
  ASSUME GraphInv, NEW R, NEW order, Compiled(R, order), NEW D, NEW U,
         NEW st, PlanInv(R, D, U, st), NEW i \in R, NEW t, t = AddStep(st, i)
  PROVE  /\ PlanInv(R, D, U, t)
         /\ t.steps = Append(st.steps, Step(st, i))
         /\ t.channels = st.channels /\ t.buffer = st.buffer
<1>1. st \in PlanState(R)
  BY DEF PlanInv
<1>2. /\ t \in PlanState(R) /\ t.steps = Append(st.steps, Step(st, i))
      /\ t.channels = st.channels /\ t.buffer = st.buffer
      /\ t.free = st.free /\ t.remaining = st.remaining
  BY <1>1, AddStepIs
<1>3. PlanInv(R, D, U, t)
  BY <1>2, SameKeeps
<1> QED
  BY <1>2, <1>3

(* A reader of a node is counted off when it has read. *)
LEMMA CountedOff ==
  ASSUME GraphInv, NEW U \in SUBSET DOMAIN connections, NEW n \in U
  PROVE  /\ Cardinality({m \in U \ {n} : Src(m) = Src(n)})
              = Cardinality({m \in U : Src(m) = Src(n)}) - 1
         /\ Cardinality({m \in U \ {n} : Src(m) = Src(n)}) = 0
              <=> ~(\E m \in U \ {n} : Src(m) = Src(n))
<1> DEFINE A == {m \in U : Src(m) = Src(n)}
           B == {m \in U \ {n} : Src(m) = Src(n)}
<1>1. A \in SUBSET DOMAIN connections /\ n \in A /\ B = A \ {n}
  OBVIOUS
<1>2. B = {} <=> ~(\E m \in U \ {n} : Src(m) = Src(n))
  OBVIOUS
<1> HIDE DEF A, B
<1>3. IsFiniteSet(A)
  BY <1>1, PlacesFinite, FS_Subset
<1>4. IsFiniteSet(A \ {n}) /\ Cardinality(A \ {n}) = Cardinality(A) - 1
  BY <1>1, <1>3, FS_RemoveElement
<1>5. Cardinality(B) = 0 <=> B = {}
  BY <1>1, <1>4, FS_EmptySet
<1> QED
  BY <1>1, <1>2, <1>4, <1>5 DEF A, B

Untouched(st, t) == t.steps = st.steps /\ t.channels = st.channels /\ t.buffer = st.buffer

LEMMA ReleaseKeeps ==
  ASSUME GraphInv, NEW R, R \subseteq Slots, NEW D, D \subseteq R,
         NEW U, U \subseteq DOMAIN connections,
         NEW st, PlanInv(R, D, U, st), NEW n \in U, Src(n) \in D,
         NEW W, W = U \ {n}, NEW t, t = Release(st, connections[n])
  PROVE  PlanInv(R, D, W, t) /\ Untouched(st, t)
<1> DEFINE j == Src(n)
           b == st.buffer[j]
           list == FreeList(st.channels[b])
           V == U \ {n}
<1>1. /\ st \in PlanState(R) /\ FreeOK(st) /\ BuffersOK(D, st) /\ HeldOK(Held(D, U), st)
      /\ CountOK(R, U, st) /\ UsedOK(R, D, U, st)
  BY DEF PlanInv
<1>2. /\ st.channels \in Seq(Nat) /\ st.buffer \in [Slots -> Nat]
      /\ st.remaining \in [R -> Int] /\ st.free \in [Lists -> Seq(Nat)]
  BY <1>1, PlanFields
<1>3. /\ t \in PlanState(R)
      /\ t.steps = st.steps /\ t.channels = st.channels /\ t.buffer = st.buffer
      /\ t.remaining = [st.remaining EXCEPT ![j] = st.remaining[j] - 1]
      /\ t.free = IF st.remaining[j] - 1 = 0
                  THEN [st.free EXCEPT ![list] = Append(st.free[list], b)]
                  ELSE st.free
  <2>1. connections[n].source_node.index = j /\ j \in R
    BY DEF Src
  <2>2. PICK c : c = connections[n]
    OBVIOUS
  <2>3. c.source_node.index = j /\ t = Release(st, c)
    BY <2>1, <2>2
  <2> HIDE DEF j
  <2>4. j \in R /\ j = c.source_node.index
    BY <2>1, <2>3
  <2>5. t \in PlanState(R) /\ Released(st, j, t)
    BY <1>1, <2>3, <2>4, ReleaseIs
  <2> QED
    BY <2>5 DEF Released
<1>4. list \in Lists
  BY FreeListIs
<1>5. j \in R /\ j \in Held(D, U)
  BY DEF Held
<1>6. b \in 1..Len(st.channels) /\ st.channels[b] = WidthOf(j) /\ ~IsFree(st, b)
  BY <1>1, <1>5 DEF BuffersOK, HeldOK
<1>7. /\ st.remaining[j] - 1 = Cardinality({m \in V : Src(m) = j})
      /\ st.remaining[j] - 1 = 0 <=> ~(\E m \in V : Src(m) = j)
  <2>1. st.remaining[j] = Cardinality({m \in U : Src(m) = j})
    BY <1>1, <1>5 DEF CountOK
  <2> QED
    BY <2>1, CountedOff
<1>8. \A k \in R \ {j} : {m \in V : Src(m) = k} = {m \in U : Src(m) = k}
  OBVIOUS
<1>9. CountOK(R, V, t)
  <2>1. ASSUME NEW k \in R PROVE t.remaining[k] = Cardinality({m \in V : Src(m) = k})
    <3>1. CASE k = j
      <4>1. t.remaining[j] = st.remaining[j] - 1
        BY <1>2, <1>3, <1>5
      <4> QED
        BY <1>7, <3>1, <4>1
    <3>2. CASE k # j
      <4>1. t.remaining[k] = st.remaining[k]
        BY <1>2, <1>3, <3>2
      <4>2. st.remaining[k] = Cardinality({m \in U : Src(m) = k})
        BY <1>1 DEF CountOK
      <4> QED
        BY <1>8, <3>2, <4>1, <4>2
    <3> QED
      BY <3>1, <3>2
  <2> QED
    BY <2>1 DEF CountOK
<1>10. \A k \in Held(D, V) : k \in Held(D, U)
  BY DEF Held
<1>11. \A k \in Held(D, U) : k # j => k \in Held(D, V)
  BY DEF Held
<1>12. BuffersOK(D, t)
  BY <1>1, <1>3 DEF BuffersOK
<1>13. CASE st.remaining[j] - 1 = 0
  <2>1. j \notin Held(D, V)
    BY <1>7, <1>13 DEF Held
  <2>2. t.free = [st.free EXCEPT ![list] = Append(st.free[list], b)]
    BY <1>3, <1>13
  <2> HIDE DEF list, b, j, V
  <2> DEFINE N == Len(st.free[list])
  <2>3. /\ N \in Nat /\ Len(t.free[list]) = N + 1 /\ t.free[list][N + 1] = b
        /\ \A p \in 1..N : t.free[list][p] = st.free[list][p]
    <3>1. PICK f : f = st.free[list]
      OBVIOUS
    <3>2. f \in Seq(Nat) /\ t.free[list] = Append(f, b)
      BY <1>2, <1>4, <2>2, <3>1
    <3>3. /\ Len(f) \in Nat /\ Len(Append(f, b)) = Len(f) + 1 /\ Append(f, b)[Len(f) + 1] = b
          /\ \A p \in 1..Len(f) : Append(f, b)[p] = f[p]
      BY <3>2
    <3> QED
      BY <3>1, <3>2, <3>3
  <2>4. \A l \in Lists \ {list} : t.free[l] = st.free[l]
    BY <1>2, <2>2
  <2> HIDE DEF N
  <2>5. \A p \in 1..(N + 1) : p \in 1..N \/ p = N + 1
    BY <2>3
  <2>6. \A p \in 1..N : p \in 1..(N + 1)
    BY <2>3
  <2>7. N + 1 \in 1..(N + 1)
    BY <2>3
  <2>8. \A l \in Lists : \A p \in 1..Len(t.free[l]) :
          \/ p \in 1..Len(st.free[l]) /\ t.free[l][p] = st.free[l][p]
          \/ l = list /\ p = N + 1 /\ t.free[l][p] = b
    BY <2>3, <2>4, <2>5 DEF N
  <2>9. \A l \in Lists : \A p \in 1..Len(st.free[l]) :
          p \in 1..Len(t.free[l]) /\ t.free[l][p] = st.free[l][p]
    BY <2>3, <2>4, <2>6 DEF N
  <2>10. \A x : IsFree(t, x) <=> IsFree(st, x) \/ x = b
    <3>1. IsFree(t, b)
      BY <1>4, <2>3, <2>7 DEF IsFree
    <3>2. \A x : IsFree(t, x) => IsFree(st, x) \/ x = b
      BY <2>8 DEF IsFree
    <3>3. \A x : IsFree(st, x) => IsFree(t, x)
      BY <2>9 DEF IsFree
    <3> QED
      BY <3>1, <3>2, <3>3
  <2>11. FreeOK(t)
    <3>1. ASSUME NEW l \in Lists, NEW p \in 1..Len(t.free[l])
          PROVE  /\ t.free[l][p] \in 1..Len(t.channels)
                 /\ FreeList(t.channels[t.free[l][p]]) = l
                 /\ \A q \in 1..Len(t.free[l]) : t.free[l][p] = t.free[l][q] => p = q
      <4>1. \A q \in 1..Len(st.free[l]) : st.free[l][q] # b
        BY <1>6 DEF IsFree, b
      <4>2. CASE p \in 1..Len(st.free[l]) /\ t.free[l][p] = st.free[l][p]
        <5>1. /\ st.free[l][p] \in 1..Len(st.channels)
              /\ FreeList(st.channels[st.free[l][p]]) = l
              /\ \A q \in 1..Len(st.free[l]) : st.free[l][p] = st.free[l][q] => p = q
          BY <1>1, <4>2 DEF FreeOK
        <5>2. \A q \in 1..Len(t.free[l]) : t.free[l][p] = t.free[l][q] => p = q
          BY <2>8, <4>1, <4>2, <5>1
        <5> QED
          BY <1>3, <4>2, <5>1, <5>2
      <4>3. CASE l = list /\ p = N + 1 /\ t.free[l][p] = b
        <5>1. \A q \in 1..Len(t.free[l]) : t.free[l][p] = t.free[l][q] => p = q
          BY <2>8, <4>1, <4>3
        <5> QED
          BY <1>3, <1>6, <4>3, <5>1 DEF b, list
      <4> QED
        BY <2>8, <4>2, <4>3
    <3> QED
      BY <3>1 DEF FreeOK
  <2>12. HeldOK(Held(D, V), t)
    <3>1. \A k \in Held(D, V) : t.buffer[k] # b /\ ~IsFree(st, t.buffer[k])
      BY <1>1, <1>3, <1>5, <1>10, <2>1 DEF HeldOK, b, j
    <3>2. \A k, l \in Held(D, V) : t.buffer[k] = t.buffer[l] => k = l
      BY <1>1, <1>3, <1>10 DEF HeldOK
    <3> QED
      BY <2>10, <3>1, <3>2 DEF HeldOK
  <2>13. UsedOK(R, D, V, t)
    <3>1. ASSUME NEW x \in 1..Len(t.channels)
          PROVE  /\ \E k \in R : t.channels[x] = WidthOf(k)
                 /\ IsFree(t, x) \/ \E k \in D :
                      (k \in Held(D, V) \/ k = output.index) /\ t.buffer[k] = x
      <4>1. /\ \E k \in R : st.channels[x] = WidthOf(k)
            /\ IsFree(st, x) \/ \E k \in D :
                 (k \in Held(D, U) \/ k = output.index) /\ st.buffer[k] = x
        BY <1>1, <1>3, <3>1 DEF UsedOK
      <4>2. ASSUME NEW k \in D, k \in Held(D, U) \/ k = output.index, st.buffer[k] = x
            PROVE  IsFree(t, x) \/ \E l \in D :
                      (l \in Held(D, V) \/ l = output.index) /\ t.buffer[l] = x
        <5>1. CASE k = j
          BY <2>10, <4>2, <5>1 DEF b
        <5>2. CASE k # j
          BY <1>3, <1>11, <4>2, <5>2
        <5> QED
          BY <5>1, <5>2
      <4> QED
        BY <1>3, <2>10, <4>1, <4>2
    <3> QED
      BY <3>1 DEF UsedOK
  <2>14. PlanInv(R, D, V, t)
    BY <1>3, <1>9, <1>12, <2>11, <2>12, <2>13 DEF PlanInv
  <2> QED
    BY <1>3, <2>14 DEF V, Untouched
<1>14. CASE st.remaining[j] - 1 # 0
  <2>1. t.free = st.free
    BY <1>3, <1>14
  <2>2. j \in Held(D, V)
    BY <1>7, <1>14 DEF Held
  <2> HIDE DEF b, j, V, list
  <2>3. \A x : IsFree(t, x) <=> IsFree(st, x)
    BY <2>1 DEF IsFree
  <2>4. FreeOK(t)
    BY <1>1, <1>3, <2>1 DEF FreeOK
  <2>5. HeldOK(Held(D, V), t)
    BY <1>1, <1>3, <1>10, <2>3 DEF HeldOK
  <2>6. \A k \in Held(D, U) : k \in Held(D, V)
    BY <1>11, <2>2
  <2>7. UsedOK(R, D, V, t)
    BY <1>1, <1>3, <2>3, <2>6 DEF UsedOK
  <2>8. PlanInv(R, D, V, t)
    BY <1>3, <1>9, <1>12, <2>4, <2>5, <2>7 DEF PlanInv
  <2> QED
    BY <1>3, <2>8 DEF V, Untouched
<1> QED
  BY <1>13, <1>14

(* e[n] is the state when the first n connections have been looked at.     *)
ReleasesTo(R, st, i, e) ==
  /\ e \in [0..Len(connections) -> PlanState(R)]
  /\ e[0] = st
  /\ \A n \in 0..(Len(connections) - 1) :
       e[n + 1] = IF n + 1 \in Into(i) THEN Release(e[n], connections[n + 1]) ELSE e[n]

LEMMA ReleaseInputsRuns ==
  ASSUME GraphInv, NEW R \in SUBSET Slots, NEW st \in PlanState(R), NEW i,
         \A n \in Into(i) : Src(n) \in R
  PROVE  \E e : ReleasesTo(R, st, i, e) /\ ReleaseInputs(st, i) = e[Len(connections)]
<1> DEFINE N == Len(connections)
           T == PlanState(R)
           Is(e) == e = [n \in 0..N |->
                           IF n = 0 THEN st
                           ELSE IF n \in Into(i) THEN Release(e[n - 1], connections[n])
                           ELSE e[n - 1]]
           next == [p \in Nat \X T |->
                      IF p[1] + 1 \in Into(i) THEN Release(p[2], connections[p[1] + 1]) ELSE p[2]]
<1>1. N \in Nat
  BY PlacesFinite
<1>2. next \in [Nat \X T -> T]
  <2>1. ASSUME NEW n \in Nat, NEW s \in T, n + 1 \in Into(i)
        PROVE  Release(s, connections[n + 1]) \in T
    <3>1. PICK c : c = connections[n + 1]
      OBVIOUS
    <3>2. PICK j \in R : j = c.source_node.index
      BY <2>1, <3>1 DEF Src
    <3>3. PICK t : t = Release(s, c)
      OBVIOUS
    <3>4. t \in PlanState(R) /\ Released(s, j, t)
      BY <3>2, <3>3, ReleaseIs
    <3> QED
      BY <3>1, <3>3, <3>4
  <2> HIDE DEF T
  <2> QED
    BY <2>1
<1>3. \A n \in Nat, s \in T :
        next[<<n, s>>] = IF n + 1 \in Into(i) THEN Release(s, connections[n + 1]) ELSE s
  OBVIOUS
<1> HIDE DEF next, N, T
<1>4. st \in T
  BY DEF T
<1>5. PICK e \in [0..N -> T] : Runs(e, N, st, next)
  BY <1>1, <1>2, <1>4, RecursionTo
<1>6. e[0] = st /\ \A n \in 0..(N - 1) :
        e[n + 1] = IF n + 1 \in Into(i) THEN Release(e[n], connections[n + 1]) ELSE e[n]
  <2>1. \A n \in 0..(N - 1) : e[n] \in T /\ n \in Nat
    BY <1>1
  <2> QED
    BY <1>3, <1>5, <2>1 DEF Runs
<1>7. Is(e)
  <2>1. ASSUME NEW n \in 0..N
        PROVE  e[n] = IF n = 0 THEN st
                      ELSE IF n \in Into(i) THEN Release(e[n - 1], connections[n])
                      ELSE e[n - 1]
    <3>1. CASE n # 0
      <4>1. n - 1 \in 0..(N - 1) /\ (n - 1) + 1 = n
        BY <1>1, <3>1
      <4> QED
        BY <1>6, <3>1, <4>1
    <3> QED
      BY <1>6, <3>1
  <2> QED
    BY <1>5, <2>1
<1> DEFINE after == CHOOSE d : Is(d)
<1>8. ReleaseInputs(st, i) = after[N]
  BY DEF ReleaseInputs, N
<1> HIDE DEF Is
<1>9. Is(after)
  BY <1>7
<1> HIDE DEF after
<1>10. after = [n \in 0..N |->
                  IF n = 0 THEN st
                  ELSE IF n \in Into(i) THEN Release(after[n - 1], connections[n])
                  ELSE after[n - 1]]
  BY <1>9 DEF Is
<1>11. \A n \in 0..N : after[n] = e[n]
  <2>1. after[0] = e[0]
    BY <1>1, <1>6, <1>10
  <2>2. ASSUME NEW n \in 0..(N - 1), after[n] = e[n] PROVE after[n + 1] = e[n + 1]
    <3>1. n + 1 \in 0..N /\ n + 1 # 0 /\ (n + 1) - 1 = n
      BY <1>1
    <3>2. after[n + 1] = IF n + 1 \in Into(i) THEN Release(after[n], connections[n + 1])
                         ELSE after[n]
      BY <1>10, <3>1
    <3> QED
      BY <1>6, <2>2, <3>2
  <2>3. Alike(after, e, N)
    BY <1>1, <2>1, <2>2 DEF Alike
  <2> QED
    BY <1>1, <2>3, Agree
<1>12. ReleaseInputs(st, i) = e[N]
  BY <1>1, <1>8, <1>11
<1>13. ReleasesTo(R, st, i, e)
  BY <1>5, <1>6 DEF ReleasesTo, N, T
<1> QED
  BY <1>12, <1>13 DEF N

LEMMA ReleaseInputsKeeps ==
  ASSUME GraphInv, NEW R, R \subseteq Slots, NEW D, D \subseteq R,
         NEW U, U \subseteq DOMAIN connections, NEW i, Into(i) \subseteq U,
         \A n \in Into(i) : Src(n) \in D, NEW V, V = U \ Into(i),
         NEW st, PlanInv(R, D, U, st), NEW t, t = ReleaseInputs(st, i)
  PROVE  PlanInv(R, D, V, t) /\ Untouched(st, t)
<1> DEFINE N == Len(connections)
           Left(n) == U \ {m \in Into(i) : m <= n}
<1>1. N \in Nat /\ DOMAIN connections = 1..N
  BY PlacesFinite
<1>2. st \in PlanState(R)
  BY DEF PlanInv
<1>13. \A n \in Into(i) : Src(n) \in R
  OBVIOUS
<1>14. PICK e : ReleasesTo(R, st, i, e) /\ ReleaseInputs(st, i) = e[Len(connections)]
  BY <1>2, <1>13, ReleaseInputsRuns
<1>3. /\ e \in [0..N -> PlanState(R)]
      /\ e[0] = st
      /\ \A n \in 0..(N - 1) :
           e[n + 1] = IF n + 1 \in Into(i) THEN Release(e[n], connections[n + 1]) ELSE e[n]
      /\ t = e[N]
  BY <1>14 DEF ReleasesTo
<1> HIDE DEF N
<1>4. \A m \in Into(i) : m \in 1..N
  BY <1>1 DEF Into
<1> DEFINE S == {n \in 0..N :
                   /\ PlanInv(R, D, Left(n), e[n])
                   /\ e[n].steps = st.steps /\ e[n].channels = st.channels
                   /\ e[n].buffer = st.buffer}
<1>5. 0 \in S
  <2>1. Left(0) = U
    BY <1>1, <1>4
  <2> HIDE DEF Left
  <2> QED
    BY <1>1, <1>3, <2>1
<1>6. ASSUME NEW n \in 0..(N - 1), n \in S PROVE n + 1 \in S
  <2>1. /\ PlanInv(R, D, Left(n), e[n])
        /\ e[n].steps = st.steps /\ e[n].channels = st.channels
        /\ e[n].buffer = st.buffer
    BY <1>6
  <2>2. n + 1 \in 0..N /\ n \in Nat
    BY <1>1
  <2>3. \A m \in 1..N : m <= n + 1 <=> m <= n \/ m = n + 1
    BY <1>1
  <2>4. CASE n + 1 \in Into(i)
    <3>1. Left(n + 1) = Left(n) \ {n + 1} /\ n + 1 \in Left(n)
      BY <1>4, <2>2, <2>3, <2>4
    <3>2. Left(n) \in SUBSET DOMAIN connections
      OBVIOUS
    <3>3. Src(n + 1) \in D
      BY <2>4
    <3>4. e[n + 1] = Release(e[n], connections[n + 1])
      BY <1>3, <2>4
    <3> HIDE DEF Left, S
    <3>5. PICK X, Y, m, s, u :
            X = Left(n) /\ Y = Left(n + 1) /\ m = n + 1 /\ s = e[n] /\ u = e[n + 1]
      OBVIOUS
    <3>6. PlanInv(R, D, Y, u) /\ Untouched(s, u)
      <4>1. /\ X \subseteq DOMAIN connections /\ m \in X /\ PlanInv(R, D, X, s)
            /\ Y = X \ {m}
        BY <2>1, <3>1, <3>2, <3>5
      <4>2. Src(m) \in D /\ u = Release(s, connections[m])
        BY <3>3, <3>4, <3>5
      <4> QED
        BY <4>1, <4>2, ReleaseKeeps
    <3>7. PlanInv(R, D, Left(n + 1), e[n + 1])
      BY <3>1, <3>5, <3>6
    <3> QED
      BY <2>1, <2>2, <3>5, <3>6, <3>7 DEF S, Untouched
  <2>5. CASE n + 1 \notin Into(i)
    <3>1. Left(n + 1) = Left(n)
      BY <1>4, <2>3, <2>5
    <3>2. e[n + 1] = e[n]
      BY <1>3, <2>5
    <3> HIDE DEF Left
    <3> QED
      BY <2>1, <2>2, <3>1, <3>2
  <2> QED
    BY <2>4, <2>5
<1> HIDE DEF S
<1>7. N \in S
  <2>1. \A n \in 0..N : n \in S
    BY <1>1, <1>5, <1>6, InductionTo
  <2> QED
    BY <1>1, <2>1
<1>8. Left(N) = U \ Into(i)
  BY <1>1, <1>4
<1> HIDE DEF Left
<1>9. PlanInv(R, D, Left(N), e[N])
      /\ e[N].steps = st.steps /\ e[N].channels = st.channels /\ e[N].buffer = st.buffer
  BY <1>7 DEF S
<1> QED
  BY <1>3, <1>8, <1>9 DEF Untouched

(* The connections that no step has read, when the nodes of D have run.    *)
Unread(R, D) == {n \in DOMAIN connections : Dst(n) \in R \ D}

(* A node's step: its output goes to a buffer that is not yet to be read,  *)
(* then its inputs are given back.                                         *)
Assigned(R, D, st, i, t) ==
  /\ t.steps = Append(st.steps, Step(t, i))
  /\ \A j \in Slots \ {i} : t.buffer[j] = st.buffer[j]
  /\ \A j \in Held(D, Unread(R, D)) : t.buffer[j] # t.buffer[i]
  /\ \/ t.channels = st.channels
     \/ /\ t.channels = Append(st.channels, WidthOf(i))
        /\ st.free[FreeList(WidthOf(i))] = <<>>

LEMMA AssignKeeps ==
  ASSUME GraphInv, NEW R, NEW order, Compiled(R, order), NEW D, D \subseteq R,
         NEW i \in R, i \notin D, NEW E, E = D \cup {i},
         \A n \in DOMAIN connections : Dst(n) \in E => Src(n) \in D,
         NEW st, PlanInv(R, D, Unread(R, D), st), NEW t, t = Assign(st, i)
  PROVE  PlanInv(R, E, Unread(R, E), t) /\ Assigned(R, D, st, i, t)
<1> DEFINE U == Unread(R, D)
           a == Allocate(st, i)
           s == AddStep(a, i)
<1>1. R \in SUBSET Slots /\ i \in Slots /\ WidthOf(i) \in Nat
  BY DEF Compiled
<1>2. U \in SUBSET DOMAIN connections
  BY DEF Unread
<1>3. i = output.index \/ \E n \in U : Src(n) = i
  <2>1. CASE i # output.index
    <3>1. PICK n \in DOMAIN connections : Src(n) = i /\ Dst(n) \in R
      BY <2>1 DEF Compiled
    <3>2. Dst(n) \notin D
      BY <3>1
    <3> QED
      BY <3>1, <3>2 DEF Unread
  <2> QED
    BY <2>1
<1>4. \A n \in Into(i) : n \in U /\ Src(n) \in D
  <2>1. \A n \in Into(i) : n \in DOMAIN connections /\ Dst(n) = i
    BY <1>1, IntoIs
  <2> QED
    BY <2>1 DEF Unread
<1>5. U \ Into(i) = Unread(R, D \cup {i})
  <2>1. Into(i) = {n \in DOMAIN connections : Dst(n) = i}
    BY <1>1, IntoIs
  <2> QED
    BY <2>1 DEF Unread
<1>6. t = ReleaseInputs(s, i)
  BY DEF Assign
<1> HIDE DEF U, s, a
<1>7. PlanInv(R, D, U, st)
  BY DEF U
<1>8. PlanInv(R, E, U, a) /\ a.steps = st.steps /\ Fresh(D, U, st, i, a)
  <2>1. i = output.index \/ i \in Held(E, U)
    BY <1>3 DEF Held
  <2>2. D \subseteq R /\ i \in R /\ i \notin D /\ E = D \cup {i} /\ a = Allocate(st, i)
    BY DEF a
  <2> QED
    BY <1>7, <2>1, <2>2, AllocateKeeps
<1>10. E \subseteq R /\ \A n \in Into(i) : Src(n) \in E
  BY <1>4
<1>9. /\ PlanInv(R, E, U, s)
      /\ s.steps = Append(a.steps, Step(a, i))
      /\ s.channels = a.channels /\ s.buffer = a.buffer
  BY <1>8, AddStepKeeps DEF s
<1>11. Into(i) \subseteq U
  BY <1>4
<1>12. PlanInv(R, E, Unread(R, E), t) /\ Untouched(s, t)
  <2>1. Unread(R, E) = U \ Into(i)
    BY <1>5
  <2>2. R \subseteq Slots /\ U \subseteq DOMAIN connections
    BY <1>1, <1>2
  <2>3. PICK V : V = Unread(R, E)
    OBVIOUS
  <2>4. PlanInv(R, E, V, t) /\ Untouched(s, t)
    BY <1>6, <1>9, <1>10, <1>11, <2>1, <2>2, <2>3, ReleaseInputsKeeps
  <2> QED
    BY <2>3, <2>4
<1>13. Step(a, i) = Step(t, i)
  BY <1>9, <1>12 DEF Step, Untouched
<1>14. \/ a.channels = st.channels
       \/ /\ a.channels = Append(st.channels, WidthOf(i))
          /\ st.free[FreeList(WidthOf(i))] = <<>>
  <2>1. st \in PlanState(R)
    BY DEF PlanInv
  <2>2. Reuses(st, i, a) \/ Makes(st, i, a)
    BY <1>1, <2>1, AllocateIs DEF a
  <2> QED
    BY <2>2 DEF Reuses, Makes
<1>15. /\ t.steps = Append(st.steps, Step(t, i))
       /\ \A j \in Slots \ {i} : t.buffer[j] = st.buffer[j]
       /\ \A j \in Held(D, U) : t.buffer[j] # t.buffer[i]
       /\ t.channels = a.channels
  BY <1>8, <1>9, <1>12, <1>13 DEF Fresh, Untouched
<1> QED
  BY <1>12, <1>14, <1>15 DEF Assigned, U

-----------------------------------------------------------------------------
(* The plan, step by step. *)

LEMMA AssignType ==
  ASSUME GraphInv, NEW R, NEW order, Compiled(R, order),
         NEW st \in PlanState(R), NEW i \in R
  PROVE  Assign(st, i) \in PlanState(R)
<1> DEFINE a == Allocate(st, i)
           s == AddStep(a, i)
<1>1. R \in SUBSET Slots /\ i \in Slots /\ WidthOf(i) \in Nat /\ Closed(R)
  BY DEF Compiled
<1>2. a \in PlanState(R)
  BY <1>1, AllocateIs
<1>3. Assign(st, i) = ReleaseInputs(s, i)
  BY DEF Assign
<1> HIDE DEF a
<1>4. s \in PlanState(R)
  BY <1>2, AddStepIs
<1> HIDE DEF s
<1>5. \A n \in Into(i) : Src(n) \in R
  <2>1. \A n \in Into(i) : n \in DOMAIN connections /\ Dst(n) = i
    BY <1>1, IntoIs
  <2> QED
    BY <1>1, <2>1, ClosedIs
<1>6. PICK e : ReleasesTo(R, s, i, e) /\ ReleaseInputs(s, i) = e[Len(connections)]
  BY <1>1, <1>4, <1>5, ReleaseInputsRuns
<1>7. Len(connections) \in 0..Len(connections) /\ e \in [0..Len(connections) -> PlanState(R)]
  BY <1>6, PlacesFinite DEF ReleasesTo
<1> QED
  BY <1>3, <1>6, <1>7

LEMMA UnplannedType ==
  ASSUME GraphInv, NEW R \in SUBSET Slots
  PROVE  Unplanned(R) \in PlanState(R)
<1>1. \A i \in R : Consumers(i, R) \in Int
  <2>1. ASSUME NEW i \in R PROVE Consumers(i, R) \in Int
    <3> DEFINE A == {n \in DOMAIN connections :
                       /\ connections[n].source_node = NodeAt(i)
                       /\ connections[n].destination_node.index \in R}
    <3>1. A \in SUBSET DOMAIN connections
      OBVIOUS
    <3>2. Consumers(i, R) = Cardinality(A)
      BY DEF Consumers
    <3> HIDE DEF A
    <3>3. IsFiniteSet(A)
      BY <3>1, PlacesFinite, FS_Subset
    <3> QED
      BY <3>2, <3>3, FS_CardinalityType
  <2> QED
    BY <2>1
<1> DEFINE none == <<>>
           buffer == [i \in Slots |-> 0]
           remaining == [i \in R |-> Consumers(i, R)]
           free == [list \in {"mono", "stereo"} |-> <<>>]
<1>2. buffer \in [Slots -> Nat] /\ remaining \in [R -> Int] /\ free \in [Lists -> Seq(Nat)]
  BY <1>1 DEF Lists
<1>3. <<>> \in Seq(StepSet(R)) /\ <<>> \in Seq(Nat)
  OBVIOUS
<1>4. Unplanned(R) = [steps |-> <<>>, channels |-> <<>>, buffer |-> buffer,
                      remaining |-> remaining, free |-> free]
  BY DEF Unplanned
<1> HIDE DEF buffer, remaining, free
<1> QED
  BY <1>2, <1>3, <1>4 DEF PlanState

(* u[n] is the state when n nodes have their steps. *)
PlansTo(R, order, u) ==
  /\ u \in [0..Len(order) -> PlanState(R)]
  /\ u[0] = Unplanned(R)
  /\ \A n \in 0..(Len(order) - 1) : u[n + 1] = Assign(u[n], order[n + 1])

LEMMA PlanRuns ==
  ASSUME GraphInv, NEW R, NEW order, Compiled(R, order)
  PROVE  \E u : PlansTo(R, order, u) /\ PlanOf(R, order) = u[Len(order)]
<1> DEFINE N == Len(order)
           T == PlanState(R)
           Is(e) == e = [n \in 0..N |->
                           IF n = 0 THEN Unplanned(R) ELSE Assign(e[n - 1], order[n])]
           next == [p \in Nat \X T |->
                      IF p[1] + 1 \in 1..N THEN Assign(p[2], order[p[1] + 1]) ELSE p[2]]
<1>1. R \in SUBSET Slots /\ N \in Nat /\ \A l \in 1..N : order[l] \in R
  <2>1. R \in SUBSET Slots /\ order \in Seq(R)
    BY DEF Compiled
  <2> QED
    BY <2>1
<1>2. next \in [Nat \X T -> T]
  <2>1. \A s \in T : \A i \in R : Assign(s, i) \in T
    BY AssignType
  <2> HIDE DEF T, N
  <2> QED
    BY <1>1, <2>1
<1>3. \A n \in 0..(N - 1), s \in T : next[<<n, s>>] = Assign(s, order[n + 1])
  <2>1. \A n \in 0..(N - 1) : n \in Nat /\ n + 1 \in 1..N
    BY <1>1
  <2> HIDE DEF T, N
  <2> QED
    BY <2>1
<1> HIDE DEF next, N, T
<1>4. Unplanned(R) \in T
  BY <1>1, UnplannedType DEF T
<1>5. PICK e \in [0..N -> T] : Runs(e, N, Unplanned(R), next)
  BY <1>1, <1>2, <1>4, RecursionTo
<1>6. e[0] = Unplanned(R) /\ \A n \in 0..(N - 1) : e[n + 1] = Assign(e[n], order[n + 1])
  <2>1. \A n \in 0..(N - 1) : e[n] \in T /\ n \in Nat
    BY <1>1
  <2> QED
    BY <1>3, <1>5, <2>1 DEF Runs
<1>7. Is(e)
  <2>1. ASSUME NEW n \in 0..N
        PROVE  e[n] = IF n = 0 THEN Unplanned(R) ELSE Assign(e[n - 1], order[n])
    <3>1. CASE n # 0
      <4>1. n - 1 \in 0..(N - 1) /\ (n - 1) + 1 = n
        BY <1>1, <3>1
      <4> QED
        BY <1>6, <3>1, <4>1
    <3> QED
      BY <1>6, <3>1
  <2> QED
    BY <1>5, <2>1
<1> DEFINE upTo == CHOOSE d : Is(d)
<1>8. PlanOf(R, order) = upTo[N]
  BY DEF PlanOf, N
<1> HIDE DEF Is
<1>9. Is(upTo)
  BY <1>7
<1> HIDE DEF upTo
<1>10. upTo = [n \in 0..N |->
                 IF n = 0 THEN Unplanned(R) ELSE Assign(upTo[n - 1], order[n])]
  BY <1>9 DEF Is
<1>11. \A n \in 0..N : upTo[n] = e[n]
  <2>1. upTo[0] = e[0]
    BY <1>1, <1>6, <1>10
  <2>2. ASSUME NEW n \in 0..(N - 1), upTo[n] = e[n] PROVE upTo[n + 1] = e[n + 1]
    <3>1. n + 1 \in 0..N /\ n + 1 # 0 /\ (n + 1) - 1 = n
      BY <1>1
    <3>2. upTo[n + 1] = Assign(upTo[n], order[n + 1])
      BY <1>10, <3>1
    <3> QED
      BY <1>6, <2>2, <3>2
  <2>3. Alike(upTo, e, N)
    BY <1>1, <2>1, <2>2 DEF Alike
  <2> QED
    BY <1>1, <2>3, Agree
<1>12. PlanOf(R, order) = e[N]
  BY <1>1, <1>8, <1>11
<1>13. PlansTo(R, order, e)
  BY <1>5, <1>6 DEF PlansTo, N, T
<1> QED
  BY <1>12, <1>13 DEF N

(* The nodes that have run when m have. *)
Ran(order, m) == {order[l] : l \in 1..m}

(* Node i is next: what it reads has run, and it has not. *)
NextIs(R, D, i, E) ==
  /\ D \subseteq R /\ i \in R /\ i \notin D /\ E = D \cup {i}
  /\ \A n \in DOMAIN connections : Dst(n) \in E => Src(n) \in D

LEMMA RanIs ==
  ASSUME GraphInv, NEW R, NEW order, Compiled(R, order), NEW m \in 0..(Len(order) - 1),
         NEW D, D = Ran(order, m), NEW i, i = order[m + 1], NEW E, E = Ran(order, m + 1)
  PROVE  NextIs(R, D, i, E)
<1> DEFINE N == Len(order)
<1>1. order \in Seq(R) /\ Sorted(order) /\ R \in SUBSET Slots
  BY DEF Compiled
<1>2. N \in Nat /\ \A l \in 1..N : order[l] \in R
  BY <1>1
<1>3. /\ m \in Nat /\ m + 1 \in 1..N /\ m + 1 \notin 1..m
      /\ \A l \in 1..m : l \in 1..N /\ l \in 1..(m + 1)
      /\ \A l \in 1..(m + 1) : l \in 1..N /\ (l \in 1..m \/ l = m + 1)
      /\ m + 1 \in 1..(m + 1)
  BY <1>2
<1> HIDE DEF N
<1>4. D \subseteq R /\ i \in R
  BY <1>2, <1>3 DEF Ran
<1>5. i \notin D
  <2>1. \A l \in 1..N : order[l] = order[m + 1] => l = m + 1
    BY <1>1, <1>3 DEF Sorted, N
  <2> QED
    BY <1>3, <2>1 DEF Ran
<1>6. E = D \cup {i}
  <2>1. \A x : x \in E <=> \E l \in 1..(m + 1) : order[l] = x
    BY DEF Ran
  <2>2. \A x : x \in D <=> \E l \in 1..m : order[l] = x
    BY DEF Ran
  <2> QED
    BY <1>3, <2>1, <2>2
<1>7. ASSUME NEW n \in DOMAIN connections, Dst(n) \in E PROVE Src(n) \in D
  <2>1. PICK l \in 1..(m + 1) : order[l] = Dst(n)
    BY <1>7 DEF Ran
  <2>2. n \in Into(order[l])
    <3>1. Dst(n) \in Slots
      BY WireEnds
    <3> QED
      BY <2>1, <3>1, IntoIs
  <2>3. PICK q \in 1..(l - 1) : order[q] = Src(n)
    BY <1>1, <1>3, <2>1, <2>2 DEF Sorted, N
  <2>4. q \in 1..m
    BY <1>3
  <2> QED
    BY <2>3, <2>4 DEF Ran
<1> QED
  BY <1>4, <1>5, <1>6, <1>7 DEF NextIs

LEMMA UnplannedInv ==
  ASSUME GraphInv, NEW R, NEW order, Compiled(R, order)
  PROVE  PlanInv(R, {}, Unread(R, {}), Unplanned(R))
<1> DEFINE st == Unplanned(R)
<1>1. R \in SUBSET Slots
  BY DEF Compiled
<1>2. st \in PlanState(R)
  BY <1>1, UnplannedType
<1>3. /\ st.channels = <<>> /\ Len(st.channels) = 0
      /\ st.remaining = [i \in R |-> Consumers(i, R)]
      /\ \A list \in Lists : st.free[list] = <<>> /\ Len(st.free[list]) = 0
  BY DEF Unplanned, Lists
<1> HIDE DEF st
<1>4. 1..0 = {}
  OBVIOUS
<1>5. FreeOK(st)
  BY <1>3, <1>4 DEF FreeOK
<1>6. BuffersOK({}, st) /\ HeldOK(Held({}, Unread(R, {})), st)
  BY DEF BuffersOK, HeldOK, Held
<1>7. CountOK(R, Unread(R, {}), st)
  <2>1. ASSUME NEW i \in R
        PROVE  st.remaining[i] = Cardinality({n \in Unread(R, {}) : Src(n) = i})
    <3>1. {n \in DOMAIN connections :
             /\ connections[n].source_node = NodeAt(i)
             /\ connections[n].destination_node.index \in R}
           = {n \in Unread(R, {}) : Src(n) = i}
      <4>1. \A n \in DOMAIN connections :
              connections[n].source_node = NodeAt(i) <=> Src(n) = i
        BY <1>1, FromIs
      <4> QED
        BY <4>1 DEF Unread, Dst
    <3> QED
      BY <1>3, <3>1 DEF Consumers
  <2> QED
    BY <2>1 DEF CountOK
<1>8. UsedOK(R, {}, Unread(R, {}), st)
  BY <1>3, <1>4 DEF UsedOK
<1> QED
  BY <1>2, <1>5, <1>6, <1>7, <1>8 DEF PlanInv, st

(* Each state is the one before with a node's step assigned, and keeps the *)
(* invariant.                                                              *)
LEMMA PlanStates ==
  ASSUME GraphInv, NEW R, NEW order, Compiled(R, order), NEW u, PlansTo(R, order, u)
  PROVE  \A n \in 0..Len(order) :
           /\ PlanInv(R, Ran(order, n), Unread(R, Ran(order, n)), u[n])
           /\ n < Len(order) => Assigned(R, Ran(order, n), u[n], order[n + 1], u[n + 1])
<1> DEFINE N == Len(order)
           S == {n \in 0..N : PlanInv(R, Ran(order, n), Unread(R, Ran(order, n)), u[n])}
<1>1. N \in Nat
  <2>1. order \in Seq(R)
    BY DEF Compiled
  <2> QED
    BY <2>1
<1>2. 0 \in S
  <2>1. Ran(order, 0) = {}
    BY DEF Ran
  <2>2. u[0] = Unplanned(R)
    BY DEF PlansTo
  <2>3. PlanInv(R, Ran(order, 0), Unread(R, Ran(order, 0)), u[0])
    BY <2>1, <2>2, UnplannedInv
  <2> QED
    BY <1>1, <2>3
<1>3. ASSUME NEW n \in 0..(N - 1), n \in S
      PROVE  n + 1 \in S /\ Assigned(R, Ran(order, n), u[n], order[n + 1], u[n + 1])
  <2>1. PICK D, E, i, st, t : /\ D = Ran(order, n) /\ E = Ran(order, n + 1) /\ i = order[n + 1]
                              /\ st = u[n] /\ t = u[n + 1]
    OBVIOUS
  <2>2. /\ D \subseteq R /\ i \in R /\ i \notin D /\ E = D \cup {i}
        /\ \A m \in DOMAIN connections : Dst(m) \in E => Src(m) \in D
    <3>1. NextIs(R, D, i, E)
      BY <2>1, RanIs
    <3> QED
      BY <3>1 DEF NextIs
  <2>3. PlanInv(R, D, Unread(R, D), st) /\ n + 1 \in 0..N
    BY <1>1, <1>3, <2>1
  <2>4. t = Assign(st, i)
    BY <2>1 DEF PlansTo
  <2>5. PlanInv(R, E, Unread(R, E), t) /\ Assigned(R, D, st, i, t)
    BY <2>2, <2>3, <2>4, AssignKeeps
  <2> QED
    BY <2>1, <2>3, <2>5
<1> HIDE DEF S
<1>4. \A n \in 0..N : n \in S
  BY <1>1, <1>2, <1>3, InductionTo
<1>5. \A n \in 0..N : n < N => n \in 0..(N - 1)
  BY <1>1
<1> QED
  BY <1>3, <1>4, <1>5 DEF S

(* A node's inputs come from nodes that have run and are yet to be read.   *)
LEMMA SourcesHeld ==
  ASSUME GraphInv, NEW R, NEW order, Compiled(R, order), NEW m \in 0..(Len(order) - 1),
         NEW D, D = Ran(order, m), NEW i, i = order[m + 1], NEW k \in Inputs(i)
  PROVE  SourceOf(i, k) \in D /\ SourceOf(i, k) \in Held(D, Unread(R, D))
<1>1. PICK E : E = Ran(order, m + 1)
  OBVIOUS
<1>2. /\ D \subseteq R /\ i \in R /\ i \notin D /\ E = D \cup {i}
      /\ \A n \in DOMAIN connections : Dst(n) \in E => Src(n) \in D
  <2>1. NextIs(R, D, i, E)
    BY <1>1, RanIs
  <2> QED
    BY <2>1 DEF NextIs
<1>3. PICK n \in Into(i) : Inp(n) = k /\ SourceOf(i, k) = Src(n) /\ Src(n) \in R
  BY <1>2, SourceOfIs
<1>4. n \in DOMAIN connections /\ Dst(n) = i
  <2>1. i \in Slots
    BY <1>2 DEF Compiled
  <2> QED
    BY <2>1, IntoIs
<1>5. Src(n) \in D
  BY <1>2, <1>4
<1>6. n \in Unread(R, D)
  BY <1>2, <1>4 DEF Unread
<1> QED
  BY <1>3, <1>5, <1>6 DEF Held

(* Once given, a node's buffer stays. *)
LEMMA BuffersKept ==
  ASSUME GraphInv, NEW R, NEW order, Compiled(R, order), NEW u, PlansTo(R, order, u)
  PROVE  \A n \in 0..Len(order) : \A l \in 0..n : \A j \in Ran(order, l) :
           u[n].buffer[j] = u[l].buffer[j]
<1> DEFINE N == Len(order)
           S == {n \in 0..N : \A l \in 0..n : \A j \in Ran(order, l) :
                                u[n].buffer[j] = u[l].buffer[j]}
<1>1. N \in Nat
  <2>1. order \in Seq(R)
    BY DEF Compiled
  <2> QED
    BY <2>1
<1>2. 0 \in S
  <2>1. \A l \in 0..0 : l = 0
    OBVIOUS
  <2> QED
    BY <1>1, <2>1
<1>3. ASSUME NEW n \in 0..(N - 1), n \in S PROVE n + 1 \in S
  <2>1. n + 1 \in 0..N /\ n \in 0..N /\ n < N
    BY <1>1
  <2>2. \A l \in 0..(n + 1) : l = n + 1 \/ l \in 0..n
    BY <1>1
  <2>3. ASSUME NEW l \in 0..n, NEW j \in Ran(order, l)
        PROVE  u[n + 1].buffer[j] = u[l].buffer[j]
    <3>1. j \in Ran(order, n)
      <4>1. \A q \in 1..l : q \in 1..n
        BY <1>1
      <4> QED
        BY <4>1 DEF Ran
    <3>2. PICK D, E, i : D = Ran(order, n) /\ E = Ran(order, n + 1) /\ i = order[n + 1]
      OBVIOUS
    <3>3. D \subseteq R /\ i \in R /\ i \notin D
      <4>1. NextIs(R, D, i, E)
        BY <3>2, RanIs
      <4> QED
        BY <4>1 DEF NextIs
    <3>4. j \in Slots \ {i}
      BY <3>1, <3>2, <3>3 DEF Compiled
    <3>5. Assigned(R, D, u[n], i, u[n + 1])
      BY <2>1, <3>2, PlanStates
    <3>6. u[n + 1].buffer[j] = u[n].buffer[j]
      BY <3>4, <3>5 DEF Assigned
    <3>7. u[n].buffer[j] = u[l].buffer[j]
      BY <1>3
    <3> QED
      BY <3>6, <3>7
  <2> QED
    BY <2>1, <2>2, <2>3
<1> HIDE DEF S
<1>4. \A n \in 0..N : n \in S
  BY <1>1, <1>2, <1>3, InductionTo
<1> QED
  BY <1>4 DEF S

(* The plan: a step for each node in its turn, a buffer of its width for   *)
(* each, and none written while what is in it is yet to be read.           *)
Planned(R, order, p) ==
  /\ Len(p.steps) = Len(order)
  /\ \A l \in 1..Len(order) : p.steps[l] = Step(p, order[l])
  /\ Len(p.channels) \in Nat /\ DOMAIN p.channels = 1..Len(p.channels)
  /\ \A i \in R : p.buffer[i] \in 1..Len(p.channels) /\ p.channels[p.buffer[i]] = WidthOf(i)
  /\ \A m \in 0..(Len(order) - 1) : \A j \in Held(Ran(order, m), Unread(R, Ran(order, m))) :
       p.buffer[j] # p.buffer[order[m + 1]]

LEMMA PlanSteps ==
  ASSUME GraphInv, NEW R, NEW order, Compiled(R, order), NEW u, PlansTo(R, order, u)
  PROVE  \A n \in 0..Len(order) :
           /\ Len(u[n].steps) = n
           /\ \A l \in 1..n : u[n].steps[l] = Step(u[l], order[l])
<1> DEFINE N == Len(order)
           S == {n \in 0..N : /\ Len(u[n].steps) = n
                              /\ \A l \in 1..n : u[n].steps[l] = Step(u[l], order[l])}
<1>1. N \in Nat
  <2>1. order \in Seq(R)
    BY DEF Compiled
  <2> QED
    BY <2>1
<1>2. 0 \in S
  <2>1. u[0].steps = <<>>
    BY DEF PlansTo, Unplanned
  <2> QED
    BY <1>1, <2>1
<1>3. ASSUME NEW n \in 0..(N - 1), n \in S PROVE n + 1 \in S
  <2>1. n + 1 \in 0..N /\ n \in 0..N /\ n < N /\ n \in Nat
    BY <1>1
  <2>2. Assigned(R, Ran(order, n), u[n], order[n + 1], u[n + 1])
    BY <2>1, PlanStates
  <2>3. PICK s, x : s = u[n].steps /\ x = Step(u[n + 1], order[n + 1])
    OBVIOUS
  <2>4. u[n + 1].steps = Append(s, x)
    BY <2>2, <2>3 DEF Assigned
  <2>5. s \in Seq(StepSet(R))
    <3>1. u[n] \in PlanState(R)
      BY <2>1 DEF PlansTo
    <3> QED
      BY <2>3, <3>1, PlanFields
  <2>6. Len(s) = n /\ \A l \in 1..n : s[l] = Step(u[l], order[l])
    BY <1>3, <2>3
  <2>7. /\ Len(Append(s, x)) = n + 1 /\ Append(s, x)[n + 1] = x
        /\ \A l \in 1..n : Append(s, x)[l] = s[l]
    BY <2>5, <2>6
  <2>8. \A l \in 1..(n + 1) : l = n + 1 \/ l \in 1..n
    BY <2>1
  <2>9. \A l \in 1..(n + 1) : u[n + 1].steps[l] = Step(u[l], order[l])
    BY <2>3, <2>4, <2>6, <2>7, <2>8
  <2> QED
    BY <2>1, <2>4, <2>7, <2>9
<1> HIDE DEF S
<1>4. \A n \in 0..N : n \in S
  BY <1>1, <1>2, <1>3, InductionTo
<1> QED
  BY <1>4 DEF S

LEMMA PlanIs ==
  ASSUME GraphInv, NEW R, NEW order, Compiled(R, order), NEW u, PlansTo(R, order, u),
         NEW p, p = u[Len(order)]
  PROVE  Planned(R, order, p)
<1> DEFINE N == Len(order)
<1>1. N \in Nat /\ N \in 0..N /\ \A l \in 1..N : l \in 0..N
  <2>1. order \in Seq(R)
    BY DEF Compiled
  <2> QED
    BY <2>1
<1>2. Ran(order, N) = R
  <2>1. /\ \A l \in 1..N : order[l] \in R
        /\ \A i \in R : \E l \in 1..N : order[l] = i
    BY DEF Compiled
  <2> QED
    BY <2>1 DEF Ran
<1>3. \A l \in 0..N : \A j \in Ran(order, l) : p.buffer[j] = u[l].buffer[j]
  BY <1>1, BuffersKept
<1>4. PlanInv(R, R, Unread(R, R), p)
  BY <1>1, <1>2, PlanStates
<1>5. /\ Len(p.channels) \in Nat /\ DOMAIN p.channels = 1..Len(p.channels)
      /\ \A i \in R : p.buffer[i] \in 1..Len(p.channels) /\ p.channels[p.buffer[i]] = WidthOf(i)
  <2>1. p.channels \in Seq(Nat)
    BY <1>4, PlanFields DEF PlanInv
  <2> QED
    BY <1>4, <2>1 DEF PlanInv, BuffersOK
<1>6. Len(p.steps) = N /\ \A l \in 1..N : p.steps[l] = Step(u[l], order[l])
  BY <1>1, PlanSteps
<1>7. ASSUME NEW m \in 0..(N - 1)
      PROVE  /\ p.steps[m + 1] = Step(p, order[m + 1])
             /\ \A j \in Held(Ran(order, m), Unread(R, Ran(order, m))) :
                  p.buffer[j] # p.buffer[order[m + 1]]
  <2>1. m \in 0..N /\ m + 1 \in 1..N /\ m < N
    BY <1>1
  <2>2. PICK D, E, i, t : /\ D = Ran(order, m) /\ E = Ran(order, m + 1) /\ i = order[m + 1]
                          /\ t = u[m + 1]
    OBVIOUS
  <2>3. D \subseteq R /\ i \in R /\ E = D \cup {i}
    <3>1. NextIs(R, D, i, E)
      BY <2>2, RanIs
    <3> QED
      BY <3>1 DEF NextIs
  <2>4. Assigned(R, D, u[m], i, t)
    BY <2>1, <2>2, PlanStates
  <2>5. \A j \in E : p.buffer[j] = t.buffer[j]
    BY <1>1, <1>3, <2>1, <2>2
  <2>6. \A k \in Inputs(i) : SourceOf(i, k) \in D
    BY <2>2, SourcesHeld
  <2>7. Step(t, i) = Step(p, i)
    BY <2>3, <2>5, <2>6 DEF Step
  <2>8. p.steps[m + 1] = Step(t, i)
    BY <1>6, <2>1, <2>2
  <2>9. \A j \in Held(D, Unread(R, D)) : j \in D /\ t.buffer[j] # t.buffer[i]
    BY <2>4 DEF Assigned, Held
  <2> QED
    BY <2>2, <2>3, <2>5, <2>7, <2>8, <2>9
<1>8. ASSUME NEW l \in 1..N PROVE p.steps[l] = Step(p, order[l])
  <2>1. l - 1 \in 0..(N - 1) /\ (l - 1) + 1 = l
    BY <1>1
  <2>2. PICK m \in 0..(N - 1) : m + 1 = l
    BY <2>1
  <2> QED
    BY <1>7, <2>2
<1>9. \A m \in 0..(N - 1) : \A j \in Held(Ran(order, m), Unread(R, Ran(order, m))) :
        p.buffer[j] # p.buffer[order[m + 1]]
  BY <1>7
<1> QED
  BY <1>5, <1>6, <1>8, <1>9 DEF Planned

(* What Compile makes of a graph it accepts. *)
LEMMA CompiledPlan ==
  ASSUME GraphInv, NEW R, NEW order, Compiled(R, order)
  PROVE  Planned(R, order, PlanOf(R, order))
<1>1. PICK u : PlansTo(R, order, u) /\ PlanOf(R, order) = u[Len(order)]
  BY PlanRuns
<1> QED
  BY <1>1, PlanIs

-----------------------------------------------------------------------------
(* What a compiled graph means: an assignment of a term to every node that *)
(* is that node applied to the terms of its sources.                       *)

Applied(i, val) ==
  <<i>> \o [k \in 1..ExpectedInputs[node[i]] |-> val[SourceOf(i, k - 1)]]

Means(R, val) == \A i \in R : val[i] = Applied(i, val)

LEMMA InputCounts == \A t \in NodeTypes : ExpectedInputs[t] \in Nat
<1>1. \A n \in 0..MaxNodeInputs : n \in Nat
  BY DEF MaxNodeInputs
<1> QED
  BY <1>1, GraphAssumption

(* The terms of depth d + 1 from those of depth d. *)
Deeper(terms) ==
  [i \in Slots |->
     IF node[i] = "none" THEN Silent
     ELSE <<i>> \o [k \in 1..ExpectedInputs[node[i]] |->
            IF Sources(i, k - 1) = {} THEN Silent ELSE terms[SourceOf(i, k - 1)]]]

TermsTo(term) == \A d \in 0..(MaxNodes - 1) : term[d + 1] = Deeper(term[d])

LEMMA TermsRun == \E term : TermsTo(term) /\ Meaning = term[MaxNodes][output.index]
<1> DEFINE N == MaxNodes
           none == [i \in Slots |-> Silent]
           Is(e) == e = [d \in 0..N |->
                           [i \in Slots |->
                              IF d = 0 \/ node[i] = "none" THEN Silent
                              ELSE <<i>> \o [k \in 1..ExpectedInputs[node[i]] |->
                                     IF Sources(i, k - 1) = {} THEN Silent
                                     ELSE e[d - 1][SourceOf(i, k - 1)]]]]
           From(e, m) == e[0] = none /\ \A d \in 0..(m - 1) : e[d + 1] = Deeper(e[d])
           S == {m \in Nat : \E e : From(e, m)}
<1>1. N \in Nat
  BY GraphAssumption
<1>2. \A m \in Nat : m \in S
  <2>1. 0 \in S
    <3>1. PICK e : e = [d \in 0..0 |-> none]
      OBVIOUS
    <3>2. e[0] = none
      BY <3>1
    <3> QED
      BY <3>2
  <2>2. ASSUME NEW m \in Nat, m \in S PROVE m + 1 \in S
    <3>1. PICK e : From(e, m)
      BY <2>2
    <3>2. PICK g : g = [d \in 0..(m + 1) |-> IF d <= m THEN e[d] ELSE Deeper(e[m])]
      OBVIOUS
    <3>3. g[0] = none
      BY <3>1, <3>2
    <3>4. ASSUME NEW d \in 0..m PROVE g[d + 1] = Deeper(g[d])
      <4>1. g[d] = e[d]
        BY <3>2
      <4>2. CASE d = m
        <5>1. g[d + 1] = Deeper(e[m])
          BY <3>2, <4>2
        <5> QED
          BY <4>1, <4>2, <5>1
      <4>3. CASE d # m
        <5>1. d \in 0..(m - 1) /\ d + 1 \in 0..(m + 1) /\ d + 1 <= m
          BY <4>3
        <5>2. g[d + 1] = e[d + 1]
          BY <3>2, <5>1
        <5> QED
          BY <3>1, <4>1, <5>1, <5>2
      <4> QED
        BY <4>2, <4>3
    <3>5. (m + 1) - 1 = m /\ m + 1 \in Nat
      OBVIOUS
    <3>6. From(g, m + 1)
      BY <3>3, <3>4, <3>5
    <3> HIDE DEF From
    <3> QED
      BY <3>5, <3>6
  <2> HIDE DEF S
  <2> QED
    BY <2>1, <2>2, Induction
<1>3. PICK e : From(e, N)
  BY <1>1, <1>2
<1>4. PICK f : f = [d \in 0..N |-> e[d]]
  OBVIOUS
<1>5. f[0] = none /\ \A d \in 0..(N - 1) : f[d + 1] = Deeper(f[d])
  <2>1. \A d \in 0..(N - 1) : d \in 0..N /\ d + 1 \in 0..N
    BY <1>1
  <2> HIDE DEF none, N
  <2> QED
    BY <1>1, <1>3, <1>4, <2>1
<1> HIDE DEF S, From
<1>6. Is(f)
  <2>1. ASSUME NEW d \in 0..N
        PROVE  f[d] = [i \in Slots |->
                         IF d = 0 \/ node[i] = "none" THEN Silent
                         ELSE <<i>> \o [k \in 1..ExpectedInputs[node[i]] |->
                                IF Sources(i, k - 1) = {} THEN Silent
                                ELSE f[d - 1][SourceOf(i, k - 1)]]]
    <3>1. CASE d # 0
      <4>1. PICK q \in 0..(N - 1) : q = d - 1 /\ q + 1 = d
        BY <1>1, <3>1
      <4>2. f[d] = Deeper(f[q])
        BY <1>5, <4>1
      <4> QED
        BY <3>1, <4>1, <4>2 DEF Deeper
    <3>2. CASE d = 0
      BY <1>5, <3>2
    <3> QED
      BY <3>1, <3>2
  <2> QED
    BY <1>4, <2>1
<1> DEFINE term == CHOOSE h : Is(h)
<1>7. Meaning = term[N][output.index]
  BY DEF Meaning
<1> HIDE DEF Is
<1>8. Is(term)
  BY <1>6
<1> HIDE DEF term
<1>9. ASSUME NEW d \in 0..(N - 1) PROVE term[d + 1] = Deeper(term[d])
  <2>1. d + 1 \in 0..N /\ d + 1 # 0 /\ (d + 1) - 1 = d
    BY <1>1
  <2>2. term[d + 1] =
          [i \in Slots |->
             IF d + 1 = 0 \/ node[i] = "none" THEN Silent
             ELSE <<i>> \o [k \in 1..ExpectedInputs[node[i]] |->
                    IF Sources(i, k - 1) = {} THEN Silent
                    ELSE term[(d + 1) - 1][SourceOf(i, k - 1)]]]
    BY <1>8, <2>1 DEF Is
  <2> QED
    BY <2>1, <2>2 DEF Deeper
<1>10. TermsTo(term)
  BY <1>9 DEF TermsTo
<1> QED
  BY <1>7, <1>10

(* A node in its turn has the same term at every depth that is not less.   *)
LEMMA TermsSettle ==
  ASSUME GraphInv, NEW R, NEW order, Compiled(R, order), NEW term, TermsTo(term),
         NEW val, val = term[MaxNodes]
  PROVE  Means(R, val)
<1> DEFINE N == Len(order)
           Settled(q, i) == \A d \in q..MaxNodes : term[d][i] = val[i]
           S == {m \in 0..N : \A i \in Ran(order, m) : Settled(m, i) /\ val[i] = Applied(i, val)}
<1>1. N \in Nat /\ N <= MaxNodes /\ MaxNodes \in Nat
  <2>1. order \in Seq(R) /\ N <= MaxNodes
    BY DEF Compiled
  <2> QED
    BY <2>1, GraphAssumption
<1>2. 0 \in S
  <2>1. Ran(order, 0) = {}
    BY DEF Ran
  <2> QED
    BY <1>1, <2>1
<1>3. ASSUME NEW m \in 0..(N - 1), m \in S PROVE m + 1 \in S
  <2>1. PICK D, E, i : D = Ran(order, m) /\ E = Ran(order, m + 1) /\ i = order[m + 1]
    OBVIOUS
  <2>2. D \subseteq R /\ i \in R /\ E = D \cup {i}
    <3>1. NextIs(R, D, i, E)
      BY <2>1, RanIs
    <3> QED
      BY <3>1 DEF NextIs
  <2>3. \A j \in D : Settled(m, j) /\ val[j] = Applied(j, val)
    BY <1>3, <2>1
  <2>4. i \in Slots /\ node[i] # "none" /\ \A k \in Inputs(i) : \E n \in Into(i) : Inp(n) = k
    BY <2>2, GraphAssumption DEF Compiled
  <2>5. ASSUME NEW k \in 1..ExpectedInputs[node[i]]
        PROVE  Sources(i, k - 1) # {} /\ SourceOf(i, k - 1) \in D
    <3>1. k - 1 \in Inputs(i)
      <4>1. node[i] \in NodeTypes
        BY <2>2 DEF Compiled
      <4>2. ExpectedInputs[node[i]] \in Nat
        BY <4>1, InputCounts
      <4> QED
        BY <4>2 DEF Inputs
    <3>2. PICK n \in Into(i) : Inp(n) = k - 1
      BY <2>4, <3>1
    <3>3. Sources(i, k - 1) # {}
      BY <2>4, <3>2, SourcesIs
    <3>4. SourceOf(i, k - 1) \in D
      BY <2>1, <3>1, SourcesHeld
    <3> QED
      BY <3>3, <3>4
  <2>6. ASSUME NEW d \in (m + 1)..MaxNodes PROVE term[d][i] = Applied(i, val)
    <3>1. PICK q \in m..(MaxNodes - 1) : q + 1 = d
      <4>1. d - 1 \in m..(MaxNodes - 1) /\ (d - 1) + 1 = d
        BY <1>1
      <4> QED
        BY <4>1
    <3>2. q \in 0..(MaxNodes - 1) /\ q \in m..MaxNodes
      BY <1>1
    <3>3. term[d] = Deeper(term[q])
      BY <3>1, <3>2 DEF TermsTo
    <3>4. \A j \in D : term[q][j] = val[j]
      BY <2>3, <3>2
    <3>5. \A k \in 1..ExpectedInputs[node[i]] :
            /\ Sources(i, k - 1) # {}
            /\ term[q][SourceOf(i, k - 1)] = val[SourceOf(i, k - 1)]
      BY <2>5, <3>4
    <3>6. term[d][i] = <<i>> \o [k \in 1..ExpectedInputs[node[i]] |->
                          IF Sources(i, k - 1) = {} THEN Silent
                          ELSE term[q][SourceOf(i, k - 1)]]
      BY <2>4, <3>3 DEF Deeper
    <3>7. [k \in 1..ExpectedInputs[node[i]] |->
             IF Sources(i, k - 1) = {} THEN Silent ELSE term[q][SourceOf(i, k - 1)]]
           = [k \in 1..ExpectedInputs[node[i]] |-> val[SourceOf(i, k - 1)]]
      BY <3>5
    <3> QED
      BY <3>6, <3>7 DEF Applied
  <2>7. val[i] = Applied(i, val)
    <3>1. MaxNodes \in (m + 1)..MaxNodes
      BY <1>1
    <3> QED
      BY <2>6, <3>1
  <2>8. Settled(m + 1, i)
    BY <2>6, <2>7
  <2>9. \A j \in D : Settled(m + 1, j)
    <3>1. \A d \in (m + 1)..MaxNodes : d \in m..MaxNodes
      BY <1>1
    <3> QED
      BY <2>3, <3>1
  <2>10. m + 1 \in 0..N
    BY <1>1
  <2> HIDE DEF Settled
  <2> QED
    BY <2>1, <2>2, <2>3, <2>7, <2>8, <2>9, <2>10
<1> HIDE DEF S
<1>4. \A m \in 0..N : m \in S
  BY <1>1, <1>2, <1>3, InductionTo
<1>5. N \in S /\ \A i \in R : i \in Ran(order, N)
  <2>1. \A i \in R : \E l \in 1..N : order[l] = i
    BY DEF Compiled
  <2> QED
    BY <1>1, <1>4, <2>1 DEF Ran
<1>6. \A i \in Ran(order, N) : val[i] = Applied(i, val)
  BY <1>5 DEF S
<1> QED
  BY <1>5, <1>6 DEF Means

LEMMA MeaningIs ==
  ASSUME GraphInv, NEW R, NEW order, Compiled(R, order)
  PROVE  \E val : Means(R, val) /\ Meaning = val[output.index]
<1>1. PICK term : TermsTo(term) /\ Meaning = term[MaxNodes][output.index]
  BY TermsRun
<1> QED
  BY <1>1, TermsSettle

-----------------------------------------------------------------------------
(* Rendering a plan. *)

(* c[n] is what the buffers hold after n steps. *)
RendersTo(p, c) ==
  /\ c[0] = [b \in DOMAIN p.channels |-> Leftover]
  /\ \A n \in 0..(Len(p.steps) - 1) : c[n + 1] = Process(c[n], p.steps[n + 1], p.channels)

LEMMA RenderRuns ==
  ASSUME NEW p, Len(p.steps) \in Nat
  PROVE  \E c : RendersTo(p, c) /\ Render(p) = c[Len(p.steps)][p.buffer[output.index]]
<1> DEFINE N == Len(p.steps)
           first == [b \in DOMAIN p.channels |-> Leftover]
           Is(e) == e = [n \in 0..N |->
                           IF n = 0 THEN first
                           ELSE Process(e[n - 1], p.steps[n], p.channels)]
           From(e, m) == /\ e[0] = first
                         /\ \A n \in 0..(m - 1) :
                              e[n + 1] = Process(e[n], p.steps[n + 1], p.channels)
           S == {m \in Nat : \E e : From(e, m)}
<1>1. N \in Nat
  OBVIOUS
<1>2. \A m \in Nat : m \in S
  <2>1. 0 \in S
    <3>1. PICK e : e = [n \in 0..0 |-> first]
      OBVIOUS
    <3>2. e[0] = first
      BY <3>1
    <3> QED
      BY <3>2
  <2>2. ASSUME NEW m \in Nat, m \in S PROVE m + 1 \in S
    <3>1. PICK e : From(e, m)
      BY <2>2
    <3>2. PICK x : x = Process(e[m], p.steps[m + 1], p.channels)
      OBVIOUS
    <3>3. PICK g : g = [n \in 0..(m + 1) |-> IF n <= m THEN e[n] ELSE x]
      OBVIOUS
    <3>4. g[0] = first
      BY <3>1, <3>3
    <3>5. ASSUME NEW n \in 0..m PROVE g[n + 1] = Process(g[n], p.steps[n + 1], p.channels)
      <4>1. g[n] = e[n]
        BY <3>3
      <4>2. CASE n = m
        <5>1. g[n + 1] = x
          BY <3>3, <4>2
        <5> QED
          BY <3>2, <4>1, <4>2, <5>1
      <4>3. CASE n # m
        <5>1. n \in 0..(m - 1) /\ n + 1 \in 0..(m + 1) /\ n + 1 <= m
          BY <4>3
        <5>2. g[n + 1] = e[n + 1]
          BY <3>3, <5>1
        <5> QED
          BY <3>1, <4>1, <5>1, <5>2
      <4> QED
        BY <4>2, <4>3
    <3>6. (m + 1) - 1 = m /\ m + 1 \in Nat
      OBVIOUS
    <3>7. From(g, m + 1)
      BY <3>4, <3>5, <3>6
    <3> HIDE DEF From
    <3> QED
      BY <3>6, <3>7
  <2> HIDE DEF S
  <2> QED
    BY <2>1, <2>2, Induction
<1>3. PICK e : From(e, N)
  BY <1>1, <1>2
<1>4. PICK f : f = [n \in 0..N |-> e[n]]
  OBVIOUS
<1>5. f[0] = first /\ \A n \in 0..(N - 1) : f[n + 1] = Process(f[n], p.steps[n + 1], p.channels)
  <2>1. \A n \in 0..(N - 1) : n \in 0..N /\ n + 1 \in 0..N
    BY <1>1
  <2> HIDE DEF first, N
  <2> QED
    BY <1>1, <1>3, <1>4, <2>1
<1> HIDE DEF S, From, N, first
<1>6. Is(f)
  <2>1. ASSUME NEW n \in 0..N
        PROVE  f[n] = IF n = 0 THEN first ELSE Process(f[n - 1], p.steps[n], p.channels)
    <3>1. CASE n # 0
      <4>1. n - 1 \in 0..(N - 1) /\ (n - 1) + 1 = n
        BY <1>1, <3>1
      <4> QED
        BY <1>5, <3>1, <4>1
    <3> QED
      BY <1>5, <3>1
  <2> QED
    BY <1>4, <2>1
<1> DEFINE content == CHOOSE h : Is(h)
<1>7. Render(p) = content[N][p.buffer[output.index]]
  BY DEF Render, N, first
<1> HIDE DEF Is
<1>8. Is(content)
  BY <1>6
<1> HIDE DEF content
<1>9. content[0] = first
      /\ \A n \in 0..(N - 1) : content[n + 1] = Process(content[n], p.steps[n + 1], p.channels)
  <2>1. \A n \in 0..N :
          content[n] = IF n = 0 THEN first ELSE Process(content[n - 1], p.steps[n], p.channels)
    BY <1>8 DEF Is
  <2>2. \A n \in 0..(N - 1) : n + 1 \in 0..N /\ n + 1 # 0 /\ (n + 1) - 1 = n
    BY <1>1
  <2>3. 0 \in 0..N
    BY <1>1
  <2> QED
    BY <2>1, <2>2, <2>3
<1>10. RendersTo(p, content)
  BY <1>9 DEF RendersTo, N, first
<1> QED
  BY <1>7, <1>10 DEF N

(* The buffers the node reads hold the terms of its sources. *)
Ready(R, p, val, c, i) ==
  /\ c = [b \in 1..Len(p.channels) |-> c[b]]
  /\ \A k \in Inputs(i) :
       /\ SourceOf(i, k) \in R
       /\ p.buffer[SourceOf(i, k)] # p.buffer[i]
       /\ c[p.buffer[SourceOf(i, k)]] = val[SourceOf(i, k)]

(* A step of a node whose inputs hold their terms writes the node's term.  *)
LEMMA ProcessIs ==
  ASSUME GraphInv, NEW R, NEW order, Compiled(R, order), NEW p, Planned(R, order, p),
         NEW val, Means(R, val), NEW i \in R, NEW c, Ready(R, p, val, c, i)
  PROVE  Process(c, Step(p, i), p.channels) = [c EXCEPT ![p.buffer[i]] = val[i]]
<1> DEFINE out == p.buffer[i]
           E == ExpectedInputs[node[i]]
           cleared == [c EXCEPT ![out] = Silent]
           step == Step(p, i)
<1>9. /\ c = [b \in 1..Len(p.channels) |-> c[b]]
      /\ \A k \in Inputs(i) :
           /\ SourceOf(i, k) \in R
           /\ p.buffer[SourceOf(i, k)] # out
           /\ c[p.buffer[SourceOf(i, k)]] = val[SourceOf(i, k)]
  BY DEF Ready
<1>1. /\ \A j \in R : p.buffer[j] \in 1..Len(p.channels) /\ p.channels[p.buffer[j]] = WidthOf(j)
      /\ out \in 1..Len(p.channels) /\ p.channels[out] = OutputChannels[node[i]]
  BY DEF Planned, WidthOf
<1>2. E \in Nat
  <2>1. node[i] \in NodeTypes
    BY DEF Compiled
  <2> QED
    BY <2>1, InputCounts
<1>3. /\ step.node = i /\ step.output_buffer = out
      /\ \A k \in Inputs(i) : step.input_buffers[k] = p.buffer[SourceOf(i, k)]
  BY DEF Step
<1>4. ASSUME NEW k \in 1..E
      PROVE  cleared[step.input_buffers[k - 1]] = val[SourceOf(i, k - 1)]
  <2>1. k - 1 \in Inputs(i)
    BY <1>2 DEF Inputs
  <2>2. PICK j : j = SourceOf(i, k - 1)
    OBVIOUS
  <2>3. j \in R /\ p.buffer[j] # out /\ c[p.buffer[j]] = val[j]
    BY <1>9, <2>1, <2>2
  <2>4. p.buffer[j] \in 1..Len(p.channels)
    BY <1>1, <2>3
  <2>5. cleared[p.buffer[j]] = c[p.buffer[j]]
    BY <1>9, <2>3, <2>4
  <2> QED
    BY <1>3, <2>1, <2>2, <2>3, <2>5
<1>5. val[i] = <<i>> \o [k \in 1..E |-> val[SourceOf(i, k - 1)]]
  BY DEF Means, Applied
<1>6. [k \in 1..E |-> cleared[step.input_buffers[k - 1]]]
        = [k \in 1..E |-> val[SourceOf(i, k - 1)]]
  BY <1>4
<1> HIDE DEF step
<1>7. Process(c, step, p.channels)
        = [c EXCEPT ![out] =
             IF p.channels[out] = OutputChannels[node[i]]
             THEN <<i>> \o [k \in 1..E |-> cleared[step.input_buffers[k - 1]]]
             ELSE Leftover]
  BY <1>3 DEF Process
<1> HIDE DEF cleared
<1>8. Process(c, step, p.channels) = [c EXCEPT ![out] = val[i]]
  BY <1>1, <1>5, <1>6, <1>7
<1> QED
  BY <1>8 DEF step

(* What the buffers hold after m steps: the terms of the nodes that have   *)
(* run and are yet to be read, and that of the last.                       *)
HoldsAt(R, order, p, val, m, c) ==
  /\ c = [b \in 1..Len(p.channels) |-> c[b]]
  /\ \A j \in Held(Ran(order, m), Unread(R, Ran(order, m))) : c[p.buffer[j]] = val[j]
  /\ m > 0 => c[p.buffer[order[m]]] = val[order[m]]

LEMMA RenderHolds ==
  ASSUME GraphInv, NEW R, NEW order, Compiled(R, order), NEW p, Planned(R, order, p),
         NEW val, Means(R, val), NEW c, RendersTo(p, c)
  PROVE  \A m \in 0..Len(order) : HoldsAt(R, order, p, val, m, c[m])
<1> DEFINE N == Len(order)
           S == {m \in 0..N : HoldsAt(R, order, p, val, m, c[m])}
<1>1. N \in Nat
  <2>1. order \in Seq(R)
    BY DEF Compiled
  <2> QED
    BY <2>1
<1>2. 0 \in S
  <2>1. Ran(order, 0) = {}
    BY DEF Ran
  <2>2. Held(Ran(order, 0), Unread(R, Ran(order, 0))) = {}
    BY <2>1 DEF Held
  <2>3. c[0] = [b \in 1..Len(p.channels) |-> Leftover]
    BY DEF RendersTo, Planned
  <2>4. c[0] = [b \in 1..Len(p.channels) |-> c[0][b]]
    BY <2>3
  <2>5. HoldsAt(R, order, p, val, 0, c[0])
    BY <2>2, <2>4 DEF HoldsAt
  <2> QED
    BY <1>1, <2>5
<1>3. ASSUME NEW m \in 0..(N - 1), m \in S PROVE m + 1 \in S
  <2>1. m + 1 \in 0..N /\ m + 1 \in 1..N
    BY <1>1
  <2>2. PICK D, E, i, x, y : /\ D = Ran(order, m) /\ E = Ran(order, m + 1) /\ i = order[m + 1]
                             /\ x = c[m] /\ y = c[m + 1]
    OBVIOUS
  <2>3. D \subseteq R /\ i \in R /\ i \notin D /\ E = D \cup {i}
    <3>1. NextIs(R, D, i, E)
      BY <2>2, RanIs
    <3> QED
      BY <3>1 DEF NextIs
  <2>4. /\ x = [b \in 1..Len(p.channels) |-> x[b]]
        /\ \A j \in Held(D, Unread(R, D)) : x[p.buffer[j]] = val[j]
    BY <1>3, <2>2 DEF HoldsAt
  <2>5. \A j \in Held(D, Unread(R, D)) : p.buffer[j] # p.buffer[i]
    BY <2>2 DEF Planned
  <2>6. \A j \in R : p.buffer[j] \in 1..Len(p.channels)
    BY DEF Planned
  <2>7. Ready(R, p, val, x, i)
    <3>1. \A k \in Inputs(i) : SourceOf(i, k) \in D /\ SourceOf(i, k) \in Held(D, Unread(R, D))
      BY <2>2, SourcesHeld
    <3> QED
      BY <2>3, <2>4, <2>5, <3>1 DEF Ready
  <2>8. y = [x EXCEPT ![p.buffer[i]] = val[i]]
    <3>1. p.steps[m + 1] = Step(p, i) /\ Len(p.steps) = N
      BY <2>1, <2>2 DEF Planned
    <3>2. y = Process(x, Step(p, i), p.channels)
      BY <2>2, <3>1 DEF RendersTo
    <3>3. Process(x, Step(p, i), p.channels) = [x EXCEPT ![p.buffer[i]] = val[i]]
      BY <2>3, <2>7, ProcessIs
    <3> QED
      BY <3>2, <3>3
  <2>9. /\ y = [b \in 1..Len(p.channels) |-> y[b]]
        /\ y[p.buffer[i]] = val[i]
        /\ \A b \in 1..Len(p.channels) : b # p.buffer[i] => y[b] = x[b]
    BY <2>3, <2>4, <2>6, <2>8
  <2>10. ASSUME NEW j \in Held(E, Unread(R, E)) PROVE y[p.buffer[j]] = val[j]
    <3>1. j = i \/ j \in Held(D, Unread(R, D))
      BY <2>3 DEF Held, Unread
    <3>2. CASE j \in Held(D, Unread(R, D))
      <4>1. j \in R
        BY <2>3, <3>2 DEF Held
      <4> QED
        BY <2>4, <2>5, <2>6, <2>9, <3>2, <4>1
    <3> QED
      BY <2>9, <3>1, <3>2
  <2>11. HoldsAt(R, order, p, val, m + 1, y)
    BY <2>2, <2>9, <2>10 DEF HoldsAt
  <2> QED
    BY <2>1, <2>2, <2>11
<1> HIDE DEF S
<1>4. \A m \in 0..N : m \in S
  BY <1>1, <1>2, <1>3, InductionTo
<1> QED
  BY <1>4 DEF S

LEMMA PlanRendersMeaning ==
  ASSUME GraphInv, Compiles
  PROVE  Render(Plan) = Meaning
<1>1. PICK R, order, p : R = Reachable /\ order = Order(R) /\ p = PlanOf(R, order)
  OBVIOUS
<1>2. Compiled(R, order)
  BY <1>1, CompiledGraph
<1>3. Plan = p
  BY <1>1 DEF Plan
<1>4. Planned(R, order, p)
  BY <1>1, <1>2, CompiledPlan
<1>5. PICK val : Means(R, val) /\ Meaning = val[output.index]
  BY <1>2, MeaningIs
<1>6. Len(order) \in Nat /\ Len(order) > 0 /\ order[Len(order)] = output.index
  <2>1. order \in Seq(R) /\ Len(order) > 0 /\ order[Len(order)] = output.index
    BY <1>2 DEF Compiled
  <2> QED
    BY <2>1
<1>7. Len(p.steps) = Len(order)
  BY <1>4 DEF Planned
<1>8. PICK c : RendersTo(p, c) /\ Render(p) = c[Len(p.steps)][p.buffer[output.index]]
  BY <1>6, <1>7, RenderRuns
<1>9. HoldsAt(R, order, p, val, Len(order), c[Len(order)])
  BY <1>2, <1>4, <1>5, <1>6, <1>8, RenderHolds
<1>10. c[Len(order)][p.buffer[output.index]] = val[output.index]
  BY <1>6, <1>9 DEF HoldsAt
<1> QED
  BY <1>3, <1>5, <1>7, <1>8, <1>10

(* A plan renders what its graph means. *)
THEOREM RendersMeaningAlways == GraphSpec => []RendersMeaning
<1>1. GraphInv => RendersMeaning
  BY PlanRendersMeaning DEF RendersMeaning
<1> QED
  BY <1>1, GraphWellFormed, PTL

-----------------------------------------------------------------------------
(* How many buffers a plan has. *)

Needing(H, i, c) == {j \in H \cup {i} : WidthOf(j) = c}

(* The nodes of one width whose output is needed while a node runs, when   *)
(* those of D have: its own and those yet to be read.                      *)
Live(R, D, i, c) == Needing(Held(D, Unread(R, D)), i, c)

BuffersOf(channels, c) == {b \in 1..Len(channels) : channels[b] = c}

LEMMA LiveIs ==
  ASSUME GraphInv, NEW R, NEW order, Compiled(R, order), NEW m \in 0..(Len(order) - 1),
         NEW D, D = Ran(order, m), NEW i, i = order[m + 1], NEW n, n = m + 1
  PROVE  LiveAt(n, order) = Held(D, Unread(R, D)) \cup {i}
<1> DEFINE N == Len(order)
           U == Unread(R, D)
           A == {q \in 1..n : \/ q = n
                              \/ \E l \in n..N : Edges(order[q], order[l]) > 0}
<1>1. order \in Seq(R) /\ Sorted(order) /\ R \in SUBSET Slots
  BY DEF Compiled
<1>2. N \in Nat /\ (\A l \in 1..N : order[l] \in R) /\ (\A j \in R : \E l \in 1..N : order[l] = j)
  <2>1. \A j \in R : \E l \in 1..N : order[l] = j
    BY DEF Compiled
  <2> QED
    BY <1>1, <2>1
<1>3. /\ m \in Nat /\ n \in 1..N /\ n \in 1..n
      /\ \A q \in 1..n : q \in 1..N /\ (q = n \/ q \in 1..m)
      /\ \A q \in 1..m : q \in 1..n
      /\ \A l \in 1..N : l \in 1..m \/ l \in n..N
      /\ \A l \in n..N : l \in 1..N /\ l \notin 1..m
  BY <1>2
<1>4. LiveAt(n, order) = {order[q] : q \in A}
  BY DEF LiveAt
<1>5. \A j \in Slots, k \in Slots : Edges(j, k) > 0 <=> \E w \in Into(k) : Src(w) = j
  <2>1. ASSUME NEW j \in Slots, NEW k \in Slots
        PROVE  Edges(j, k) > 0 <=> \E w \in Into(k) : Src(w) = j
    <3> DEFINE W == {w \in Into(k) : Src(w) = j}
    <3>1. Edges(j, k) = Cardinality(W)
      BY EdgesIs
    <3>2. W \subseteq DOMAIN connections
      BY DEF Into
    <3>3. W # {} <=> \E w \in Into(k) : Src(w) = j
      OBVIOUS
    <3> HIDE DEF W
    <3>4. IsFiniteSet(W)
      BY <3>2, PlacesFinite, FS_Subset
    <3>5. Cardinality(W) \in Nat /\ (Cardinality(W) = 0 <=> W = {})
      BY <3>4, FS_CardinalityType, FS_EmptySet
    <3> QED
      BY <3>1, <3>3, <3>5
  <2> QED
    BY <2>1
<1>6. \A l \in 1..N : order[l] \in D <=> l \in 1..m
  <2>1. \A l, q \in 1..N : order[l] = order[q] => l = q
    BY <1>1 DEF Sorted
  <2>2. \A q \in 1..m : q \in 1..N
    BY <1>3
  <2> QED
    BY <2>1, <2>2 DEF Ran
<1>7. \A k \in Slots, w \in DOMAIN connections : w \in Into(k) <=> Dst(w) = k
  BY IntoIs
<1> HIDE DEF N
<1>8. ASSUME NEW q \in 1..m
      PROVE  (\E l \in n..N : Edges(order[q], order[l]) > 0) <=> \E w \in U : Src(w) = order[q]
  <2>1. order[q] \in Slots /\ \A l \in n..N : order[l] \in R /\ order[l] \in Slots
    BY <1>1, <1>2, <1>3
  <2>2. ASSUME NEW l \in n..N, Edges(order[q], order[l]) > 0
        PROVE  \E w \in U : Src(w) = order[q]
    <3>1. PICK w \in Into(order[l]) : Src(w) = order[q]
      BY <1>5, <2>1, <2>2
    <3>2. w \in DOMAIN connections /\ Dst(w) = order[l]
      BY <1>7, <2>1, <3>1 DEF Into
    <3>3. order[l] \in R \ D
      BY <1>3, <1>6, <2>1
    <3> QED
      BY <3>1, <3>2, <3>3 DEF Unread
  <2>3. ASSUME NEW w \in U, Src(w) = order[q]
        PROVE  \E l \in n..N : Edges(order[q], order[l]) > 0
    <3>1. w \in DOMAIN connections /\ Dst(w) \in R /\ Dst(w) \notin D
      BY DEF Unread
    <3>2. PICK l \in 1..N : order[l] = Dst(w)
      BY <1>2, <3>1
    <3>3. l \in n..N
      BY <1>3, <1>6, <3>1, <3>2
    <3>4. w \in Into(order[l])
      BY <1>7, <2>1, <3>1, <3>2, <3>3
    <3> QED
      BY <1>5, <2>1, <2>3, <3>3, <3>4
  <2> QED
    BY <2>2, <2>3
<1> HIDE DEF U
<1>9. ASSUME NEW x \in LiveAt(n, order) PROVE x \in Held(D, U) \cup {i}
  <2>1. PICK q \in A : order[q] = x
    BY <1>4
  <2>2. CASE q # n
    <3>1. q \in 1..m /\ \E l \in n..N : Edges(order[q], order[l]) > 0
      BY <1>3, <2>2
    <3>2. \E w \in U : Src(w) = order[q]
      BY <1>8, <3>1
    <3> QED
      BY <2>1, <3>1, <3>2 DEF Held, Ran
  <2> QED
    BY <2>1, <2>2
<1>10. ASSUME NEW x \in Held(D, U) PROVE x \in LiveAt(n, order)
  <2>1. PICK q \in 1..m : order[q] = x
    BY DEF Held, Ran
  <2>2. \E w \in U : Src(w) = order[q]
    BY <2>1 DEF Held
  <2>3. q \in A
    BY <1>3, <1>8, <2>2
  <2> QED
    BY <1>4, <2>1, <2>3
<1>11. i \in LiveAt(n, order)
  <2>1. n \in A
    BY <1>3
  <2> QED
    BY <1>4, <2>1
<1> QED
  BY <1>9, <1>10, <1>11 DEF U

LEMMA LiveFinite ==
  ASSUME GraphInv, NEW R, R \subseteq Slots, NEW D, D \subseteq R, NEW i \in R, NEW c
  PROVE  IsFiniteSet(Live(R, D, i, c)) /\ Cardinality(Live(R, D, i, c)) \in Nat
<1>1. Live(R, D, i, c) \subseteq Slots
  BY DEF Live, Needing, Held
<1>2. IsFiniteSet(Live(R, D, i, c))
  BY <1>1, SlotsFinite, FS_Subset
<1> QED
  BY <1>2, FS_CardinalityType

LEMMA BuffersFinite ==
  ASSUME NEW channels \in Seq(Nat), NEW c
  PROVE  IsFiniteSet(BuffersOf(channels, c)) /\ Cardinality(BuffersOf(channels, c)) \in Nat
<1>1. Len(channels) \in Int /\ 1 \in Int
  OBVIOUS
<1>2. IsFiniteSet(1..Len(channels))
  BY <1>1, FS_Interval
<1>3. BuffersOf(channels, c) \subseteq 1..Len(channels)
  BY DEF BuffersOf
<1>4. IsFiniteSet(BuffersOf(channels, c))
  BY <1>2, <1>3, FS_Subset
<1> QED
  BY <1>4, FS_CardinalityType

(* What is needed at once has buffers of its own. *)
LEMMA LiveFits ==
  ASSUME GraphInv, NEW R, NEW order, Compiled(R, order), NEW u, PlansTo(R, order, u),
         NEW p, p = u[Len(order)], NEW m \in 0..(Len(order) - 1),
         NEW D, D = Ran(order, m), NEW i, i = order[m + 1], NEW c
  PROVE  Cardinality(Live(R, D, i, c)) <= Cardinality(BuffersOf(p.channels, c))
<1> DEFINE H == Held(D, Unread(R, D))
           L == Live(R, D, i, c)
           B == BuffersOf(p.channels, c)
           f == [j \in L |-> p.buffer[j]]
<1>1. order \in Seq(R) /\ R \in SUBSET Slots
  BY DEF Compiled
<1>2. Len(order) \in Nat /\ Len(order) \in 0..Len(order) /\ m \in 0..Len(order)
  BY <1>1
<1>3. D \subseteq R /\ i \in R /\ i \notin D
  <2>1. PICK E : E = Ran(order, m + 1)
    OBVIOUS
  <2>2. NextIs(R, D, i, E)
    BY <2>1, RanIs
  <2> QED
    BY <2>2 DEF NextIs
<1>4. Planned(R, order, p)
  BY PlanIs
<1>5. /\ \A j \in R : p.buffer[j] \in 1..Len(p.channels) /\ p.channels[p.buffer[j]] = WidthOf(j)
      /\ \A j \in H : p.buffer[j] # p.buffer[i]
  BY <1>4 DEF Planned
<1>6. \A j, k \in H : p.buffer[j] = p.buffer[k] => j = k
  <2>1. PlanInv(R, D, Unread(R, D), u[m])
    BY <1>2, PlanStates
  <2>2. \A j, k \in H : u[m].buffer[j] = u[m].buffer[k] => j = k
    BY <2>1 DEF PlanInv, HeldOK
  <2>3. \A j \in D : p.buffer[j] = u[m].buffer[j]
    BY <1>2, BuffersKept
  <2>4. H \subseteq D
    BY DEF Held
  <2> HIDE DEF H
  <2> QED
    BY <2>2, <2>3, <2>4
<1>7. L = {j \in H \cup {i} : WidthOf(j) = c}
  BY DEF Live, Needing
<1>8. H \subseteq R
  BY <1>3 DEF Held
<1> HIDE DEF H, L
<1>9. \A j, k \in L : p.buffer[j] = p.buffer[k] => j = k
  <2>1. \A j \in L : j \in H \/ j = i
    BY <1>7
  <2> QED
    BY <1>5, <1>6, <2>1
<1>10. \A j \in L : p.buffer[j] \in B
  BY <1>3, <1>5, <1>7, <1>8 DEF BuffersOf
<1> HIDE DEF B
<1>11. f \in [L -> B] /\ \A j, k \in L : f[j] = f[k] => j = k
  BY <1>9, <1>10
<1> HIDE DEF f
<1>12. f \in Injection(L, B)
  BY <1>11 DEF Injection, IsInjective
<1>13. IsFiniteSet(B)
  <2>1. PlanInv(R, Ran(order, Len(order)), Unread(R, Ran(order, Len(order))), p)
    BY <1>2, PlanStates
  <2>2. p.channels \in Seq(Nat)
    BY <2>1, PlanFields DEF PlanInv
  <2> QED
    BY <2>2, BuffersFinite DEF B
<1>14. Cardinality(L) <= Cardinality(B)
  BY <1>12, <1>13, FS_Injection
<1> QED
  BY <1>14 DEF L, B

(* When no free buffer has the width, all that do are needed. *)
LEMMA NoneFree ==
  ASSUME GraphInv, NEW R, NEW order, Compiled(R, order), NEW D, D \subseteq R,
         NEW i \in R, i \notin D, output.index \notin D,
         NEW st, PlanInv(R, D, Unread(R, D), st), st.free[FreeList(WidthOf(i))] = <<>>
  PROVE  Cardinality(BuffersOf(st.channels, WidthOf(i))) + 1
           <= Cardinality(Live(R, D, i, WidthOf(i)))
<1> DEFINE c == WidthOf(i)
           H == {j \in Held(D, Unread(R, D)) : WidthOf(j) = c}
           B == BuffersOf(st.channels, c)
           L == Live(R, D, i, c)
           f == [j \in H |-> st.buffer[j]]
<1>1. R \subseteq Slots
  BY DEF Compiled
<1>2. st \in PlanState(R) /\ FreeOK(st) /\ BuffersOK(D, st) /\ UsedOK(R, D, Unread(R, D), st)
  BY DEF PlanInv
<1>3. ASSUME NEW b \in B PROVE \E j \in H : st.buffer[j] = b
  <2>1. b \in 1..Len(st.channels) /\ st.channels[b] = c
    BY DEF BuffersOf
  <2>2. ~IsFree(st, b)
    <3>1. SUFFICES ASSUME NEW list \in Lists, NEW q \in 1..Len(st.free[list]),
                          st.free[list][q] = b
                   PROVE  FALSE
      BY DEF IsFree
    <3>2. FreeList(st.channels[st.free[list][q]]) = list
      BY <1>2 DEF FreeOK
    <3>3. list = FreeList(c)
      BY <2>1, <3>1, <3>2
    <3>4. Len(st.free[list]) = 0
      BY <3>3
    <3> QED
      BY <3>1, <3>4
  <2>3. PICK j \in D : j \in Held(D, Unread(R, D)) /\ st.buffer[j] = b
    BY <1>2, <2>1, <2>2 DEF UsedOK
  <2>4. WidthOf(j) = c
    BY <1>2, <2>1, <2>3 DEF BuffersOK
  <2> QED
    BY <2>3, <2>4
<1>4. \A j \in H : st.buffer[j] \in B
  BY <1>2 DEF BuffersOK, BuffersOf, Held
<1>5. H \subseteq Slots /\ i \notin H
  BY <1>1 DEF Held
<1>6. L = H \cup {i}
  BY DEF Live, Needing
<1> HIDE DEF B, L, c, H
<1>7. f \in [H -> B] /\ \A b \in B : \E j \in H : f[j] = b
  BY <1>3, <1>4
<1> HIDE DEF f
<1>8. f \in Surjection(H, B)
  BY <1>7 DEF Surjection
<1>9. IsFiniteSet(H)
  BY <1>5, SlotsFinite, FS_Subset
<1>10. Cardinality(B) <= Cardinality(H)
  BY <1>8, <1>9, FS_Surjection
<1>11. Cardinality(L) = Cardinality(H) + 1 /\ Cardinality(H) \in Nat
  BY <1>5, <1>6, <1>9, FS_AddElement, FS_CardinalityType
<1>12. Cardinality(B) \in Nat
  <2>1. st.channels \in Seq(Nat)
    BY <1>2, PlanFields
  <2> QED
    BY <2>1, BuffersFinite DEF B
<1>13. Cardinality(B) + 1 <= Cardinality(L)
  BY <1>10, <1>11, <1>12
<1> QED
  BY <1>13 DEF B, L, c

(* There were never more of a width than are needed at some step. *)
LEMMA BuffersNeeded ==
  ASSUME GraphInv, NEW R, NEW order, Compiled(R, order), NEW u, PlansTo(R, order, u), NEW c
  PROVE  \A m \in 0..Len(order) :
           \/ Cardinality(BuffersOf(u[m].channels, c)) = 0
           \/ \E n \in 0..(m - 1) :
                Cardinality(BuffersOf(u[m].channels, c))
                  <= Cardinality(Live(R, Ran(order, n), order[n + 1], c))
<1> DEFINE N == Len(order)
           B(m) == BuffersOf(u[m].channels, c)
           Some(m) == \E n \in 0..(m - 1) :
                        Cardinality(B(m)) <= Cardinality(Live(R, Ran(order, n), order[n + 1], c))
           S == {m \in 0..N : Cardinality(B(m)) = 0 \/ Some(m)}
<1>1. order \in Seq(R) /\ N \in Nat
  <2>1. order \in Seq(R)
    BY DEF Compiled
  <2> QED
    BY <2>1
<1>2. 0 \in S
  <2>1. u[0].channels = <<>>
    BY DEF PlansTo, Unplanned
  <2>2. B(0) = {}
    BY <2>1 DEF BuffersOf
  <2>3. Cardinality(B(0)) = 0
    BY <2>2, FS_EmptySet
  <2> QED
    BY <1>1, <2>3
<1>3. ASSUME NEW m \in 0..(N - 1), m \in S PROVE m + 1 \in S
  <2>1. m \in 0..N /\ m + 1 \in 0..N /\ m < N /\ m \in 0..((m + 1) - 1)
        /\ \A n \in 0..(m - 1) : n \in 0..((m + 1) - 1)
    BY <1>1
  <2>2. PICK D, E, i, st, t : /\ D = Ran(order, m) /\ E = Ran(order, m + 1) /\ i = order[m + 1]
                              /\ st = u[m] /\ t = u[m + 1]
    OBVIOUS
  <2>3. D \subseteq R /\ i \in R /\ i \notin D
    <3>1. NextIs(R, D, i, E)
      BY <2>2, RanIs
    <3> QED
      BY <3>1 DEF NextIs
  <2>4. PlanInv(R, D, Unread(R, D), st) /\ Assigned(R, D, st, i, t)
    BY <2>1, <2>2, PlanStates
  <2>5. st.channels \in Seq(Nat)
    BY <2>4, PlanFields DEF PlanInv
  <2>6. CASE t.channels = st.channels
    <3>1. B(m + 1) = B(m)
      BY <2>2, <2>6
    <3>2. Cardinality(B(m)) = 0 \/ Some(m)
      BY <1>3
    <3> HIDE DEF B
    <3>3. Cardinality(B(m + 1)) = 0 \/ Some(m + 1)
      BY <2>1, <3>1, <3>2
    <3> QED
      BY <2>1, <3>3
  <2>7. CASE t.channels = Append(st.channels, WidthOf(i)) /\ st.free[FreeList(WidthOf(i))] = <<>>
    <3>1. PICK s : s = st.channels
      OBVIOUS
    <3>2. PICK X, Y : X = BuffersOf(s, c) /\ Y = BuffersOf(t.channels, c)
      OBVIOUS
    <3>3. B(m) = X /\ B(m + 1) = Y
      BY <2>2, <3>1, <3>2
    <3>4. /\ Len(t.channels) = Len(s) + 1 /\ t.channels[Len(s) + 1] = WidthOf(i)
          /\ Len(s) \in Nat /\ \A b \in 1..Len(s) : t.channels[b] = s[b]
      BY <2>5, <2>7, <3>1
    <3>5. \A b : b \in 1..(Len(s) + 1) <=> b \in 1..Len(s) \/ b = Len(s) + 1
      BY <3>4
    <3>6. CASE WidthOf(i) # c
      <4>1. Y = X
        <5>1. \A b : b \in X <=> b \in 1..Len(s) /\ s[b] = c
          BY <3>2 DEF BuffersOf
        <5>2. \A b : b \in Y <=> b \in 1..(Len(s) + 1) /\ t.channels[b] = c
          BY <3>2, <3>4 DEF BuffersOf
        <5> QED
          BY <3>4, <3>5, <3>6, <5>1, <5>2
      <4>2. Cardinality(B(m)) = 0 \/ Some(m)
        BY <1>3
      <4> HIDE DEF B
      <4>3. Cardinality(B(m + 1)) = 0 \/ Some(m + 1)
        BY <2>1, <3>3, <4>1, <4>2
      <4> QED
        BY <2>1, <4>3
    <3>7. CASE WidthOf(i) = c
      <4>1. Y = X \cup {Len(s) + 1}
        <5>1. \A b : b \in X <=> b \in 1..Len(s) /\ s[b] = c
          BY <3>2 DEF BuffersOf
        <5>2. \A b : b \in Y <=> b \in 1..(Len(s) + 1) /\ t.channels[b] = c
          BY <3>2, <3>4 DEF BuffersOf
        <5> QED
          BY <3>4, <3>5, <3>7, <5>1, <5>2
      <4>2. IsFiniteSet(X) /\ Cardinality(X) \in Nat
        BY <2>5, <3>1, <3>2, BuffersFinite
      <4>3. PICK x : x = Len(s) + 1 /\ x \notin X
        BY <3>2, <3>4 DEF BuffersOf
      <4>4. Cardinality(Y) = Cardinality(X) + 1
        BY <4>1, <4>2, <4>3, FS_AddElement
      <4>5. output.index \notin D
        <5>1. N \in 1..N /\ order[N] = output.index /\ Sorted(order)
          BY <1>1 DEF Compiled
        <5>2. \A l \in 1..m : l \in 1..N /\ l # N
          BY <1>1
        <5> QED
          BY <2>2, <5>1, <5>2 DEF Ran, Sorted
      <4>6. Cardinality(X) + 1 <= Cardinality(Live(R, D, i, c))
        BY <2>3, <2>4, <2>7, <3>1, <3>2, <3>7, <4>5, NoneFree
      <4>7. Cardinality(B(m + 1)) <= Cardinality(Live(R, Ran(order, m), order[m + 1], c))
        BY <2>2, <3>3, <4>4, <4>6
      <4> HIDE DEF B
      <4>8. Some(m + 1)
        BY <2>1, <4>7
      <4> QED
        BY <2>1, <4>8
    <3> QED
      BY <3>6, <3>7
  <2> QED
    BY <2>4, <2>6, <2>7 DEF Assigned
<1> HIDE DEF S
<1>4. \A m \in 0..N : m \in S
  BY <1>1, <1>2, <1>3, InductionTo
<1> QED
  BY <1>4 DEF S

LEMMA GreatestIs ==
  ASSUME NEW S, NEW x \in S, S \subseteq Nat, \A y \in S : y <= x
  PROVE  Greatest(S) = x
<1>1. Greatest(S) = CHOOSE m \in S : \A n \in S : n <= m
  BY DEF Greatest
<1>2. Greatest(S) \in S /\ \A n \in S : n <= Greatest(S)
  BY <1>1
<1>3. Greatest(S) <= x /\ x <= Greatest(S) /\ x \in Nat /\ Greatest(S) \in Nat
  BY <1>2
<1> QED
  BY <1>3

Matched(order, p, c) ==
  Cardinality({b \in DOMAIN p.channels : p.channels[b] = c}) =
    Greatest({Cardinality({i \in LiveAt(n, order) : OutputChannels[node[i]] = c}) :
                n \in DOMAIN order})

(* The plan has as many buffers of a width as are needed at once. *)
LEMMA BuffersMatch ==
  ASSUME GraphInv, NEW R, NEW order, Compiled(R, order), NEW p, p = PlanOf(R, order), NEW c
  PROVE  Matched(order, p, c)
<1> DEFINE N == Len(order)
           count(n) == Cardinality({i \in LiveAt(n, order) : OutputChannels[node[i]] = c})
           counts == {count(n) : n \in DOMAIN order}
           live(m) == Cardinality(Live(R, Ran(order, m), order[m + 1], c))
           B == Cardinality(BuffersOf(p.channels, c))
<1>1. order \in Seq(R) /\ N \in Nat /\ N > 0 /\ DOMAIN order = 1..N /\ R \subseteq Slots
  <2>1. order \in Seq(R) /\ R \in SUBSET Slots /\ N > 0
    BY DEF Compiled
  <2> QED
    BY <2>1
<1>2. PICK u : PlansTo(R, order, u) /\ p = u[N]
  BY PlanRuns
<1>3. Planned(R, order, p)
  BY <1>2, PlanIs
<1>4. {b \in DOMAIN p.channels : p.channels[b] = c} = BuffersOf(p.channels, c)
  BY <1>3 DEF Planned, BuffersOf
<1>5. ASSUME NEW m \in 0..(N - 1)
      PROVE  count(m + 1) = live(m) /\ live(m) \in Nat /\ live(m) <= B
  <2>1. PICK D, E, i, n : /\ D = Ran(order, m) /\ E = Ran(order, m + 1) /\ i = order[m + 1]
                          /\ n = m + 1
    OBVIOUS
  <2>2. D \subseteq R /\ i \in R
    <3>1. NextIs(R, D, i, E)
      BY <2>1, RanIs
    <3> QED
      BY <3>1 DEF NextIs
  <2>3. LiveAt(n, order) = Held(D, Unread(R, D)) \cup {i}
    BY <2>1, LiveIs
  <2>4. {j \in LiveAt(n, order) : OutputChannels[node[j]] = c} = Live(R, D, i, c)
    BY <2>3 DEF Live, Needing, WidthOf
  <2>5. Cardinality(Live(R, D, i, c)) \in Nat
    BY <1>1, <2>2, LiveFinite
  <2>6. Cardinality(Live(R, D, i, c)) <= Cardinality(BuffersOf(p.channels, c))
    BY <1>2, <2>1, LiveFits
  <2> QED
    BY <2>1, <2>4, <2>5, <2>6
<1>6. B = 0 \/ \E m \in 0..(N - 1) : B <= live(m)
  <2>1. N \in 0..N
    BY <1>1
  <2> QED
    BY <1>2, <2>1, BuffersNeeded
<1>7. B \in Nat
  <2>1. N \in 0..N
    BY <1>1
  <2>2. PlanInv(R, Ran(order, N), Unread(R, Ran(order, N)), p)
    BY <1>2, <2>1, PlanStates
  <2>3. p.channels \in Seq(Nat)
    BY <2>2, PlanFields DEF PlanInv
  <2> QED
    BY <2>3, BuffersFinite
<1> HIDE DEF count, live, B
<1>8. /\ \A m \in 0..(N - 1) : m + 1 \in DOMAIN order
      /\ \A n \in DOMAIN order : \E m \in 0..(N - 1) : m + 1 = n
  <2>1. \A n \in 1..N : \E m \in 0..(N - 1) : m + 1 = n
    <3>1. \A n \in 1..N : n - 1 \in 0..(N - 1) /\ (n - 1) + 1 = n
      BY <1>1
    <3> QED
      BY <3>1
  <2>2. \A m \in 0..(N - 1) : m + 1 \in 1..N
    BY <1>1
  <2> QED
    BY <1>1, <2>1, <2>2
<1>9. \A y \in counts : y \in Nat /\ y <= B
  <2>1. ASSUME NEW n \in DOMAIN order PROVE count(n) \in Nat /\ count(n) <= B
    <3>1. PICK m \in 0..(N - 1) : m + 1 = n
      BY <1>8
    <3> QED
      BY <1>5, <3>1
  <2> QED
    BY <2>1
<1>10. B \in counts
  <2>1. PICK m \in 0..(N - 1) : B <= live(m)
    <3>1. CASE B = 0
      <4>1. 0 \in 0..(N - 1)
        BY <1>1
      <4>2. live(0) \in Nat
        BY <1>5, <4>1
      <4>3. B <= live(0)
        BY <3>1, <4>2
      <4> QED
        BY <4>1, <4>3
    <3> QED
      BY <1>6, <3>1
  <2>2. live(m) = B /\ count(m + 1) = live(m)
    <3>1. live(m) \in Nat /\ live(m) <= B /\ count(m + 1) = live(m)
      BY <1>5
    <3> QED
      BY <1>7, <2>1, <3>1
  <2>3. m + 1 \in DOMAIN order
    BY <1>8
  <2> QED
    BY <2>2, <2>3
<1> HIDE DEF counts
<1>11. Greatest(counts) = B
  <2>1. counts \subseteq Nat /\ \A y \in counts : y <= B
    BY <1>9
  <2> QED
    BY <1>10, <2>1, GreatestIs
<1> QED
  BY <1>4, <1>11 DEF Matched, B, counts, count

(* Buffers are reused as soon as they can be. *)
THEOREM BuffersReusedAlways == GraphSpec => []BuffersReused
<1>1. ASSUME GraphInv, Compiles PROVE BuffersReused
  <2>1. PICK R, order, p : R = Reachable /\ order = Order(R) /\ p = PlanOf(R, order)
    OBVIOUS
  <2>2. Compiled(R, order)
    BY <1>1, <2>1, CompiledGraph
  <2>3. \A c : Matched(order, p, c)
    BY <1>1, <2>1, <2>2, BuffersMatch
  <2>4. BuffersReused <=> \A c \in {OutputChannels[t] : t \in NodeTypes} : Matched(order, p, c)
    BY <1>1, <2>1 DEF BuffersReused, Matched
  <2> QED
    BY <2>3, <2>4
<1>2. GraphInv => BuffersReused
  BY <1>1 DEF BuffersReused
<1> QED
  BY <1>2, GraphWellFormed, PTL

-----------------------------------------------------------------------------
(* Voices.                                                                 *)

-----------------------------------------------------------------------------
(* Ramps. *)

Ramp == [from: Nat, to: Nat, begin: Nat, end: Nat]

(* A value on the way from one natural number to another is one. *)
LEMMA ValueTyped ==
  ASSUME NEW ramp \in Ramp, NEW f \in Nat
  PROVE  ValueAt(ramp, f) \in Nat
<1>1. CASE f >= ramp.end
  BY <1>1 DEF ValueAt, Ramp
<1>2. CASE f < ramp.end /\ f <= ramp.begin
  BY <1>2 DEF ValueAt, Ramp
<1>3. CASE f < ramp.end /\ ramp.begin < f
  <2> DEFINE gone == f - ramp.begin
             all == ramp.end - ramp.begin
             way == ramp.to - ramp.from
  <2>1. gone \in Nat /\ all \in Nat \ {0} /\ way \in Int /\ gone < all
    BY <1>3 DEF Ramp
  <2>2. ValueAt(ramp, f) = ramp.from + ((way * gone) \div all)
    BY <1>3 DEF ValueAt, Ramp
  <2>3. ramp.from \in Nat /\ ramp.to = ramp.from + way /\ ramp.to \in Nat
    BY DEF Ramp
  <2> HIDE DEF gone, all, way
  <2> DEFINE part == (way * gone) \div all
  <2>4. part \in Int
    BY <2>1
  <2>5. part >= 0 \/ part >= way
    <3>1. CASE way >= 0
      <4>1. way * gone >= 0
        BY <2>1, <3>1
      <4> QED
        BY <2>1, <4>1
    <3>2. CASE way < 0
      <4>1. way * all <= way * gone
        BY <2>1, <3>2
      <4> QED
        BY <2>1, <4>1
    <3> QED
      BY <2>1, <3>1, <3>2
  <2> HIDE DEF part
  <2>6. ramp.from + part \in Nat
    BY <2>1, <2>3, <2>4, <2>5
  <2> QED
    BY <2>2, <2>6 DEF part
<1> QED
  BY <1>1, <1>2, <1>3 DEF Ramp

LEMMA ConstantTyped ==
  ASSUME NEW value \in Nat
  PROVE  /\ Constant(value) \in Ramp /\ Constant(value).to = value
         /\ \A f \in Nat : ValueAt(Constant(value), f) = value
BY DEF Constant, Ramp, ValueAt

(* A ramp that replaces another has its target and starts where it was.    *)
LEMMA StartTyped ==
  ASSUME NEW ramp \in Ramp, NEW now \in Nat, now < kMaxFrame, NEW target \in Nat,
         NEW duration \in Nat
  PROVE  /\ Start(ramp, now, target, duration) \in Ramp
         /\ Start(ramp, now, target, duration).to = target
         /\ duration > 0 =>
              ValueAt(Start(ramp, now, target, duration), now) = ValueAt(ramp, now)
<1>1. ValueAt(ramp, now) \in Nat /\ kMaxFrame \in Nat
  BY ValueTyped, RenderingAssumption DEF RenderingAssumption
<1>2. CASE duration = 0
  BY <1>2, ConstantTyped DEF Start
<1>3. CASE duration > 0
  <2> DEFINE end == IF kMaxFrame - now < duration THEN kMaxFrame ELSE now + duration
             new == [from |-> ValueAt(ramp, now), to |-> target, begin |-> now, end |-> end]
  <2>1. end \in Nat /\ now < end
    BY <1>1, <1>3
  <2>2. Start(ramp, now, target, duration) = new
    BY <1>3 DEF Start
  <2> HIDE DEF end
  <2>3. new \in Ramp /\ new.to = target
    BY <1>1, <2>1 DEF Ramp
  <2>4. ValueAt(new, now) = new.from
    BY <2>1 DEF ValueAt
  <2> QED
    BY <2>2, <2>3, <2>4
<1> QED
  BY <1>2, <1>3

(* The path for constant gains makes no difference. *)
LEMMA ConstantPath ==
  ASSUME NEW ramp \in Ramp, NEW first \in Nat, NEW f \in Nat, first <= f,
         IsConstantFrom(ramp, first)
  PROVE  ramp.to = ValueAt(ramp, f)
BY DEF IsConstantFrom, ValueAt, Ramp

-----------------------------------------------------------------------------
(* The loops over the frames of a segment.                                 *)

CursorStep(v, first) ==
  [p \in Nat \X Nat |->
     IF p[2] < End THEN p[2] + ValueAt(v.spatialRatio, first + p[1]) ELSE p[2]]

IsCursor(cursor, v, first, n) ==
  /\ cursor \in [0..n -> Nat]
  /\ cursor[0] = v.cursor
  /\ \A i \in 0..(n - 1) :
       cursor[i + 1] = IF cursor[i] < End
                       THEN cursor[i] + ValueAt(v.spatialRatio, first + i)
                       ELSE cursor[i]

(* The cursor goes on by the ratio until it is beyond the end. *)
LEMMA CursorRuns ==
  ASSUME NEW v, v.cursor \in Nat, v.spatialRatio \in Ramp, NEW first \in Nat, NEW n \in Nat
  PROVE  IsCursor(CursorOver(v, first, n), v, first, n)
<1> DEFINE Is(c) ==
             c = [i \in 0..n |->
                    IF i = 0 THEN v.cursor
                    ELSE IF c[i - 1] < End
                         THEN c[i - 1] + ValueAt(v.spatialRatio, first + i - 1)
                         ELSE c[i - 1]]
           next == CursorStep(v, first)
<1>1. \A i \in Nat : ValueAt(v.spatialRatio, first + i) \in Nat
  BY ValueTyped
<1>2. next \in [Nat \X Nat -> Nat]
  BY <1>1 DEF CursorStep
<1>3. \A i, x \in Nat :
        next[<<i, x>>] = IF x < End THEN x + ValueAt(v.spatialRatio, first + i) ELSE x
  BY DEF CursorStep
<1> HIDE DEF next
<1>4. PICK c \in [0..n -> Nat] : Runs(c, n, v.cursor, next)
  BY <1>2, RecursionTo
<1>5. c[0] = v.cursor /\ \A i \in 0..(n - 1) :
        c[i + 1] = IF c[i] < End THEN c[i] + ValueAt(v.spatialRatio, first + i) ELSE c[i]
  <2>1. ASSUME NEW i \in 0..(n - 1) PROVE i \in Nat /\ c[i] \in Nat
    OBVIOUS
  <2> QED
    BY <1>3, <1>4, <2>1 DEF Runs
<1>6. Is(c)
  <2>1. ASSUME NEW i \in 0..n
        PROVE  c[i] = IF i = 0 THEN v.cursor
                      ELSE IF c[i - 1] < End
                           THEN c[i - 1] + ValueAt(v.spatialRatio, first + i - 1)
                           ELSE c[i - 1]
    <3>1. CASE i = 0
      BY <1>5, <3>1
    <3>2. CASE i # 0
      <4>1. i - 1 \in 0..(n - 1) /\ (i - 1) + 1 = i /\ first + (i - 1) = first + i - 1
        BY <3>2
      <4> QED
        BY <1>5, <3>2, <4>1
    <3> QED
      BY <3>1, <3>2
  <2> QED
    BY <1>4, <2>1
<1>7. CursorOver(v, first, n) = CHOOSE d : Is(d)
  BY DEF CursorOver
<1> HIDE DEF Is
<1>8. Is(CursorOver(v, first, n))
  BY <1>6, <1>7
<1> DEFINE cursor == CursorOver(v, first, n)
<1> HIDE DEF cursor
<1>9. cursor = [i \in 0..n |->
                  IF i = 0 THEN v.cursor
                  ELSE IF cursor[i - 1] < End
                       THEN cursor[i - 1] + ValueAt(v.spatialRatio, first + i - 1)
                       ELSE cursor[i - 1]]
  BY <1>8 DEF Is, cursor
<1>10. \A i \in 0..n : cursor[i] = c[i]
  <2>1. cursor[0] = c[0]
    BY <1>5, <1>9
  <2>2. ASSUME NEW i \in 0..(n - 1), cursor[i] = c[i] PROVE cursor[i + 1] = c[i + 1]
    <3>1. i + 1 \in 0..n /\ i + 1 # 0 /\ (i + 1) - 1 = i /\ first + (i + 1) - 1 = first + i
      OBVIOUS
    <3>2. cursor[i + 1] = IF cursor[i] < End
                          THEN cursor[i] + ValueAt(v.spatialRatio, first + i) ELSE cursor[i]
      BY <1>9, <3>1
    <3> QED
      BY <1>5, <2>2, <3>2
  <2>3. Alike(cursor, c, n)
    BY <2>1, <2>2 DEF Alike
  <2> QED
    BY <2>3, Agree
<1>11. cursor = c
  BY <1>9, <1>10
<1> QED
  BY <1>4, <1>5, <1>11 DEF cursor, IsCursor

PhaseStep(v, first) ==
  [p \in Nat \X Nat |->
     p[2] + (IF v.spatialized THEN ValueAt(v.spatialRatio, first + p[1]) ELSE Unit)]

IsPhase(phase, v, first, n) ==
  /\ phase \in [0..n -> Nat]
  /\ phase[0] = v.phase
  /\ \A i \in 0..(n - 1) :
       phase[i + 1] = phase[i]
                        + (IF v.spatialized THEN ValueAt(v.spatialRatio, first + i) ELSE Unit)

(* The phase of a tone goes on by the ratio, or by one. *)
LEMMA PhaseRuns ==
  ASSUME NEW v, v.phase \in Nat, v.spatialRatio \in Ramp, NEW first \in Nat, NEW n \in Nat
  PROVE  IsPhase(PhaseOver(v, first, n), v, first, n)
<1> DEFINE Is(c) ==
             c = [i \in 0..n |->
                    IF i = 0 THEN v.phase
                    ELSE c[i - 1]
                           + (IF v.spatialized THEN ValueAt(v.spatialRatio, first + i - 1)
                              ELSE Unit)]
           next == PhaseStep(v, first)
<1>1. \A i \in Nat : ValueAt(v.spatialRatio, first + i) \in Nat
  BY ValueTyped
<1>2. next \in [Nat \X Nat -> Nat]
  BY <1>1, RenderingAssumption DEF PhaseStep, RenderingAssumption
<1>3. \A i, x \in Nat :
        next[<<i, x>>] =
          x + (IF v.spatialized THEN ValueAt(v.spatialRatio, first + i) ELSE Unit)
  BY DEF PhaseStep
<1> HIDE DEF next
<1>4. PICK c \in [0..n -> Nat] : Runs(c, n, v.phase, next)
  BY <1>2, RecursionTo
<1>5. c[0] = v.phase /\ \A i \in 0..(n - 1) :
        c[i + 1] = c[i] + (IF v.spatialized THEN ValueAt(v.spatialRatio, first + i) ELSE Unit)
  <2>1. ASSUME NEW i \in 0..(n - 1) PROVE i \in Nat /\ c[i] \in Nat
    OBVIOUS
  <2> QED
    BY <1>3, <1>4, <2>1 DEF Runs
<1>6. Is(c)
  <2>1. ASSUME NEW i \in 0..n
        PROVE  c[i] = IF i = 0 THEN v.phase
                      ELSE c[i - 1]
                             + (IF v.spatialized THEN ValueAt(v.spatialRatio, first + i - 1)
                                ELSE Unit)
    <3>1. CASE i = 0
      BY <1>5, <3>1
    <3>2. CASE i # 0
      <4>1. i - 1 \in 0..(n - 1) /\ (i - 1) + 1 = i /\ first + (i - 1) = first + i - 1
        BY <3>2
      <4> QED
        BY <1>5, <3>2, <4>1
    <3> QED
      BY <3>1, <3>2
  <2> QED
    BY <1>4, <2>1
<1>7. PhaseOver(v, first, n) = CHOOSE d : Is(d)
  BY DEF PhaseOver
<1> HIDE DEF Is
<1>8. Is(PhaseOver(v, first, n))
  BY <1>6, <1>7
<1> DEFINE phase == PhaseOver(v, first, n)
<1> HIDE DEF phase
<1>9. phase = [i \in 0..n |->
                 IF i = 0 THEN v.phase
                 ELSE phase[i - 1]
                        + (IF v.spatialized THEN ValueAt(v.spatialRatio, first + i - 1)
                           ELSE Unit)]
  BY <1>8 DEF Is, phase
<1>10. \A i \in 0..n : phase[i] = c[i]
  <2>1. phase[0] = c[0]
    BY <1>5, <1>9
  <2>2. ASSUME NEW i \in 0..(n - 1), phase[i] = c[i] PROVE phase[i + 1] = c[i + 1]
    <3>1. i + 1 \in 0..n /\ i + 1 # 0 /\ (i + 1) - 1 = i /\ first + (i + 1) - 1 = first + i
      OBVIOUS
    <3>2. phase[i + 1] =
            phase[i] + (IF v.spatialized THEN ValueAt(v.spatialRatio, first + i) ELSE Unit)
      BY <1>9, <3>1
    <3> QED
      BY <1>5, <2>2, <3>2
  <2>3. Alike(phase, c, n)
    BY <2>1, <2>2 DEF Alike
  <2> QED
    BY <2>3, Agree
<1>11. phase = c
  BY <1>9, <1>10
<1> QED
  BY <1>4, <1>5, <1>11 DEF phase, IsPhase

Line == [buffer: [0..(MaxDelayFrames - 1) -> Int], write: 0..(MaxDelayFrames - 1),
         delay: 0..MaxDelayFrames]

LEMMA FedTyped ==
  ASSUME NEW l \in Line, NEW input \in Int
  PROVE  /\ Fed(l, input) \in Line
         /\ Fed(l, input).buffer = [l.buffer EXCEPT ![l.write] = input]
         /\ Fed(l, input).write = IF l.write + 1 = MaxDelayFrames THEN 0 ELSE l.write + 1
         /\ Fed(l, input).delay = l.delay
<1>1. MaxDelayFrames \in Nat \ {0}
  BY RenderingAssumption DEF RenderingAssumption
<1>2. l.write \in 0..(MaxDelayFrames - 1)
  BY DEF Line
<1>3. (l.write + 1) % MaxDelayFrames = IF l.write + 1 = MaxDelayFrames THEN 0 ELSE l.write + 1
  BY <1>1, <1>2
<1>4. (l.write + 1) % MaxDelayFrames \in 0..(MaxDelayFrames - 1)
  BY <1>1, <1>2, <1>3
<1> QED
  BY <1>3, <1>4 DEF Fed, Line

LineStep(first) == [p \in Nat \X Line |-> Fed(p[2], first + p[1])]

IsFedOver(at, l, first, n) ==
  /\ at \in [0..n -> Line]
  /\ at[0] = l
  /\ \A i \in 0..(n - 1) : at[i + 1] = Fed(at[i], first + i)

(* The delay is fed the frames of the segment, one after the other. *)
LEMMA LineRuns ==
  ASSUME NEW l \in Line, NEW first \in Nat, NEW n \in Nat
  PROVE  IsFedOver(LineOver(l, first, n), l, first, n)
<1> DEFINE Is(c) == c = [i \in 0..n |-> IF i = 0 THEN l ELSE Fed(c[i - 1], first + i - 1)]
           next == LineStep(first)
<1>2. next \in [Nat \X Line -> Line]
  <2>1. ASSUME NEW p \in Nat \X Line PROVE Fed(p[2], first + p[1]) \in Line
    <3>1. p[2] \in Line /\ first + p[1] \in Int
      OBVIOUS
    <3> QED
      BY <3>1, FedTyped
  <2> QED
    BY <2>1 DEF LineStep
<1>3. \A i \in Nat, x \in Line : next[<<i, x>>] = Fed(x, first + i)
  BY DEF LineStep
<1> HIDE DEF next
<1>4. PICK c \in [0..n -> Line] : Runs(c, n, l, next)
  BY <1>2, RecursionTo
<1>5. c[0] = l /\ \A i \in 0..(n - 1) : c[i + 1] = Fed(c[i], first + i)
  <2>1. ASSUME NEW i \in 0..(n - 1) PROVE i \in Nat /\ c[i] \in Line
    OBVIOUS
  <2> QED
    BY <1>3, <1>4, <2>1 DEF Runs
<1>6. Is(c)
  <2>1. ASSUME NEW i \in 0..n
        PROVE  c[i] = IF i = 0 THEN l ELSE Fed(c[i - 1], first + i - 1)
    <3>1. CASE i = 0
      BY <1>5, <3>1
    <3>2. CASE i # 0
      <4>1. i - 1 \in 0..(n - 1) /\ (i - 1) + 1 = i /\ first + (i - 1) = first + i - 1
        BY <3>2
      <4> QED
        BY <1>5, <3>2, <4>1
    <3> QED
      BY <3>1, <3>2
  <2> QED
    BY <1>4, <2>1
<1>7. LineOver(l, first, n) = CHOOSE d : Is(d)
  BY DEF LineOver
<1> HIDE DEF Is
<1>8. Is(LineOver(l, first, n))
  BY <1>6, <1>7
<1> DEFINE at == LineOver(l, first, n)
<1> HIDE DEF at
<1>9. at = [i \in 0..n |-> IF i = 0 THEN l ELSE Fed(at[i - 1], first + i - 1)]
  BY <1>8 DEF Is, at
<1>10. \A i \in 0..n : at[i] = c[i]
  <2>1. at[0] = c[0]
    BY <1>5, <1>9
  <2>2. ASSUME NEW i \in 0..(n - 1), at[i] = c[i] PROVE at[i + 1] = c[i + 1]
    <3>1. i + 1 \in 0..n /\ i + 1 # 0 /\ (i + 1) - 1 = i /\ first + (i + 1) - 1 = first + i
      OBVIOUS
    <3>2. at[i + 1] = Fed(at[i], first + i)
      BY <1>9, <3>1
    <3> QED
      BY <1>5, <2>2, <3>2
  <2>3. Alike(at, c, n)
    BY <2>1, <2>2 DEF Alike
  <2> QED
    BY <2>3, Agree
<1>11. at = c
  BY <1>9, <1>10
<1> QED
  BY <1>4, <1>5, <1>11 DEF at, IsFedOver

-----------------------------------------------------------------------------
(* A voice and its place. *)

Voice ==
  [kind: Kinds, playing: BOOLEAN, gain: Ramp, pan: Nat,
   phase: Nat, position: Nat, cursor: Nat,
   spatialized: BOOLEAN, snap: BOOLEAN, place: [gain: Nat, ratio: Nat],
   spatialGain: Ramp, spatialRatio: Ramp]

(* A voice is somewhere in its asset, never beyond it. *)
VoiceOK(v) == v \in Voice /\ v.position < AssetFrames /\ v.cursor < End

(* What no source moves. *)
SameButPlace(v, w) ==
  /\ w.kind = v.kind /\ w.gain = v.gain /\ w.pan = v.pan /\ w.place = v.place
  /\ w.spatialized = v.spatialized /\ w.snap = v.snap
  /\ w.spatialGain = v.spatialGain /\ w.spatialRatio = v.spatialRatio

(* The ramps of a spatialized voice are on their way to its place.         *)
Settled(v) ==
  v.spatialized =>
    ~v.snap /\ v.spatialGain.to = v.place.gain /\ v.spatialRatio.to = v.place.ratio

LEMMA Sizes ==
  /\ Unit \in Nat \ {0} /\ AssetFrames \in Nat \ {0} /\ MaxDelayFrames \in Nat \ {0}
  /\ MaxFramesPerBlock \in Nat \ {0} /\ SmoothingFrames \in Nat
  /\ kMaxFrame \in Nat /\ MaxFrame \in Nat /\ MaxFrame < kMaxFrame
  /\ AssetFrames <= kMaxFrame /\ End \in Nat \ {0}
<1>1. /\ Unit \in Nat \ {0} /\ AssetFrames \in Nat \ {0} /\ MaxDelayFrames \in Nat \ {0}
      /\ MaxFramesPerBlock \in Nat \ {0} /\ SmoothingFrames \in Nat
      /\ kMaxFrame \in Nat /\ MaxFrame \in Nat /\ MaxFrame < kMaxFrame
      /\ AssetFrames <= kMaxFrame
  BY RenderingAssumption DEF RenderingAssumption
<1>2. AssetFrames * Unit \in Nat \ {0}
  BY <1>1
<1> QED
  BY <1>1, <1>2 DEF End

(* An update settles a voice, once and for all, and moves nothing that is  *)
(* heard at once unless it snaps.                                          *)
LEMMA Updates ==
  ASSUME NEW v, VoiceOK(v), NEW now \in Nat, now < kMaxFrame
  PROVE  LET u == UpdateSpatial(v, now)
         IN  /\ VoiceOK(u) /\ Settled(u)
             /\ u.kind = v.kind /\ u.playing = v.playing /\ u.gain = v.gain /\ u.pan = v.pan
             /\ u.phase = v.phase /\ u.position = v.position /\ u.cursor = v.cursor
             /\ u.spatialized = v.spatialized /\ u.place = v.place
             /\ SmoothingFrames > 0 /\ v.spatialized /\ ~v.snap =>
                  ValueAt(u.spatialGain, now) = ValueAt(v.spatialGain, now)
<1>1. /\ v.spatialGain \in Ramp /\ v.spatialRatio \in Ramp
      /\ v.place.gain \in Nat /\ v.place.ratio \in Nat
      /\ v.spatialized \in BOOLEAN /\ v.snap \in BOOLEAN
  BY DEF VoiceOK, Voice
<1>2. CASE ~v.spatialized
  BY <1>2 DEF UpdateSpatial, Settled
<1>3. CASE v.spatialized /\ v.snap
  <2> DEFINE u == [v EXCEPT !.snap = FALSE, !.spatialGain = Constant(v.place.gain),
                            !.spatialRatio = Constant(v.place.ratio)]
  <2>1. UpdateSpatial(v, now) = u
    BY <1>1, <1>3 DEF UpdateSpatial
  <2>2. /\ Constant(v.place.gain) \in Ramp /\ Constant(v.place.ratio) \in Ramp
        /\ Constant(v.place.gain).to = v.place.gain
        /\ Constant(v.place.ratio).to = v.place.ratio
    BY <1>1, ConstantTyped
  <2>3. VoiceOK(u) /\ Settled(u)
    BY <2>2 DEF VoiceOK, Voice, Settled
  <2>4. /\ u.kind = v.kind /\ u.playing = v.playing /\ u.gain = v.gain /\ u.pan = v.pan
        /\ u.phase = v.phase /\ u.position = v.position /\ u.cursor = v.cursor
        /\ u.spatialized = v.spatialized /\ u.place = v.place
    BY DEF VoiceOK, Voice
  <2> HIDE DEF u
  <2> QED
    BY <1>3, <2>1, <2>3, <2>4
<1>4. CASE v.spatialized /\ ~v.snap
  <2>1. CASE v.spatialGain.to = v.place.gain /\ v.spatialRatio.to = v.place.ratio
    <3>1. UpdateSpatial(v, now) = v
      BY <1>1, <1>4, <2>1 DEF UpdateSpatial
    <3> QED
      BY <1>4, <2>1, <3>1 DEF Settled
  <2>2. CASE ~(v.spatialGain.to = v.place.gain /\ v.spatialRatio.to = v.place.ratio)
    <3> DEFINE gain == Start(v.spatialGain, now, v.place.gain, SmoothingFrames)
               ratio == Start(v.spatialRatio, now, v.place.ratio, SmoothingFrames)
               u == [v EXCEPT !.spatialGain = gain, !.spatialRatio = ratio]
    <3>1. UpdateSpatial(v, now) = u
      BY <1>1, <1>4, <2>2 DEF UpdateSpatial
    <3>2. /\ gain \in Ramp /\ gain.to = v.place.gain
          /\ SmoothingFrames > 0 => ValueAt(gain, now) = ValueAt(v.spatialGain, now)
          /\ ratio \in Ramp /\ ratio.to = v.place.ratio
      <4>1. SmoothingFrames \in Nat
        BY Sizes
      <4>2. \A r \in Ramp, t \in Nat :
              /\ Start(r, now, t, SmoothingFrames) \in Ramp
              /\ Start(r, now, t, SmoothingFrames).to = t
              /\ SmoothingFrames > 0 =>
                   ValueAt(Start(r, now, t, SmoothingFrames), now) = ValueAt(r, now)
        BY <4>1, StartTyped
      <4> QED
        BY <1>1, <4>2, Zenon
    <3> HIDE DEF gain, ratio
    <3>3. VoiceOK(u) /\ Settled(u)
      BY <1>4, <3>2 DEF VoiceOK, Voice, Settled
    <3>4. /\ u.kind = v.kind /\ u.playing = v.playing /\ u.gain = v.gain /\ u.pan = v.pan
          /\ u.phase = v.phase /\ u.position = v.position /\ u.cursor = v.cursor
          /\ u.spatialized = v.spatialized /\ u.place = v.place /\ u.spatialGain = gain
      BY DEF VoiceOK, Voice
    <3> HIDE DEF u
    <3> QED
      BY <3>1, <3>2, <3>3, <3>4
  <2> QED
    BY <2>1, <2>2
<1> QED
  BY <1>1, <1>2, <1>3, <1>4

LEMMA SettledStays ==
  ASSUME NEW v, VoiceOK(v), Settled(v), NEW now
  PROVE  UpdateSpatial(v, now) = v
<1>1. v.spatialized \in BOOLEAN /\ v.snap \in BOOLEAN
  BY DEF VoiceOK, Voice
<1> QED
  BY <1>1 DEF UpdateSpatial, Settled

-----------------------------------------------------------------------------
(* The sources of a voice, over a segment and over its two parts.          *)

(* Each source leaves a voice that goes on as it was, or has ended: then   *)
(* it is rewound.                                                          *)
GoesOn(v, w) ==
  /\ VoiceOK(w) /\ SameButPlace(v, w)
  /\ ~w.playing => IsAsset(w) /\ w.position = 0 /\ (w.spatialized => w.cursor = 0)

(* What is left of a voice that ended is silent. *)
SplitsInto(whole, left, right, first, k, n) ==
  /\ \A f \in Frames(first, k) : whole.sound[f] = left.sound[f]
  /\ left.voice.playing =>
       /\ whole.voice = right.voice
       /\ \A f \in Frames(first + k, n - k) : whole.sound[f] = right.sound[f]
  /\ ~left.voice.playing =>
       /\ whole.voice = left.voice
       /\ \A f \in Frames(first + k, n - k) : whole.sound[f] = Silence

(* An asset is played from its position, to its end.                       *)
LEMMA AssetPlays ==
  ASSUME NEW v, VoiceOK(v), v.playing, NEW first \in Nat, NEW n \in Nat
  PROVE  LET playout == RenderAssetSource(v, first, n)
         IN  /\ playout.voice = IF v.position + n >= AssetFrames
                                THEN [v EXCEPT !.position = 0, !.playing = FALSE]
                                ELSE [v EXCEPT !.position = v.position + n]
             /\ \A f \in Frames(first, n) :
                  playout.sound[f] = IF v.position + (f - first) < AssetFrames
                                     THEN (v.position + (f - first)) * Unit ELSE Silence
<1>1. v.position \in Nat /\ v.position < AssetFrames /\ v \in Voice
  BY DEF VoiceOK, Voice
<1> DEFINE remaining == (AssetFrames - v.position) % Width
           copied == IF n < remaining THEN n ELSE remaining
<1>2. remaining = AssetFrames - v.position
  BY <1>1, Sizes DEF Width
<1>3. copied \in Nat /\ copied <= n /\ copied = Least(n, remaining)
  BY <1>1, <1>2, Sizes DEF Least
<1>4. /\ v.position + copied >= AssetFrames <=> v.position + n >= AssetFrames
      /\ ~(v.position + n >= AssetFrames) => copied = n
  BY <1>1, <1>2, Sizes
<1>5. \A f \in Frames(first, n) :
        /\ f - first < copied <=> v.position + (f - first) < AssetFrames
        /\ v.position + f - first = v.position + (f - first)
  BY <1>1, <1>2, Sizes DEF Frames
<1>6. /\ RenderAssetSource(v, first, n).voice =
           IF v.position + copied >= AssetFrames
           THEN [v EXCEPT !.position = 0, !.playing = FALSE]
           ELSE [v EXCEPT !.position = v.position + copied]
      /\ RenderAssetSource(v, first, n).sound =
           [f \in Frames(first, n) |->
              IF f - first < copied THEN (v.position + f - first) * Unit ELSE Silence]
  BY <1>3 DEF RenderAssetSource
<1> HIDE DEF copied
<1> QED
  BY <1>4, <1>5, <1>6

LEMMA AssetGoesOn ==
  ASSUME NEW v, VoiceOK(v), v.playing, IsAsset(v), ~v.spatialized,
         NEW first \in Nat, NEW n \in Nat
  PROVE  GoesOn(v, RenderAssetSource(v, first, n).voice)
<1>1. v \in Voice /\ v.position \in Nat /\ v.position < AssetFrames /\ v.cursor < End
  BY DEF VoiceOK, Voice
<1>2. RenderAssetSource(v, first, n).voice =
        IF v.position + n >= AssetFrames
        THEN [v EXCEPT !.position = 0, !.playing = FALSE]
        ELSE [v EXCEPT !.position = v.position + n]
  <2> DEFINE playout == RenderAssetSource(v, first, n)
  <2> HIDE DEF playout
  <2>1. /\ playout.voice = IF v.position + n >= AssetFrames
                           THEN [v EXCEPT !.position = 0, !.playing = FALSE]
                           ELSE [v EXCEPT !.position = v.position + n]
        /\ \A f \in Frames(first, n) :
             playout.sound[f] = IF v.position + (f - first) < AssetFrames
                                THEN (v.position + (f - first)) * Unit ELSE Silence
    BY AssetPlays DEF playout
  <2> QED
    BY <2>1 DEF playout
<1> DEFINE w == RenderAssetSource(v, first, n).voice
<1> HIDE DEF w
<1>3. CASE v.position + n >= AssetFrames
  <2>1. w = [v EXCEPT !.position = 0, !.playing = FALSE]
    BY <1>2, <1>3 DEF w
  <2>2. GoesOn(v, w)
    <3>1. VoiceOK(w)
      <4>1. w \in Voice
        BY <1>1, <2>1 DEF Voice
      <4>2. w.position = 0 /\ w.cursor = v.cursor
        BY <1>1, <2>1 DEF Voice
      <4> QED
        BY <1>1, <4>1, <4>2, Sizes DEF VoiceOK
    <3>2. SameButPlace(v, w)
      BY <1>1, <2>1 DEF SameButPlace, Voice
    <3>3. IsAsset(w) /\ w.position = 0 /\ (w.spatialized => w.cursor = 0)
      BY <1>1, <2>1 DEF IsAsset, Voice
    <3> QED
      BY <3>1, <3>2, <3>3 DEF GoesOn
  <2> QED
    BY <2>2 DEF w
<1>4. CASE ~(v.position + n >= AssetFrames)
  <2>1. w = [v EXCEPT !.position = v.position + n]
    BY <1>2, <1>4 DEF w
  <2>2. VoiceOK(w) /\ w.playing
    BY <1>1, <1>4, <2>1, Sizes DEF VoiceOK, Voice
  <2>3. SameButPlace(v, w)
    BY <1>1, <2>1 DEF SameButPlace, Voice
  <2>4. GoesOn(v, w)
    BY <2>2, <2>3 DEF GoesOn
  <2> QED
    BY <2>4 DEF w
<1> QED
  BY <1>3, <1>4

LEMMA AssetSplits ==
  ASSUME NEW v, VoiceOK(v), v.playing, IsAsset(v), ~v.spatialized,
         NEW first \in Nat, NEW n \in Nat, NEW k \in 1..(n - 1)
  PROVE  LET whole == RenderAssetSource(v, first, n)
             left == RenderAssetSource(v, first, k)
             right == RenderAssetSource(left.voice, first + k, n - k)
         IN  SplitsInto(whole, left, right, first, k, n)
<1> DEFINE whole == RenderAssetSource(v, first, n)
           left == RenderAssetSource(v, first, k)
           right == RenderAssetSource(left.voice, first + k, n - k)
<1>1. v.position \in Nat /\ v.position < AssetFrames /\ v \in Voice
  BY DEF VoiceOK, Voice
<1>2. /\ whole.voice = IF v.position + n >= AssetFrames
                       THEN [v EXCEPT !.position = 0, !.playing = FALSE]
                       ELSE [v EXCEPT !.position = v.position + n]
      /\ \A f \in Frames(first, n) :
           whole.sound[f] = IF v.position + (f - first) < AssetFrames
                            THEN (v.position + (f - first)) * Unit ELSE Silence
  BY AssetPlays
<1>3. /\ left.voice = IF v.position + k >= AssetFrames
                      THEN [v EXCEPT !.position = 0, !.playing = FALSE]
                      ELSE [v EXCEPT !.position = v.position + k]
      /\ \A f \in Frames(first, k) :
           left.sound[f] = IF v.position + (f - first) < AssetFrames
                           THEN (v.position + (f - first)) * Unit ELSE Silence
  <2>1. k \in Nat
    OBVIOUS
  <2> QED
    BY <2>1, AssetPlays
<1>4. VoiceOK(left.voice)
  <2>1. k \in Nat
    OBVIOUS
  <2> QED
    BY <2>1, AssetGoesOn DEF GoesOn
<1>5. left.voice.playing => 
        /\ right.voice = IF left.voice.position + (n - k) >= AssetFrames
                         THEN [left.voice EXCEPT !.position = 0, !.playing = FALSE]
                         ELSE [left.voice EXCEPT !.position = left.voice.position + (n - k)]
        /\ \A f \in Frames(first + k, n - k) :
             right.sound[f] = IF left.voice.position + (f - (first + k)) < AssetFrames
                              THEN (left.voice.position + (f - (first + k))) * Unit
                              ELSE Silence
  <2>1. first + k \in Nat /\ n - k \in Nat
    OBVIOUS
  <2> DEFINE w == left.voice
  <2> HIDE DEF w
  <2>2. VoiceOK(w)
    BY <1>4 DEF w
  <2>3. w.playing =>
          /\ RenderAssetSource(w, first + k, n - k).voice =
               IF w.position + (n - k) >= AssetFrames
               THEN [w EXCEPT !.position = 0, !.playing = FALSE]
               ELSE [w EXCEPT !.position = w.position + (n - k)]
          /\ \A f \in Frames(first + k, n - k) :
               RenderAssetSource(w, first + k, n - k).sound[f] =
                 IF w.position + (f - (first + k)) < AssetFrames
                 THEN (w.position + (f - (first + k))) * Unit ELSE Silence
    BY <2>1, <2>2, AssetPlays
  <2> QED
    BY <2>3 DEF w
<1> SUFFICES SplitsInto(whole, left, right, first, k, n)
  OBVIOUS
<1> HIDE DEF whole, left, right
<1>6. \A f \in Frames(first, k) : f \in Frames(first, n)
  BY DEF Frames
<1>7. \A f \in Frames(first + k, n - k) : f \in Frames(first, n) /\ f >= first + k /\ f \in Int
  BY DEF Frames
<1>8. \A f \in Frames(first, k) : whole.sound[f] = left.sound[f]
  BY <1>2, <1>3, <1>6
<1>9. CASE v.position + k >= AssetFrames
  <2>1. v.position + n >= AssetFrames
    BY <1>1, <1>9, Sizes
  <2>2. whole.voice = left.voice /\ ~left.voice.playing
    BY <1>1, <1>2, <1>3, <1>9, <2>1 DEF Voice
  <2>3. \A f \in Frames(first + k, n - k) : whole.sound[f] = Silence
    <3>1. \A f \in Frames(first + k, n - k) : ~(v.position + (f - first) < AssetFrames)
      BY <1>1, <1>7, <1>9, Sizes
    <3> QED
      BY <1>2, <1>7, <3>1
  <2> QED
    BY <1>8, <2>2, <2>3 DEF SplitsInto
<1>10. CASE ~(v.position + k >= AssetFrames)
  <2>1. left.voice = [v EXCEPT !.position = v.position + k]
    BY <1>3, <1>10
  <2>2. left.voice.playing /\ left.voice.position = v.position + k
    BY <1>1, <2>1 DEF Voice
  <2>3. /\ [left.voice EXCEPT !.position = 0, !.playing = FALSE] =
             [v EXCEPT !.position = 0, !.playing = FALSE]
        /\ [left.voice EXCEPT !.position = v.position + n] = [v EXCEPT !.position = v.position + n]
    BY <1>1, <2>1 DEF Voice
  <2>4. left.voice.position + (n - k) = v.position + n
    BY <1>1, <2>2
  <2>5. whole.voice = right.voice
    BY <1>2, <1>5, <2>2, <2>3, <2>4
  <2>6. \A f \in Frames(first + k, n - k) :
          left.voice.position + (f - (first + k)) = v.position + (f - first)
    BY <1>1, <1>7, <2>2
  <2>7. \A f \in Frames(first + k, n - k) : whole.sound[f] = right.sound[f]
    BY <1>2, <1>5, <1>7, <2>2, <2>6
  <2> QED
    BY <1>8, <2>2, <2>5, <2>7 DEF SplitsInto
<1> QED
  BY <1>9, <1>10

(* The same of an asset that is read at the ratio of the distance.         *)
PlaysSpatial(source, v, cursor, first, n) ==
  /\ cursor[n] \in Nat
  /\ source.voice = IF cursor[n] >= End
                    THEN [v EXCEPT !.cursor = 0, !.position = 0, !.playing = FALSE]
                    ELSE [v EXCEPT !.cursor = cursor[n]]
  /\ \A f \in Frames(first, n) :
       source.sound[f] = IF cursor[f - first] < End THEN cursor[f - first] ELSE Silence

LEMMA SpatialPlays ==
  ASSUME NEW v, VoiceOK(v), v.playing, NEW first \in Nat, NEW n \in Nat
  PROVE  PlaysSpatial(RenderAssetSourceSpatial(v, first, n), v, CursorOver(v, first, n),
                      first, n)
<1>1. v.cursor \in Nat /\ v.spatialRatio \in Ramp
  BY DEF VoiceOK, Voice
<1> DEFINE cursor == CursorOver(v, first, n)
<1>2. cursor \in [0..n -> Nat]
  <2>1. IsCursor(cursor, v, first, n)
    BY <1>1, CursorRuns
  <2> QED
    BY <2>1 DEF IsCursor
<1>3. cursor[n] \in Nat
  BY <1>2
<1>4. /\ RenderAssetSourceSpatial(v, first, n).voice =
           IF cursor[n] >= End
           THEN [v EXCEPT !.cursor = 0, !.position = 0, !.playing = FALSE]
           ELSE [v EXCEPT !.cursor = cursor[n]]
      /\ RenderAssetSourceSpatial(v, first, n).sound =
           [f \in Frames(first, n) |->
              IF cursor[f - first] < End THEN cursor[f - first] ELSE Silence]
  BY DEF RenderAssetSourceSpatial
<1> HIDE DEF cursor
<1>5. \A f \in Frames(first, n) :
        RenderAssetSourceSpatial(v, first, n).sound[f] =
          IF cursor[f - first] < End THEN cursor[f - first] ELSE Silence
  BY <1>4
<1> QED
  BY <1>3, <1>4, <1>5 DEF cursor, PlaysSpatial

LEMMA SpatialGoesOn ==
  ASSUME NEW v, VoiceOK(v), v.playing, IsAsset(v), v.spatialized,
         NEW first \in Nat, NEW n \in Nat
  PROVE  GoesOn(v, RenderAssetSourceSpatial(v, first, n).voice)
<1>1. v \in Voice /\ v.position \in Nat /\ v.position < AssetFrames /\ v.cursor < End
  BY DEF VoiceOK, Voice
<1> DEFINE playout == RenderAssetSourceSpatial(v, first, n)
           cursor == CursorOver(v, first, n)
<1> HIDE DEF playout, cursor
<1>2. /\ cursor[n] \in Nat
      /\ playout.voice = IF cursor[n] >= End
                         THEN [v EXCEPT !.cursor = 0, !.position = 0, !.playing = FALSE]
                         ELSE [v EXCEPT !.cursor = cursor[n]]
      /\ \A f \in Frames(first, n) :
           playout.sound[f] = IF cursor[f - first] < End THEN cursor[f - first] ELSE Silence
  <2>1. PlaysSpatial(playout, v, cursor, first, n)
    BY SpatialPlays DEF playout, cursor
  <2> QED
    BY <2>1 DEF PlaysSpatial
<1> DEFINE w == playout.voice
<1> HIDE DEF w
<1>3. CASE cursor[n] >= End
  <2>1. w = [v EXCEPT !.cursor = 0, !.position = 0, !.playing = FALSE]
    BY <1>2, <1>3 DEF w
  <2>2. w \in Voice /\ w.position = 0 /\ w.cursor = 0
    BY <1>1, <2>1 DEF Voice
  <2>3. VoiceOK(w)
    BY <1>1, <2>2, Sizes DEF VoiceOK
  <2>4. SameButPlace(v, w) /\ IsAsset(w)
    BY <1>1, <2>1 DEF SameButPlace, Voice, IsAsset
  <2>5. GoesOn(v, w)
    BY <2>2, <2>3, <2>4 DEF GoesOn
  <2> QED
    BY <2>5 DEF w, playout
<1>4. CASE ~(cursor[n] >= End)
  <2>1. w = [v EXCEPT !.cursor = cursor[n]]
    BY <1>2, <1>4 DEF w
  <2>2. w \in Voice /\ w.position = v.position /\ w.cursor = cursor[n] /\ w.playing
    BY <1>1, <1>2, <2>1 DEF Voice
  <2>3. VoiceOK(w)
    BY <1>1, <1>2, <1>4, <2>2, Sizes DEF VoiceOK
  <2>4. SameButPlace(v, w)
    BY <1>1, <2>1 DEF SameButPlace, Voice
  <2>5. GoesOn(v, w)
    BY <2>2, <2>3, <2>4 DEF GoesOn
  <2> QED
    BY <2>5 DEF w, playout
<1> QED
  BY <1>3, <1>4

(* The cursor of the two parts is that of the whole, until it is at the    *)
(* end; there it stays.                                                    *)
SplitsCursor(whole, left, right, w, k, m) ==
  /\ \A i \in 0..k : left[i] = whole[i]
  /\ w.cursor = left[k] => \A i \in 0..m : right[i] = whole[k + i]
  /\ left[k] >= End => \A i \in 0..m : whole[k + i] = left[k]

LEMMA CursorSplits ==
  ASSUME NEW v, VoiceOK(v), NEW first \in Nat, NEW n \in Nat,
         NEW k \in Nat, NEW m \in Nat, NEW start \in Nat, n = k + m, start = first + k,
         NEW w, VoiceOK(w), w.spatialRatio = v.spatialRatio
  PROVE  SplitsCursor(CursorOver(v, first, n), CursorOver(v, first, k),
                      CursorOver(w, start, m), w, k, m)
<1> DEFINE whole == CursorOver(v, first, n)
           left == CursorOver(v, first, k)
           right == CursorOver(w, start, m)
<1> SUFFICES SplitsCursor(whole, left, right, w, k, m)
  OBVIOUS
<1> HIDE DEF whole, left, right
<1>1. v.cursor \in Nat /\ v.spatialRatio \in Ramp /\ w.cursor \in Nat /\ w.spatialRatio \in Ramp
  BY DEF VoiceOK, Voice
<1>2. /\ whole \in [0..n -> Nat]
      /\ whole[0] = v.cursor
      /\ \A i \in 0..(n - 1) :
           whole[i + 1] = IF whole[i] < End
                          THEN whole[i] + ValueAt(v.spatialRatio, first + i)
                          ELSE whole[i]
  <2>1. IsCursor(whole, v, first, n)
    BY <1>1, CursorRuns DEF whole
  <2> QED
    BY <2>1 DEF IsCursor
<1>3. /\ left \in [0..k -> Nat]
      /\ left[0] = v.cursor
      /\ \A i \in 0..(k - 1) :
           left[i + 1] = IF left[i] < End
                         THEN left[i] + ValueAt(v.spatialRatio, first + i)
                         ELSE left[i]
  <2>1. IsCursor(left, v, first, k)
    BY <1>1, CursorRuns DEF left
  <2> QED
    BY <2>1 DEF IsCursor
<1>4. /\ right \in [0..m -> Nat]
      /\ right[0] = w.cursor
      /\ \A i \in 0..(m - 1) :
           right[i + 1] = IF right[i] < End
                          THEN right[i] + ValueAt(w.spatialRatio, start + i)
                          ELSE right[i]
  <2>1. IsCursor(right, w, start, m)
    BY <1>1, CursorRuns DEF right
  <2> QED
    BY <2>1 DEF IsCursor
<1>5. \A i \in 0..k : left[i] = whole[i]
  <2>1. left[0] = whole[0]
    BY <1>2, <1>3
  <2>2. ASSUME NEW i \in 0..(k - 1), left[i] = whole[i] PROVE left[i + 1] = whole[i + 1]
    <3>1. i \in 0..(n - 1)
      OBVIOUS
    <3> QED
      BY <1>2, <1>3, <2>2, <3>1
  <2>3. Alike(left, whole, k)
    BY <2>1, <2>2 DEF Alike
  <2> QED
    BY <2>3, Agree
<1>6. k \in 0..n /\ left[k] = whole[k] /\ left[k] \in Nat
  BY <1>3, <1>5
<1> DEFINE rest == [i \in 0..m |-> whole[k + i]]
<1>7. /\ rest[0] = whole[k]
      /\ \A i \in 0..(m - 1) :
           rest[i + 1] = IF rest[i] < End
                         THEN rest[i] + ValueAt(v.spatialRatio, start + i)
                         ELSE rest[i]
  <2>1. ASSUME NEW i \in 0..(m - 1)
        PROVE  rest[i + 1] = IF rest[i] < End
                             THEN rest[i] + ValueAt(v.spatialRatio, start + i) ELSE rest[i]
    <3>1. /\ k + i \in 0..(n - 1) /\ i \in 0..m /\ i + 1 \in 0..m
          /\ k + (i + 1) = (k + i) + 1 /\ first + (k + i) = start + i
      OBVIOUS
    <3> QED
      BY <1>2, <3>1
  <2>2. rest[0] = whole[k]
    OBVIOUS
  <2> HIDE DEF rest
  <2> QED
    BY <2>1, <2>2
<1>8. \A i \in 0..m : rest[i] = whole[k + i]
  OBVIOUS
<1> HIDE DEF rest
<1>9. ASSUME w.cursor = left[k] PROVE \A i \in 0..m : right[i] = whole[k + i]
  <2>1. right[0] = rest[0]
    BY <1>4, <1>6, <1>7, <1>9
  <2>2. \A i \in 0..(m - 1) : right[i] = rest[i] => right[i + 1] = rest[i + 1]
    BY <1>4, <1>7
  <2>3. Alike(right, rest, m)
    BY <2>1, <2>2 DEF Alike
  <2>4. \A i \in 0..m : right[i] = rest[i]
    BY <2>3, Agree
  <2> QED
    BY <1>8, <2>4
<1>10. ASSUME left[k] >= End PROVE \A i \in 0..m : whole[k + i] = left[k]
  <2> DEFINE S == {i \in 0..m : rest[i] = left[k]}
  <2>1. 0 \in S
    BY <1>6, <1>7
  <2>2. \A i \in 0..(m - 1) : i \in S => i + 1 \in S
    BY <1>6, <1>7, <1>10, Sizes
  <2> HIDE DEF S
  <2>3. \A i \in 0..m : i \in S
    BY <2>1, <2>2, InductionTo
  <2> QED
    BY <1>8, <2>3 DEF S
<1> QED
  BY <1>5, <1>9, <1>10 DEF SplitsCursor

LEMMA SpatialSplits ==
  ASSUME NEW v, VoiceOK(v), v.playing, IsAsset(v), v.spatialized,
         NEW first \in Nat, NEW n \in Nat, NEW k \in 1..(n - 1)
  PROVE  LET whole == RenderAssetSourceSpatial(v, first, n)
             left == RenderAssetSourceSpatial(v, first, k)
             right == RenderAssetSourceSpatial(left.voice, first + k, n - k)
         IN  SplitsInto(whole, left, right, first, k, n)
<1> DEFINE whole == RenderAssetSourceSpatial(v, first, n)
           left == RenderAssetSourceSpatial(v, first, k)
           w == left.voice
           m == n - k
           start == first + k
           right == RenderAssetSourceSpatial(w, start, m)
           all == CursorOver(v, first, n)
           some == CursorOver(v, first, k)
           rest == CursorOver(w, start, m)
<1>1. v.position \in Nat /\ v.position < AssetFrames /\ v \in Voice
  BY DEF VoiceOK, Voice
<1>2. k \in Nat /\ m \in Nat /\ start \in Nat /\ n = k + m /\ start = first + k
  OBVIOUS
<1> SUFFICES SplitsInto(whole, left, right, first, k, n)
  OBVIOUS
<1> HIDE DEF w, m, start
<1>3. GoesOn(v, w)
  BY <1>2, SpatialGoesOn DEF w
<1>4. VoiceOK(w) /\ w.spatialRatio = v.spatialRatio
  BY <1>3 DEF GoesOn, SameButPlace
<1> HIDE DEF whole, left, right, all, some, rest
<1>5. /\ all[n] \in Nat
      /\ whole.voice = IF all[n] >= End
                       THEN [v EXCEPT !.cursor = 0, !.position = 0, !.playing = FALSE]
                       ELSE [v EXCEPT !.cursor = all[n]]
      /\ \A f \in Frames(first, n) :
           whole.sound[f] = IF all[f - first] < End THEN all[f - first] ELSE Silence
  <2>1. PlaysSpatial(whole, v, all, first, n)
    BY SpatialPlays DEF whole, all
  <2> QED
    BY <2>1 DEF PlaysSpatial
<1>6. /\ some[k] \in Nat
      /\ w = IF some[k] >= End
             THEN [v EXCEPT !.cursor = 0, !.position = 0, !.playing = FALSE]
             ELSE [v EXCEPT !.cursor = some[k]]
      /\ \A f \in Frames(first, k) :
           left.sound[f] = IF some[f - first] < End THEN some[f - first] ELSE Silence
  <2>1. PlaysSpatial(left, v, some, first, k)
    BY <1>2, SpatialPlays DEF left, some
  <2> QED
    BY <2>1 DEF PlaysSpatial, w
<1>7. w.playing =>
      /\ rest[m] \in Nat
      /\ right.voice = IF rest[m] >= End
                       THEN [w EXCEPT !.cursor = 0, !.position = 0, !.playing = FALSE]
                       ELSE [w EXCEPT !.cursor = rest[m]]
      /\ \A f \in Frames(start, m) :
           right.sound[f] = IF rest[f - start] < End THEN rest[f - start] ELSE Silence
  <2>1. w.playing => PlaysSpatial(right, w, rest, start, m)
    BY <1>2, <1>4, SpatialPlays DEF right, rest
  <2> QED
    BY <2>1 DEF PlaysSpatial
<1>8. /\ \A i \in 0..k : some[i] = all[i]
      /\ w.cursor = some[k] => \A i \in 0..m : rest[i] = all[k + i]
      /\ some[k] >= End => \A i \in 0..m : all[k + i] = some[k]
  <2>1. SplitsCursor(all, some, rest, w, k, m)
    BY <1>2, <1>4, CursorSplits DEF all, some, rest
  <2> QED
    BY <2>1 DEF SplitsCursor
<1>9. /\ \A f \in Frames(first, k) : f \in Frames(first, n) /\ f - first \in 0..k
      /\ \A f \in Frames(start, m) :
           /\ f \in Frames(first, n) /\ f - start \in 0..m
           /\ f - first = k + (f - start)
      /\ m \in 0..m /\ k + m = n
  BY DEF Frames, start, m
<1>10. \A f \in Frames(first, k) : whole.sound[f] = left.sound[f]
  BY <1>5, <1>6, <1>8, <1>9
<1>11. CASE some[k] >= End
  <2>1. \A i \in 0..m : all[k + i] = some[k]
    BY <1>8, <1>11
  <2>2. all[n] = some[k]
    BY <1>9, <2>1
  <2>3. whole.voice = w /\ ~w.playing
    BY <1>1, <1>5, <1>6, <1>11, <2>2 DEF Voice
  <2>4. \A f \in Frames(start, m) : whole.sound[f] = Silence
    <3>1. ASSUME NEW f \in Frames(start, m) PROVE ~(all[f - first] < End) /\ f \in Frames(first, n)
      <4>1. all[f - first] = some[k]
        BY <1>9, <2>1
      <4> QED
        BY <1>6, <1>9, <1>11, <4>1, Sizes
    <3> QED
      BY <1>5, <3>1
  <2> QED
    BY <1>10, <2>3, <2>4 DEF SplitsInto, w, start, m
<1>12. CASE ~(some[k] >= End)
  <2>1. w = [v EXCEPT !.cursor = some[k]]
    BY <1>6, <1>12
  <2>2. w.playing /\ w.cursor = some[k]
    BY <1>1, <1>6, <2>1 DEF Voice
  <2>3. \A i \in 0..m : rest[i] = all[k + i]
    BY <1>8, <2>2
  <2>4. rest[m] = all[n]
    BY <1>9, <2>3
  <2>5. /\ [w EXCEPT !.cursor = 0, !.position = 0, !.playing = FALSE] =
             [v EXCEPT !.cursor = 0, !.position = 0, !.playing = FALSE]
        /\ [w EXCEPT !.cursor = all[n]] = [v EXCEPT !.cursor = all[n]]
    BY <1>1, <2>1 DEF Voice
  <2>6. whole.voice = right.voice
    BY <1>5, <1>7, <2>2, <2>4, <2>5
  <2>7. \A f \in Frames(start, m) : whole.sound[f] = right.sound[f]
    <3>1. ASSUME NEW f \in Frames(start, m) PROVE whole.sound[f] = right.sound[f]
      <4>1. all[f - first] = rest[f - start] /\ f \in Frames(first, n)
        BY <1>9, <2>3
      <4> QED
        BY <1>5, <1>7, <2>2, <4>1
    <3> QED
      BY <3>1
  <2> QED
    BY <1>10, <2>2, <2>6, <2>7 DEF SplitsInto, w, start, m
<1> QED
  BY <1>11, <1>12

(* A tone never ends; its phase goes on from segment to segment.           *)
PlaysTone(source, v, phase, first, n) ==
  /\ phase[n] \in Nat
  /\ source.voice = [v EXCEPT !.phase = phase[n]]
  /\ \A f \in Frames(first, n) : source.sound[f] = phase[f - first]

LEMMA TonePlays ==
  ASSUME NEW v, VoiceOK(v), NEW first \in Nat, NEW n \in Nat
  PROVE  PlaysTone(RenderTone(v, first, n), v, PhaseOver(v, first, n), first, n)
<1>1. v.phase \in Nat /\ v.spatialRatio \in Ramp
  BY DEF VoiceOK, Voice
<1> DEFINE phase == PhaseOver(v, first, n)
<1>2. phase[n] \in Nat
  <2>1. IsPhase(phase, v, first, n)
    BY <1>1, PhaseRuns
  <2> HIDE DEF phase
  <2> QED
    BY <2>1 DEF IsPhase
<1>3. /\ RenderTone(v, first, n).voice = [v EXCEPT !.phase = phase[n]]
      /\ RenderTone(v, first, n).sound = [f \in Frames(first, n) |-> phase[f - first]]
  BY DEF RenderTone
<1> HIDE DEF phase
<1> QED
  BY <1>2, <1>3 DEF phase, PlaysTone

LEMMA ToneGoesOn ==
  ASSUME NEW v, VoiceOK(v), v.playing, NEW first \in Nat, NEW n \in Nat
  PROVE  GoesOn(v, RenderTone(v, first, n).voice) /\ RenderTone(v, first, n).voice.playing
<1> DEFINE source == RenderTone(v, first, n)
           phase == PhaseOver(v, first, n)
           w == source.voice
<1> HIDE DEF source, phase, w
<1>1. phase[n] \in Nat /\ w = [v EXCEPT !.phase = phase[n]]
  <2>1. PlaysTone(source, v, phase, first, n)
    BY TonePlays DEF source, phase
  <2> QED
    BY <2>1 DEF PlaysTone, w
<1>2. v \in Voice /\ v.position < AssetFrames /\ v.cursor < End
  BY DEF VoiceOK
<1>3. w \in Voice /\ w.position = v.position /\ w.cursor = v.cursor /\ w.playing
  BY <1>1, <1>2 DEF Voice
<1>4. SameButPlace(v, w)
  BY <1>1, <1>2 DEF SameButPlace, Voice
<1>5. GoesOn(v, w)
  BY <1>2, <1>3, <1>4 DEF GoesOn, VoiceOK
<1> QED
  BY <1>3, <1>5 DEF w, source

SplitsPhase(whole, left, right, w, k, m) ==
  /\ \A i \in 0..k : left[i] = whole[i]
  /\ w.phase = left[k] => \A i \in 0..m : right[i] = whole[k + i]

LEMMA PhaseSplits ==
  ASSUME NEW v, VoiceOK(v), NEW first \in Nat, NEW n \in Nat,
         NEW k \in Nat, NEW m \in Nat, NEW start \in Nat, n = k + m, start = first + k,
         NEW w, VoiceOK(w), w.spatialRatio = v.spatialRatio, w.spatialized = v.spatialized
  PROVE  SplitsPhase(PhaseOver(v, first, n), PhaseOver(v, first, k),
                     PhaseOver(w, start, m), w, k, m)
<1> DEFINE whole == PhaseOver(v, first, n)
           left == PhaseOver(v, first, k)
           right == PhaseOver(w, start, m)
<1> SUFFICES SplitsPhase(whole, left, right, w, k, m)
  OBVIOUS
<1> HIDE DEF whole, left, right
<1>1. v.phase \in Nat /\ v.spatialRatio \in Ramp /\ w.phase \in Nat /\ w.spatialRatio \in Ramp
  BY DEF VoiceOK, Voice
<1>2. /\ whole \in [0..n -> Nat]
      /\ whole[0] = v.phase
      /\ \A i \in 0..(n - 1) :
           whole[i + 1] = whole[i]
             + (IF v.spatialized THEN ValueAt(v.spatialRatio, first + i) ELSE Unit)
  <2>1. IsPhase(whole, v, first, n)
    BY <1>1, PhaseRuns DEF whole
  <2> QED
    BY <2>1 DEF IsPhase
<1>3. /\ left \in [0..k -> Nat]
      /\ left[0] = v.phase
      /\ \A i \in 0..(k - 1) :
           left[i + 1] = left[i]
             + (IF v.spatialized THEN ValueAt(v.spatialRatio, first + i) ELSE Unit)
  <2>1. IsPhase(left, v, first, k)
    BY <1>1, PhaseRuns DEF left
  <2> QED
    BY <2>1 DEF IsPhase
<1>4. /\ right \in [0..m -> Nat]
      /\ right[0] = w.phase
      /\ \A i \in 0..(m - 1) :
           right[i + 1] = right[i]
             + (IF w.spatialized THEN ValueAt(w.spatialRatio, start + i) ELSE Unit)
  <2>1. IsPhase(right, w, start, m)
    BY <1>1, PhaseRuns DEF right
  <2> QED
    BY <2>1 DEF IsPhase
<1>5. \A i \in 0..k : left[i] = whole[i]
  <2>1. left[0] = whole[0]
    BY <1>2, <1>3
  <2>2. ASSUME NEW i \in 0..(k - 1), left[i] = whole[i] PROVE left[i + 1] = whole[i + 1]
    <3>1. i \in 0..(n - 1)
      OBVIOUS
    <3> QED
      BY <1>2, <1>3, <2>2, <3>1
  <2>3. Alike(left, whole, k)
    BY <2>1, <2>2 DEF Alike
  <2> QED
    BY <2>3, Agree
<1> DEFINE rest == [i \in 0..m |-> whole[k + i]]
<1>6. /\ rest[0] = whole[k]
      /\ \A i \in 0..(m - 1) :
           rest[i + 1] = rest[i]
             + (IF v.spatialized THEN ValueAt(v.spatialRatio, start + i) ELSE Unit)
  <2>1. ASSUME NEW i \in 0..(m - 1)
        PROVE  rest[i + 1] = rest[i]
                 + (IF v.spatialized THEN ValueAt(v.spatialRatio, start + i) ELSE Unit)
    <3>1. /\ k + i \in 0..(n - 1) /\ i \in 0..m /\ i + 1 \in 0..m
          /\ k + (i + 1) = (k + i) + 1 /\ first + (k + i) = start + i
      OBVIOUS
    <3> QED
      BY <1>2, <3>1
  <2>2. rest[0] = whole[k]
    OBVIOUS
  <2> HIDE DEF rest
  <2> QED
    BY <2>1, <2>2
<1>7. \A i \in 0..m : rest[i] = whole[k + i]
  OBVIOUS
<1> HIDE DEF rest
<1>8. ASSUME w.phase = left[k] PROVE \A i \in 0..m : right[i] = whole[k + i]
  <2>1. right[0] = rest[0]
    BY <1>4, <1>5, <1>6, <1>8
  <2>2. \A i \in 0..(m - 1) : right[i] = rest[i] => right[i + 1] = rest[i + 1]
    BY <1>4, <1>6
  <2>3. Alike(right, rest, m)
    BY <2>1, <2>2 DEF Alike
  <2>4. \A i \in 0..m : right[i] = rest[i]
    BY <2>3, Agree
  <2> QED
    BY <1>7, <2>4
<1> QED
  BY <1>5, <1>8 DEF SplitsPhase

LEMMA ToneSplits ==
  ASSUME NEW v, VoiceOK(v), v.playing,
         NEW first \in Nat, NEW n \in Nat, NEW k \in 1..(n - 1)
  PROVE  LET whole == RenderTone(v, first, n)
             left == RenderTone(v, first, k)
             right == RenderTone(left.voice, first + k, n - k)
         IN  SplitsInto(whole, left, right, first, k, n)
<1> DEFINE whole == RenderTone(v, first, n)
           left == RenderTone(v, first, k)
           w == left.voice
           m == n - k
           start == first + k
           right == RenderTone(w, start, m)
           all == PhaseOver(v, first, n)
           some == PhaseOver(v, first, k)
           rest == PhaseOver(w, start, m)
<1>1. v \in Voice
  BY DEF VoiceOK
<1>2. k \in Nat /\ m \in Nat /\ start \in Nat /\ n = k + m /\ start = first + k
  OBVIOUS
<1> SUFFICES SplitsInto(whole, left, right, first, k, n)
  OBVIOUS
<1> HIDE DEF w, m, start
<1>3. GoesOn(v, w) /\ w.playing
  BY <1>2, ToneGoesOn DEF w
<1>4. /\ VoiceOK(w) /\ w.spatialRatio = v.spatialRatio /\ w.spatialized = v.spatialized
  BY <1>3 DEF GoesOn, SameButPlace
<1> HIDE DEF whole, left, right, all, some, rest
<1>5. /\ all[n] \in Nat
      /\ whole.voice = [v EXCEPT !.phase = all[n]]
      /\ \A f \in Frames(first, n) : whole.sound[f] = all[f - first]
  <2>1. PlaysTone(whole, v, all, first, n)
    BY TonePlays DEF whole, all
  <2> QED
    BY <2>1 DEF PlaysTone
<1>6. /\ some[k] \in Nat
      /\ w = [v EXCEPT !.phase = some[k]]
      /\ \A f \in Frames(first, k) : left.sound[f] = some[f - first]
  <2>1. PlaysTone(left, v, some, first, k)
    BY <1>2, TonePlays DEF left, some
  <2> QED
    BY <2>1 DEF PlaysTone, w
<1>7. /\ rest[m] \in Nat
      /\ right.voice = [w EXCEPT !.phase = rest[m]]
      /\ \A f \in Frames(start, m) : right.sound[f] = rest[f - start]
  <2>1. PlaysTone(right, w, rest, start, m)
    BY <1>2, <1>4, TonePlays DEF right, rest
  <2> QED
    BY <2>1 DEF PlaysTone
<1>8. /\ \A i \in 0..k : some[i] = all[i]
      /\ w.phase = some[k] => \A i \in 0..m : rest[i] = all[k + i]
  <2>1. SplitsPhase(all, some, rest, w, k, m)
    BY <1>2, <1>4, PhaseSplits DEF all, some, rest
  <2> QED
    BY <2>1 DEF SplitsPhase
<1>9. /\ \A f \in Frames(first, k) : f \in Frames(first, n) /\ f - first \in 0..k
      /\ \A f \in Frames(start, m) :
           /\ f \in Frames(first, n) /\ f - start \in 0..m
           /\ f - first = k + (f - start)
      /\ m \in 0..m /\ k + m = n
  BY DEF Frames, start, m
<1>10. \A f \in Frames(first, k) : whole.sound[f] = left.sound[f]
  BY <1>5, <1>6, <1>8, <1>9
<1>11. w.phase = some[k]
  BY <1>1, <1>6 DEF Voice
<1>12. \A i \in 0..m : rest[i] = all[k + i]
  BY <1>8, <1>11
<1>13. rest[m] = all[n]
  BY <1>9, <1>12
<1>14. [w EXCEPT !.phase = all[n]] = [v EXCEPT !.phase = all[n]]
  BY <1>1, <1>6 DEF Voice
<1>15. whole.voice = right.voice
  BY <1>5, <1>7, <1>13, <1>14
<1>16. \A f \in Frames(start, m) : whole.sound[f] = right.sound[f]
  <2>1. ASSUME NEW f \in Frames(start, m) PROVE whole.sound[f] = right.sound[f]
    <3>1. all[f - first] = rest[f - start] /\ f \in Frames(first, n)
      BY <1>9, <1>12
    <3> QED
      BY <1>5, <1>7, <3>1
  <2> QED
    BY <2>1
<1> QED
  BY <1>3, <1>10, <1>15, <1>16 DEF SplitsInto, w, start, m

(* Whatever the source is. *)
LEMMA SourceGoesOn ==
  ASSUME NEW v, VoiceOK(v), v.playing, NEW first \in Nat, NEW n \in Nat
  PROVE  GoesOn(v, RenderVoiceSource(v, first, n).voice)
<1>1. CASE ~IsAsset(v)
  BY <1>1, ToneGoesOn DEF RenderVoiceSource
<1>2. CASE IsAsset(v) /\ v.spatialized
  BY <1>2, SpatialGoesOn DEF RenderVoiceSource
<1>3. CASE IsAsset(v) /\ ~v.spatialized
  BY <1>3, AssetGoesOn DEF RenderVoiceSource
<1> QED
  BY <1>1, <1>2, <1>3

LEMMA SourceSplits ==
  ASSUME NEW v, VoiceOK(v), v.playing,
         NEW first \in Nat, NEW n \in Nat, NEW k \in 1..(n - 1)
  PROVE  LET whole == RenderVoiceSource(v, first, n)
             left == RenderVoiceSource(v, first, k)
             right == RenderVoiceSource(left.voice, first + k, n - k)
         IN  SplitsInto(whole, left, right, first, k, n)
<1> DEFINE left == RenderVoiceSource(v, first, k)
           w == left.voice
<1>1. IsAsset(w) <=> IsAsset(v)
  <2>1. SameButPlace(v, w)
    BY SourceGoesOn DEF GoesOn
  <2> HIDE DEF w
  <2> QED
    BY <2>1 DEF SameButPlace, IsAsset
<1>2. w.spatialized = v.spatialized
  <2>1. SameButPlace(v, w)
    BY SourceGoesOn DEF GoesOn
  <2> HIDE DEF w
  <2> QED
    BY <2>1 DEF SameButPlace
<1>3. CASE ~IsAsset(v)
  <2>1. /\ RenderVoiceSource(v, first, n) = RenderTone(v, first, n)
        /\ left = RenderTone(v, first, k)
        /\ RenderVoiceSource(w, first + k, n - k) = RenderTone(w, first + k, n - k)
    BY <1>1, <1>3 DEF RenderVoiceSource
  <2> HIDE DEF left
  <2> QED
    BY <2>1, ToneSplits DEF left
<1>4. CASE IsAsset(v) /\ v.spatialized
  <2>1. /\ RenderVoiceSource(v, first, n) = RenderAssetSourceSpatial(v, first, n)
        /\ left = RenderAssetSourceSpatial(v, first, k)
        /\ RenderVoiceSource(w, first + k, n - k) =
             RenderAssetSourceSpatial(w, first + k, n - k)
    BY <1>1, <1>2, <1>4 DEF RenderVoiceSource
  <2> HIDE DEF left
  <2> QED
    BY <1>4, <2>1, SpatialSplits DEF left
<1>5. CASE IsAsset(v) /\ ~v.spatialized
  <2>1. /\ RenderVoiceSource(v, first, n) = RenderAssetSource(v, first, n)
        /\ left = RenderAssetSource(v, first, k)
        /\ RenderVoiceSource(w, first + k, n - k) = RenderAssetSource(w, first + k, n - k)
    BY <1>1, <1>2, <1>5 DEF RenderVoiceSource
  <2> HIDE DEF left
  <2> QED
    BY <1>5, <2>1, AssetSplits DEF left
<1> QED
  BY <1>3, <1>4, <1>5

-----------------------------------------------------------------------------
(* A segment and its two parts.                                            *)

(* The gains of a frame, by whichever path.                                *)
GainsAt(v, f) ==
  [gain |-> ValueAt(v.gain, f),
   space |-> IF v.spatialized THEN ValueAt(v.spatialGain, f) ELSE v.pan]

LEMMA GainsAre ==
  ASSUME NEW v, VoiceOK(v), NEW first \in Nat, NEW n, NEW f \in Frames(first, n), f \in Nat,
         first <= f
  PROVE  GainsOf(v, first, n)[f] = GainsAt(v, f)
<1>1. v.gain \in Ramp /\ v.spatialGain \in Ramp /\ v.spatialized \in BOOLEAN
  BY DEF VoiceOK, Voice
<1> DEFINE ramps == IF v.spatialized THEN {v.gain, v.spatialGain} ELSE {v.gain}
           constant == \A ramp \in ramps : IsConstantFrom(ramp, first)
           At(ramp) == IF constant THEN ramp.to ELSE ValueAt(ramp, f)
<1>2. GainsOf(v, first, n)[f] =
        [gain |-> At(v.gain), space |-> IF v.spatialized THEN At(v.spatialGain) ELSE v.pan]
  BY DEF GainsOf
<1>3. At(v.gain) = ValueAt(v.gain, f)
  <2>1. constant => IsConstantFrom(v.gain, first)
    OBVIOUS
  <2> HIDE DEF constant
  <2> QED
    BY <1>1, <2>1, ConstantPath
<1>4. v.spatialized => At(v.spatialGain) = ValueAt(v.spatialGain, f)
  <2>1. v.spatialized /\ constant => IsConstantFrom(v.spatialGain, first)
    OBVIOUS
  <2> HIDE DEF constant
  <2> QED
    BY <1>1, <2>1, ConstantPath
<1> HIDE DEF At
<1> QED
  BY <1>2, <1>3, <1>4 DEF GainsAt

LEMMA BusGainIs ==
  ASSUME NEW ramp \in Ramp, NEW first \in Nat, NEW n, NEW f \in Frames(first, n), f \in Nat,
         first <= f
  PROVE  BusGainOf(ramp, first, n)[f] = ValueAt(ramp, f)
BY ConstantPath DEF BusGainOf

Heard(sound, gains) ==
  IF sound = Silence THEN Nothing
  ELSE [sound |-> sound, gain |-> gains.gain, space |-> gains.space]

(* What is rendered of a voice that plays.                                 *)
LEMMA VoiceRenders ==
  ASSUME NEW v, v.playing, NEW first \in Nat, VoiceOK(UpdateSpatial(v, first)), NEW n \in Nat
  PROVE  LET u == UpdateSpatial(v, first)
             source == RenderVoiceSource(u, first, n)
         IN  /\ RenderVoice(v, first, n).voice = source.voice
             /\ \A f \in Frames(first, n) :
                  RenderVoice(v, first, n).out[f] = Heard(source.sound[f], GainsAt(u, f))
<1> DEFINE u == UpdateSpatial(v, first)
           source == RenderVoiceSource(u, first, n)
           gains == GainsOf(u, first, n)
<1>1. VoiceOK(u)
  OBVIOUS
<1>2. /\ RenderVoice(v, first, n).voice = source.voice
      /\ RenderVoice(v, first, n).out =
           [f \in Frames(first, n) |->
              IF source.sound[f] = Silence THEN Nothing
              ELSE [sound |-> source.sound[f], gain |-> gains[f].gain,
                    space |-> gains[f].space]]
  BY DEF RenderVoice
<1> HIDE DEF u, source, gains
<1>3. ASSUME NEW f \in Frames(first, n)
      PROVE  RenderVoice(v, first, n).out[f] = Heard(source.sound[f], GainsAt(u, f))
  <2>1. f \in Nat /\ first <= f
    BY DEF Frames
  <2>2. gains[f] = GainsAt(u, f)
    BY <1>1, <2>1, GainsAre DEF gains
  <2> QED
    BY <1>2, <2>2 DEF Heard
<1> QED
  BY <1>2, <1>3 DEF u, source

LEMMA SilentVoiceRenders ==
  ASSUME NEW v, VoiceOK(v), ~v.playing, NEW first, NEW n
  PROVE  /\ RenderVoice(v, first, n).voice = v
         /\ \A f \in Frames(first, n) : RenderVoice(v, first, n).out[f] = Nothing
BY DEF RenderVoice, VoiceOK, Voice

LEMMA VoiceGoesOn ==
  ASSUME NEW v, VoiceOK(v), NEW first \in Nat, first < kMaxFrame, NEW n \in Nat
  PROVE  VoiceOK(RenderVoice(v, first, n).voice)
<1>1. CASE v.playing
  <2> DEFINE u == UpdateSpatial(v, first)
  <2>1. VoiceOK(u) /\ u.playing
    BY <1>1, Updates
  <2>2. RenderVoice(v, first, n).voice = RenderVoiceSource(u, first, n).voice
    BY <1>1, <2>1, VoiceRenders
  <2> HIDE DEF u
  <2> QED
    BY <2>1, <2>2, SourceGoesOn DEF GoesOn
<1>2. CASE ~v.playing
  BY <1>2, SilentVoiceRenders
<1> QED
  BY <1>1, <1>2

LEMMA VoiceSplits ==
  ASSUME NEW v, VoiceOK(v), NEW first \in Nat, first < kMaxFrame,
         NEW n \in Nat, NEW k \in 1..(n - 1)
  PROVE  LET whole == RenderVoice(v, first, n)
             left == RenderVoice(v, first, k)
             right == RenderVoice(left.voice, first + k, n - k)
         IN  /\ whole.voice = right.voice
             /\ \A f \in Frames(first, n) :
                  whole.out[f] = IF f < first + k THEN left.out[f] ELSE right.out[f]
<1> DEFINE whole == RenderVoice(v, first, n)
           left == RenderVoice(v, first, k)
           w == left.voice
           m == n - k
           start == first + k
           right == RenderVoice(w, start, m)
<1>1. k \in Nat /\ m \in Nat /\ start \in Nat /\ start = first + k
  OBVIOUS
<1>2. \A f \in Frames(first, n) :
        IF f < start THEN f \in Frames(first, k) ELSE f \in Frames(start, m)
  BY DEF Frames
<1> SUFFICES /\ whole.voice = right.voice
             /\ \A f \in Frames(first, n) :
                  whole.out[f] = IF f < start THEN left.out[f] ELSE right.out[f]
  OBVIOUS
<1> HIDE DEF m, start
<1>3. CASE ~v.playing
  <2>1. whole.voice = v /\ \A f \in Frames(first, n) : whole.out[f] = Nothing
    BY <1>3, SilentVoiceRenders
  <2>2. left.voice = v /\ \A f \in Frames(first, k) : left.out[f] = Nothing
    BY <1>3, SilentVoiceRenders
  <2>3. right.voice = v /\ \A f \in Frames(start, m) : right.out[f] = Nothing
    BY <1>3, <2>2, SilentVoiceRenders
  <2> HIDE DEF whole, left, right
  <2> QED
    BY <1>2, <2>1, <2>2, <2>3
<1>4. CASE v.playing
  <2> DEFINE u == UpdateSpatial(v, first)
             all == RenderVoiceSource(u, first, n)
             some == RenderVoiceSource(u, first, k)
             rest == RenderVoiceSource(w, start, m)
  <2>1. VoiceOK(u) /\ Settled(u) /\ u.playing
    BY <1>1, <1>4, Updates
  <2>2. /\ whole.voice = all.voice
        /\ \A f \in Frames(first, n) : whole.out[f] = Heard(all.sound[f], GainsAt(u, f))
    BY <1>1, <1>4, <2>1, VoiceRenders
  <2>3. /\ left.voice = some.voice
        /\ \A f \in Frames(first, k) : left.out[f] = Heard(some.sound[f], GainsAt(u, f))
    BY <1>1, <1>4, <2>1, VoiceRenders
  <2> HIDE DEF w, u
  <2>4. GoesOn(u, w)
    BY <1>1, <2>1, <2>3, SourceGoesOn DEF w
  <2>5. VoiceOK(w) /\ SameButPlace(u, w)
    BY <2>4 DEF GoesOn
  <2>6. Settled(w)
    BY <2>1, <2>5 DEF Settled, SameButPlace
  <2>7. UpdateSpatial(w, start) = w
    BY <2>5, <2>6, SettledStays
  <2>8. \A f : GainsAt(w, f) = GainsAt(u, f)
    BY <2>5 DEF GainsAt, SameButPlace
  <2>9. w.playing =>
          /\ right.voice = rest.voice
          /\ \A f \in Frames(start, m) : right.out[f] = Heard(rest.sound[f], GainsAt(u, f))
    BY <1>1, <2>5, <2>7, <2>8, VoiceRenders
  <2>10. ~w.playing =>
          /\ right.voice = w
          /\ \A f \in Frames(start, m) : right.out[f] = Nothing
    BY <2>5, SilentVoiceRenders
  <2>11. SplitsInto(all, some, rest, first, k, n)
    BY <2>1, <2>3, SourceSplits DEF w, m, start
  <2> HIDE DEF whole, left, right, all, some, rest
  <2>12. /\ \A f \in Frames(first, k) : all.sound[f] = some.sound[f]
         /\ w.playing => /\ all.voice = rest.voice
                         /\ \A f \in Frames(start, m) : all.sound[f] = rest.sound[f]
         /\ ~w.playing => /\ all.voice = w
                          /\ \A f \in Frames(start, m) : all.sound[f] = Silence
    BY <2>3, <2>11 DEF SplitsInto, start, m, w
  <2>13. whole.voice = right.voice
    BY <2>2, <2>9, <2>10, <2>12
  <2>14. ASSUME NEW f \in Frames(first, n), f < start PROVE whole.out[f] = left.out[f]
    BY <1>2, <2>2, <2>3, <2>12, <2>14
  <2>15. ASSUME NEW f \in Frames(first, n), ~(f < start) PROVE whole.out[f] = right.out[f]
    <3>1. f \in Frames(start, m)
      BY <1>2, <2>15
    <3>2. CASE w.playing
      BY <2>2, <2>9, <2>12, <3>1, <3>2
    <3>3. CASE ~w.playing
      BY <2>2, <2>10, <2>12, <3>1, <3>3 DEF Heard
    <3> QED
      BY <3>2, <3>3
  <2> QED
    BY <2>13, <2>14, <2>15
<1> QED
  BY <1>3, <1>4

(* The source node plays on from its place. *)
PlaysNode(source, p, first, n) ==
  /\ source.position = Least(p + n, AssetFrames)
  /\ source.position \in Nat
  /\ \A f \in Frames(first, n) :
       source.out[f] = IF p + (f - first) < AssetFrames THEN p + (f - first) ELSE Silence

LEMMA NodePlays ==
  ASSUME NEW p \in Nat, NEW first \in Nat, NEW n \in Nat
  PROVE  PlaysNode(RenderAssetNode(p, first, n), p, first, n)
<1> DEFINE begin == IF p < AssetFrames THEN p ELSE AssetFrames
           copied == IF n < AssetFrames - begin THEN n ELSE AssetFrames - begin
<1>1. begin = Least(p, AssetFrames) /\ copied = Least(n, AssetFrames - begin)
  BY DEF Least
<1>2. /\ RenderAssetNode(p, first, n).position = begin + copied
      /\ RenderAssetNode(p, first, n).out =
           [f \in Frames(first, n) |-> IF f - first < copied THEN begin + f - first ELSE Silence]
  BY <1>1 DEF RenderAssetNode
<1>3. begin + copied = Least(p + n, AssetFrames) /\ begin + copied \in Nat
  BY Sizes DEF Least
<1>4. \A f \in Frames(first, n) :
        (IF f - first < copied THEN begin + f - first ELSE Silence) =
          IF p + (f - first) < AssetFrames THEN p + (f - first) ELSE Silence
  BY Sizes DEF Frames
<1> HIDE DEF begin, copied
<1> QED
  BY <1>2, <1>3, <1>4 DEF PlaysNode

LEMMA NodeSplits ==
  ASSUME NEW p \in Nat, NEW first \in Nat, NEW n \in Nat, NEW k \in 1..(n - 1)
  PROVE  LET whole == RenderAssetNode(p, first, n)
             left == RenderAssetNode(p, first, k)
             right == RenderAssetNode(left.position, first + k, n - k)
         IN  /\ whole.position = right.position
             /\ \A f \in Frames(first, n) :
                  whole.out[f] = IF f < first + k THEN left.out[f] ELSE right.out[f]
<1> DEFINE whole == RenderAssetNode(p, first, n)
           left == RenderAssetNode(p, first, k)
           q == left.position
           m == n - k
           start == first + k
           right == RenderAssetNode(q, start, m)
<1>1. k \in Nat /\ m \in Nat /\ start \in Nat /\ start = first + k /\ n = k + m
  OBVIOUS
<1>2. \A f \in Frames(first, n) :
        /\ f \in Int
        /\ IF f < start THEN f \in Frames(first, k) ELSE f \in Frames(start, m) /\ f >= start
  BY DEF Frames
<1> SUFFICES /\ whole.position = right.position
             /\ \A f \in Frames(first, n) :
                  whole.out[f] = IF f < start THEN left.out[f] ELSE right.out[f]
  OBVIOUS
<1> HIDE DEF m, start
<1>3. /\ whole.position = Least(p + n, AssetFrames)
      /\ whole.position \in Nat
      /\ \A f \in Frames(first, n) :
           whole.out[f] = IF p + (f - first) < AssetFrames THEN p + (f - first) ELSE Silence
  <2>1. PlaysNode(whole, p, first, n)
    BY NodePlays
  <2> HIDE DEF whole
  <2> QED
    BY <2>1 DEF PlaysNode
<1>4. /\ q = Least(p + k, AssetFrames)
      /\ q \in Nat
      /\ \A f \in Frames(first, k) :
           left.out[f] = IF p + (f - first) < AssetFrames THEN p + (f - first) ELSE Silence
  <2>1. PlaysNode(left, p, first, k)
    BY <1>1, NodePlays
  <2> HIDE DEF left
  <2> QED
    BY <2>1 DEF PlaysNode
<1> HIDE DEF q
<1>5. /\ right.position = Least(q + m, AssetFrames)
      /\ right.position \in Nat
      /\ \A f \in Frames(start, m) :
           right.out[f] = IF q + (f - start) < AssetFrames THEN q + (f - start) ELSE Silence
  <2>1. PlaysNode(right, q, start, m)
    BY <1>1, <1>4, NodePlays
  <2> HIDE DEF right
  <2> QED
    BY <2>1 DEF PlaysNode
<1> HIDE DEF whole, left, right
<1>6. Least(q + m, AssetFrames) = Least(p + n, AssetFrames)
  BY <1>1, <1>4, Sizes DEF Least
<1>7. \A f \in Int : f >= start =>
        (IF q + (f - start) < AssetFrames THEN q + (f - start) ELSE Silence) =
          IF p + (f - first) < AssetFrames THEN p + (f - first) ELSE Silence
  BY <1>1, <1>4, Sizes DEF Least
<1> QED
  BY <1>2, <1>3, <1>4, <1>5, <1>6, <1>7

(* The line is fed the same frames in the same order.                      *)
SplitsLine(whole, left, right, k, m) ==
  /\ left[k] \in Line /\ left[k] = whole[k]
  /\ \A i \in 0..k : left[i] = whole[i]
  /\ \A i \in 0..m : right[i] = whole[k + i]

LEMMA LineSplits ==
  ASSUME NEW l \in Line, NEW first \in Nat, NEW n \in Nat,
         NEW k \in Nat, NEW m \in Nat, NEW start \in Nat, n = k + m, start = first + k,
         NEW h \in Line, h = LineOver(l, first, k)[k]
  PROVE  SplitsLine(LineOver(l, first, n), LineOver(l, first, k), LineOver(h, start, m), k, m)
<1> DEFINE whole == LineOver(l, first, n)
           left == LineOver(l, first, k)
           right == LineOver(h, start, m)
<1> SUFFICES SplitsLine(whole, left, right, k, m)
  OBVIOUS
<1>1. h = left[k]
  OBVIOUS
<1> HIDE DEF whole, left, right
<1>2. /\ whole \in [0..n -> Line]
      /\ whole[0] = l
      /\ \A i \in 0..(n - 1) : whole[i + 1] = Fed(whole[i], first + i)
  <2>1. IsFedOver(whole, l, first, n)
    BY LineRuns DEF whole
  <2> QED
    BY <2>1 DEF IsFedOver
<1>3. /\ left \in [0..k -> Line]
      /\ left[0] = l
      /\ \A i \in 0..(k - 1) : left[i + 1] = Fed(left[i], first + i)
  <2>1. IsFedOver(left, l, first, k)
    BY LineRuns DEF left
  <2> QED
    BY <2>1 DEF IsFedOver
<1>4. /\ right \in [0..m -> Line]
      /\ right[0] = h
      /\ \A i \in 0..(m - 1) : right[i + 1] = Fed(right[i], start + i)
  <2>1. IsFedOver(right, h, start, m)
    BY LineRuns DEF right
  <2> QED
    BY <2>1 DEF IsFedOver
<1>5. \A i \in 0..k : left[i] = whole[i]
  <2>1. left[0] = whole[0]
    BY <1>2, <1>3
  <2>2. ASSUME NEW i \in 0..(k - 1), left[i] = whole[i] PROVE left[i + 1] = whole[i + 1]
    <3>1. i \in 0..(n - 1)
      OBVIOUS
    <3> QED
      BY <1>2, <1>3, <2>2, <3>1
  <2>3. Alike(left, whole, k)
    BY <2>1, <2>2 DEF Alike
  <2> QED
    BY <2>3, Agree
<1> DEFINE rest == [i \in 0..m |-> whole[k + i]]
<1>6. /\ rest[0] = whole[k]
      /\ \A i \in 0..(m - 1) : rest[i + 1] = Fed(rest[i], start + i)
  <2>1. ASSUME NEW i \in 0..(m - 1) PROVE rest[i + 1] = Fed(rest[i], start + i)
    <3>1. /\ k + i \in 0..(n - 1) /\ i \in 0..m /\ i + 1 \in 0..m
          /\ k + (i + 1) = (k + i) + 1 /\ first + (k + i) = start + i
      OBVIOUS
    <3> QED
      BY <1>2, <3>1
  <2>2. rest[0] = whole[k]
    OBVIOUS
  <2> HIDE DEF rest
  <2> QED
    BY <2>1, <2>2
<1>7. \A i \in 0..m : rest[i] = whole[k + i]
  OBVIOUS
<1> HIDE DEF rest
<1>8. right[0] = rest[0]
  BY <1>1, <1>4, <1>5, <1>6
<1>9. \A i \in 0..(m - 1) : right[i] = rest[i] => right[i + 1] = rest[i + 1]
  BY <1>4, <1>6
<1>10. Alike(right, rest, m)
  BY <1>8, <1>9 DEF Alike
<1>11. \A i \in 0..m : right[i] = rest[i]
  BY <1>10, Agree
<1> QED
  BY <1>1, <1>5, <1>7, <1>11 DEF SplitsLine

LEMMA LineGoesOn ==
  ASSUME NEW l \in Line, NEW first \in Nat, NEW n \in Nat
  PROVE  /\ LineOver(l, first, n)[n] \in Line
         /\ RenderDelay(l, first, n).line = LineOver(l, first, n)[n]
         /\ \A f \in Frames(first, n) :
              RenderDelay(l, first, n).out[f] = Delayed(LineOver(l, first, n)[f - first], f)
<1> DEFINE at == LineOver(l, first, n)
<1>1. at[n] \in Line
  <2>1. IsFedOver(at, l, first, n)
    BY LineRuns
  <2> HIDE DEF at
  <2> QED
    BY <2>1 DEF IsFedOver
<1>2. /\ RenderDelay(l, first, n).line = at[n]
      /\ RenderDelay(l, first, n).out = [f \in Frames(first, n) |-> Delayed(at[f - first], f)]
  BY DEF RenderDelay
<1> HIDE DEF at
<1>3. \A f \in Frames(first, n) : RenderDelay(l, first, n).out[f] = Delayed(at[f - first], f)
  BY <1>2
<1> QED
  BY <1>1, <1>2, <1>3 DEF at

LEMMA DelaySplits ==
  ASSUME NEW l \in Line, NEW first \in Nat, NEW n \in Nat, NEW k \in 1..(n - 1)
  PROVE  LET whole == RenderDelay(l, first, n)
             left == RenderDelay(l, first, k)
             right == RenderDelay(left.line, first + k, n - k)
         IN  /\ whole.line = right.line
             /\ \A f \in Frames(first, n) :
                  whole.out[f] = IF f < first + k THEN left.out[f] ELSE right.out[f]
<1> DEFINE whole == RenderDelay(l, first, n)
           left == RenderDelay(l, first, k)
           h == left.line
           m == n - k
           start == first + k
           right == RenderDelay(h, start, m)
           all == LineOver(l, first, n)
           some == LineOver(l, first, k)
           rest == LineOver(h, start, m)
<1>1. k \in Nat /\ m \in Nat /\ start \in Nat /\ start = first + k /\ n = k + m
  OBVIOUS
<1>2. /\ \A f \in Frames(first, n) :
           IF f < start THEN f \in Frames(first, k) /\ f - first \in 0..k
           ELSE f \in Frames(start, m) /\ f - start \in 0..m /\ f - first = k + (f - start)
      /\ m \in 0..m
  BY DEF Frames
<1> SUFFICES /\ whole.line = right.line
             /\ \A f \in Frames(first, n) :
                  whole.out[f] = IF f < start THEN left.out[f] ELSE right.out[f]
  OBVIOUS
<1> HIDE DEF m, start
<1>3. /\ whole.line = all[n]
      /\ \A f \in Frames(first, n) : whole.out[f] = Delayed(all[f - first], f)
  BY LineGoesOn
<1>4. /\ h = some[k] /\ h \in Line
      /\ \A f \in Frames(first, k) : left.out[f] = Delayed(some[f - first], f)
  BY <1>1, LineGoesOn
<1> HIDE DEF h
<1>5. /\ right.line = rest[m]
      /\ \A f \in Frames(start, m) : right.out[f] = Delayed(rest[f - start], f)
  BY <1>1, <1>4, LineGoesOn
<1>6. SplitsLine(all, some, rest, k, m)
  BY <1>1, <1>4, LineSplits
<1> HIDE DEF whole, left, right, all, some, rest
<1>7. /\ \A i \in 0..k : some[i] = all[i]
      /\ \A i \in 0..m : rest[i] = all[k + i]
  BY <1>6 DEF SplitsLine
<1>8. whole.line = right.line
  BY <1>1, <1>2, <1>3, <1>5, <1>7
<1>9. ASSUME NEW f \in Frames(first, n), f < start PROVE whole.out[f] = left.out[f]
  BY <1>2, <1>3, <1>4, <1>7, <1>9
<1>10. ASSUME NEW f \in Frames(first, n), ~(f < start) PROVE whole.out[f] = right.out[f]
  <2>1. f \in Frames(start, m) /\ f - start \in 0..m /\ f - first = k + (f - start)
    BY <1>2, <1>10
  <2>2. all[f - first] = rest[f - start]
    BY <1>7, <2>1
  <2> QED
    BY <1>3, <1>5, <2>1, <2>2
<1> QED
  BY <1>8, <1>9, <1>10

(* A segment renders what its two parts render, and leaves what they leave.*)
SegmentSplits(v, l, p, first, n, k) ==
  LET whole == Segment(v, l, p, first, n)
      left == Segment(v, l, p, first, k)
      right == Segment(left.voice, left.line, left.played, first + k, n - k)
  IN  /\ whole.voice = right.voice /\ whole.line = right.line
      /\ whole.played = right.played
      /\ \A f \in Frames(first, n) :
           whole.out[f] = IF f < first + k THEN left.out[f] ELSE right.out[f]

(* The parts of a segment, one by one.                                     *)
LEMMA SegmentParts ==
  ASSUME NEW v, NEW l, NEW p, NEW first, NEW n
  PROVE  LET s == Segment(v, l, p, first, n)
         IN  /\ s.voice = RenderVoice(v, first, n).voice
             /\ s.line = RenderDelay(l, first, n).line
             /\ s.played = RenderAssetNode(p, first, n).position
             /\ \A f \in Frames(first, n) :
                  s.out[f] = [heard |-> RenderVoice(v, first, n).out[f],
                              bus |-> BusGainOf(bus, first, n)[f],
                              delayed |-> RenderDelay(l, first, n).out[f],
                              node |-> RenderAssetNode(p, first, n).out[f]]
BY DEF Segment

LEMMA SegmentSplit ==
  ASSUME NEW v, VoiceOK(v), NEW l \in Line, NEW p \in Nat, bus \in Ramp,
         NEW first \in Nat, first < kMaxFrame, NEW n \in Nat, NEW k \in 1..(n - 1)
  PROVE  SegmentSplits(v, l, p, first, n, k)
<1> DEFINE m == n - k
           start == first + k
           whole == Segment(v, l, p, first, n)
           left == Segment(v, l, p, first, k)
           w == left.voice
           h == left.line
           q == left.played
           right == Segment(w, h, q, start, m)
<1>1. k \in Nat /\ m \in Nat /\ start \in Nat
  OBVIOUS
<1>2. \A f \in Frames(first, n) :
        /\ f \in Nat /\ first <= f
        /\ IF f < start THEN f \in Frames(first, k) ELSE f \in Frames(start, m) /\ start <= f
  BY DEF Frames
<1>3. /\ w = RenderVoice(v, first, k).voice
      /\ h = RenderDelay(l, first, k).line
      /\ q = RenderAssetNode(p, first, k).position
  BY SegmentParts
<1>4. /\ RenderVoice(v, first, n).voice = RenderVoice(w, start, m).voice
      /\ \A f \in Frames(first, n) :
           RenderVoice(v, first, n).out[f] =
             IF f < start THEN RenderVoice(v, first, k).out[f] ELSE RenderVoice(w, start, m).out[f]
  <2> HIDE DEF w
  <2> QED
    BY <1>3, VoiceSplits
<1>5. /\ RenderDelay(l, first, n).line = RenderDelay(h, start, m).line
      /\ \A f \in Frames(first, n) :
           RenderDelay(l, first, n).out[f] =
             IF f < start THEN RenderDelay(l, first, k).out[f] ELSE RenderDelay(h, start, m).out[f]
  <2> HIDE DEF h
  <2> QED
    BY <1>3, DelaySplits
<1>6. /\ RenderAssetNode(p, first, n).position = RenderAssetNode(q, start, m).position
      /\ \A f \in Frames(first, n) :
           RenderAssetNode(p, first, n).out[f] =
             IF f < start THEN RenderAssetNode(p, first, k).out[f]
             ELSE RenderAssetNode(q, start, m).out[f]
  <2> HIDE DEF q
  <2> QED
    BY <1>3, NodeSplits
<1>7. \A f \in Frames(first, n) :
        /\ BusGainOf(bus, first, n)[f] = ValueAt(bus, f)
        /\ f < start => BusGainOf(bus, first, k)[f] = ValueAt(bus, f)
        /\ ~(f < start) => BusGainOf(bus, start, m)[f] = ValueAt(bus, f)
  BY <1>1, <1>2, BusGainIs
<1>8. /\ whole.voice = RenderVoice(v, first, n).voice
      /\ whole.line = RenderDelay(l, first, n).line
      /\ whole.played = RenderAssetNode(p, first, n).position
      /\ \A f \in Frames(first, n) :
           whole.out[f] = [heard |-> RenderVoice(v, first, n).out[f],
                           bus |-> BusGainOf(bus, first, n)[f],
                           delayed |-> RenderDelay(l, first, n).out[f],
                           node |-> RenderAssetNode(p, first, n).out[f]]
  BY SegmentParts
<1>9. \A f \in Frames(first, k) :
        left.out[f] = [heard |-> RenderVoice(v, first, k).out[f],
                       bus |-> BusGainOf(bus, first, k)[f],
                       delayed |-> RenderDelay(l, first, k).out[f],
                       node |-> RenderAssetNode(p, first, k).out[f]]
  BY SegmentParts
<1> HIDE DEF w, h, q
<1>10. /\ right.voice = RenderVoice(w, start, m).voice
       /\ right.line = RenderDelay(h, start, m).line
       /\ right.played = RenderAssetNode(q, start, m).position
       /\ \A f \in Frames(start, m) :
            right.out[f] = [heard |-> RenderVoice(w, start, m).out[f],
                            bus |-> BusGainOf(bus, start, m)[f],
                            delayed |-> RenderDelay(h, start, m).out[f],
                            node |-> RenderAssetNode(q, start, m).out[f]]
  BY SegmentParts
<1> HIDE DEF whole, left, right, start, m
<1>11. ASSUME NEW f \in Frames(first, n), f < start PROVE whole.out[f] = left.out[f]
  <2>1. f \in Frames(first, k)
    BY <1>2, <1>11
  <2>2. /\ RenderVoice(v, first, n).out[f] = RenderVoice(v, first, k).out[f]
        /\ RenderDelay(l, first, n).out[f] = RenderDelay(l, first, k).out[f]
        /\ RenderAssetNode(p, first, n).out[f] = RenderAssetNode(p, first, k).out[f]
        /\ BusGainOf(bus, first, n)[f] = BusGainOf(bus, first, k)[f]
    BY <1>4, <1>5, <1>6, <1>7, <1>11
  <2>3. left.out[f] = [heard |-> RenderVoice(v, first, k).out[f],
                       bus |-> BusGainOf(bus, first, k)[f],
                       delayed |-> RenderDelay(l, first, k).out[f],
                       node |-> RenderAssetNode(p, first, k).out[f]]
    BY <1>9, <2>1
  <2>4. whole.out[f] = [heard |-> RenderVoice(v, first, n).out[f],
                        bus |-> BusGainOf(bus, first, n)[f],
                        delayed |-> RenderDelay(l, first, n).out[f],
                        node |-> RenderAssetNode(p, first, n).out[f]]
    BY <1>8
  <2> QED
    BY <2>2, <2>3, <2>4
<1>12. ASSUME NEW f \in Frames(first, n), ~(f < start) PROVE whole.out[f] = right.out[f]
  <2>1. f \in Frames(start, m)
    BY <1>2, <1>12
  <2>2. /\ RenderVoice(v, first, n).out[f] = RenderVoice(w, start, m).out[f]
        /\ RenderDelay(l, first, n).out[f] = RenderDelay(h, start, m).out[f]
        /\ RenderAssetNode(p, first, n).out[f] = RenderAssetNode(q, start, m).out[f]
        /\ BusGainOf(bus, first, n)[f] = BusGainOf(bus, start, m)[f]
    BY <1>4, <1>5, <1>6, <1>7, <1>12
  <2>3. right.out[f] = [heard |-> RenderVoice(w, start, m).out[f],
                        bus |-> BusGainOf(bus, start, m)[f],
                        delayed |-> RenderDelay(h, start, m).out[f],
                        node |-> RenderAssetNode(q, start, m).out[f]]
    BY <1>10, <2>1
  <2>4. whole.out[f] = [heard |-> RenderVoice(v, first, n).out[f],
                        bus |-> BusGainOf(bus, first, n)[f],
                        delayed |-> RenderDelay(l, first, n).out[f],
                        node |-> RenderAssetNode(p, first, n).out[f]]
    BY <1>8
  <2> QED
    BY <2>2, <2>3, <2>4
<1>13. \A f \in Frames(first, n) : whole.out[f] = IF f < start THEN left.out[f] ELSE right.out[f]
  BY <1>11, <1>12
<1>14. /\ whole.voice = right.voice /\ whole.line = right.line
       /\ whole.played = right.played
  BY <1>4, <1>5, <1>6, <1>8, <1>10
<1> QED
  BY <1>13, <1>14 DEF SegmentSplits, whole, left, right, w, h, q, start, m

-----------------------------------------------------------------------------
(* The invariant: every part of the state has its type, a voice that does  *)
(* not play is rewound, and one that plays an asset is where the frames    *)
(* since its start have brought it.                                        *)
RenderTyped ==
  /\ clock \in 0..MaxFrame
  /\ VoiceOK(voice)
  /\ bus \in Ramp
  /\ line \in Line
  /\ played \in Nat
  /\ since \in Nat \cup {-1}

Rewound == ~voice.playing => voice.position = 0 /\ (voice.spatialized => voice.cursor = 0)

InPlace ==
  /\ voice.spatialized => since = -1
  /\ IsAsset(voice) /\ voice.playing /\ since >= 0 => voice.position = since

RenderInv == RenderTyped /\ Rewound /\ InPlace

LEMMA RenderInvInit == Init => RenderInv
<1> SUFFICES ASSUME Init PROVE RenderInv
  OBVIOUS
<1>1. PICK kind \in Kinds : voice = NewVoice(kind)
  BY DEF Init
<1>2. Constant(Unit) \in Ramp
  BY Sizes, ConstantTyped
<1>3. VoiceOK(voice) /\ ~voice.playing /\ voice.position = 0 /\ ~voice.spatialized
  BY <1>1, <1>2, Sizes DEF NewVoice, VoiceOK, Voice
<1>4. line \in Line
  BY Sizes DEF Init, EmptyLine, Line, Silence
<1> QED
  BY <1>2, <1>3, <1>4, Sizes DEF Init, RenderInv, RenderTyped, Rewound, InPlace

(* The commands: what they do to a voice.                                  *)
LEMMA CommandsTyped ==
  ASSUME RenderInv, NEW gain \in Gains, NEW duration \in Durations
  PROVE  /\ Start(voice.gain, clock, gain, duration) \in Ramp
         /\ Start(bus, clock, gain, duration) \in Ramp
<1>1. clock \in Nat /\ clock < kMaxFrame /\ voice.gain \in Ramp /\ bus \in Ramp
  BY Sizes DEF RenderInv, RenderTyped, VoiceOK, Voice
<1>2. gain \in Nat /\ duration \in Nat
  BY RenderingAssumption DEF RenderingAssumption
<1> QED
  BY <1>1, <1>2, StartTyped

LEMMA InvStartVoice == RenderInv /\ StartVoice => RenderInv'
<1> SUFFICES ASSUME RenderInv, StartVoice PROVE RenderInv'
  OBVIOUS
<1>1. VoiceOK(voice) /\ since \in Nat \cup {-1} /\ clock \in 0..MaxFrame
      /\ bus \in Ramp /\ line \in Line /\ played \in Nat /\ Rewound /\ InPlace
  BY DEF RenderInv, RenderTyped
<1> DEFINE w == [voice EXCEPT !.playing = TRUE, !.snap = @ \/ ~voice.playing]
<1>2. voice' = w
  BY DEF StartVoice
<1>3. /\ w \in Voice /\ w.playing /\ w.position = voice.position /\ w.cursor = voice.cursor
      /\ w.spatialized = voice.spatialized /\ w.kind = voice.kind
  BY <1>1 DEF VoiceOK, Voice
<1> HIDE DEF w
<1>4. VoiceOK(w)
  BY <1>1, <1>3 DEF VoiceOK
<1>5. since' = IF voice.playing THEN since ELSE IF voice.spatialized THEN -1 ELSE 0
  BY DEF StartVoice
<1>6. RenderTyped'
  BY <1>1, <1>2, <1>4, <1>5 DEF RenderTyped, StartVoice, nodes
<1>7. Rewound' /\ InPlace'
  BY <1>1, <1>2, <1>3, <1>5 DEF Rewound, InPlace, IsAsset
<1> QED
  BY <1>6, <1>7 DEF RenderInv

LEMMA InvStopVoice == RenderInv /\ StopVoice => RenderInv'
<1> SUFFICES ASSUME RenderInv, StopVoice PROVE RenderInv'
  OBVIOUS
<1>1. VoiceOK(voice) /\ InPlace /\ RenderTyped
  BY DEF RenderInv, RenderTyped
<1> DEFINE w == [voice EXCEPT !.playing = FALSE, !.position = 0, !.cursor = 0]
<1>2. voice' = w /\ since' = since
  BY DEF StopVoice
<1>3. /\ w \in Voice /\ ~w.playing /\ w.position = 0 /\ w.cursor = 0
      /\ w.spatialized = voice.spatialized
  BY <1>1 DEF VoiceOK, Voice
<1> HIDE DEF w
<1>4. VoiceOK(w)
  BY <1>3, Sizes DEF VoiceOK
<1>5. RenderTyped'
  BY <1>1, <1>2, <1>4 DEF RenderTyped, StopVoice, nodes
<1>6. Rewound' /\ InPlace'
  BY <1>1, <1>2, <1>3 DEF Rewound, InPlace
<1> QED
  BY <1>5, <1>6 DEF RenderInv

(* A command that changes gain, pan or place only moves nothing.           *)
LEMMA InvSameSpot ==
  ASSUME RenderInv, VoiceOK(voice'), bus' \in Ramp, line' \in Line,
         UNCHANGED <<clock, played, since>>,
         /\ voice'.kind = voice.kind /\ voice'.playing = voice.playing
         /\ voice'.position = voice.position /\ voice'.cursor = voice.cursor
         /\ voice'.spatialized = voice.spatialized
  PROVE  RenderInv'
BY DEF RenderInv, RenderTyped, Rewound, InPlace, IsAsset

LEMMA InvRampVoiceGain ==
  ASSUME RenderInv, NEW gain \in Gains, NEW duration \in Durations, RampVoiceGain(gain, duration)
  PROVE  RenderInv'
<1> DEFINE ramp == Start(voice.gain, clock, gain, duration)
           w == [voice EXCEPT !.gain = ramp]
<1>1. ramp \in Ramp
  BY CommandsTyped
<1>2. voice' = w /\ UNCHANGED <<clock, bus, line, played, since>>
  BY DEF RampVoiceGain, nodes
<1> HIDE DEF ramp
<1>3. VoiceOK(voice) /\ bus \in Ramp /\ line \in Line
  BY DEF RenderInv, RenderTyped
<1>4. VoiceOK(w)
  BY <1>1, <1>3 DEF VoiceOK, Voice
<1>5. /\ w.kind = voice.kind /\ w.playing = voice.playing
      /\ w.position = voice.position /\ w.cursor = voice.cursor
      /\ w.spatialized = voice.spatialized
  BY <1>3 DEF VoiceOK, Voice
<1> HIDE DEF w
<1> QED
  BY <1>2, <1>3, <1>4, <1>5, InvSameSpot

LEMMA InvRampBusGain ==
  ASSUME RenderInv, NEW gain \in Gains, NEW duration \in Durations, RampBusGain(gain, duration)
  PROVE  RenderInv'
<1>1. Start(bus, clock, gain, duration) \in Ramp
  BY CommandsTyped
<1>2. bus' \in Ramp /\ UNCHANGED <<clock, voice, line, played, since>>
  BY <1>1 DEF RampBusGain, nodes
<1>3. VoiceOK(voice) /\ line \in Line
  BY DEF RenderInv, RenderTyped
<1> QED
  BY <1>2, <1>3, InvSameSpot

LEMMA InvSetVoicePan ==
  ASSUME RenderInv, NEW pan \in Pans, SetVoicePan(pan)
  PROVE  RenderInv'
<1> DEFINE w == [voice EXCEPT !.pan = pan]
<1>1. pan \in Nat
  BY RenderingAssumption DEF RenderingAssumption
<1>2. voice' = w /\ UNCHANGED <<clock, bus, line, played, since>>
  BY DEF SetVoicePan, nodes
<1>3. VoiceOK(voice) /\ bus \in Ramp /\ line \in Line
  BY DEF RenderInv, RenderTyped
<1>4. VoiceOK(w)
  BY <1>1, <1>3 DEF VoiceOK, Voice
<1>5. /\ w.kind = voice.kind /\ w.playing = voice.playing
      /\ w.position = voice.position /\ w.cursor = voice.cursor
      /\ w.spatialized = voice.spatialized
  BY <1>3 DEF VoiceOK, Voice
<1> HIDE DEF w
<1> QED
  BY <1>2, <1>3, <1>4, <1>5, InvSameSpot

LEMMA InvSetPlace ==
  ASSUME RenderInv, NEW place \in Places, SetPlace(place)
  PROVE  RenderInv'
<1> DEFINE w == [voice EXCEPT !.place = place]
<1>1. place \in [gain: Nat, ratio: Nat]
  <2>1. place \in [gain: Nat, ratio: Nat \ {0}]
    BY RenderingAssumption DEF RenderingAssumption
  <2> QED
    BY <2>1
<1>2. voice' = w /\ UNCHANGED <<clock, bus, line, played, since>>
  BY DEF SetPlace, nodes
<1>3. VoiceOK(voice) /\ bus \in Ramp /\ line \in Line
  BY DEF RenderInv, RenderTyped
<1>4. VoiceOK(w)
  BY <1>1, <1>3 DEF VoiceOK, Voice
<1>5. /\ w.kind = voice.kind /\ w.playing = voice.playing
      /\ w.position = voice.position /\ w.cursor = voice.cursor
      /\ w.spatialized = voice.spatialized
  BY <1>3 DEF VoiceOK, Voice
<1> HIDE DEF w
<1> QED
  BY <1>2, <1>3, <1>4, <1>5, InvSameSpot

LEMMA InvSetNodeDelayFrames ==
  ASSUME RenderInv, NEW frames \in Nat, SetNodeDelayFrames(frames)
  PROVE  RenderInv'
<1>1. line' = SetDelayFrames(line, frames) /\ UNCHANGED <<clock, voice, bus, played, since>>
  BY DEF SetNodeDelayFrames
<1>2. VoiceOK(voice) /\ bus \in Ramp /\ line \in Line
  BY DEF RenderInv, RenderTyped
<1>3. SetDelayFrames(line, frames) \in Line
  <2>1. (IF frames < MaxDelayFrames THEN frames ELSE MaxDelayFrames) \in 0..MaxDelayFrames
    BY Sizes
  <2> QED
    BY <1>2, <2>1 DEF SetDelayFrames, Line
<1> QED
  BY <1>1, <1>2, <1>3, InvSameSpot

(* A place in frames and in parts of a frame.                              *)
LEMMA WholeFrames ==
  ASSUME NEW cursor \in Nat, cursor < End
  PROVE  /\ Least(cursor \div Unit, AssetFrames) = cursor \div Unit
         /\ cursor \div Unit \in Nat /\ cursor \div Unit < AssetFrames
         /\ (cursor \div Unit) * Unit <= cursor
         /\ cursor - (cursor \div Unit) * Unit < Unit
<1> DEFINE q == cursor \div Unit
<1>1. q \in Nat /\ q * Unit \in Nat /\ q * Unit <= cursor /\ cursor < q * Unit + Unit
  BY Sizes
<1> HIDE DEF q
<1>2. q < AssetFrames
  <2>1. CASE q >= AssetFrames
    <3>1. q * Unit >= AssetFrames * Unit
      BY <1>1, <2>1, Sizes
    <3> QED
      BY <1>1, <3>1, Sizes DEF End
  <2> QED
    BY <1>1, <2>1, Sizes
<1>3. Least(q, AssetFrames) = q
  BY <1>2 DEF Least
<1>4. cursor - q * Unit < Unit
  BY <1>1, Sizes
<1> QED
  BY <1>1, <1>2, <1>3, <1>4 DEF q

LEMMA PartsOfFrames ==
  ASSUME NEW position \in Nat, position < AssetFrames
  PROVE  position * Unit \in Nat /\ position * Unit < End
<1>1. position * Unit + Unit <= AssetFrames * Unit
  <2>1. \E d \in Nat : AssetFrames = position + 1 + d
    <3>1. AssetFrames - position - 1 \in Nat
      BY Sizes
    <3> QED
      BY <3>1, Sizes
  <2>2. PICK d \in Nat : AssetFrames = position + 1 + d
    BY <2>1
  <2>3. AssetFrames * Unit = position * Unit + Unit + d * Unit /\ d * Unit \in Nat
    BY <2>2, Sizes
  <2> QED
    BY <2>3, Sizes
<1> QED
  BY <1>1, Sizes DEF End

(* What is heard of a voice stays what it is when it is (de)spatialized:   *)
(* it keeps its place, and its level.                                      *)
LEMMA SpatializedIs ==
  ASSUME NEW v, VoiceOK(v)
  PROVE  LET w == Spatialized(v)
         IN  /\ VoiceOK(w)
             /\ w.kind = v.kind /\ w.playing = v.playing /\ w.position = v.position
             /\ w.cursor = v.position * Unit /\ w.spatialized = TRUE
             /\ v.playing => w.spatialGain = Constant(v.pan)
<1>1. v \in Voice /\ v.position \in Nat /\ v.position < AssetFrames /\ v.pan \in Nat
  BY DEF VoiceOK, Voice
<1>2. v.position * Unit \in Nat /\ v.position * Unit < End
  BY <1>1, PartsOfFrames
<1>3. Constant(v.pan) \in Ramp /\ Constant(Unit) \in Ramp
  BY <1>1, Sizes, ConstantTyped
<1> DEFINE w == Spatialized(v)
<1>4. CASE v.playing
  <2>1. w = [v EXCEPT !.spatialized = TRUE, !.cursor = v.position * Unit, !.snap = FALSE,
                      !.spatialGain = Constant(v.pan), !.spatialRatio = Constant(Unit)]
    BY <1>4 DEF Spatialized
  <2> HIDE DEF w
  <2>2. /\ w \in Voice /\ w.position = v.position /\ w.cursor = v.position * Unit
        /\ w.kind = v.kind /\ w.playing = v.playing /\ w.spatialized = TRUE
        /\ w.spatialGain = Constant(v.pan)
    BY <1>1, <1>2, <1>3, <2>1 DEF Voice
  <2> QED
    BY <1>1, <1>2, <2>2 DEF VoiceOK, w
<1>5. CASE ~v.playing
  <2>1. w = [v EXCEPT !.spatialized = TRUE, !.cursor = v.position * Unit, !.snap = TRUE]
    BY <1>5 DEF Spatialized
  <2> HIDE DEF w
  <2>2. /\ w \in Voice /\ w.position = v.position /\ w.cursor = v.position * Unit
        /\ w.kind = v.kind /\ w.playing = v.playing /\ w.spatialized = TRUE
    BY <1>1, <1>2, <2>1 DEF Voice
  <2> QED
    BY <1>1, <1>2, <1>5, <2>2 DEF VoiceOK, w
<1> QED
  BY <1>4, <1>5

LEMMA DespatializedIs ==
  ASSUME NEW v, VoiceOK(v)
  PROVE  LET w == Despatialized(v)
         IN  /\ VoiceOK(w)
             /\ w.kind = v.kind /\ w.playing = v.playing /\ w.spatialized = FALSE
             /\ w.position = IF IsAsset(v) THEN v.cursor \div Unit ELSE v.position
<1>1. /\ v \in Voice /\ v.position \in Nat /\ v.position < AssetFrames
      /\ v.cursor \in Nat /\ v.cursor < End
  BY DEF VoiceOK, Voice
<1>2. /\ Least(v.cursor \div Unit, AssetFrames) = v.cursor \div Unit
      /\ v.cursor \div Unit \in Nat /\ v.cursor \div Unit < AssetFrames
  BY <1>1, WholeFrames
<1> DEFINE place == IF IsAsset(v) THEN v.cursor \div Unit ELSE v.position
           w == Despatialized(v)
<1>3. w = [v EXCEPT !.spatialized = FALSE, !.position = place]
  BY <1>2 DEF Despatialized
<1>4. place \in Nat /\ place < AssetFrames
  BY <1>1, <1>2
<1> HIDE DEF place, w
<1>5. /\ w \in Voice /\ w.position = place /\ w.cursor = v.cursor
      /\ w.kind = v.kind /\ w.playing = v.playing /\ w.spatialized = FALSE
  BY <1>1, <1>3, <1>4 DEF Voice
<1> QED
  BY <1>1, <1>4, <1>5 DEF VoiceOK, w, place

(* What SetVoiceSpatialization makes of a voice. *)
LEMMA SpatializationIs ==
  ASSUME VoiceOK(voice), NEW enable \in BOOLEAN, SetVoiceSpatialization(enable)
  PROVE  \/ voice' = voice
         \/ voice.spatialized /\ ~enable /\ voice' = Despatialized(voice)
         \/ ~voice.spatialized /\ enable /\ voice' = Spatialized(voice)
<1>1. voice.spatialized \in BOOLEAN
  BY DEF VoiceOK, Voice
<1> QED
  BY <1>1 DEF SetVoiceSpatialization

LEMMA InvSetVoiceSpatialization ==
  ASSUME RenderInv, NEW enable \in BOOLEAN, SetVoiceSpatialization(enable)
  PROVE  RenderInv'
<1>1. VoiceOK(voice) /\ RenderTyped /\ Rewound /\ InPlace
  BY DEF RenderInv, RenderTyped
<1>2. since' = (IF voice'.spatialized THEN -1 ELSE since)
      /\ UNCHANGED <<clock, bus, line, played>>
  BY DEF SetVoiceSpatialization, nodes
<1>3. CASE voice' = voice
  <2>1. since' = since
    BY <1>1, <1>2, <1>3 DEF InPlace
  <2> QED
    BY <1>1, <1>2, <1>3, <2>1, InvSameSpot DEF RenderTyped
<1>4. CASE voice.spatialized /\ voice' = Despatialized(voice)
  <2> DEFINE w == Despatialized(voice)
  <2> HIDE DEF w
  <2>1. voice' = w
    BY <1>4 DEF w
  <2>2. /\ VoiceOK(w)
        /\ w.kind = voice.kind /\ w.playing = voice.playing /\ w.spatialized = FALSE
        /\ w.position = IF IsAsset(voice) THEN voice.cursor \div Unit ELSE voice.position
    BY <1>1, DespatializedIs DEF w
  <2>3. since' = -1 /\ since = -1
    BY <1>1, <1>2, <1>4, <2>1, <2>2 DEF InPlace
  <2>4. RenderTyped'
    BY <1>1, <1>2, <2>1, <2>2, <2>3 DEF RenderTyped
  <2>5. ~w.playing => w.position = 0
    <3>1. 0 \div Unit = 0
      BY Sizes
    <3> QED
      BY <1>1, <1>4, <2>2, <3>1 DEF Rewound
  <2>6. Rewound' /\ InPlace'
    BY <2>1, <2>2, <2>3, <2>5 DEF Rewound, InPlace
  <2> QED
    BY <2>4, <2>6 DEF RenderInv
<1>5. CASE ~voice.spatialized /\ voice' = Spatialized(voice)
  <2> DEFINE w == Spatialized(voice)
  <2> HIDE DEF w
  <2>1. voice' = w
    BY <1>5 DEF w
  <2>2. /\ VoiceOK(w)
        /\ w.kind = voice.kind /\ w.playing = voice.playing /\ w.position = voice.position
        /\ w.cursor = voice.position * Unit /\ w.spatialized = TRUE
        /\ voice.playing => w.spatialGain = Constant(voice.pan)
    BY <1>1, SpatializedIs DEF w
  <2>3. since' = -1
    BY <1>2, <2>1, <2>2
  <2>4. RenderTyped'
    BY <1>1, <1>2, <2>1, <2>2, <2>3 DEF RenderTyped
  <2>5. ~w.playing => w.position = 0 /\ w.cursor = 0
    <3>1. 0 * Unit = 0
      BY Sizes
    <3> QED
      BY <1>1, <2>2, <3>1 DEF Rewound
  <2>6. Rewound' /\ InPlace'
    BY <2>1, <2>2, <2>3, <2>5 DEF Rewound, InPlace
  <2> QED
    BY <2>4, <2>6 DEF RenderInv
<1> QED
  BY <1>1, <1>3, <1>4, <1>5, SpatializationIs

(* A segment moves a voice that is not spatialized by its frames. *)
LEMMA VoiceMoves ==
  ASSUME NEW v, VoiceOK(v), v.playing, IsAsset(v), ~v.spatialized,
         NEW first \in Nat, first < kMaxFrame, NEW n \in Nat
  PROVE  LET w == RenderVoice(v, first, n).voice
         IN  w.playing => w.position = v.position + n
<1> DEFINE u == UpdateSpatial(v, first)
           w == RenderVoice(v, first, n).voice
<1>1. u = v
  BY DEF UpdateSpatial, VoiceOK, Voice
<1>2. w = RenderAssetSource(v, first, n).voice
  BY <1>1, VoiceRenders DEF RenderVoiceSource
<1>3. v.position \in Nat /\ v \in Voice
  BY DEF VoiceOK, Voice
<1>4. w = IF v.position + n >= AssetFrames
          THEN [v EXCEPT !.position = 0, !.playing = FALSE]
          ELSE [v EXCEPT !.position = v.position + n]
  <2> DEFINE playout == RenderAssetSource(v, first, n)
  <2> HIDE DEF playout
  <2>1. /\ playout.voice = IF v.position + n >= AssetFrames
                           THEN [v EXCEPT !.position = 0, !.playing = FALSE]
                           ELSE [v EXCEPT !.position = v.position + n]
        /\ \A f \in Frames(first, n) :
             playout.sound[f] = IF v.position + (f - first) < AssetFrames
                                THEN (v.position + (f - first)) * Unit ELSE Silence
    BY AssetPlays DEF playout
  <2> QED
    BY <1>2, <2>1 DEF playout
<1> HIDE DEF w
<1>5. w.playing => w = [v EXCEPT !.position = v.position + n]
  BY <1>3, <1>4 DEF Voice
<1>6. w.playing => w.position = v.position + n
  BY <1>3, <1>5 DEF Voice
<1> QED
  BY <1>6 DEF w

(* What a segment leaves of a voice that played. *)
LEMMA VoiceKept ==
  ASSUME NEW v, VoiceOK(v), NEW first \in Nat, first < kMaxFrame, NEW n \in Nat
  PROVE  LET w == RenderVoice(v, first, n).voice
         IN  /\ VoiceOK(w) /\ w.kind = v.kind /\ w.spatialized = v.spatialized
             /\ ~v.playing => w = v
             /\ v.playing /\ ~w.playing =>
                  w.position = 0 /\ (w.spatialized => w.cursor = 0)
<1> DEFINE w == RenderVoice(v, first, n).voice
<1>1. CASE v.playing
  <2> DEFINE u == UpdateSpatial(v, first)
  <2>1. VoiceOK(u) /\ u.playing /\ u.kind = v.kind /\ u.spatialized = v.spatialized
    BY <1>1, Updates
  <2>2. w = RenderVoiceSource(u, first, n).voice
    BY <1>1, <2>1, VoiceRenders
  <2> HIDE DEF u, w
  <2>3. GoesOn(u, w)
    BY <2>1, <2>2, SourceGoesOn
  <2>4. /\ VoiceOK(w) /\ w.kind = v.kind /\ w.spatialized = v.spatialized
        /\ ~w.playing => w.position = 0 /\ (w.spatialized => w.cursor = 0)
    BY <2>1, <2>3 DEF GoesOn, SameButPlace
  <2> QED
    BY <1>1, <2>4 DEF w
<1>2. CASE ~v.playing
  BY <1>2, SilentVoiceRenders
<1> QED
  BY <1>1, <1>2

LEMMA InvRenderSegment ==
  ASSUME RenderInv, NEW n \in Nat, RenderSegment(n)
  PROVE  RenderInv'
<1>1. /\ VoiceOK(voice) /\ bus \in Ramp /\ line \in Line /\ played \in Nat
      /\ clock \in Nat /\ clock < kMaxFrame /\ since \in Nat \cup {-1}
      /\ Rewound /\ InPlace
  BY Sizes DEF RenderInv, RenderTyped
<1> DEFINE w == RenderVoice(voice, clock, n).voice
<1>2. /\ voice' = w
      /\ line' = RenderDelay(line, clock, n).line
      /\ played' = RenderAssetNode(played, clock, n).position
  BY SegmentParts DEF RenderSegment
<1>3. /\ clock' = clock + n /\ clock + n <= MaxFrame /\ UNCHANGED bus
      /\ since' = IF ~voice.playing \/ since = -1 THEN since ELSE since + n
  BY DEF RenderSegment
<1>4. line' \in Line
  <2>1. RenderDelay(line, clock, n).line \in Line
    BY <1>1, LineGoesOn
  <2> QED
    BY <1>2, <2>1
<1>5. played' \in Nat
  <2>1. PlaysNode(RenderAssetNode(played, clock, n), played, clock, n)
    BY <1>1, NodePlays
  <2> QED
    BY <1>2, <2>1 DEF PlaysNode
<1>6. /\ VoiceOK(w) /\ w.kind = voice.kind /\ w.spatialized = voice.spatialized
      /\ ~voice.playing => w = voice
      /\ voice.playing /\ ~w.playing => w.position = 0 /\ (w.spatialized => w.cursor = 0)
  <2> HIDE DEF w
  <2>1. /\ VoiceOK(w) /\ w.kind = voice.kind /\ w.spatialized = voice.spatialized
        /\ ~voice.playing => w = voice
        /\ voice.playing /\ ~w.playing =>
             w.position = 0 /\ (w.spatialized => w.cursor = 0)
    BY <1>1, VoiceKept DEF w
  <2> QED
    BY <2>1
<1>7. voice.playing /\ IsAsset(voice) /\ ~voice.spatialized /\ w.playing =>
        w.position = voice.position + n
  BY <1>1, VoiceMoves
<1> HIDE DEF w
<1>8. RenderTyped'
  BY <1>1, <1>2, <1>3, <1>4, <1>5, <1>6, Sizes DEF RenderTyped
<1>9. Rewound'
  BY <1>1, <1>2, <1>6 DEF Rewound
<1>10. InPlace'
  <2>1. voice.spatialized \in BOOLEAN /\ (since >= 0 => since \in Nat)
    BY <1>1 DEF VoiceOK, Voice
  <2>2. CASE voice.spatialized
    <3>1. since' = -1
      BY <1>1, <1>3, <2>2 DEF InPlace
    <3> QED
      BY <3>1 DEF InPlace
  <2>3. CASE ~voice.spatialized
    <3>1. ASSUME IsAsset(w), w.playing, since' >= 0 PROVE w.position = since'
      <4>1. voice.playing /\ IsAsset(voice)
        BY <1>6, <3>1 DEF IsAsset
      <4>2. since >= 0 /\ since' = since + n
        BY <1>1, <1>3, <3>1, <4>1
      <4> QED
        BY <1>1, <1>7, <2>3, <3>1, <4>1, <4>2 DEF InPlace
    <3> QED
      BY <1>2, <1>6, <2>3, <3>1 DEF InPlace
  <2> QED
    BY <2>1, <2>2, <2>3
<1> QED
  BY <1>8, <1>9, <1>10 DEF RenderInv

LEMMA InvSkipSegment ==
  ASSUME RenderInv, NEW n \in Nat, SkipSegment(n)
  PROVE  RenderInv'
<1>1. UNCHANGED <<voice, bus, line, played, since>> /\ clock' \in 0..MaxFrame
  BY Sizes DEF SkipSegment, nodes, RenderInv, RenderTyped
<1> QED
  BY <1>1 DEF RenderInv, RenderTyped, Rewound, InPlace

LEMMA RenderInvNext == RenderInv /\ [Next]_vars => RenderInv'
<1> SUFFICES ASSUME RenderInv, [Next]_vars PROVE RenderInv'
  OBVIOUS
<1>1. CASE StartVoice
  BY <1>1, InvStartVoice
<1>2. CASE StopVoice
  BY <1>2, InvStopVoice
<1>3. CASE SetSpatialization
  BY <1>3, InvSetVoiceSpatialization DEF SetSpatialization
<1>4. ASSUME NEW gain \in Gains, NEW duration \in Durations,
             RampVoiceGain(gain, duration) \/ RampBusGain(gain, duration)
      PROVE  RenderInv'
  BY <1>4, InvRampVoiceGain, InvRampBusGain
<1>5. ASSUME NEW pan \in Pans, SetVoicePan(pan) PROVE RenderInv'
  BY <1>5, InvSetVoicePan
<1>6. ASSUME NEW place \in Places, SetPlace(place) PROVE RenderInv'
  BY <1>6, InvSetPlace
<1>7. ASSUME NEW frames \in 0..(MaxDelayFrames + 1), SetNodeDelayFrames(frames) PROVE RenderInv'
  <2>1. frames \in Nat
    BY Sizes
  <2> QED
    BY <1>7, <2>1, InvSetNodeDelayFrames
<1>8. ASSUME NEW n \in 1..(MaxFramesPerBlock + 1), RenderSegment(n) \/ SkipSegment(n)
      PROVE  RenderInv'
  <2>1. n \in Nat
    BY Sizes
  <2> QED
    BY <1>8, <2>1, InvRenderSegment, InvSkipSegment
<1>9. CASE UNCHANGED vars
  BY <1>9 DEF vars, nodes, RenderInv, RenderTyped, Rewound, InPlace
<1> QED
  BY <1>1, <1>2, <1>3, <1>4, <1>5, <1>6, <1>7, <1>8, <1>9 DEF Next

THEOREM RenderInvariant == Spec => []RenderInv
<1> QED
  BY RenderInvInit, RenderInvNext, PTL DEF Spec

(* What is heard does not depend on where a block is cut: whatever the     *)
(* segments' lengths, ramps, ratios and places are, a segment renders the  *)
(* same frames as its two parts.                                           *)
THEOREM SplitIndependentAlways == Spec => []SplitIndependent
<1>1. RenderInv => SplitIndependent
  <2> SUFFICES ASSUME RenderInv, NEW n \in 2..MaxFramesPerBlock, NEW k \in 1..(n - 1)
               PROVE  SegmentSplits(voice, line, played, clock, n, k)
    BY DEF SplitIndependent, SegmentSplits
  <2>1. /\ VoiceOK(voice) /\ bus \in Ramp /\ line \in Line /\ played \in Nat
        /\ clock \in Nat /\ clock < kMaxFrame /\ n \in Nat
    BY Sizes DEF RenderInv, RenderTyped
  <2> QED
    BY <2>1, SegmentSplit
<1> QED
  BY <1>1, RenderInvariant, PTL

-----------------------------------------------------------------------------
(* What has been rendered: the delay's buffer holds its latest inputs, the *)
(* latest just before the place it writes to, and the source node has      *)
(* played a frame for each.                                                *)
Back(write, j) == IF write > j THEN write - 1 - j ELSE write - 1 - j + MaxDelayFrames

Holds(l, inputs, count) ==
  \A j \in 0..(MaxDelayFrames - 1) :
    l.buffer[Back(l.write, j)] = IF j < count THEN inputs[count - j] ELSE Silence

Rendered ==
  /\ fed \in Seq(Nat)
  /\ played = Least(Len(fed), AssetFrames)
  /\ Holds(line, fed, Len(fed))

LEMMA ModTwice ==
  ASSUME NEW m \in Nat \ {0}, NEW x \in 0..(2 * m - 1)
  PROVE  x % m = IF x < m THEN x ELSE x - m
<1>1. CASE x < m
  BY <1>1
<1>2. CASE x >= m
  <2>1. x = m + (x - m) /\ x - m \in 0..(m - 1)
    BY <1>2
  <2>2. x % m = x - m
    BY <2>1
  <2> QED
    BY <1>2, <2>2
<1> QED
  BY <1>1, <1>2

LEMMA BackNext ==
  ASSUME NEW write \in 0..(MaxDelayFrames - 1), NEW j \in 0..(MaxDelayFrames - 1),
         NEW next, next = IF write + 1 = MaxDelayFrames THEN 0 ELSE write + 1
  PROVE  /\ j = 0 => Back(next, j) = write
         /\ j # 0 => Back(next, j) = Back(write, j - 1)
         /\ j # 0 => Back(write, j - 1) \in 0..(MaxDelayFrames - 1) \ {write}
<1>1. MaxDelayFrames \in Nat \ {0}
  BY Sizes
<1>2. next \in 0..(MaxDelayFrames - 1)
  BY <1>1
<1>3. CASE write + 1 = MaxDelayFrames
  BY <1>1, <1>2, <1>3 DEF Back
<1>4. CASE write + 1 # MaxDelayFrames
  BY <1>1, <1>2, <1>4 DEF Back
<1> QED
  BY <1>3, <1>4

(* An input that is fed is the latest, and every other is one older.       *)
LEMMA FedHolds ==
  ASSUME NEW l \in Line, NEW inputs, NEW count \in Nat, Holds(l, inputs, count),
         NEW x \in Int, inputs[count + 1] = x
  PROVE  Holds(Fed(l, x), inputs, count + 1)
<1> DEFINE h == Fed(l, x)
<1>1. /\ h \in Line
      /\ h.buffer = [l.buffer EXCEPT ![l.write] = x]
      /\ h.write = IF l.write + 1 = MaxDelayFrames THEN 0 ELSE l.write + 1
      /\ h.delay = l.delay
  BY FedTyped
<1>2. /\ l.write \in 0..(MaxDelayFrames - 1)
      /\ l.buffer \in [0..(MaxDelayFrames - 1) -> Int]
      /\ MaxDelayFrames \in Nat \ {0}
  BY Sizes DEF Line
<1> SUFFICES Holds(h, inputs, count + 1)
  OBVIOUS
<1> HIDE DEF h
<1>3. ASSUME NEW j \in 0..(MaxDelayFrames - 1)
      PROVE  h.buffer[Back(h.write, j)] =
               IF j < count + 1 THEN inputs[count + 1 - j] ELSE Silence
  <2>0. /\ j = 0 => Back(h.write, j) = l.write
        /\ j # 0 => Back(h.write, j) = Back(l.write, j - 1)
        /\ j # 0 => Back(l.write, j - 1) \in 0..(MaxDelayFrames - 1) \ {l.write}
    BY <1>1, <1>2, BackNext
  <2>1. CASE j = 0
    <3>1. Back(h.write, j) = l.write
      BY <2>0, <2>1
    <3>2. h.buffer[l.write] = x
      BY <1>1, <1>2
    <3> QED
      BY <2>1, <3>1, <3>2
  <2>2. CASE j # 0
    <3>1. j - 1 \in 0..(MaxDelayFrames - 1) /\ j \in Nat
      BY <1>2, <2>2
    <3>3. /\ Back(h.write, j) = Back(l.write, j - 1)
          /\ Back(l.write, j - 1) \in 0..(MaxDelayFrames - 1) /\ Back(l.write, j - 1) # l.write
      BY <2>0, <2>2
    <3>4. h.buffer[Back(l.write, j - 1)] = l.buffer[Back(l.write, j - 1)]
      BY <1>1, <1>2, <3>3
    <3>5. l.buffer[Back(l.write, j - 1)] =
            IF j - 1 < count THEN inputs[count - (j - 1)] ELSE Silence
      BY <3>1 DEF Holds
    <3>6. count - (j - 1) = count + 1 - j /\ (j - 1 < count <=> j < count + 1)
      BY <3>1
    <3> QED
      BY <3>3, <3>4, <3>5, <3>6
  <2> QED
    BY <2>1, <2>2
<1> QED
  BY <1>3 DEF Holds

(* A segment feeds its frames. *)
LEMMA SegmentHolds ==
  ASSUME NEW l \in Line, NEW inputs, NEW count \in Nat, Holds(l, inputs, count),
         NEW first \in Nat, NEW n \in Nat,
         \A i \in 0..(n - 1) : inputs[count + i + 1] = first + i
  PROVE  Holds(LineOver(l, first, n)[n], inputs, count + n)
<1> DEFINE at == LineOver(l, first, n)
<1>1. IsFedOver(at, l, first, n)
  BY LineRuns
<1> HIDE DEF at
<1>2. /\ at \in [0..n -> Line]
      /\ at[0] = l
      /\ \A i \in 0..(n - 1) : at[i + 1] = Fed(at[i], first + i)
  BY <1>1 DEF IsFedOver
<1> DEFINE S == {i \in 0..n : Holds(at[i], inputs, count + i)}
<1>3. 0 \in S
  BY <1>2
<1>4. ASSUME NEW i \in 0..(n - 1), i \in S PROVE i + 1 \in S
  <2>1. at[i] \in Line /\ count + i \in Nat /\ first + i \in Int
    BY <1>2
  <2>2. inputs[(count + i) + 1] = first + i
    OBVIOUS
  <2>3. Holds(at[i], inputs, count + i)
    BY <1>4
  <2>4. Holds(Fed(at[i], first + i), inputs, (count + i) + 1)
    BY <2>1, <2>2, <2>3, FedHolds
  <2>5. (count + i) + 1 = count + (i + 1) /\ i + 1 \in 0..n /\ at[i + 1] = Fed(at[i], first + i)
    BY <1>2
  <2> QED
    BY <2>4, <2>5
<1> HIDE DEF S
<1>5. \A i \in 0..n : i \in S
  BY <1>3, <1>4, InductionTo
<1>6. n \in S
  BY <1>5
<1> QED
  BY <1>6 DEF S, at

LEMMA RenderedInit == Init => Rendered
<1> SUFFICES ASSUME Init PROVE Rendered
  OBVIOUS
<1>1. fed = <<>> /\ line = EmptyLine /\ played = 0
  BY DEF Init
<1>2. fed \in Seq(Nat) /\ Len(fed) = 0
  BY <1>1
<1>3. played = Least(Len(fed), AssetFrames)
  BY <1>1, <1>2, Sizes DEF Least
<1>4. ASSUME NEW j \in 0..(MaxDelayFrames - 1)
      PROVE  line.buffer[Back(line.write, j)] = IF j < 0 THEN fed[0 - j] ELSE Silence
  <2>1. Back(0, j) \in 0..(MaxDelayFrames - 1)
    BY Sizes DEF Back
  <2> QED
    BY <1>1, <2>1 DEF EmptyLine
<1>5. Holds(line, fed, Len(fed))
  BY <1>2, <1>4 DEF Holds
<1> QED
  BY <1>2, <1>3, <1>5 DEF Rendered

LEMMA RenderedSegment ==
  ASSUME RenderInv, Rendered, NEW n \in Nat, RenderSegment(n)
  PROVE  Rendered'
<1>1. /\ line \in Line /\ played \in Nat /\ clock \in Nat /\ fed \in Seq(Nat)
      /\ Len(fed) \in Nat
  BY DEF RenderInv, RenderTyped, Rendered
<1>2. /\ line' = RenderDelay(line, clock, n).line
      /\ played' = RenderAssetNode(played, clock, n).position
  BY SegmentParts DEF RenderSegment
<1> DEFINE more == [i \in 1..n |-> clock + i - 1]
<1>3. more \in Seq(Nat) /\ Len(more) = n
  <2>1. more \in [1..n -> Nat]
    BY <1>1
  <2> QED
    BY <2>1
<1>4. fed' = fed \o more
  BY DEF RenderSegment
<1>5. \A i \in 0..(n - 1) : i + 1 \in 1..n /\ more[i + 1] = clock + i
  BY <1>1
<1> HIDE DEF more
<1>6. /\ fed' \in Seq(Nat) /\ Len(fed') = Len(fed) + n
      /\ \A i \in 1..Len(fed) : fed'[i] = fed[i]
      /\ \A i \in 1..n : fed'[Len(fed) + i] = more[i]
  <2> DEFINE longer == fed \o more
  <2>1. longer \in Seq(Nat) /\ Len(longer) = Len(fed) + n
    BY <1>1, <1>3
  <2>2. \A i \in 1..Len(fed) : longer[i] = fed[i]
    BY <1>1, <1>3
  <2>3. ASSUME NEW i \in 1..n PROVE longer[Len(fed) + i] = more[i]
    <3>1. /\ Len(fed) + i \in 1..(Len(fed) + n) /\ ~(Len(fed) + i <= Len(fed))
          /\ (Len(fed) + i) - Len(fed) = i
      BY <1>1
    <3> QED
      BY <1>1, <1>3, <3>1
  <2> HIDE DEF longer
  <2>4. fed' = longer
    BY <1>4 DEF longer
  <2> QED
    BY <2>1, <2>2, <2>3, <2>4
<1>7. Holds(line, fed', Len(fed))
  <2>1. ASSUME NEW j \in 0..(MaxDelayFrames - 1), j < Len(fed)
        PROVE  fed'[Len(fed) - j] = fed[Len(fed) - j]
    <3>1. j \in Nat /\ Len(fed) - j \in 1..Len(fed)
      BY <1>1, <2>1
    <3> QED
      BY <1>6, <3>1
  <2> QED
    BY <2>1 DEF Holds, Rendered
<1>8. \A i \in 0..(n - 1) : fed'[Len(fed) + i + 1] = clock + i
  <2>1. ASSUME NEW i \in 0..(n - 1) PROVE fed'[Len(fed) + i + 1] = clock + i
    <3>1. i + 1 \in 1..n /\ Len(fed) + i + 1 = Len(fed) + (i + 1)
      BY <1>1
    <3> QED
      BY <1>5, <1>6, <3>1
  <2> QED
    BY <2>1
<1>9. Holds(line', fed', Len(fed'))
  <2> DEFINE inputs == fed'
             count == Len(fed)
  <2>1. /\ count \in Nat /\ Holds(line, inputs, count)
        /\ \A i \in 0..(n - 1) : inputs[count + i + 1] = clock + i
    BY <1>1, <1>7, <1>8
  <2> HIDE DEF inputs, count
  <2>2. Holds(LineOver(line, clock, n)[n], inputs, count + n)
    BY <1>1, <2>1, SegmentHolds
  <2>3. line' = LineOver(line, clock, n)[n]
    BY <1>1, <1>2, LineGoesOn
  <2> QED
    BY <1>6, <2>2, <2>3 DEF inputs, count
<1>10. played' = Least(Len(fed'), AssetFrames)
  <2>1. PlaysNode(RenderAssetNode(played, clock, n), played, clock, n)
    BY <1>1, NodePlays
  <2>2. played' = Least(played + n, AssetFrames)
    BY <1>2, <2>1 DEF PlaysNode
  <2>3. played = Least(Len(fed), AssetFrames)
    BY DEF Rendered
  <2>4. Least(played + n, AssetFrames) = Least(Len(fed) + n, AssetFrames)
    BY <1>1, <2>3, Sizes DEF Least
  <2> QED
    BY <1>6, <2>2, <2>4
<1> QED
  BY <1>6, <1>9, <1>10 DEF Rendered

LEMMA RenderedNext == RenderInv /\ Rendered /\ [Next]_vars => Rendered'
<1> SUFFICES ASSUME RenderInv, Rendered, [Next]_vars PROVE Rendered'
  OBVIOUS
<1>1. ASSUME NEW n \in 1..(MaxFramesPerBlock + 1), RenderSegment(n) PROVE Rendered'
  <2>1. n \in Nat
    BY Sizes
  <2> QED
    BY <1>1, <2>1, RenderedSegment
<1>2. ASSUME NEW frames, SetNodeDelayFrames(frames) PROVE Rendered'
  <2>1. line' = SetDelayFrames(line, frames) /\ UNCHANGED <<fed, played>>
    BY <1>2 DEF SetNodeDelayFrames
  <2>2. line \in Line
    BY DEF RenderInv, RenderTyped
  <2>3. line'.buffer = line.buffer /\ line'.write = line.write
    BY <2>1, <2>2 DEF SetDelayFrames, Line
  <2>4. Holds(line', fed, Len(fed))
    BY <2>3 DEF Holds, Rendered
  <2> QED
    BY <2>1, <2>4 DEF Rendered
<1>3. ASSUME UNCHANGED <<line, played, fed>> PROVE Rendered'
  BY <1>3 DEF Rendered, Holds
<1>4. CASE StartVoice
  BY <1>3, <1>4 DEF StartVoice, nodes
<1>5. CASE StopVoice
  BY <1>3, <1>5 DEF StopVoice, nodes
<1>6. CASE SetSpatialization
  BY <1>3, <1>6 DEF SetSpatialization, SetVoiceSpatialization, nodes
<1>7. ASSUME NEW gain \in Gains, NEW duration \in Durations,
             RampVoiceGain(gain, duration) \/ RampBusGain(gain, duration)
      PROVE  Rendered'
  BY <1>3, <1>7 DEF RampVoiceGain, RampBusGain, nodes
<1>8. ASSUME NEW pan \in Pans, SetVoicePan(pan) PROVE Rendered'
  BY <1>3, <1>8 DEF SetVoicePan, nodes
<1>9. ASSUME NEW place \in Places, SetPlace(place) PROVE Rendered'
  BY <1>3, <1>9 DEF SetPlace, nodes
<1>10. ASSUME NEW n \in 1..(MaxFramesPerBlock + 1), SkipSegment(n) PROVE Rendered'
  BY <1>3, <1>10 DEF SkipSegment, nodes
<1>11. CASE UNCHANGED vars
  BY <1>3, <1>11 DEF vars, nodes
<1> QED
  BY <1>1, <1>2, <1>4, <1>5, <1>6, <1>7, <1>8, <1>9, <1>10, <1>11 DEF Next

(* The next frame, part by part. *)
LEMMA NextFrameIs ==
  ASSUME RenderInv
  PROVE  /\ NextFrame.heard = RenderVoice(voice, clock, 1).out[clock]
         /\ NextFrame.delayed = Delayed(line, clock)
         /\ NextFrame.node = IF played < AssetFrames THEN played ELSE Silence
<1>1. clock \in Frames(clock, 1) /\ clock \in Nat /\ line \in Line /\ played \in Nat
      /\ clock - clock = 0 /\ played + 0 = played
  BY DEF RenderInv, RenderTyped, Frames
<1>2. NextFrame = [heard |-> RenderVoice(voice, clock, 1).out[clock],
                   bus |-> BusGainOf(bus, clock, 1)[clock],
                   delayed |-> RenderDelay(line, clock, 1).out[clock],
                   node |-> RenderAssetNode(played, clock, 1).out[clock]]
  BY <1>1, SegmentParts DEF NextFrame
<1>3. RenderDelay(line, clock, 1).out[clock] = Delayed(line, clock)
  <2>1. IsFedOver(LineOver(line, clock, 1), line, clock, 1)
    BY <1>1, LineRuns
  <2>2. LineOver(line, clock, 1)[0] = line
    BY <2>1 DEF IsFedOver
  <2>3. RenderDelay(line, clock, 1).out[clock] =
          Delayed(LineOver(line, clock, 1)[clock - clock], clock)
    BY <1>1, LineGoesOn
  <2> QED
    BY <1>1, <2>2, <2>3
<1>4. RenderAssetNode(played, clock, 1).out[clock] =
        IF played < AssetFrames THEN played ELSE Silence
  <2>1. PlaysNode(RenderAssetNode(played, clock, 1), played, clock, 1)
    BY <1>1, NodePlays
  <2> QED
    BY <1>1, <2>1 DEF PlaysNode
<1> QED
  BY <1>2, <1>3, <1>4

(* What is heard first of a voice that plays is where it is: its phase,    *)
(* its cursor or its position, and never silence.                          *)
LEMMA FirstHeard ==
  ASSUME NEW v, VoiceOK(v), v.playing, NEW first \in Nat, first < kMaxFrame
  PROVE  LET heard == RenderVoice(v, first, 1).out[first]
         IN  /\ IsAsset(v) /\ ~v.spatialized => heard.sound = v.position * Unit
             /\ heard.space = GainsAt(UpdateSpatial(v, first), first).space
<1> DEFINE u == UpdateSpatial(v, first)
           source == RenderVoiceSource(u, first, 1)
           heard == RenderVoice(v, first, 1).out[first]
<1>1. /\ VoiceOK(u) /\ u.playing /\ u.kind = v.kind /\ u.position = v.position
      /\ u.spatialized = v.spatialized
  BY Updates
<1>2. first \in Frames(first, 1) /\ first - first = 0
  BY DEF Frames
<1>3. heard = Heard(source.sound[first], GainsAt(u, first))
  BY <1>1, <1>2, VoiceRenders
<1> HIDE DEF u, heard
<1>4. u.position \in Nat /\ u.position < AssetFrames /\ u.cursor \in Nat /\ u.cursor < End
      /\ u.phase \in Nat /\ u.spatialRatio \in Ramp
  BY <1>1 DEF VoiceOK, Voice
<1>5. CASE ~IsAsset(u)
  <2> DEFINE tone == RenderTone(u, first, 1)
             phase == PhaseOver(u, first, 1)
  <2>1. PlaysTone(tone, u, phase, first, 1) /\ IsPhase(phase, u, first, 1)
    BY <1>1, <1>4, TonePlays, PhaseRuns
  <2>2. source = tone
    BY <1>5 DEF RenderVoiceSource
  <2> HIDE DEF tone, phase, source
  <2>3. source.sound[first] = u.phase
    BY <1>2, <2>1, <2>2 DEF PlaysTone, IsPhase
  <2> QED
    BY <1>1, <1>3, <1>4, <1>5, <2>3 DEF Heard, Silence, IsAsset, heard, u
<1>6. CASE IsAsset(u) /\ u.spatialized
  <2> DEFINE asset == RenderAssetSourceSpatial(u, first, 1)
             cursor == CursorOver(u, first, 1)
  <2>1. PlaysSpatial(asset, u, cursor, first, 1) /\ IsCursor(cursor, u, first, 1)
    BY <1>1, <1>4, SpatialPlays, CursorRuns
  <2>2. source = asset
    BY <1>6 DEF RenderVoiceSource
  <2> HIDE DEF asset, cursor, source
  <2>3. source.sound[first] = u.cursor
    BY <1>2, <1>4, <2>1, <2>2 DEF PlaysSpatial, IsCursor
  <2> QED
    BY <1>1, <1>3, <1>4, <1>6, <2>3 DEF Heard, Silence, heard, u
<1>7. CASE IsAsset(u) /\ ~u.spatialized
  <2> DEFINE playout == RenderAssetSource(u, first, 1)
  <2>1. source = playout
    BY <1>7 DEF RenderVoiceSource
  <2> HIDE DEF playout, source
  <2>2. /\ playout.voice = IF u.position + 1 >= AssetFrames
                           THEN [u EXCEPT !.position = 0, !.playing = FALSE]
                           ELSE [u EXCEPT !.position = u.position + 1]
        /\ \A f \in Frames(first, 1) :
             playout.sound[f] = IF u.position + (f - first) < AssetFrames
                                THEN (u.position + (f - first)) * Unit ELSE Silence
    BY <1>1, AssetPlays DEF playout
  <2>3. source.sound[first] = u.position * Unit
    BY <1>2, <1>4, <2>1, <2>2
  <2>4. u.position * Unit \in Nat
    BY <1>4, PartsOfFrames
  <2> QED
    BY <1>1, <1>3, <1>7, <2>3, <2>4 DEF Heard, Silence, heard, u
<1> QED
  BY <1>5, <1>6, <1>7

(* Every frame is heard when it should be: those of an asset one by one    *)
(* from its start, by a voice and by a node, and those a delay holds back  *)
(* as many frames later as it is set to.                                   *)
THEOREM FramesInOrderAlways == Spec => []FramesInOrder
<1>1. RenderInv /\ Rendered => FramesInOrder
  <2> SUFFICES ASSUME RenderInv, Rendered PROVE FramesInOrder
    OBVIOUS
  <2>1. /\ NextFrame.heard = RenderVoice(voice, clock, 1).out[clock]
        /\ NextFrame.delayed = Delayed(line, clock)
        /\ NextFrame.node = IF played < AssetFrames THEN played ELSE Silence
    BY NextFrameIs
  <2>2. /\ VoiceOK(voice) /\ clock \in Nat /\ clock < kMaxFrame /\ line \in Line
        /\ fed \in Seq(Nat) /\ Len(fed) \in Nat /\ InPlace
    BY Sizes DEF RenderInv, RenderTyped, Rendered
  <2>3. AssetInOrder
    <3> SUFFICES ASSUME IsAsset(voice), voice.playing, since >= 0
                 PROVE  since < AssetFrames /\ NextFrame.heard.sound = since * Unit
      BY DEF AssetInOrder
    <3>1. voice.position = since /\ ~voice.spatialized
      BY <2>2 DEF InPlace
    <3>2. RenderVoice(voice, clock, 1).out[clock].sound = voice.position * Unit
      BY <2>2, <3>1, FirstHeard
    <3> QED
      BY <2>1, <2>2, <3>1, <3>2 DEF VoiceOK
  <2>4. NodeInOrder
    BY <2>1, <2>2, Sizes DEF NodeInOrder, Rendered, Least
  <2>5. DelayExact
    <3> DEFINE ago == line.delay % MaxDelayFrames
               heard == Append(fed, clock)
               h == Fed(line, clock)
    <3>1. /\ line.delay \in 0..MaxDelayFrames /\ line.write \in 0..(MaxDelayFrames - 1)
          /\ MaxDelayFrames \in Nat \ {0}
      BY <2>2, Sizes DEF Line
    <3>2. ago = IF line.delay < MaxDelayFrames THEN line.delay ELSE 0
      <4>1. line.delay \in 0..(2 * MaxDelayFrames - 1)
        BY <3>1
      <4>2. line.delay % MaxDelayFrames =
              IF line.delay < MaxDelayFrames THEN line.delay ELSE line.delay - MaxDelayFrames
        BY <3>1, <4>1, ModTwice
      <4> QED
        BY <3>1, <4>2
    <3>3. /\ heard \in Seq(Nat) /\ Len(heard) = Len(fed) + 1 /\ heard[Len(fed) + 1] = clock
          /\ \A i \in 1..Len(fed) : heard[i] = fed[i]
      BY <2>2
    <3> HIDE DEF ago, heard
    <3>4. Holds(line, heard, Len(fed))
      <4>1. ASSUME NEW j \in 0..(MaxDelayFrames - 1), j < Len(fed)
            PROVE  heard[Len(fed) - j] = fed[Len(fed) - j]
        <5>1. Len(fed) - j \in 1..Len(fed)
          BY <2>2, <4>1
        <5> QED
          BY <3>3, <5>1
      <4> QED
        BY <4>1 DEF Holds, Rendered
    <3>5. Holds(h, heard, Len(fed) + 1)
      BY <2>2, <3>3, <3>4, FedHolds
    <3>6. h.write = IF line.write + 1 = MaxDelayFrames THEN 0 ELSE line.write + 1
      <4>1. /\ h \in Line
            /\ h.buffer = [line.buffer EXCEPT ![line.write] = clock]
            /\ h.write = IF line.write + 1 = MaxDelayFrames THEN 0 ELSE line.write + 1
            /\ h.delay = line.delay
        BY <2>2, FedTyped
      <4> QED
        BY <4>1
    <3> HIDE DEF h
    <3>7. ReadIndex(line) = Back(h.write, ago)
      <4>1. line.write + MaxDelayFrames - line.delay \in 0..(2 * MaxDelayFrames - 1)
        BY <3>1
      <4> DEFINE x == line.write + MaxDelayFrames - line.delay
      <4>2. ReadIndex(line) = IF x < MaxDelayFrames THEN x ELSE x - MaxDelayFrames
        <5> HIDE DEF x
        <5> QED
          BY <3>1, <4>1, ModTwice DEF ReadIndex, x
      <4> QED
        BY <3>1, <3>2, <3>6, <4>2 DEF Back
    <3>8. ago \in 0..(MaxDelayFrames - 1)
      BY <3>1, <3>2
    <3>9. Delayed(line, clock) = h.buffer[Back(h.write, ago)]
      BY <3>7 DEF Delayed, h
    <3>10. NextFrame.delayed = IF ago < Len(heard) THEN heard[Len(heard) - ago] ELSE Silence
      BY <2>1, <3>3, <3>5, <3>8, <3>9 DEF Holds
    <3> QED
      BY <3>10 DEF DelayExact, ago, heard
  <2> QED
    BY <2>3, <2>4, <2>5 DEF FramesInOrder
<1> QED
  BY <1>1, RenderInvInit, RenderInvNext, RenderedInit, RenderedNext, PTL DEF Spec

(* Nothing jumps that is meant to glide.                                   *)
THEOREM SeamlessAlways == Spec => Seamless
<1> DEFINE A ==
      /\ \A gain \in Gains, duration \in Durations \ {0} :
           /\ RampVoiceGain(gain, duration) =>
                ValueAt(voice'.gain, clock) = ValueAt(voice.gain, clock)
           /\ RampBusGain(gain, duration) => ValueAt(bus', clock) = ValueAt(bus, clock)
      /\ voice.playing /\ SetVoiceSpatialization(TRUE) => Level(voice') = Level(voice)
      /\ IsAsset(voice) /\ SetSpatialization =>
           Spot(voice') <= Spot(voice) /\ Spot(voice) - Spot(voice') < Unit
      /\ SmoothingFrames > 0 /\ voice.playing /\ voice.spatialized /\ ~voice.snap =>
           NextFrame.heard.space = Level(voice)
<1>1. RenderInv => A
  <2> SUFFICES ASSUME RenderInv PROVE A
    OBVIOUS
  <2> HIDE DEF A
  <2>1. /\ VoiceOK(voice) /\ voice \in Voice /\ clock \in Nat /\ clock < kMaxFrame
        /\ bus \in Ramp /\ voice.gain \in Ramp /\ voice.pan \in Nat
        /\ voice.position \in Nat /\ voice.position < AssetFrames
        /\ voice.cursor \in Nat /\ voice.cursor < End
    BY Sizes DEF RenderInv, RenderTyped, VoiceOK, Voice
  <2>2. ASSUME NEW gain \in Gains, NEW duration \in Durations \ {0}
        PROVE  /\ RampVoiceGain(gain, duration) =>
                    ValueAt(voice'.gain, clock) = ValueAt(voice.gain, clock)
               /\ RampBusGain(gain, duration) => ValueAt(bus', clock) = ValueAt(bus, clock)
    <3>1. gain \in Nat /\ duration \in Nat /\ duration > 0
      BY RenderingAssumption DEF RenderingAssumption
    <3>2. ASSUME NEW ramp \in Ramp
          PROVE  ValueAt(Start(ramp, clock, gain, duration), clock) = ValueAt(ramp, clock)
      BY <2>1, <3>1, StartTyped
    <3>3. RampVoiceGain(gain, duration) =>
            voice'.gain = Start(voice.gain, clock, gain, duration)
      BY <2>1 DEF RampVoiceGain, Voice
    <3>4. RampBusGain(gain, duration) => bus' = Start(bus, clock, gain, duration)
      BY DEF RampBusGain
    <3> QED
      BY <2>1, <3>2, <3>3, <3>4
  <2>3. ASSUME voice.playing, SetVoiceSpatialization(TRUE) PROVE Level(voice') = Level(voice)
    <3>1. CASE voice' = voice
      BY <3>1 DEF Level
    <3>2. CASE ~voice.spatialized /\ voice' = Spatialized(voice)
      <4> DEFINE w == Spatialized(voice)
      <4> HIDE DEF w
      <4>1. /\ VoiceOK(w)
            /\ w.kind = voice.kind /\ w.playing = voice.playing /\ w.position = voice.position
            /\ w.cursor = voice.position * Unit /\ w.spatialized = TRUE
            /\ voice.playing => w.spatialGain = Constant(voice.pan)
        BY <2>1, SpatializedIs DEF w
      <4>2. voice' = w
        BY <3>2 DEF w
      <4>3. ValueAt(Constant(voice.pan), clock) = voice.pan
        BY <2>1, ConstantTyped
      <4> QED
        BY <2>3, <3>2, <4>1, <4>2, <4>3 DEF Level
    <3> QED
      BY <2>1, <2>3, <3>1, <3>2, SpatializationIs
  <2>4. ASSUME IsAsset(voice), SetSpatialization
        PROVE  Spot(voice') <= Spot(voice) /\ Spot(voice) - Spot(voice') < Unit
    <3>1. PICK enable \in BOOLEAN : SetVoiceSpatialization(enable)
      BY <2>4 DEF SetSpatialization
    <3>2. voice.position * Unit \in Nat /\ Unit \in Nat \ {0}
      BY <2>1, PartsOfFrames, Sizes
    <3>3. CASE voice' = voice
      <4>1. Spot(voice) \in Nat
        BY <2>1, <3>2 DEF Spot
      <4> QED
        BY <3>2, <3>3, <4>1
    <3>4. CASE voice.spatialized /\ voice' = Despatialized(voice)
      <4> DEFINE w == Despatialized(voice)
      <4> HIDE DEF w
      <4>1. /\ VoiceOK(w)
            /\ w.kind = voice.kind /\ w.playing = voice.playing /\ w.spatialized = FALSE
            /\ w.position = IF IsAsset(voice) THEN voice.cursor \div Unit ELSE voice.position
        BY <2>1, DespatializedIs DEF w
      <4>2. voice' = w
        BY <3>4 DEF w
      <4>3. Spot(voice) = voice.cursor /\ Spot(voice') = (voice.cursor \div Unit) * Unit
        BY <2>4, <3>4, <4>1, <4>2 DEF Spot
      <4> QED
        BY <2>1, <4>3, WholeFrames
    <3>5. CASE ~voice.spatialized /\ voice' = Spatialized(voice)
      <4> DEFINE w == Spatialized(voice)
      <4> HIDE DEF w
      <4>1. /\ VoiceOK(w)
            /\ w.kind = voice.kind /\ w.playing = voice.playing /\ w.position = voice.position
            /\ w.cursor = voice.position * Unit /\ w.spatialized = TRUE
            /\ voice.playing => w.spatialGain = Constant(voice.pan)
        BY <2>1, SpatializedIs DEF w
      <4>2. voice' = w
        BY <3>5 DEF w
      <4>3. Spot(voice) = voice.position * Unit /\ Spot(voice') = voice.position * Unit
        BY <3>5, <4>1, <4>2 DEF Spot
      <4> QED
        BY <3>2, <4>3
    <3> QED
      BY <2>1, <3>1, <3>3, <3>4, <3>5, SpatializationIs
  <2>5. ASSUME SmoothingFrames > 0, voice.playing, voice.spatialized, ~voice.snap
        PROVE  NextFrame.heard.space = Level(voice)
    <3> DEFINE u == UpdateSpatial(voice, clock)
    <3>1. /\ u.spatialized = voice.spatialized
          /\ ValueAt(u.spatialGain, clock) = ValueAt(voice.spatialGain, clock)
      BY <2>1, <2>5, Updates
    <3>2. NextFrame.heard = RenderVoice(voice, clock, 1).out[clock]
      BY NextFrameIs
    <3>3. RenderVoice(voice, clock, 1).out[clock].space = GainsAt(u, clock).space
      BY <2>1, <2>5, FirstHeard
    <3> HIDE DEF u
    <3> QED
      BY <2>5, <3>1, <3>2, <3>3 DEF GainsAt, Level
  <2> QED
    BY <2>2, <2>3, <2>4, <2>5 DEF A
<1>2. RenderInv /\ [Next]_vars => [A]_vars
  BY <1>1
<1>3. Spec => [][A]_vars
  <2> HIDE DEF A
  <2> QED
    BY <1>2, RenderInvariant, PTL DEF Spec
<1> QED
  BY <1>3 DEF Seamless
=============================================================================
