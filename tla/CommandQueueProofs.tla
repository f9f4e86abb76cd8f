------------------------- MODULE CommandQueueProofs -------------------------
(***************************************************************************)
(* Proofs about CommandQueue, for every capacity and every set of commands.*)
(* The argument is the arithmetic of the ring: two positions less than a   *)
(* capacity apart never share a slot, and the indices stay that close.     *)
(***************************************************************************)
EXTENDS CommandQueue, TLAPS

(* Quotient and remainder of a position by a capacity. *)
LEMMA Division ==
  ASSUME NEW C \in Nat, C > 0, NEW a \in Int
  PROVE  /\ a \div C \in Int /\ a % C \in 0..(C - 1)
         /\ a = (a \div C) * C + (a % C)
OBVIOUS

(* The constructor makes at least one slot, whatever capacity is asked     *)
(* for.                                                                    *)
LEMMA CapacityPositive == Capacity \in Nat /\ Capacity > 0
BY QueueAssumption DEF Capacity

(* Every position has a slot. *)
LEMMA SlotType == \A i \in Int : Slot(i) \in Slots
BY CapacityPositive, Division DEF Slot, Slots

(* Different positions less than a capacity apart have different slots.    *)
LEMMA SlotsDistinct ==
  ASSUME NEW a \in Int, NEW b \in Int, a < b, b - a < Capacity
  PROVE  Slot(a) # Slot(b)
<1> DEFINE C == Capacity
<1>1. C \in Nat /\ C > 0
  BY CapacityPositive
<1> HIDE DEF C
<1>2. ASSUME NEW q \in Int, NEW p \in Int, NEW r \in Int, a = q * C + r, b = p * C + r,
             b - a < C
      PROVE  FALSE
  <2>1. b - a = (p - q) * C
    BY <1>1, <1>2
  <2>2. CASE p <= q
    BY <1>1, <1>2, <2>1, <2>2
  <2>3. CASE p >= q + 1
    BY <1>1, <1>2, <2>1, <2>3
  <2>4. QED
    BY <2>2, <2>3
<1>3. SUFFICES ASSUME a % C = b % C
               PROVE  FALSE
  BY DEF Slot, C
<1>4. /\ a \div C \in Int /\ a % C \in Int /\ a = (a \div C) * C + (a % C)
      /\ b \div C \in Int /\ b = (b \div C) * C + (b % C)
  BY <1>1, Division
<1>5. b - a < C
  BY DEF C
<1>6. b = (b \div C) * C + (a % C)
  BY <1>3, <1>4
<1>7. QED
  BY <1>2, <1>4, <1>5, <1>6

-----------------------------------------------------------------------------
(* The inductive invariant: each thread's view of the other's index is     *)
(* old enough to be safe, and the slots between the indices hold commands. *)
RingInv ==
  /\ producer # "idle" => head - producerSaw < Capacity
  /\ consumer # "idle" => tail < consumerSaw
  /\ \A i \in tail..(head - 1) : buffer[Slot(i)] \in Commands
  /\ producer = "publish" => buffer[Slot(head)] \in Commands
  /\ OldestCopied

(* The ring is empty and both threads are outside it at first. *)
LEMMA InvariantInit == Init => TypeOK /\ RingInv
<1> SUFFICES ASSUME Init
             PROVE  TypeOK /\ RingInv
  OBVIOUS
<1>1. TypeOK
  BY CapacityPositive DEF Init, TypeOK
<1>2. RingInv
  BY DEF Init, RingInv, OldestCopied
<1>3. QED
  BY <1>1, <1>2

(* A write to the slot of head leaves the slots of the queue alone.        *)
LEMMA WriteOutside ==
  ASSUME TypeOK, RingInv, producer # "idle", NEW content,
         buffer' = [buffer EXCEPT ![Slot(head)] = content]
  PROVE  /\ \A i \in tail..(head - 1) : buffer'[Slot(i)] = buffer[Slot(i)]
         /\ buffer'[Slot(head)] = content
<1>1. head - tail < Capacity
  BY CapacityPositive DEF TypeOK, RingInv
<1>2. head \in Int /\ tail \in Int /\ buffer \in [Slots -> Commands \cup {Garbage}]
  BY DEF TypeOK
<1>3. ASSUME NEW i \in tail..(head - 1)
      PROVE  Slot(i) # Slot(head) /\ Slot(i) \in Slots
  BY <1>1, <1>2, SlotsDistinct, SlotType, CapacityPositive
<1>4. Slot(head) \in Slots
  BY <1>2, SlotType
<1>5. QED
  BY <1>2, <1>3, <1>4

(* Every access of the two threads keeps the types and the invariant. *)
LEMMA InvariantStep == TypeOK /\ RingInv /\ [Next]_vars => TypeOK' /\ RingInv'
<1> SUFFICES ASSUME TypeOK, RingInv, [Next]_vars
             PROVE  TypeOK' /\ RingInv'
  OBVIOUS
<1> USE CapacityPositive
<1>1. ASSUME NEW command \in Commands, PushLoads(command)
      PROVE  TypeOK' /\ RingInv'
  <2>1. TypeOK'
    BY <1>1 DEF PushLoads, consumerVars, TypeOK
  <2>2. producerSaw' \in Int /\ head \in Int
    BY <2>1 DEF TypeOK
  <2>3. producer' # "idle" => head' - producerSaw' < Capacity
    <3>1. CASE head - producerSaw' >= Capacity
      BY <1>1, <3>1 DEF PushLoads, Full
    <3>2. CASE head - producerSaw' < Capacity
      BY <1>1, <3>2 DEF PushLoads
    <3>3. ASSUME NEW distance \in Int
          PROVE  distance >= Capacity \/ distance < Capacity
      BY CapacityPositive
    <3>4. head - producerSaw' \in Int
      BY <2>2
    <3>5. QED
      BY <3>1, <3>2, <3>3, <3>4
  <2>4. RingInv'
    BY <1>1, <2>3 DEF PushLoads, consumerVars, RingInv, OldestCopied
  <2>5. QED
    BY <2>1, <2>4
<1>2. CASE PushCopyStarts
  <2>1. TypeOK'
    BY <1>2 DEF PushCopyStarts, consumerVars, TypeOK
  <2>2. \A i \in tail..(head - 1) : buffer'[Slot(i)] = buffer[Slot(i)]
    BY <1>2, WriteOutside DEF PushCopyStarts
  <2>3. consumer = "release" => tail \in tail..(head - 1)
    BY DEF TypeOK, RingInv
  <2>4. RingInv'
    BY <1>2, <2>2, <2>3 DEF PushCopyStarts, consumerVars, RingInv, OldestCopied
  <2>5. QED
    BY <2>1, <2>4
<1>3. CASE PushCopyEnds
  <2>1. PICK command \in argument : buffer' = [buffer EXCEPT ![Slot(head)] = command]
    BY <1>3 DEF PushCopyEnds
  <2>2. command \in Commands
    BY DEF TypeOK
  <2>3. TypeOK'
    BY <1>3, <2>1, <2>2 DEF PushCopyEnds, consumerVars, TypeOK
  <2>4. /\ \A i \in tail..(head - 1) : buffer'[Slot(i)] = buffer[Slot(i)]
        /\ buffer'[Slot(head)] = command
    BY <1>3, <2>1, WriteOutside DEF PushCopyEnds
  <2>5. consumer = "release" => tail \in tail..(head - 1)
    BY DEF TypeOK, RingInv
  <2>6. RingInv'
    BY <1>3, <2>2, <2>4, <2>5 DEF PushCopyEnds, consumerVars, RingInv, OldestCopied
  <2>7. QED
    BY <2>3, <2>6
<1>4. CASE PushPublishes
  <2>1. TypeOK'
    BY <1>4 DEF PushPublishes, consumerVars, TypeOK, RingInv
  <2>2. \A i \in tail..head : buffer[Slot(i)] \in Commands
    BY <1>4 DEF PushPublishes, TypeOK, RingInv
  <2>3. RingInv'
    BY <1>4, <2>2 DEF PushPublishes, consumerVars, TypeOK, RingInv, OldestCopied
  <2>4. QED
    BY <2>1, <2>3
<1>5. CASE PopLoads
  <2>1. TypeOK'
    BY <1>5 DEF PopLoads, producerVars, TypeOK
  <2>2. RingInv'
    BY <1>5 DEF PopLoads, Empty, producerVars, TypeOK, RingInv, OldestCopied
  <2>3. QED
    BY <2>1, <2>2
<1>6. CASE PopCopies
  <2>1. tail \in tail..(head - 1)
    BY <1>6 DEF PopCopies, TypeOK, RingInv
  <2>2. buffer[Slot(tail)] \in Commands
    BY <2>1 DEF RingInv
  <2>3. TypeOK'
    BY <1>6, <2>2 DEF PopCopies, producerVars, TypeOK
  <2>4. RingInv'
    BY <1>6, <2>2 DEF PopCopies, producerVars, RingInv, OldestCopied
  <2>5. QED
    BY <2>3, <2>4
<1>7. CASE PopReleases
  <2>1. TypeOK'
    BY <1>7 DEF PopReleases, producerVars, TypeOK, RingInv
  <2>2. RingInv'
    BY <1>7 DEF PopReleases, producerVars, TypeOK, RingInv, OldestCopied
  <2>3. QED
    BY <2>1, <2>2
<1>8. CASE UNCHANGED vars
  BY <1>8 DEF vars, producerVars, consumerVars, TypeOK, RingInv, OldestCopied
<1>9. QED
  BY <1>1, <1>2, <1>3, <1>4, <1>5, <1>6, <1>7, <1>8 DEF Next, Producer, Consumer

(* The types and the invariant hold in every reachable state. *)
LEMMA Invariant == Spec => [](TypeOK /\ RingInv)
BY InvariantInit, InvariantStep, PTL DEF Spec

(* Type correctness, and the distance of the two indices.                  *)
THEOREM RingTypeCorrect == Spec => []TypeOK
BY Invariant, PTL

(* The producer never writes the slot the consumer reads: there is no data *)
(* race, whatever old index either thread still goes by.                   *)
THEOREM NoSlotShared == Spec => []SlotsNotShared
<1>1. TypeOK /\ RingInv => SlotsNotShared
  <2> SUFFICES ASSUME TypeOK, RingInv, producer # "idle", consumer # "idle"
               PROVE  Slot(head) # Slot(tail)
    BY DEF SlotsNotShared
  <2>1. tail < head /\ head - tail < Capacity /\ head \in Int /\ tail \in Int
    BY CapacityPositive DEF TypeOK, RingInv
  <2>2. QED
    BY <2>1, SlotsDistinct
<1>2. QED
  BY <1>1, Invariant, PTL

(* What TryPop returns is the oldest command, whole.                       *)
THEOREM OldestReturned == Spec => []OldestCopied
<1>1. RingInv => OldestCopied
  BY DEF RingInv
<1>2. QED
  BY <1>1, Invariant, PTL

-----------------------------------------------------------------------------
(* The ring implements the bounded FIFO: PushPublishes is Push, PopReleases*)
(* is Pop, every other step leaves the FIFO as it is.                      *)
THEOREM RingImplementsFifo == Spec => ImplementsFifo
<1> DEFINE ring == [i \in (tail + 1)..head |-> buffer[Slot(i - 1)]]
<1>1. Init => Fifo!Init
  <2> SUFFICES ASSUME Init
               PROVE  Fifo!Init
    OBVIOUS
  <2>1. head = 0 /\ tail = 0
    BY DEF Init
  <2>2. ring = [i \in 1..0 |-> {}]
    BY <2>1
  <2>3. QED
    BY <2>1, <2>2 DEF Fifo!Init
<1>2. TypeOK /\ RingInv /\ [Next]_vars => [Fifo!Next]_(Fifo!fifo)
  <2> SUFFICES ASSUME TypeOK, RingInv, [Next]_vars
               PROVE  Fifo!Next \/ UNCHANGED <<ring, head, tail>>
    BY DEF Fifo!fifo
  <2>0. head \in Nat /\ tail \in Nat /\ tail <= head
    BY CapacityPositive DEF TypeOK
  <2>1. ASSUME buffer' = buffer, head' = head, tail' = tail
        PROVE  UNCHANGED <<ring, head, tail>>
    BY <2>1
  <2>2. ASSUME NEW command \in Commands, PushLoads(command)
        PROVE  UNCHANGED <<ring, head, tail>>
    BY <2>1, <2>2 DEF PushLoads
  <2>3. ASSUME producer # "idle", NEW content, head' = head, tail' = tail,
               buffer' = [buffer EXCEPT ![Slot(head)] = content]
        PROVE  UNCHANGED <<ring, head, tail>>
    <3>1. \A i \in tail..(head - 1) : buffer'[Slot(i)] = buffer[Slot(i)]
      BY <2>3, WriteOutside
    <3>2. \A i \in (tail + 1)..head : i - 1 \in tail..(head - 1)
      BY <2>0
    <3>3. \A i \in (tail + 1)..head : buffer'[Slot(i - 1)] = buffer[Slot(i - 1)]
      BY <3>1, <3>2
    <3>4. QED
      BY <2>3, <3>3
  <2>4. CASE PushCopyStarts
    BY <2>3, <2>4 DEF PushCopyStarts
  <2>5. CASE PushCopyEnds
    BY <2>3, <2>5 DEF PushCopyEnds
  <2>6. CASE PushPublishes
    <3>1. head' = head + 1 /\ tail' = tail /\ buffer' = buffer
      BY <2>6 DEF PushPublishes
    <3>2. ring' = [i \in (tail + 1)..(head + 1) |->
                     IF i = head + 1 THEN buffer[Slot(head)] ELSE ring[i]]
      BY <2>0, <3>1
    <3>3. buffer[Slot(head)] \in Commands /\ head - tail < Capacity
      BY <2>6, CapacityPositive DEF PushPublishes, RingInv, TypeOK
    <3>4. Fifo!Push(buffer[Slot(head)])
      BY <3>1, <3>2, <3>3 DEF Fifo!Push, Fifo!HasRoom, Fifo!Put
    <3>5. QED
      BY <3>3, <3>4 DEF Fifo!Next
  <2>7. CASE PopLoads
    BY <2>1, <2>7 DEF PopLoads
  <2>8. CASE PopCopies
    BY <2>1, <2>8 DEF PopCopies
  <2>9. CASE PopReleases
    <3>1. head' = head /\ tail' = tail + 1 /\ buffer' = buffer
      BY <2>9 DEF PopReleases
    <3>2. ring' = [i \in (tail + 2)..head |-> ring[i]]
      BY <2>0, <3>1
    <3>3. tail < head
      BY <2>9 DEF PopReleases, RingInv, TypeOK
    <3>4. QED
      BY <3>1, <3>2, <3>3 DEF Fifo!Next, Fifo!Pop, Fifo!Take
  <2>10. CASE UNCHANGED vars
    BY <2>1, <2>10 DEF vars
  <2>11. QED
    BY <2>2, <2>4, <2>5, <2>6, <2>7, <2>8, <2>9, <2>10 DEF Next, Producer, Consumer
<1>3. QED
  BY <1>1, <1>2, Invariant, PTL DEF Spec, ImplementsFifo, Fifo!Spec
=============================================================================
