--------------------------- MODULE BusSystemProofs --------------------------
(***************************************************************************)
(* Proofs about BusSystem: the two threads agree on every bus slot, a bus  *)
(* has its own gain, and a segment has every voice once.  The sums of the  *)
(* mix are recursive functions: Recursion has what they are unfolded by.   *)
(***************************************************************************)
EXTENDS BusSystem, Recursion, FiniteSetTheorems

(* A bus of the application, or the one that is none. *)
Bus == [index : Nat, generation : Nat, serial : Int]

Command == [type : {"create", "destroy", "gain", "route"}, bus : Bus, voice : Nat,
            scheduled : BOOLEAN, position : Nat]

TypeInv ==
  /\ inUse \in [Buses -> BOOLEAN] /\ nextGeneration \in [Buses -> Nat]
  /\ creates \in Nat /\ handles \subseteq Bus
  /\ head \in Nat /\ tail \in Nat /\ tail <= head
  /\ queue \in [(tail + 1)..head -> Command]
  /\ heap \subseteq Command
  /\ active \in [Buses -> BOOLEAN] /\ generation \in [Buses -> Nat]
  /\ gain \in [Buses -> SUBSET Int] /\ owner \in [Buses -> Int]

(* The control slots and the handles: a handle has a generation that its   *)
(* slot has reached, and no two handles share a slot and a generation.     *)
HandlesInv ==
  /\ kMasterBusId \in handles
  /\ \A bus \in handles :
       /\ bus.index \in Buses
       /\ bus.generation <= nextGeneration[bus.index]
       /\ bus.index = 0 => bus = kMasterBusId
  /\ \A a, b \in handles : a.index = b.index /\ a.generation = b.generation => a = b

(* The commands under way: only gains are scheduled, and only a voice's    *)
(* bus can be one the application was never given.                         *)
CommandsInv ==
  /\ \A i \in (tail + 1)..head :
       /\ queue[i].type # "route" => queue[i].bus \in handles
       /\ queue[i].type \in {"create", "destroy"} =>
            ~queue[i].scheduled /\ queue[i].bus.index # 0
       /\ queue[i].type = "route" => ~queue[i].scheduled
  /\ \A command \in heap : command.type = "gain" /\ command.bus \in handles

(* The audio slots: an active slot has a bus that was created. *)
SlotsInv ==
  /\ inUse[0] /\ active[0]
  /\ \A b \in Buses :
       /\ generation[b] <= nextGeneration[b]
       /\ active[b] => BusId(b, generation[b], owner[b]) \in handles

GenerationAt(i) == queue[i].bus.generation

(* Between places i and j of the queue, generation g of slot b is          *)
(* destroyed.                                                              *)
Destroyed(b, g, i, j) ==
  \E d \in Queued("destroy", b) : i < d /\ d < j /\ GenerationAt(d) = g

(* A slot is in use by the generation it gave out last. *)
Holds(b, g) == inUse[b] /\ nextGeneration[b] = g

(* A creation finds its slot inactive: the bus that has it is destroyed    *)
(* before.                                                                 *)
CreationInv ==
  \A b \in Buses : \A i \in Queued("create", b) :
    generation[b] < GenerationAt(i) /\ (active[b] => Destroyed(b, generation[b], tail, i))

(* So it is for the creations that are queued together, *)
OrderInv ==
  \A b \in Buses : \A i, j \in Queued("create", b) : i < j =>
    GenerationAt(i) < GenerationAt(j) /\ Destroyed(b, GenerationAt(i), i, j)

(* and for the creations to come: only a bus that is destroyed does not    *)
(* hold its control slot.                                                  *)
ReleaseInv ==
  \A b \in Buses \ {0} :
    /\ \A i \in Queued("create", b) :
         Holds(b, GenerationAt(i)) \/ Destroyed(b, GenerationAt(i), i, head + 1)
    /\ active[b] => Holds(b, generation[b]) \/ Destroyed(b, generation[b], tail, head + 1)

(* A bus that holds its control slot is not being destroyed, *)
DestroysInv ==
  \A b \in Buses : \A d \in Queued("destroy", b) :
    inUse[b] => GenerationAt(d) < nextGeneration[b]

(* and is there, or about to be. *)
InUseInv ==
  \A b \in Buses \ {0} : inUse[b] =>
    \/ \E i \in Queued("create", b) : GenerationAt(i) = nextGeneration[b]
    \/ active[b] /\ generation[b] = nextGeneration[b]

Inv ==
  /\ TypeInv /\ HandlesInv /\ CommandsInv /\ SlotsInv
  /\ CreationInv /\ OrderInv /\ ReleaseInv /\ DestroysInv /\ InUseInv /\ OwnGain

-----------------------------------------------------------------------------
(* The invariant holds initially. *)
LEMMA InvInit == Init => Inv
<1> SUFFICES ASSUME Init
             PROVE  Inv
  OBVIOUS
<1> USE BusAssumption DEF Init
<1>1. TypeInv
  BY DEF TypeInv, Buses, Bus, kMasterBusId, BusId
<1>2. HandlesInv
  BY DEF HandlesInv, Buses, kMasterBusId, BusId
<1>3. CommandsInv
  BY DEF CommandsInv
<1>4. SlotsInv
  <2>1. 0 \in Buses /\ inUse[0] /\ active[0] /\ \A b \in Buses : active[b] => b = 0
    BY DEF Buses
  <2> QED
    BY <2>1 DEF SlotsInv, kMasterBusId, BusId
<1>5. CreationInv /\ OrderInv /\ DestroysInv
  BY DEF CreationInv, OrderInv, DestroysInv, Queued
<1>6. ReleaseInv /\ InUseInv /\ OwnGain
  <2>1. \A b \in Buses \ {0} : ~inUse[b] /\ ~active[b]
    OBVIOUS
  <2>2. \A b \in Buses \ {0} : Queued("create", b) = {}
    BY DEF Queued
  <2> QED
    BY <2>1, <2>2 DEF ReleaseInv, InUseInv, OwnGain
<1> QED
  BY <1>1, <1>2, <1>3, <1>4, <1>5, <1>6 DEF Inv

(* What is known of a queued command. *)
LEMMA QueuedTyped ==
  ASSUME TypeInv, NEW type, NEW b, NEW i \in Queued(type, b)
  PROVE  /\ i \in Nat /\ tail < i /\ i <= head /\ i \in (tail + 1)..head
         /\ queue[i].type = type /\ queue[i].bus.index = b
         /\ queue[i].bus \in Bus /\ queue[i].bus.generation \in Nat /\ GenerationAt(i) \in Nat
BY DEF Queued, TypeInv, Command, Bus, GenerationAt

(* A push adds one command at the end of the queue. *)
LEMMA Pushed ==
  ASSUME TypeInv, NEW command \in Command, Fifo!Push(command)
  PROVE  /\ head' = head + 1 /\ tail' = tail /\ head \in Nat /\ tail \in Nat
         /\ queue' \in [(tail' + 1)..head' -> Command]
         /\ \A i \in (tail' + 1)..head' : i \in (tail + 1)..head \/ i = head + 1
         /\ \A i \in (tail + 1)..head : queue'[i] = queue[i]
         /\ queue'[head + 1] = command
         /\ \A type, b, i : i \in Queued(type, b)' <=>
              \/ i \in Queued(type, b)
              \/ i = head + 1 /\ command.type = type /\ command.bus.index = b
         /\ \A i : i = head + 1 => GenerationAt(i)' = command.bus.generation
         /\ \A type, b : \A i \in Queued(type, b) :
              GenerationAt(i)' = GenerationAt(i) /\ i < head + 1
<1>1. /\ head' = head + 1 /\ tail' = tail /\ head \in Nat /\ tail \in Nat /\ tail <= head
      /\ queue' \in [(tail' + 1)..head' -> Command]
      /\ \A i \in (tail + 1)..head : queue'[i] = queue[i]
      /\ queue'[head + 1] = command
  BY DEF TypeInv, Fifo!Push, Fifo!HasRoom, Fifo!Put
<1>2. \A i \in (tail' + 1)..head' : i \in (tail + 1)..head \/ i = head + 1
  BY <1>1
<1>3. \A type, b, i : i \in Queued(type, b)' <=>
        \/ i \in Queued(type, b)
        \/ i = head + 1 /\ command.type = type /\ command.bus.index = b
  BY <1>1 DEF Queued
<1> QED
  BY <1>1, <1>2, <1>3, QueuedTyped DEF GenerationAt

(* A pop takes the first command. *)
LEMMA Popped ==
  ASSUME TypeInv, Fifo!Pop
  PROVE  /\ head' = head /\ tail' = tail + 1 /\ tail < head /\ head \in Nat /\ tail \in Nat
         /\ queue' \in [(tail' + 1)..head' -> Command]
         /\ \A i \in (tail' + 1)..head' : i \in (tail + 1)..head /\ queue'[i] = queue[i]
         /\ tail + 1 \in (tail + 1)..head /\ queue[tail + 1] \in Command
         /\ \A type, b, i : i \in Queued(type, b)' <=> i \in Queued(type, b) /\ i > tail + 1
         /\ \A type, b : \A i \in Queued(type, b)' : GenerationAt(i)' = GenerationAt(i)
<1>1. /\ head' = head /\ tail' = tail + 1 /\ tail < head /\ head \in Nat /\ tail \in Nat
      /\ queue' \in [(tail' + 1)..head' -> Command]
      /\ \A i \in (tail' + 1)..head' : i \in (tail + 1)..head /\ queue'[i] = queue[i]
      /\ tail + 1 \in (tail + 1)..head /\ queue[tail + 1] \in Command
  BY DEF TypeInv, Fifo!Pop, Fifo!Take
<1>2. \A type, b, i : i \in Queued(type, b)' <=> i \in Queued(type, b) /\ i > tail + 1
  BY <1>1 DEF Queued
<1>3. \A type, b : \A i \in Queued(type, b)' : GenerationAt(i)' = GenerationAt(i)
  BY <1>1 DEF Queued, GenerationAt
<1> QED
  BY <1>1, <1>2, <1>3

(* The numbers of a bus slot. *)
LEMMA SlotNumbers ==
  ASSUME TypeInv, NEW b \in Buses
  PROVE  /\ nextGeneration[b] \in Nat /\ generation[b] \in Nat
         /\ inUse[b] \in BOOLEAN /\ active[b] \in BOOLEAN
BY DEF TypeInv

(* The control slot of b is left alone. *)
Same(b) == inUse'[b] = inUse[b] /\ nextGeneration'[b] = nextGeneration[b]

(* A bus is created in a slot that was not in use.                         *)
LEMMA BusCreated ==
  ASSUME Inv, NEW b \in Buses, CreateBus(b)
  PROVE  Inv'
<1> USE BusAssumption DEF Inv
<1>1. /\ ~inUse[b] /\ b # 0 /\ nextGeneration[b] \in Nat
      /\ nextGeneration'[b] = nextGeneration[b] + 1
      /\ nextGeneration' \in [Buses -> Nat]
      /\ inUse'[b] /\ inUse' \in [Buses -> BOOLEAN] /\ \A c \in Buses \ {b} : Same(c)
      /\ creates' \in Nat
      /\ UNCHANGED <<heap, active, generation, gain, owner>>
  BY DEF CreateBus, MayCreate, ReserveSlot, SlotsInv, TypeInv, slots, Same
<1>2. PICK bus \in Bus, command \in Command :
        /\ bus.index = b /\ bus.generation = nextGeneration[b] + 1
        /\ command.type = "create" /\ command.bus = bus /\ ~command.scheduled
        /\ handles' = handles \cup {bus} /\ Fifo!Push(command)
  <2> DEFINE bus == BusId(b, nextGeneration[b] + 1, creates + 1)
             command == CommandFor("create", bus, 0, FALSE)
  <2>1. bus \in Bus /\ bus.index = b /\ bus.generation = nextGeneration[b] + 1
    BY <1>1 DEF Bus, BusId, Buses, TypeInv
  <2>2. command \in Command /\ command.type = "create" /\ command.bus = bus /\ ~command.scheduled
    BY <2>1 DEF CommandFor, Command, TypeInv
  <2>3. handles' = handles \cup {bus} /\ Fifo!Push(command)
    BY <1>1 DEF CreateBus, MayCreate
  <2> QED
    BY <2>1, <2>2, <2>3
<1>3. /\ head' = head + 1 /\ tail' = tail /\ head \in Nat /\ tail \in Nat
      /\ queue' \in [(tail' + 1)..head' -> Command]
      /\ \A i \in (tail' + 1)..head' : i \in (tail + 1)..head \/ i = head + 1
      /\ \A i \in (tail + 1)..head : queue'[i] = queue[i]
      /\ queue'[head + 1] = command
  BY <1>2, Pushed
<1>4. /\ \A type, c, i : i \in Queued(type, c)' <=>
           i \in Queued(type, c) \/ (i = head + 1 /\ type = "create" /\ c = b)
      /\ \A i : i = head + 1 => GenerationAt(i)' = bus.generation
      /\ \A type, c : \A i \in Queued(type, c) :
           GenerationAt(i)' = GenerationAt(i) /\ i < head + 1
  BY <1>2, Pushed
<1>5. \A c \in Buses : /\ nextGeneration[c] \in Nat /\ nextGeneration'[c] \in Nat
                       /\ nextGeneration[c] <= nextGeneration'[c]
  BY <1>1, SlotNumbers DEF Same
<1>6. TypeInv'
  BY <1>1, <1>2, <1>3 DEF TypeInv
<1>7. HandlesInv'
  <2>1. \A h \in handles : ~(h.index = b /\ h.generation = bus.generation)
    BY <1>1, <1>2 DEF HandlesInv, TypeInv, Bus
  <2>2. \A h \in handles : h.index \in Buses /\ h.generation <= nextGeneration'[h.index]
    <3>1. \A h \in handles : /\ h.index \in Buses /\ h.generation \in Nat
                             /\ h.generation <= nextGeneration[h.index]
      BY DEF HandlesInv, TypeInv, Bus
    <3> QED
      BY <1>5, <3>1
  <2>3. bus.index \in Buses /\ bus.generation <= nextGeneration'[bus.index] /\ bus.index # 0
    BY <1>1, <1>2
  <2> QED
    BY <1>2, <2>1, <2>2, <2>3 DEF HandlesInv
<1>8. CommandsInv'
  <2>1. \A i \in (tail' + 1)..head' :
          \/ i \in (tail + 1)..head /\ queue'[i] = queue[i]
          \/ queue'[i] = command
    BY <1>3
  <2>2. bus \in handles' /\ handles \subseteq handles' /\ heap' = heap
    BY <1>1, <1>2
  <2> QED
    BY <1>1, <1>2, <2>1, <2>2 DEF CommandsInv
<1>9. SlotsInv'
  <2>1. \A c \in Buses : generation[c] <= nextGeneration'[c]
    BY <1>5, SlotNumbers DEF SlotsInv
  <2>2. inUse'[0]
    BY <1>1 DEF SlotsInv, Same, Buses
  <2> QED
    BY <1>1, <1>2, <2>1, <2>2 DEF SlotsInv
<1>10. \A g : ~Holds(b, g)
  BY <1>1 DEF Holds
<1>11. \A i \in Queued("create", b) : GenerationAt(i) <= nextGeneration[b]
  BY QueuedTyped DEF CommandsInv, HandlesInv, GenerationAt
<1>12. CreationInv'
  <2>1. ASSUME NEW c \in Buses, NEW i \in Queued("create", c)
        PROVE  /\ generation[c] < GenerationAt(i)
               /\ active[c] => \E d \in Queued("destroy", c)' :
                                 tail < d /\ d < i /\ GenerationAt(d)' = generation[c]
    BY <1>4, <2>1 DEF CreationInv, Destroyed
  <2>2. /\ generation[b] < bus.generation
        /\ active[b] => \E d \in Queued("destroy", b)' :
                          tail < d /\ d < head + 1 /\ GenerationAt(d)' = generation[b]
    BY <1>1, <1>2, <1>4, <1>10, SlotNumbers DEF SlotsInv, ReleaseInv, Destroyed
  <2> QED
    BY <1>1, <1>2, <1>3, <1>4, <2>1, <2>2 DEF CreationInv, Destroyed
<1>13. OrderInv'
  <2>1. ASSUME NEW c \in Buses, NEW i \in Queued("create", c), NEW j \in Queued("create", c), i < j
        PROVE  /\ GenerationAt(i) < GenerationAt(j)
               /\ \E d \in Queued("destroy", c)' :
                    i < d /\ d < j /\ GenerationAt(d)' = GenerationAt(i)
    BY <1>4, <2>1 DEF OrderInv, Destroyed
  <2>2. ASSUME NEW i \in Queued("create", b)
        PROVE  /\ GenerationAt(i) < bus.generation
               /\ \E d \in Queued("destroy", b)' :
                    i < d /\ d < head + 1 /\ GenerationAt(d)' = GenerationAt(i)
    BY <1>1, <1>2, <1>4, <1>10, <1>11, QueuedTyped DEF ReleaseInv, Destroyed
  <2> QED
    <3> SUFFICES ASSUME NEW c \in Buses, NEW i \in Queued("create", c)',
                        NEW j \in Queued("create", c)', i < j
                 PROVE  /\ GenerationAt(i)' < GenerationAt(j)'
                        /\ \E d \in Queued("destroy", c)' :
                             i < d /\ d < j /\ GenerationAt(d)' = GenerationAt(i)'
      BY DEF OrderInv, Destroyed
    <3>1. i \in Queued("create", c) /\ GenerationAt(i)' = GenerationAt(i)
      BY <1>3, <1>4, QueuedTyped
    <3>2. CASE j \in Queued("create", c)
      BY <1>4, <2>1, <3>1, <3>2
    <3>3. CASE j = head + 1 /\ c = b
      BY <1>4, <2>2, <3>1, <3>3
    <3> QED
      BY <1>4, <3>2, <3>3
<1>14. ReleaseInv'
  <2>1. ASSUME NEW c \in Buses \ {0}, NEW g, NEW i, Holds(c, g) \/ Destroyed(c, g, i, head + 1)
        PROVE  \/ inUse'[c] /\ nextGeneration'[c] = g
               \/ \E d \in Queued("destroy", c)' : i < d /\ d < head + 2 /\ GenerationAt(d)' = g
    BY <1>1, <1>3, <1>4, <1>10, <2>1, QueuedTyped DEF Destroyed, Holds, Same
  <2>2. inUse'[b] /\ nextGeneration'[b] = bus.generation
    BY <1>1, <1>2
  <2> QED
    <3>1. ASSUME NEW c \in Buses \ {0}, NEW i \in Queued("create", c)'
          PROVE  Holds(c, GenerationAt(i))' \/ \E d \in Queued("destroy", c)' :
                   i < d /\ d < head' + 1 /\ GenerationAt(d)' = GenerationAt(i)'
      <4>1. CASE i \in Queued("create", c)
        <5>1. Holds(c, GenerationAt(i)) \/ Destroyed(c, GenerationAt(i), i, head + 1)
          BY <4>1 DEF ReleaseInv
        <5>2. \/ inUse'[c] /\ nextGeneration'[c] = GenerationAt(i)
              \/ \E d \in Queued("destroy", c)' :
                   i < d /\ d < head + 2 /\ GenerationAt(d)' = GenerationAt(i)
          BY <2>1, <5>1
        <5>3. head + 2 = head' + 1 /\ GenerationAt(i)' = GenerationAt(i)
          BY <1>3, <1>4, <4>1
        <5> QED
          BY <5>2, <5>3 DEF Holds
      <4>2. CASE i = head + 1 /\ c = b
        BY <1>4, <2>2, <4>2 DEF Holds
      <4> QED
        BY <1>4, <4>1, <4>2
    <3>2. ASSUME NEW c \in Buses \ {0}, active[c]
          PROVE  Holds(c, generation[c])' \/ \E d \in Queued("destroy", c)' :
                   tail < d /\ d < head' + 1 /\ GenerationAt(d)' = generation[c]
      BY <1>1, <1>3, <2>1, <3>2 DEF ReleaseInv, Holds
    <3> QED
      BY <1>1, <1>3, <3>1, <3>2 DEF ReleaseInv, Destroyed
<1>15. DestroysInv'
  BY <1>1, <1>4, <1>5, QueuedTyped DEF DestroysInv, Same, CommandsInv, HandlesInv, GenerationAt
<1>16. InUseInv'
  BY <1>1, <1>2, <1>4 DEF InUseInv, Same
<1>17. OwnGain'
  BY <1>1 DEF OwnGain
<1> QED
  BY <1>6, <1>7, <1>8, <1>9, <1>12, <1>13, <1>14, <1>15, <1>16, <1>17

(* A creation that finds the queue full spends a generation.               *)
LEMMA CreationRolledBack ==
  ASSUME Inv, NEW b \in Buses, CreateBusRollsBack(b)
  PROVE  Inv'
<1> USE DEF Inv
<1>1. /\ ~inUse[b] /\ nextGeneration'[b] = nextGeneration[b] + 1
      /\ nextGeneration' \in [Buses -> Nat] /\ \A c \in Buses \ {b} : Same(c)
      /\ creates' \in Nat
      /\ UNCHANGED <<inUse, handles, queue, head, tail, heap, active, generation, gain, owner>>
  BY DEF CreateBusRollsBack, MayCreate, ReserveSlot, TypeInv, slots, pipe, Same
<1>2. \A c \in Buses : /\ nextGeneration[c] \in Nat /\ nextGeneration'[c] \in Nat
                       /\ nextGeneration[c] <= nextGeneration'[c]
  BY <1>1, SlotNumbers DEF Same
<1>3. \A c \in Buses : inUse[c] => c # b /\ nextGeneration'[c] = nextGeneration[c]
  BY <1>1 DEF Same
<1>4. TypeInv'
  BY <1>1 DEF TypeInv
<1>5. HandlesInv'
  <2>1. \A h \in handles : h.index \in Buses /\ h.generation <= nextGeneration'[h.index]
    <3>1. \A h \in handles : /\ h.index \in Buses /\ h.generation \in Nat
                             /\ h.generation <= nextGeneration[h.index]
      BY DEF HandlesInv, TypeInv, Bus
    <3> QED
      BY <1>2, <3>1
  <2> QED
    BY <1>1, <2>1 DEF HandlesInv
<1>6. CommandsInv'
  BY <1>1 DEF CommandsInv
<1>7. SlotsInv'
  BY <1>1, <1>2, SlotNumbers DEF SlotsInv
<1>8. CreationInv' /\ OrderInv'
  BY <1>1 DEF CreationInv, OrderInv, Destroyed, Queued, GenerationAt
<1>9. \A type, c : Queued(type, c)' = Queued(type, c)
  BY <1>1 DEF Queued
<1>10. \A i : GenerationAt(i)' = GenerationAt(i)
  BY <1>1 DEF GenerationAt
<1>11. ReleaseInv'
  BY <1>1, <1>3, <1>9, <1>10 DEF ReleaseInv, Holds, Destroyed
<1>12. DestroysInv' /\ InUseInv'
  BY <1>1, <1>3, <1>9, <1>10 DEF DestroysInv, InUseInv
<1>13. OwnGain'
  BY <1>1 DEF OwnGain
<1> QED
  BY <1>4, <1>5, <1>6, <1>7, <1>8, <1>11, <1>12, <1>13

(* The commands that neither create nor destroy.                           *)
LEMMA QuietPush ==
  ASSUME Inv, NEW command \in Command, Fifo!Push(command),
         command.type = "gain" \/ (command.type = "route" /\ ~command.scheduled),
         command.type = "gain" => command.bus \in handles,
         UNCHANGED <<control, heap, slots>>
  PROVE  Inv'
<1> USE DEF Inv
<1>1. UNCHANGED <<inUse, nextGeneration, creates, handles, heap, active, generation, gain, owner>>
  BY DEF control, slots
<1>2. /\ head' = head + 1 /\ tail' = tail /\ head \in Nat /\ tail \in Nat
      /\ queue' \in [(tail' + 1)..head' -> Command]
      /\ \A i \in (tail' + 1)..head' : i \in (tail + 1)..head \/ i = head + 1
      /\ \A i \in (tail + 1)..head : queue'[i] = queue[i]
      /\ queue'[head + 1] = command
  BY Pushed
<1>3. /\ \A c, i : \A type \in {"create", "destroy"} : i \in Queued(type, c)' <=> i \in Queued(type, c)
      /\ \A type, c : \A i \in Queued(type, c) :
           GenerationAt(i)' = GenerationAt(i) /\ i < head + 1
  BY Pushed
<1>4. TypeInv'
  BY <1>1, <1>2 DEF TypeInv
<1>5. HandlesInv' /\ SlotsInv' /\ OwnGain'
  BY <1>1 DEF HandlesInv, SlotsInv, OwnGain
<1>6. CommandsInv'
  BY <1>1, <1>2 DEF CommandsInv
<1>7. CreationInv' /\ OrderInv'
  BY <1>1, <1>2, <1>3 DEF CreationInv, OrderInv, Destroyed
<1>8. ReleaseInv'
  BY <1>1, <1>2, <1>3, QueuedTyped DEF ReleaseInv, Destroyed, Holds
<1>9. DestroysInv' /\ InUseInv'
  BY <1>1, <1>3 DEF DestroysInv, InUseInv
<1> QED
  BY <1>4, <1>5, <1>6, <1>7, <1>8, <1>9

(* The destruction of a bus gives its slot back, if the slot is still its. *)
LEMMA BusDestroyed ==
  ASSUME Inv, NEW bus \in handles, DestroyBus(bus)
  PROVE  Inv'
<1> USE DEF Inv
<1> DEFINE b == bus.index
<1>1. bus \in Bus /\ b \in Buses /\ b # 0 /\ bus.generation \in Nat
      /\ bus.generation <= nextGeneration[b]
  BY DEF DestroyBus, HandlesInv, TypeInv, Bus
<1>2. PICK command \in Command :
        /\ command.type = "destroy" /\ command.bus = bus /\ ~command.scheduled
        /\ Fifo!Push(command)
  <2> DEFINE command == CommandFor("destroy", bus, 0, FALSE)
  <2>1. command \in Command /\ command.type = "destroy" /\ command.bus = bus /\ ~command.scheduled
    BY <1>1 DEF CommandFor, Command, TypeInv
  <2> QED
    BY <2>1 DEF DestroyBus, Submit
<1>3. /\ UNCHANGED <<nextGeneration, creates, handles, heap, active, generation, gain, owner>>
      /\ inUse' \in [Buses -> BOOLEAN]
      /\ \A c \in Buses \ {b} : inUse'[c] = inUse[c]
      /\ inUse'[b] = (inUse[b] /\ nextGeneration[b] # bus.generation)
  BY <1>1 DEF DestroyBus, Submit, ReleaseSlot, slots, TypeInv
<1>4. /\ head' = head + 1 /\ tail' = tail /\ head \in Nat /\ tail \in Nat
      /\ queue' \in [(tail' + 1)..head' -> Command]
      /\ \A i \in (tail' + 1)..head' : i \in (tail + 1)..head \/ i = head + 1
      /\ \A i \in (tail + 1)..head : queue'[i] = queue[i]
      /\ queue'[head + 1] = command
  BY <1>2, Pushed
<1>5. /\ \A type, c, i : i \in Queued(type, c)' <=>
           i \in Queued(type, c) \/ (i = head + 1 /\ type = "destroy" /\ c = b)
      /\ \A i : i = head + 1 => GenerationAt(i)' = bus.generation
      /\ \A type, c : \A i \in Queued(type, c) :
           GenerationAt(i)' = GenerationAt(i) /\ i < head + 1
  BY <1>2, Pushed
<1>6. \A c, i : i \in Queued("create", c)' <=> i \in Queued("create", c)
  BY <1>5
<1>7. TypeInv'
  BY <1>1, <1>2, <1>3, <1>4 DEF TypeInv
<1>8. HandlesInv' /\ OwnGain'
  BY <1>3 DEF HandlesInv, OwnGain
<1>9. SlotsInv'
  <2>1. 0 \in Buses \ {b}
    BY <1>1, BusAssumption DEF Buses
  <2> QED
    BY <1>1, <1>3, <2>1 DEF SlotsInv
<1>10. CommandsInv'
  BY <1>1, <1>2, <1>3, <1>4 DEF CommandsInv
<1>11. CreationInv'
  BY <1>3, <1>4, <1>5, <1>6 DEF CreationInv, Destroyed
<1>12. OrderInv'
  BY <1>3, <1>4, <1>5, <1>6 DEF OrderInv, Destroyed
<1>13. ReleaseInv'
  <2>1. ASSUME NEW c \in Buses \ {0}, NEW g, NEW i, i < head + 1,
               Holds(c, g) \/ Destroyed(c, g, i, head + 1)
        PROVE  \/ inUse'[c] /\ nextGeneration'[c] = g
               \/ \E d \in Queued("destroy", c)' : i < d /\ d < head + 2 /\ GenerationAt(d)' = g
    <3>1. CASE Destroyed(c, g, i, head + 1)
      BY <1>4, <1>5, <3>1, QueuedTyped DEF Destroyed
    <3>2. CASE Holds(c, g) /\ c = b /\ g = bus.generation
      BY <1>4, <1>5, <2>1, <3>2
    <3>3. CASE Holds(c, g) /\ ~(c = b /\ g = bus.generation)
      BY <1>3, <3>3 DEF Holds
    <3> QED
      BY <2>1, <3>1, <3>2, <3>3
  <2>2. ASSUME NEW c \in Buses \ {0}, NEW i \in Queued("create", c)'
        PROVE  Holds(c, GenerationAt(i))' \/ \E d \in Queued("destroy", c)' :
                 i < d /\ d < head' + 1 /\ GenerationAt(d)' = GenerationAt(i)'
    <3>1. i \in Queued("create", c) /\ i < head + 1 /\ GenerationAt(i)' = GenerationAt(i)
      BY <1>5, <1>6
    <3>2. Holds(c, GenerationAt(i)) \/ Destroyed(c, GenerationAt(i), i, head + 1)
      BY <3>1 DEF ReleaseInv
    <3>3. \/ inUse'[c] /\ nextGeneration'[c] = GenerationAt(i)
          \/ \E d \in Queued("destroy", c)' :
               i < d /\ d < head + 2 /\ GenerationAt(d)' = GenerationAt(i)
      BY <2>1, <3>1, <3>2
    <3>4. head + 2 = head' + 1
      BY <1>4
    <3> QED
      BY <3>1, <3>3, <3>4 DEF Holds
  <2>3. ASSUME NEW c \in Buses \ {0}, active[c]
        PROVE  Holds(c, generation[c])' \/ \E d \in Queued("destroy", c)' :
                 tail < d /\ d < head' + 1 /\ GenerationAt(d)' = generation[c]
    <3>1. Holds(c, generation[c]) \/ Destroyed(c, generation[c], tail, head + 1)
      BY <2>3 DEF ReleaseInv
    <3>2. tail < head + 1 /\ head + 2 = head' + 1
      BY <1>4 DEF TypeInv
    <3>3. \/ inUse'[c] /\ nextGeneration'[c] = generation[c]
          \/ \E d \in Queued("destroy", c)' :
               tail < d /\ d < head + 2 /\ GenerationAt(d)' = generation[c]
      BY <2>1, <3>1, <3>2
    <3> QED
      BY <1>3, <3>2, <3>3 DEF Holds
  <2> QED
    BY <1>3, <1>4, <2>2, <2>3 DEF ReleaseInv, Destroyed
<1>14. DestroysInv'
  BY <1>1, <1>3, <1>5, SlotNumbers DEF DestroysInv
<1>15. InUseInv'
  BY <1>1, <1>3, <1>5, <1>6 DEF InUseInv
<1> QED
  BY <1>7, <1>8, <1>9, <1>10, <1>11, <1>12, <1>13, <1>14, <1>15

(* The command that is popped. *)
first == queue[tail + 1]

(* What a pop leaves of the commands under way, and the handles.           *)
LEMMA PopCommands ==
  ASSUME Inv, Fifo!Pop, UNCHANGED control,
         heap' = heap \/ (first.scheduled /\ heap' = heap \cup {first})
  PROVE  /\ HandlesInv' /\ CommandsInv' /\ DestroysInv' /\ OrderInv'
         /\ inUse' = inUse /\ nextGeneration' = nextGeneration /\ handles' = handles
         /\ inUse' \in [Buses -> BOOLEAN] /\ nextGeneration' \in [Buses -> Nat]
         /\ creates' \in Nat /\ handles' \subseteq Bus
         /\ head' \in Nat /\ tail' \in Nat /\ tail' <= head'
         /\ queue' \in [(tail' + 1)..head' -> Command]
         /\ heap' \subseteq Command
<1> USE DEF Inv
<1>1. /\ head' = head /\ tail' = tail + 1 /\ tail < head /\ head \in Nat /\ tail \in Nat
      /\ queue' \in [(tail' + 1)..head' -> Command]
      /\ \A i \in (tail' + 1)..head' : i \in (tail + 1)..head /\ queue'[i] = queue[i]
      /\ tail + 1 \in (tail + 1)..head /\ first \in Command
      /\ \A type, b, i : i \in Queued(type, b)' <=> i \in Queued(type, b) /\ i > tail + 1
      /\ \A type, b : \A i \in Queued(type, b)' : GenerationAt(i)' = GenerationAt(i)
  BY Popped DEF first
<1>2. inUse' = inUse /\ nextGeneration' = nextGeneration /\ handles' = handles /\ creates' = creates
  BY DEF control
<1>3. first.scheduled => first.type = "gain" /\ first.bus \in handles
  BY <1>1 DEF CommandsInv, first, Command
<1>4. HandlesInv'
  BY <1>2 DEF HandlesInv
<1>5. CommandsInv'
  BY <1>1, <1>2, <1>3 DEF CommandsInv
<1>6. DestroysInv'
  BY <1>1, <1>2 DEF DestroysInv
<1>7. OrderInv'
  <2> SUFFICES ASSUME NEW c \in Buses, NEW i \in Queued("create", c)',
                      NEW j \in Queued("create", c)', i < j
               PROVE  /\ GenerationAt(i)' < GenerationAt(j)'
                      /\ \E d \in Queued("destroy", c)' :
                           i < d /\ d < j /\ GenerationAt(d)' = GenerationAt(i)'
    BY DEF OrderInv, Destroyed
  <2>1. i \in Queued("create", c) /\ j \in Queued("create", c) /\ i > tail + 1
    BY <1>1
  <2>2. GenerationAt(i) < GenerationAt(j) /\ Destroyed(c, GenerationAt(i), i, j)
    BY <2>1 DEF OrderInv
  <2> QED
    BY <1>1, <2>1, <2>2, QueuedTyped DEF Destroyed
<1> QED
  BY <1>1, <1>2, <1>4, <1>5, <1>6, <1>7 DEF TypeInv

(* A pop that changes no audio slot but a gain: the command is not a       *)
(* creation, nor the destruction of a bus that is there.                   *)
LEMMA QuietPop ==
  ASSUME Inv, Fifo!Pop, UNCHANGED control, UNCHANGED <<active, generation, owner>>,
         first.type # "create",
         first.type = "destroy" => ~IsValidTarget(first.bus)
  PROVE  SlotsInv' /\ CreationInv' /\ ReleaseInv' /\ InUseInv'
<1> USE DEF Inv
<1>1. /\ head' = head /\ tail' = tail + 1 /\ tail < head /\ head \in Nat /\ tail \in Nat
      /\ \A type, b, i : i \in Queued(type, b)' <=> i \in Queued(type, b) /\ i > tail + 1
      /\ \A type, b : \A i \in Queued(type, b)' : GenerationAt(i)' = GenerationAt(i)
  BY Popped
<1>2. inUse' = inUse /\ nextGeneration' = nextGeneration /\ handles' = handles
  BY DEF control
<1>3. \A b : tail + 1 \notin Queued("create", b)
  BY DEF Queued, first
<1>4. ASSUME NEW b \in Buses, active[b], NEW d \in Queued("destroy", b),
             GenerationAt(d) = generation[b]
      PROVE  d > tail + 1
  <2>1. d # tail + 1
    BY <1>4 DEF Queued, first, GenerationAt, IsValidTarget
  <2> QED
    BY <1>1, <2>1, QueuedTyped
<1>5. \A b, i : i \in Queued("create", b) => i > tail + 1
  BY <1>1, <1>3, QueuedTyped
<1>6. SlotsInv'
  BY <1>2 DEF SlotsInv
<1>7. CreationInv'
  BY <1>1, <1>4 DEF CreationInv, Destroyed
<1>8. ReleaseInv'
  <2>1. ASSUME NEW b \in Buses \ {0}, NEW i \in Queued("create", b)'
        PROVE  Holds(b, GenerationAt(i))' \/ \E d \in Queued("destroy", b)' :
                 i < d /\ d < head' + 1 /\ GenerationAt(d)' = GenerationAt(i)'
    <3>1. i \in Queued("create", b) /\ i > tail + 1 /\ GenerationAt(i)' = GenerationAt(i)
      BY <1>1
    <3>2. Holds(b, GenerationAt(i)) \/ Destroyed(b, GenerationAt(i), i, head + 1)
      BY <3>1 DEF ReleaseInv
    <3> QED
      BY <1>1, <1>2, <3>1, <3>2, QueuedTyped DEF Holds, Destroyed
  <2>2. ASSUME NEW b \in Buses \ {0}, active[b]
        PROVE  Holds(b, generation[b])' \/ \E d \in Queued("destroy", b)' :
                 tail' < d /\ d < head' + 1 /\ GenerationAt(d)' = generation[b]
    BY <1>1, <1>2, <1>4, <2>2 DEF ReleaseInv, Holds, Destroyed
  <2> QED
    BY <2>1, <2>2 DEF ReleaseInv, Destroyed
<1>9. InUseInv'
  BY <1>1, <1>2, <1>5 DEF InUseInv
<1> QED
  BY <1>6, <1>7, <1>8, <1>9

(* A bus comes to its slot, which is free: its predecessor was destroyed.  *)
LEMMA CreateApplied ==
  ASSUME Inv, Fifo!Pop, UNCHANGED control, first.type = "create", ApplyCreate(first.bus)
  PROVE  /\ SlotsInv' /\ CreationInv' /\ ReleaseInv' /\ InUseInv' /\ OwnGain'
         /\ active' \in [Buses -> BOOLEAN] /\ generation' \in [Buses -> Nat]
         /\ gain' \in [Buses -> SUBSET Int] /\ owner' \in [Buses -> Int]
<1> USE DEF Inv
<1> DEFINE b == first.bus.index
           g == first.bus.generation
<1>1. /\ head' = head /\ tail' = tail + 1 /\ tail < head /\ head \in Nat /\ tail \in Nat
      /\ \A type, c, i : i \in Queued(type, c)' <=> i \in Queued(type, c) /\ i > tail + 1
      /\ \A type, c : \A i \in Queued(type, c)' : GenerationAt(i)' = GenerationAt(i)
      /\ tail + 1 \in (tail + 1)..head
  BY Popped
<1>2. inUse' = inUse /\ nextGeneration' = nextGeneration /\ handles' = handles
  BY DEF control
<1>3. /\ first.bus \in handles /\ first.bus \in Bus /\ b \in Buses /\ b # 0
      /\ g \in Nat /\ g <= nextGeneration[b] /\ first.bus.serial \in Int
      /\ first.bus = BusId(b, g, first.bus.serial)
  BY <1>1 DEF CommandsInv, first, HandlesInv, TypeInv, Bus, BusId
<1>4. tail + 1 \in Queued("create", b) /\ GenerationAt(tail + 1) = g
  BY <1>1 DEF Queued, first, GenerationAt
<1>5. /\ active' \in [Buses -> BOOLEAN] /\ generation' \in [Buses -> Nat]
      /\ gain' \in [Buses -> SUBSET Int] /\ owner' \in [Buses -> Int]
      /\ active'[b] /\ generation'[b] = g /\ owner'[b] = first.bus.serial /\ gain'[b] = {}
      /\ \A c \in Buses \ {b} : /\ active'[c] = active[c] /\ generation'[c] = generation[c]
                                /\ owner'[c] = owner[c] /\ gain'[c] = gain[c]
  BY <1>3 DEF ApplyCreate, TypeInv
<1>6. ~active[b]
  BY <1>1, <1>3, <1>4, QueuedTyped DEF CreationInv, Destroyed
<1> HIDE DEF b, g
<1>7. \A c : tail + 1 \notin Queued("destroy", c)
  BY DEF Queued, first
<1>8. \A c : \A d \in Queued("destroy", c) : d \in Queued("destroy", c)' /\ d > tail + 1
  BY <1>1, <1>7, QueuedTyped
<1>9. \A c \in Buses \ {b} : tail + 1 \notin Queued("create", c)
  BY DEF Queued, first, b
<1>10. SlotsInv'
  <2>1. 0 \in Buses \ {b}
    BY <1>3, BusAssumption DEF Buses
  <2> QED
    BY <1>2, <1>3, <1>5, <2>1 DEF SlotsInv
<1>11. CreationInv'
  <2> SUFFICES ASSUME NEW c \in Buses, NEW i \in Queued("create", c)'
               PROVE  /\ generation'[c] < GenerationAt(i)'
                      /\ active'[c] => \E d \in Queued("destroy", c)' :
                           tail' < d /\ d < i /\ GenerationAt(d)' = generation'[c]
    BY DEF CreationInv, Destroyed
  <2>1. i \in Queued("create", c) /\ tail + 1 < i /\ GenerationAt(i)' = GenerationAt(i)
    BY <1>1
  <2>2. CASE c = b
    <3>1. g < GenerationAt(i) /\ Destroyed(b, g, tail + 1, i)
      BY <1>3, <1>4, <2>1, <2>2 DEF OrderInv
    <3> QED
      BY <1>1, <1>5, <1>8, <2>1, <2>2, <3>1 DEF Destroyed
  <2>3. CASE c # b
    <3>1. generation[c] < GenerationAt(i) /\ (active[c] => Destroyed(c, generation[c], tail, i))
      BY <2>1 DEF CreationInv
    <3> QED
      BY <1>1, <1>5, <1>8, <2>1, <2>3, <3>1 DEF Destroyed
  <2> QED
    BY <2>2, <2>3
<1>12. ReleaseInv'
  <2>1. ASSUME NEW c \in Buses \ {0}, NEW i \in Queued("create", c)'
        PROVE  Holds(c, GenerationAt(i))' \/ \E d \in Queued("destroy", c)' :
                 i < d /\ d < head' + 1 /\ GenerationAt(d)' = GenerationAt(i)'
    <3>1. i \in Queued("create", c) /\ GenerationAt(i)' = GenerationAt(i)
      BY <1>1
    <3>2. Holds(c, GenerationAt(i)) \/ Destroyed(c, GenerationAt(i), i, head + 1)
      BY <3>1 DEF ReleaseInv
    <3> QED
      BY <1>1, <1>2, <1>8, <3>1, <3>2 DEF Holds, Destroyed
  <2>2. ASSUME NEW c \in Buses \ {0}, active'[c]
        PROVE  Holds(c, generation[c])' \/ \E d \in Queued("destroy", c)' :
                 tail' < d /\ d < head' + 1 /\ GenerationAt(d)' = generation'[c]
    <3>1. CASE c = b
      <4>1. Holds(b, g) \/ Destroyed(b, g, tail + 1, head + 1)
        BY <1>3, <1>4 DEF ReleaseInv
      <4> QED
        BY <1>1, <1>2, <1>5, <1>8, <3>1, <4>1 DEF Holds, Destroyed
    <3>2. CASE c # b
      <4>1. Holds(c, generation[c]) \/ Destroyed(c, generation[c], tail, head + 1)
        BY <1>5, <2>2, <3>2 DEF ReleaseInv
      <4> QED
        BY <1>1, <1>2, <1>5, <1>8, <3>2, <4>1 DEF Holds, Destroyed
    <3> QED
      BY <3>1, <3>2
  <2> QED
    BY <2>1, <2>2 DEF ReleaseInv, Destroyed
<1>13. InUseInv'
  <2> SUFFICES ASSUME NEW c \in Buses \ {0}, inUse[c]
               PROVE  \/ \E i \in Queued("create", c)' : GenerationAt(i)' = nextGeneration[c]
                      \/ active'[c] /\ generation'[c] = nextGeneration[c]
    BY <1>2 DEF InUseInv
  <2>1. CASE \E i \in Queued("create", c) : GenerationAt(i) = nextGeneration[c]
    <3>1. PICK i \in Queued("create", c) : GenerationAt(i) = nextGeneration[c]
      BY <2>1
    <3>2. CASE i = tail + 1
      BY <1>4, <1>5, <1>9, <3>1, <3>2
    <3>3. CASE i > tail + 1
      BY <1>1, <3>1, <3>3
    <3> QED
      BY <1>1, <3>1, <3>2, <3>3, QueuedTyped
  <2>2. CASE active[c] /\ generation[c] = nextGeneration[c]
    BY <1>5, <1>6, <2>2
  <2> QED
    BY <2>1, <2>2 DEF InUseInv
<1>14. OwnGain'
  BY <1>5 DEF OwnGain
<1> QED
  BY <1>5, <1>10, <1>11, <1>12, <1>13, <1>14

(* A bus leaves its slot. *)
LEMMA DestroyApplied ==
  ASSUME Inv, Fifo!Pop, UNCHANGED control, first.type = "destroy", ApplyDestroy(first.bus)
  PROVE  /\ SlotsInv' /\ CreationInv' /\ ReleaseInv' /\ InUseInv' /\ OwnGain'
         /\ active' \in [Buses -> BOOLEAN]
<1> USE DEF Inv
<1> DEFINE b == first.bus.index
<1>1. /\ head' = head /\ tail' = tail + 1 /\ tail < head /\ head \in Nat /\ tail \in Nat
      /\ \A type, c, i : i \in Queued(type, c)' <=> i \in Queued(type, c) /\ i > tail + 1
      /\ \A type, c : \A i \in Queued(type, c)' : GenerationAt(i)' = GenerationAt(i)
      /\ tail + 1 \in (tail + 1)..head
  BY Popped
<1>2. inUse' = inUse /\ nextGeneration' = nextGeneration /\ handles' = handles
  BY DEF control
<1>3. b \in Buses /\ b # 0 /\ active[b] /\ generation[b] = first.bus.generation
  BY DEF ApplyDestroy, IsValidTarget
<1>4. /\ active' \in [Buses -> BOOLEAN] /\ ~active'[b]
      /\ \A c \in Buses \ {b} : active'[c] = active[c]
      /\ UNCHANGED <<generation, gain, owner>>
  BY <1>3 DEF ApplyDestroy, TypeInv
<1>5. tail + 1 \in Queued("destroy", b) /\ GenerationAt(tail + 1) = generation[b]
  BY <1>1, <1>3 DEF Queued, first, GenerationAt
<1>6. \A c : tail + 1 \notin Queued("create", c)
  BY DEF Queued, first
<1>7. \A c \in Buses \ {b} : tail + 1 \notin Queued("destroy", c)
  BY DEF Queued, first
<1>8. inUse[b] => generation[b] # nextGeneration[b]
  BY <1>3, <1>5, SlotNumbers DEF DestroysInv
<1> HIDE DEF b
<1>9. SlotsInv'
  <2>1. 0 \in Buses \ {b}
    BY <1>3, BusAssumption DEF Buses
  <2> QED
    BY <1>2, <1>4, <2>1 DEF SlotsInv
<1>10. \A c : \A i \in Queued("create", c) : i \in Queued("create", c)' /\ i > tail + 1
  BY <1>1, <1>6, QueuedTyped
<1>11. \A c \in Buses \ {b} : \A d \in Queued("destroy", c) :
         d \in Queued("destroy", c)' /\ d > tail + 1
  BY <1>1, <1>7, QueuedTyped
<1>12. CreationInv'
  <2> SUFFICES ASSUME NEW c \in Buses, NEW i \in Queued("create", c)'
               PROVE  /\ generation[c] < GenerationAt(i)'
                      /\ active'[c] => \E d \in Queued("destroy", c)' :
                           tail' < d /\ d < i /\ GenerationAt(d)' = generation[c]
    BY <1>4 DEF CreationInv, Destroyed
  <2>1. i \in Queued("create", c) /\ GenerationAt(i)' = GenerationAt(i)
    BY <1>1
  <2>2. generation[c] < GenerationAt(i) /\ (active[c] => Destroyed(c, generation[c], tail, i))
    BY <2>1 DEF CreationInv
  <2> QED
    BY <1>1, <1>4, <1>11, <2>1, <2>2 DEF Destroyed
<1>13. ReleaseInv'
  <2>1. ASSUME NEW c \in Buses \ {0}, NEW i \in Queued("create", c)'
        PROVE  Holds(c, GenerationAt(i))' \/ \E d \in Queued("destroy", c)' :
                 i < d /\ d < head' + 1 /\ GenerationAt(d)' = GenerationAt(i)'
    <3>1. i \in Queued("create", c) /\ GenerationAt(i)' = GenerationAt(i) /\ i > tail + 1
      BY <1>1
    <3>2. Holds(c, GenerationAt(i)) \/ Destroyed(c, GenerationAt(i), i, head + 1)
      BY <3>1 DEF ReleaseInv
    <3> QED
      BY <1>1, <1>2, <3>1, <3>2, QueuedTyped DEF Holds, Destroyed
  <2>2. ASSUME NEW c \in Buses \ {0}, active'[c]
        PROVE  Holds(c, generation[c])' \/ \E d \in Queued("destroy", c)' :
                 tail' < d /\ d < head' + 1 /\ GenerationAt(d)' = generation[c]
    <3>1. c # b /\ active[c]
      BY <1>4, <2>2
    <3>2. Holds(c, generation[c]) \/ Destroyed(c, generation[c], tail, head + 1)
      BY <3>1 DEF ReleaseInv
    <3> QED
      BY <1>1, <1>2, <1>4, <1>11, <3>1, <3>2 DEF Holds, Destroyed
  <2> QED
    BY <1>4, <2>1, <2>2 DEF ReleaseInv, Destroyed
<1>14. InUseInv'
  BY <1>1, <1>2, <1>4, <1>8, <1>10 DEF InUseInv
<1>15. OwnGain'
  BY <1>4 DEF OwnGain
<1> QED
  BY <1>4, <1>9, <1>12, <1>13, <1>14, <1>15

(* A gain reaches the bus it was sent to: no other bus of the slot has its *)
(* generation.                                                             *)
LEMMA GainApplied ==
  ASSUME Inv, NEW bus \in handles, ApplyGain(bus)
  PROVE  /\ OwnGain' /\ gain' \in [Buses -> SUBSET Int]
         /\ UNCHANGED <<active, generation, owner>>
<1> USE DEF Inv
<1> DEFINE b == bus.index
<1>1. b \in Buses /\ active[b] /\ generation[b] = bus.generation /\ bus.serial \in Int
  BY DEF ApplyGain, IsValidTarget, TypeInv, Bus
<1>2. BusId(b, generation[b], owner[b]) \in handles
  BY <1>1 DEF SlotsInv
<1>3. bus.serial = owner[b]
  BY <1>1, <1>2 DEF HandlesInv, BusId
<1>4. /\ gain' \in [Buses -> SUBSET Int] /\ gain'[b] = {owner[b]}
      /\ \A c \in Buses \ {b} : gain'[c] = gain[c]
      /\ UNCHANGED <<active, generation, owner>>
  BY <1>1, <1>3 DEF ApplyGain, TypeInv
<1> QED
  BY <1>4 DEF OwnGain

(* A command from the queue is kept for later, or applied. *)
LEMMA CommandPopped ==
  ASSUME Inv, PopScheduled \/ PopImmediate
  PROVE  Inv'
<1>1. Fifo!Pop /\ UNCHANGED control /\ first \in Command
  BY Popped DEF PopScheduled, PopImmediate, first, Inv
<1>2. /\ HandlesInv' /\ CommandsInv' /\ DestroysInv' /\ OrderInv'
      /\ inUse' \in [Buses -> BOOLEAN] /\ nextGeneration' \in [Buses -> Nat]
      /\ creates' \in Nat /\ handles' \subseteq Bus
      /\ head' \in Nat /\ tail' \in Nat /\ tail' <= head'
      /\ queue' \in [(tail' + 1)..head' -> Command]
      /\ heap' \subseteq Command
  BY <1>1, PopCommands DEF PopScheduled, PopImmediate, first
<1>3. first.type # "route" => first.bus \in handles
  BY <1>1, Popped DEF Inv, CommandsInv, first
<1>4. first.scheduled => first.type = "gain"
  BY <1>1, Popped DEF Inv, CommandsInv, first, Command
<1>5. CASE PopScheduled
  <2>1. first.type = "gain" /\ UNCHANGED <<active, generation, gain, owner>>
    BY <1>4, <1>5 DEF PopScheduled, first, slots
  <2>2. SlotsInv' /\ CreationInv' /\ ReleaseInv' /\ InUseInv'
    BY <1>1, <2>1, QuietPop
  <2> QED
    BY <1>2, <2>1, <2>2 DEF Inv, TypeInv, OwnGain
<1>6. CASE PopImmediate
  <2>1. ApplyCommand(first)
    BY <1>6 DEF PopImmediate, first
  <2>2. CASE first.type = "create" /\ ApplyCreate(first.bus)
    BY <1>1, <1>2, <2>2, CreateApplied DEF Inv, TypeInv
  <2>3. CASE first.type = "destroy" /\ ApplyDestroy(first.bus)
    <3>1. UNCHANGED <<generation, gain, owner>>
      BY <2>3 DEF ApplyDestroy
    <3> QED
      BY <1>1, <1>2, <2>3, <3>1, DestroyApplied DEF Inv, TypeInv
  <2>4. CASE first.type = "gain" /\ ApplyGain(first.bus)
    <3>1. OwnGain' /\ gain' \in [Buses -> SUBSET Int] /\ UNCHANGED <<active, generation, owner>>
      BY <1>3, <2>4, GainApplied
    <3>2. SlotsInv' /\ CreationInv' /\ ReleaseInv' /\ InUseInv'
      BY <1>1, <2>4, <3>1, QuietPop
    <3> QED
      BY <1>2, <3>1, <3>2 DEF Inv, TypeInv
  <2>5. CASE (first.type = "route" /\ ApplyRoute(first.voice, first.bus)) \/ Ignored(first)
    <3>1. UNCHANGED <<active, generation, gain, owner>>
      BY <2>5 DEF ApplyRoute, Ignored, slots
    <3>2. first.type # "create" /\ (first.type = "destroy" => ~IsValidTarget(first.bus))
      BY <1>1, <2>5, Popped DEF Ignored, Accepts, Inv, CommandsInv, first
    <3>3. SlotsInv' /\ CreationInv' /\ ReleaseInv' /\ InUseInv'
      BY <1>1, <3>1, <3>2, QuietPop
    <3> QED
      BY <1>2, <3>1, <3>3 DEF Inv, TypeInv, OwnGain
  <2> QED
    BY <2>1, <2>2, <2>3, <2>4, <2>5 DEF ApplyCommand
<1> QED
  BY <1>5, <1>6

(* A scheduled gain is applied, or comes too late. *)
LEMMA EventPopped ==
  ASSUME Inv, PopEvent
  PROVE  Inv'
<1>1. PICK command \in heap : heap' = heap \ {command} /\ ApplyCommand(command)
  BY DEF PopEvent
<1>2. command.type = "gain" /\ command.bus \in handles
  BY <1>1 DEF Inv, CommandsInv
<1>3. UNCHANGED <<inUse, nextGeneration, creates, handles, queue, head, tail>>
  BY DEF PopEvent, control, pipe
<1>4. /\ OwnGain' /\ gain' \in [Buses -> SUBSET Int] /\ UNCHANGED <<active, generation, owner>>
  <2>1. CASE ApplyGain(command.bus)
    BY <1>2, <2>1, GainApplied
  <2>2. CASE Ignored(command)
    BY <2>2 DEF Ignored, slots, Inv, OwnGain, TypeInv
  <2> QED
    BY <1>1, <1>2, <2>1, <2>2 DEF ApplyCommand
<1>5. TypeInv' /\ CommandsInv'
  BY <1>1, <1>3, <1>4 DEF Inv, TypeInv, CommandsInv
<1>6. HandlesInv' /\ SlotsInv'
  BY <1>3, <1>4 DEF Inv, HandlesInv, SlotsInv
<1>7. CreationInv' /\ OrderInv' /\ ReleaseInv' /\ DestroysInv' /\ InUseInv'
  BY <1>3, <1>4 DEF Inv, CreationInv, OrderInv, ReleaseInv, DestroysInv, InUseInv, Holds,
     Destroyed, Queued, GenerationAt
<1> QED
  BY <1>4, <1>5, <1>6, <1>7 DEF Inv

(* A step that changes none of the slots, commands and handles. *)
LEMMA Quiet ==
  ASSUME Inv, UNCHANGED <<control, pipe, heap, slots>>
  PROVE  Inv'
<1>1. UNCHANGED <<inUse, nextGeneration, creates, handles, queue, head, tail, heap, active,
                  generation, gain, owner>>
  BY DEF control, pipe, slots
<1>2. TypeInv' /\ CommandsInv' /\ HandlesInv' /\ SlotsInv' /\ OwnGain'
  BY <1>1 DEF Inv, TypeInv, CommandsInv, HandlesInv, SlotsInv, OwnGain
<1>3. CreationInv' /\ OrderInv' /\ ReleaseInv' /\ DestroysInv' /\ InUseInv'
  BY <1>1 DEF Inv, CreationInv, OrderInv, ReleaseInv, DestroysInv, InUseInv, Holds,
     Destroyed, Queued, GenerationAt
<1> QED
  BY <1>2, <1>3 DEF Inv

(* Every step preserves the invariant. *)
LEMMA InvStep == Inv /\ [Next]_vars => Inv'
<1> SUFFICES ASSUME Inv, [Next]_vars
             PROVE  Inv'
  OBVIOUS
<1>1. ASSUME NEW b \in Buses, CreateBus(b)
      PROVE  Inv'
  BY <1>1, BusCreated
<1>2. ASSUME NEW b \in Buses, CreateBusRollsBack(b)
      PROVE  Inv'
  BY <1>2, CreationRolledBack
<1>3. ASSUME NEW bus \in handles, DestroyBus(bus)
      PROVE  Inv'
  BY <1>3, BusDestroyed
<1>4. ASSUME NEW bus \in handles, SetBusGain(bus)
      PROVE  Inv'
  <2>1. PICK scheduled \in BOOLEAN : Submit("gain", bus, 0, scheduled)
    BY <1>4 DEF SetBusGain
  <2> DEFINE command == CommandFor("gain", bus, 0, scheduled)
  <2>2. command \in Command /\ command.type = "gain" /\ command.bus = bus
    BY DEF CommandFor, Command, Inv, TypeInv
  <2>3. Fifo!Push(command) /\ UNCHANGED <<control, heap, slots>>
    BY <1>4, <2>1 DEF Submit, SetBusGain, control
  <2> HIDE DEF command
  <2> QED
    BY <2>2, <2>3, QuietPush
<1>5. ASSUME NEW v \in Voices, NEW bus \in handles \cup {NoBusId}, SetVoiceBus(v, bus)
      PROVE  Inv'
  <2> DEFINE command == CommandFor("route", bus, v, FALSE)
  <2>1. bus \in Bus
    BY BusAssumption DEF NoBusId, BusId, Bus, Inv, TypeInv
  <2>2. command \in Command /\ command.type = "route" /\ ~command.scheduled
    BY <2>1, BusAssumption DEF CommandFor, Command, Inv, TypeInv, Voices
  <2>3. Fifo!Push(command) /\ UNCHANGED <<control, heap, slots>>
    BY <1>5 DEF Submit, SetVoiceBus, control
  <2> HIDE DEF command
  <2> QED
    BY <2>2, <2>3, QuietPush
<1>6. CASE PopScheduled \/ PopImmediate
  BY <1>6, CommandPopped
<1>7. CASE PopEvent
  BY <1>7, EventPopped
<1>8. CASE RenderVoicesAndBuses \/ UNCHANGED vars
  BY <1>8, Quiet DEF RenderVoicesAndBuses, vars
<1> QED
  BY <1>1, <1>2, <1>3, <1>4, <1>5, <1>6, <1>7, <1>8 DEF Next

(* The invariant holds in every reachable state. *)
LEMMA Invariant == Spec => []Inv
BY InvInit, InvStep, PTL DEF Spec

(* BusSlotsAgree: a creation finds its slot inactive; a slot in use has    *)
(* its bus or is about to, and one that is not in use is inactive or about *)
(* to be; the master is always there.                                      *)
THEOREM SlotsAreAgreed == Spec => []BusSlotsAgree
<1>1. Inv => BusSlotsAgree
  <2> SUFFICES ASSUME Inv
               PROVE  BusSlotsAgree
    OBVIOUS
  <2> USE DEF Inv
  <2>1. inUse[0] /\ active[0]
    BY DEF SlotsInv
  <2>2. ASSUME NEW b \in Buses \ {0}, tail + 1 \in Queued("create", b)
        PROVE  ~active[b]
    BY <2>2, QueuedTyped DEF CreationInv, Destroyed, TypeInv
  <2>3. ASSUME NEW b \in Buses \ {0}, inUse[b]
        PROVE  \/ \E i \in Queued("create", b) : queue[i].bus.generation = nextGeneration[b]
               \/ active[b] /\ generation[b] = nextGeneration[b]
    BY <2>3 DEF InUseInv, GenerationAt
  <2>4. ASSUME NEW b \in Buses \ {0}, ~inUse[b]
        PROVE  \/ ~active[b]
               \/ \E i \in Queued("destroy", b) : queue[i].bus.generation = generation[b]
    BY <2>4 DEF ReleaseInv, Holds, Destroyed, GenerationAt
  <2> QED
    BY <2>1, <2>2, <2>3, <2>4 DEF BusSlotsAgree
<1> QED
  BY <1>1, Invariant, PTL

(* OwnGain: a bus has the gain it was given or 1.0, never one that was     *)
(* meant for another bus of its slot.                                      *)
THEOREM GainsAreOwn == Spec => []OwnGain
<1>1. Inv => OwnGain
  BY DEF Inv
<1> QED
  BY <1>1, Invariant, PTL

-----------------------------------------------------------------------------
(* The mix.  Serials tell the buses apart, a voice names a bus that the    *)
(* application was given or none, and the accumulators hold sounds.        *)
Sound == [voice : Nat, through : Int]

SerialsInv ==
  /\ \A bus \in handles : bus.serial \in 0..creates
  /\ \A a, b \in handles : a.serial = b.serial => a = b

Targets == handles \cup {NoBusId}

RoutesInv ==
  /\ \A i \in (tail + 1)..head :
       queue[i].type = "route" => queue[i].bus \in Targets /\ queue[i].voice \in Voices
  /\ target \in [Voices -> Targets]

Accumulators == [Buses -> Seq(Sound)]

MixInv == SerialsInv /\ RoutesInv /\ accumulator \in Accumulators

(* A voice resolves to the bus it names, or to the master: to one that is  *)
(* active, and whose serial tells which it is.                             *)
LEMMA Resolved ==
  ASSUME Inv, MixInv, NEW v \in Voices
  PROVE  LET b == ResolveBusIndex(target[v])
         IN  /\ b \in Buses /\ active[b]
             /\ Destination(v) = IF b = 0 THEN 0 ELSE owner[b]
<1> DEFINE bus == target[v]
<1>1. bus \in Targets
  BY DEF MixInv, RoutesInv
<1> HIDE DEF bus
<1>2. 0 \in Buses /\ active[0] /\ \A b \in Buses : generation[b] \in Nat
  BY BusAssumption DEF Inv, TypeInv, SlotsInv, Buses
<1>3. ASSUME NEW b \in Buses, active[b]
      PROVE  /\ BusId(b, generation[b], owner[b]) \in handles
             /\ \A h \in handles : h.serial = owner[b] =>
                  h.index = b /\ h.generation = generation[b]
             /\ \A h \in handles : h.index = b /\ h.generation = generation[b] =>
                  h.serial = owner[b]
  <2>1. BusId(b, generation[b], owner[b]) \in handles
    BY <1>3 DEF Inv, SlotsInv
  <2> DEFINE h0 == BusId(b, generation[b], owner[b])
  <2>2. h0.index = b /\ h0.generation = generation[b] /\ h0.serial = owner[b]
    BY DEF BusId
  <2> HIDE DEF h0
  <2>3. \A h \in handles : h.serial = h0.serial => h = h0
    BY <2>1 DEF MixInv, SerialsInv, h0
  <2>4. \A h \in handles : h.index = h0.index /\ h.generation = h0.generation => h = h0
    BY <2>1 DEF Inv, HandlesInv, h0
  <2> QED
    BY <2>1, <2>2, <2>3, <2>4
<1>4. owner[0] = 0
  <2>1. BusId(0, generation[0], owner[0]) = kMasterBusId
    BY <1>2, <1>3 DEF Inv, HandlesInv, BusId
  <2> QED
    BY <2>1 DEF kMasterBusId, BusId
<1>5. CASE IsValidTarget(bus)
  <2>1. bus.index \in Buses /\ active[bus.index] /\ generation[bus.index] = bus.generation
    BY <1>5 DEF IsValidTarget
  <2>2. bus \in handles
    <3>1. ~(MaxUserBuses + 1 \in Buses)
      BY BusAssumption DEF Buses
    <3> QED
      BY <1>1, <2>1, <3>1 DEF Targets, NoBusId, BusId
  <2>3. owner[bus.index] = bus.serial
    BY <1>3, <2>1, <2>2
  <2>4. Destination(v) = bus.serial
    BY <2>1, <2>3 DEF Destination, bus
  <2>5. ResolveBusIndex(bus) = bus.index
    BY <1>5 DEF ResolveBusIndex
  <2> QED
    BY <1>4, <2>1, <2>3, <2>4, <2>5 DEF bus
<1>6. CASE ~IsValidTarget(bus)
  <2>1. ResolveBusIndex(bus) = 0
    BY <1>6 DEF ResolveBusIndex
  <2>2. ASSUME NEW b \in Buses, active[b], owner[b] = bus.serial PROVE FALSE
    <3>1. CASE bus \in handles
      <4>1. bus.index = b /\ bus.generation = generation[b]
        BY <1>3, <2>2, <3>1
      <4> QED
        BY <1>6, <2>2, <4>1 DEF IsValidTarget
    <3>2. CASE bus = NoBusId
      <4>1. BusId(b, generation[b], owner[b]) \in handles
        BY <1>3, <2>2
      <4>2. BusId(b, generation[b], owner[b]).serial = -1
        BY <2>2, <3>2 DEF NoBusId, BusId
      <4>3. \A h \in handles : h.serial # -1
        BY DEF MixInv, SerialsInv
      <4> QED
        BY <4>1, <4>2, <4>3
    <3> QED
      BY <1>1, <3>1, <3>2 DEF Targets
  <2>3. Destination(v) = 0
    BY <2>2 DEF Destination, bus
  <2> QED
    BY <1>2, <2>1, <2>3 DEF bus
<1> QED
  BY <1>5, <1>6

(* The sounds of an accumulator. *)
SoundsIn(s) == {s[n] : n \in DOMAIN s}

LEMMA SoundsAppended ==
  ASSUME NEW s \in Seq(Sound), NEW x \in Sound
  PROVE  /\ Append(s, x) \in Seq(Sound) /\ Len(Append(s, x)) = Len(s) + 1
         /\ SoundsIn(Append(s, x)) = SoundsIn(s) \cup {x}
<1> DEFINE t == Append(s, x)
<1>1. t \in Seq(Sound) /\ Len(t) = Len(s) + 1 /\ Len(s) \in Nat
  OBVIOUS
<1>2. DOMAIN t = 1..(Len(s) + 1) /\ DOMAIN s = 1..Len(s)
  OBVIOUS
<1>3. t[Len(s) + 1] = x /\ \A n \in 1..Len(s) : t[n] = s[n]
  OBVIOUS
<1> HIDE DEF t
<1>4. \A n \in 1..(Len(s) + 1) : n \in 1..Len(s) \/ n = Len(s) + 1
  BY <1>1
<1>5. \A n \in 1..Len(s) : n \in 1..(Len(s) + 1)
  BY <1>1
<1>6. Len(s) + 1 \in 1..(Len(s) + 1)
  BY <1>1
<1>7. SoundsIn(t) = SoundsIn(s) \cup {x}
  BY <1>2, <1>3, <1>4, <1>5, <1>6 DEF SoundsIn
<1> QED
  BY <1>1, <1>7 DEF t

LEMMA SoundsJoined ==
  ASSUME NEW s \in Seq(Sound), NEW t \in Seq(Sound)
  PROVE  /\ s \o t \in Seq(Sound) /\ Len(s \o t) = Len(s) + Len(t)
         /\ SoundsIn(s \o t) = SoundsIn(s) \cup SoundsIn(t)
<1> DEFINE u == s \o t
<1>1. u \in Seq(Sound) /\ Len(u) = Len(s) + Len(t) /\ Len(s) \in Nat /\ Len(t) \in Nat
  OBVIOUS
<1>2. DOMAIN u = 1..(Len(s) + Len(t)) /\ DOMAIN s = 1..Len(s) /\ DOMAIN t = 1..Len(t)
  OBVIOUS
<1>3. \A n \in 1..Len(s) : u[n] = s[n] /\ n \in 1..(Len(s) + Len(t))
  OBVIOUS
<1>4. ASSUME NEW n \in 1..Len(t) PROVE u[Len(s) + n] = t[n] /\ Len(s) + n \in 1..(Len(s) + Len(t))
  <2>1. /\ Len(s) + n \in 1..(Len(s) + Len(t)) /\ ~(Len(s) + n <= Len(s))
        /\ (Len(s) + n) - Len(s) = n
    BY <1>1
  <2> QED
    BY <2>1
<1> HIDE DEF u
<1>5. ASSUME NEW n \in 1..(Len(s) + Len(t)), ~(n \in 1..Len(s))
      PROVE  \E m \in 1..Len(t) : n = Len(s) + m
  <2>1. n - Len(s) \in 1..Len(t) /\ n = Len(s) + (n - Len(s))
    BY <1>1, <1>5
  <2> QED
    BY <2>1
<1>6. ASSUME NEW x \in SoundsIn(u) PROVE x \in SoundsIn(s) \cup SoundsIn(t)
  <2>1. PICK n \in 1..(Len(s) + Len(t)) : x = u[n]
    BY <1>2 DEF SoundsIn
  <2>2. CASE n \in 1..Len(s)
    BY <1>2, <1>3, <2>1, <2>2 DEF SoundsIn
  <2>3. CASE ~(n \in 1..Len(s))
    <3>1. PICK m \in 1..Len(t) : n = Len(s) + m
      BY <1>5, <2>3
    <3> QED
      BY <1>2, <1>4, <2>1, <3>1 DEF SoundsIn
  <2> QED
    BY <2>2, <2>3
<1>7. \A x : x \in SoundsIn(s) \cup SoundsIn(t) => x \in SoundsIn(u)
  BY <1>2, <1>3, <1>4 DEF SoundsIn
<1> QED
  BY <1>1, <1>6, <1>7 DEF u

LEMMA SoundsThrough ==
  ASSUME NEW s \in Seq(Sound), NEW serial \in Int
  PROVE  /\ Through(s, serial) \in Seq(Sound) /\ Len(Through(s, serial)) = Len(s)
         /\ SoundsIn(Through(s, serial)) =
              {[voice |-> x.voice, through |-> serial] : x \in SoundsIn(s)}
<1> DEFINE t == Through(s, serial)
<1>1. DOMAIN s = 1..Len(s) /\ Len(s) \in Nat
  OBVIOUS
<1>2. t = [n \in 1..Len(s) |-> [s[n] EXCEPT !.through = serial]]
  BY <1>1 DEF Through
<1> HIDE DEF t
<1>3. ASSUME NEW n \in 1..Len(s)
      PROVE  t[n] = [voice |-> s[n].voice, through |-> serial] /\ t[n] \in Sound
  <2>1. s[n] \in Sound
    BY <1>1
  <2>2. [s[n] EXCEPT !.through = serial] = [voice |-> s[n].voice, through |-> serial]
    BY <2>1 DEF Sound
  <2> QED
    BY <1>2, <2>1, <2>2 DEF Sound
<1>4. t \in [1..Len(s) -> Sound]
  BY <1>2, <1>3
<1>5. t \in Seq(Sound) /\ Len(t) = Len(s) /\ DOMAIN t = 1..Len(s)
  BY <1>1, <1>4
<1>6. SoundsIn(t) = {[voice |-> x.voice, through |-> serial] : x \in SoundsIn(s)}
  BY <1>1, <1>3, <1>5 DEF SoundsIn
<1> QED
  BY <1>5, <1>6 DEF t

Dest(v) == ResolveBusIndex(target[v])
Raw(v) == [voice |-> v, through |-> 0]
Into(b, n) == {v \in 1..n : Dest(v) = b}
MixStep ==
  [p \in Nat \X Accumulators |->
     [p[2] EXCEPT ![Dest(p[1] + 1)] = Append(@, Raw(p[1] + 1))]]

IsMix(mix) ==
  /\ mix \in [0..VoiceCount -> Accumulators]
  /\ mix[0] = Cleared
  /\ \A v \in 0..(VoiceCount - 1) :
       mix[v + 1] = [mix[v] EXCEPT ![Dest(v + 1)] = Append(@, Raw(v + 1))]

(* The voices are added one after the other.                               *)
LEMMA WithVoicesIs ==
  ASSUME accumulator \in Accumulators
  PROVE  \E mix : IsMix(mix) /\ WithVoices = mix[VoiceCount]
<1> DEFINE Is(m) ==
             m = [v \in 0..VoiceCount |->
                    IF v = 0 THEN Cleared
                    ELSE [m[v - 1] EXCEPT ![ResolveBusIndex(target[v])] =
                            Append(@, [voice |-> v, through |-> 0])]]
           next == MixStep
<1>1. VoiceCount \in Nat
  BY BusAssumption DEF BusAssumption
<1>2. Cleared \in Accumulators
  BY DEF Cleared, Accumulators
<1>3. \A v : Dest(v) \in Buses
  <2>1. 0 \in Buses
    BY BusAssumption DEF BusAssumption, Buses
  <2> QED
    BY <2>1 DEF Dest, ResolveBusIndex, IsValidTarget
<1>4. next \in [Nat \X Accumulators -> Accumulators]
  <2>1. ASSUME NEW v \in Nat, NEW acc \in Accumulators
        PROVE  [acc EXCEPT ![Dest(v + 1)] = Append(@, Raw(v + 1))] \in Accumulators
    <3>1. Raw(v + 1) \in Sound
      BY DEF Raw, Sound
    <3>2. acc[Dest(v + 1)] \in Seq(Sound)
      BY <1>3 DEF Accumulators
    <3>3. Append(acc[Dest(v + 1)], Raw(v + 1)) \in Seq(Sound)
      BY <3>1, <3>2
    <3> QED
      BY <3>3 DEF Accumulators
  <2> QED
    BY <2>1 DEF MixStep
<1>5. \A v \in Nat, acc \in Accumulators :
        next[<<v, acc>>] = [acc EXCEPT ![Dest(v + 1)] = Append(@, Raw(v + 1))]
  BY DEF MixStep
<1> HIDE DEF next
<1>6. PICK m \in [0..VoiceCount -> Accumulators] : Runs(m, VoiceCount, Cleared, next)
  BY <1>1, <1>2, <1>4, RecursionTo
<1>7. m[0] = Cleared /\ \A v \in 0..(VoiceCount - 1) :
        m[v + 1] = [m[v] EXCEPT ![Dest(v + 1)] = Append(@, Raw(v + 1))]
  <2>1. ASSUME NEW v \in 0..(VoiceCount - 1) PROVE v \in Nat /\ m[v] \in Accumulators
    BY <1>1
  <2> QED
    BY <1>5, <1>6, <2>1 DEF Runs
<1>8. Is(m)
  <2>1. ASSUME NEW v \in 0..VoiceCount
        PROVE  m[v] = IF v = 0 THEN Cleared
                      ELSE [m[v - 1] EXCEPT ![ResolveBusIndex(target[v])] =
                              Append(@, [voice |-> v, through |-> 0])]
    <3>1. CASE v = 0
      BY <1>7, <3>1
    <3>2. CASE v # 0
      <4>1. v - 1 \in 0..(VoiceCount - 1) /\ (v - 1) + 1 = v
        BY <1>1, <3>2
      <4> QED
        BY <1>7, <3>2, <4>1 DEF Dest, Raw
    <3> QED
      BY <3>1, <3>2
  <2> QED
    BY <1>6, <2>1
<1> DEFINE mix == CHOOSE d : Is(d)
<1>9. WithVoices = mix[VoiceCount]
  BY DEF WithVoices
<1> HIDE DEF Is
<1>10. Is(mix)
  BY <1>8
<1> HIDE DEF mix
<1>11. mix = [v \in 0..VoiceCount |->
                IF v = 0 THEN Cleared
                ELSE [mix[v - 1] EXCEPT ![ResolveBusIndex(target[v])] =
                        Append(@, [voice |-> v, through |-> 0])]]
  BY <1>10 DEF Is
<1>12. \A v \in 0..VoiceCount : mix[v] = m[v]
  <2>1. mix[0] = m[0]
    BY <1>1, <1>7, <1>11
  <2>2. ASSUME NEW v \in 0..(VoiceCount - 1), mix[v] = m[v] PROVE mix[v + 1] = m[v + 1]
    <3>1. v + 1 \in 0..VoiceCount /\ v + 1 # 0 /\ (v + 1) - 1 = v
      BY <1>1
    <3>2. mix[v + 1] = [mix[v] EXCEPT ![Dest(v + 1)] = Append(@, Raw(v + 1))]
      BY <1>11, <3>1 DEF Dest, Raw
    <3> QED
      BY <1>7, <2>2, <3>2
  <2>3. Alike(mix, m, VoiceCount)
    BY <1>1, <2>1, <2>2 DEF Alike
  <2> QED
    BY <1>1, <2>3, Agree
<1>13. mix = m
  BY <1>6, <1>11, <1>12
<1> QED
  BY <1>6, <1>7, <1>9, <1>13 DEF IsMix

(* A bus that is active gets the voices that resolve to it, each once.     *)
Carries(s, b, n) ==
  /\ s \in Seq(Sound)
  /\ IsFiniteSet(Into(b, n)) /\ Len(s) = Cardinality(Into(b, n))
  /\ SoundsIn(s) = {Raw(v) : v \in Into(b, n)}

LEMMA VoicesCarried ==
  ASSUME accumulator \in Accumulators
  PROVE  /\ WithVoices \in Accumulators
         /\ \A b \in Buses : active[b] => Carries(WithVoices[b], b, VoiceCount)
<1>1. VoiceCount \in Nat
  BY BusAssumption DEF BusAssumption
<1>2. PICK mix : IsMix(mix) /\ WithVoices = mix[VoiceCount]
  BY WithVoicesIs
<1>3. /\ mix \in [0..VoiceCount -> Accumulators]
      /\ mix[0] = Cleared
      /\ \A v \in 0..(VoiceCount - 1) :
           mix[v + 1] = [mix[v] EXCEPT ![Dest(v + 1)] = Append(@, Raw(v + 1))]
  BY <1>2 DEF IsMix
<1>4. ASSUME NEW b \in Buses, active[b] PROVE Carries(mix[VoiceCount][b], b, VoiceCount)
  <2> DEFINE S == {v \in 0..VoiceCount : Carries(mix[v][b], b, v)}
  <2>1. 0 \in S
    <3>1. mix[0][b] = <<>>
      BY <1>3, <1>4 DEF Cleared
    <3>2. Into(b, 0) = {}
      BY DEF Into
    <3>3. IsFiniteSet({}) /\ Cardinality({}) = 0
      BY FS_EmptySet
    <3>4. SoundsIn(<<>>) = {}
      BY DEF SoundsIn
    <3>5. Carries(mix[0][b], b, 0)
      <4>1. <<>> \in Seq(Sound) /\ Len(<<>>) = 0
        OBVIOUS
      <4>2. {Raw(v) : v \in {}} = {}
        OBVIOUS
      <4> QED
        BY <3>1, <3>2, <3>3, <3>4, <4>1, <4>2 DEF Carries
    <3> QED
      BY <1>1, <3>5
  <2>2. ASSUME NEW v \in 0..(VoiceCount - 1), v \in S PROVE v + 1 \in S
    <3>1. /\ v \in Nat /\ v + 1 \in 0..VoiceCount /\ mix[v] \in Accumulators
          /\ Carries(mix[v][b], b, v)
      BY <1>1, <1>3, <2>2
    <3>2. mix[v + 1] = [mix[v] EXCEPT ![Dest(v + 1)] = Append(@, Raw(v + 1))]
      BY <1>3
    <3> DEFINE s == mix[v][b]
               t == mix[v + 1][b]
               old == Into(b, v)
               new == Into(b, v + 1)
    <3>3. /\ s \in Seq(Sound)
          /\ IsFiniteSet(old) /\ Len(s) = Cardinality(old)
          /\ SoundsIn(s) = {Raw(u) : u \in old}
      BY <3>1 DEF Carries
    <3>4. CASE Dest(v + 1) = b
      <4>1. t = Append(s, Raw(v + 1))
        BY <3>1, <3>2, <3>4 DEF Accumulators
      <4>2. new = old \cup {v + 1} /\ v + 1 \notin old
        BY <3>1, <3>4 DEF Into
      <4>3. Raw(v + 1) \in Sound
        BY <3>1 DEF Raw, Sound
      <4> HIDE DEF s, t, old, new
      <4>4. IsFiniteSet(new) /\ Cardinality(new) = Cardinality(old) + 1
        BY <3>3, <4>2, FS_AddElement
      <4>5. t \in Seq(Sound) /\ Len(t) = Len(s) + 1 /\ SoundsIn(t) = SoundsIn(s) \cup {Raw(v + 1)}
        BY <3>3, <4>1, <4>3, SoundsAppended
      <4>6. SoundsIn(t) = {Raw(u) : u \in new}
        BY <3>3, <4>2, <4>5
      <4>7. Carries(mix[v + 1][b], b, v + 1)
        BY <3>3, <4>4, <4>5, <4>6 DEF Carries, t, new
      <4> QED
        BY <3>1, <4>7
    <3>5. CASE Dest(v + 1) # b
      <4>1. t = s
        BY <3>1, <3>2, <3>5 DEF Accumulators
      <4>2. new = old
        BY <3>1, <3>5 DEF Into
      <4>3. Carries(mix[v + 1][b], b, v + 1)
        BY <3>3, <4>1, <4>2 DEF Carries
      <4> QED
        BY <3>1, <4>3
    <3> QED
      BY <3>4, <3>5
  <2> HIDE DEF S
  <2>3. \A v \in 0..VoiceCount : v \in S
    BY <1>1, <2>1, <2>2, InductionTo
  <2>4. VoiceCount \in S
    BY <1>1, <2>3
  <2> QED
    BY <2>4 DEF S
<1>5. WithVoices \in Accumulators
  BY <1>1, <1>2, <1>3
<1> QED
  BY <1>2, <1>4, <1>5

Final(v) == [voice |-> v, through |-> IF Dest(v) = 0 THEN 0 ELSE owner[Dest(v)]]
UpTo(b) == {v \in Voices : Dest(v) <= b}
SumStep ==
  [p \in Nat \X Seq(Sound) |->
     IF p[1] + 1 \in Buses /\ active[p[1] + 1]
     THEN p[2] \o Through(WithVoices[p[1] + 1], owner[p[1] + 1]) ELSE p[2]]

IsSum(sum) ==
  /\ sum \in [Buses -> Seq(Sound)]
  /\ sum[0] = WithVoices[0]
  /\ \A b \in 0..(MaxUserBuses - 1) :
       sum[b + 1] = IF active[b + 1]
                    THEN sum[b] \o Through(WithVoices[b + 1], owner[b + 1]) ELSE sum[b]

(* The active buses are added one after the other.                         *)
LEMMA SumIs ==
  ASSUME WithVoices \in Accumulators, owner \in [Buses -> Int]
  PROVE  \E sum : IsSum(sum) /\ Mixed = [WithVoices EXCEPT ![0] = sum[MaxUserBuses]]
<1> DEFINE with == WithVoices
           Is(s) ==
             s = [b \in Buses |->
                    IF b = 0 THEN with[0]
                    ELSE IF active[b] THEN s[b - 1] \o Through(with[b], owner[b])
                    ELSE s[b - 1]]
           next == SumStep
<1>1. MaxUserBuses \in Nat /\ Buses = 0..MaxUserBuses /\ 0 \in Buses
  BY BusAssumption DEF BusAssumption, Buses
<1>2. with[0] \in Seq(Sound)
  BY <1>1 DEF Accumulators
<1>3. next \in [Nat \X Seq(Sound) -> Seq(Sound)]
  <2>1. ASSUME NEW b \in Nat, NEW s \in Seq(Sound)
        PROVE  (IF b + 1 \in Buses /\ active[b + 1]
                THEN s \o Through(with[b + 1], owner[b + 1]) ELSE s) \in Seq(Sound)
    <3>1. CASE b + 1 \in Buses
      <4>1. with[b + 1] \in Seq(Sound) /\ owner[b + 1] \in Int
        BY <3>1 DEF Accumulators
      <4>2. Through(with[b + 1], owner[b + 1]) \in Seq(Sound)
        BY <4>1, SoundsThrough
      <4> QED
        BY <4>2
    <3> QED
      BY <3>1
  <2> QED
    BY <2>1 DEF SumStep
<1>4. \A b \in Nat, s \in Seq(Sound) :
        next[<<b, s>>] = IF b + 1 \in Buses /\ active[b + 1]
                         THEN s \o Through(with[b + 1], owner[b + 1]) ELSE s
  BY DEF SumStep
<1> HIDE DEF next
<1>5. PICK s \in [0..MaxUserBuses -> Seq(Sound)] : Runs(s, MaxUserBuses, with[0], next)
  BY <1>1, <1>2, <1>3, RecursionTo
<1>6. s[0] = with[0] /\ \A b \in 0..(MaxUserBuses - 1) :
        s[b + 1] = IF active[b + 1] THEN s[b] \o Through(with[b + 1], owner[b + 1]) ELSE s[b]
  <2>1. ASSUME NEW b \in 0..(MaxUserBuses - 1)
        PROVE  b \in Nat /\ s[b] \in Seq(Sound) /\ b + 1 \in Buses
    BY <1>1
  <2> QED
    BY <1>4, <1>5, <2>1 DEF Runs
<1>7. Is(s)
  <2>1. ASSUME NEW b \in Buses
        PROVE  s[b] = IF b = 0 THEN with[0]
                      ELSE IF active[b] THEN s[b - 1] \o Through(with[b], owner[b])
                      ELSE s[b - 1]
    <3>1. CASE b = 0
      BY <1>6, <3>1
    <3>2. CASE b # 0
      <4>1. b - 1 \in 0..(MaxUserBuses - 1) /\ (b - 1) + 1 = b
        BY <1>1, <3>2
      <4> QED
        BY <1>6, <3>2, <4>1
    <3> QED
      BY <3>1, <3>2
  <2> QED
    BY <1>1, <1>5, <2>1
<1> DEFINE sum == CHOOSE d : Is(d)
<1>8. Mixed = [with EXCEPT ![0] = sum[MaxUserBuses]]
  BY DEF Mixed
<1> HIDE DEF Is
<1>9. Is(sum)
  BY <1>7
<1> HIDE DEF sum
<1>10. sum = [b \in Buses |->
                IF b = 0 THEN with[0]
                ELSE IF active[b] THEN sum[b - 1] \o Through(with[b], owner[b])
                ELSE sum[b - 1]]
  BY <1>9 DEF Is
<1> HIDE DEF with
<1>11. \A b \in 0..MaxUserBuses : sum[b] = s[b]
  <2>1. sum[0] = s[0]
    BY <1>1, <1>6, <1>10
  <2>2. ASSUME NEW b \in 0..(MaxUserBuses - 1), sum[b] = s[b] PROVE sum[b + 1] = s[b + 1]
    <3>1. b + 1 \in Buses /\ b + 1 # 0 /\ (b + 1) - 1 = b
      BY <1>1
    <3>2. sum[b + 1] = IF active[b + 1] THEN sum[b] \o Through(with[b + 1], owner[b + 1])
                       ELSE sum[b]
      BY <1>10, <3>1
    <3> QED
      BY <1>6, <2>2, <3>2
  <2>3. Alike(sum, s, MaxUserBuses)
    BY <1>1, <2>1, <2>2 DEF Alike
  <2> QED
    BY <1>1, <2>3, Agree
<1>12. sum = s
  BY <1>1, <1>5, <1>10, <1>11
<1> QED
  BY <1>1, <1>5, <1>6, <1>8, <1>12 DEF IsSum, with

(* The master has every voice that resolves to a bus that was added, once. *)
SumOf(s, b) ==
  /\ s \in Seq(Sound)
  /\ IsFiniteSet(UpTo(b)) /\ Len(s) = Cardinality(UpTo(b))
  /\ SoundsIn(s) = {Final(v) : v \in UpTo(b)}

LEMMA MasterSum ==
  ASSUME Inv, MixInv
  PROVE  SumOf(Mixed[0], MaxUserBuses) /\ Mixed \in Accumulators
<1>1. /\ MaxUserBuses \in Nat /\ VoiceCount \in Nat /\ Buses = 0..MaxUserBuses
      /\ 0 \in Buses /\ active[0] /\ owner \in [Buses -> Int]
      /\ active \in [Buses -> BOOLEAN] /\ accumulator \in Accumulators
  BY BusAssumption DEF BusAssumption, Buses, Inv, TypeInv, SlotsInv, MixInv
<1>2. /\ WithVoices \in Accumulators
      /\ \A b \in Buses : active[b] => Carries(WithVoices[b], b, VoiceCount)
  BY <1>1, VoicesCarried
<1> DEFINE with == WithVoices
<1>3. PICK sum : IsSum(sum) /\ Mixed = [with EXCEPT ![0] = sum[MaxUserBuses]]
  BY <1>1, <1>2, SumIs
<1> HIDE DEF with
<1>4. /\ sum \in [Buses -> Seq(Sound)]
      /\ sum[0] = with[0]
      /\ \A b \in 0..(MaxUserBuses - 1) :
           sum[b + 1] = IF active[b + 1]
                        THEN sum[b] \o Through(with[b + 1], owner[b + 1]) ELSE sum[b]
  BY <1>3 DEF IsSum, with
<1>5. \A v \in Voices : Dest(v) \in Buses /\ active[Dest(v)]
  BY Resolved DEF Dest
<1>6. ASSUME NEW b \in Buses, active[b]
      PROVE  /\ with[b] \in Seq(Sound) /\ IsFiniteSet(Into(b, VoiceCount))
             /\ Len(with[b]) = Cardinality(Into(b, VoiceCount))
             /\ SoundsIn(with[b]) = {Raw(v) : v \in Into(b, VoiceCount)}
  BY <1>2, <1>6 DEF Carries, with
<1> DEFINE S == {b \in 0..MaxUserBuses : SumOf(sum[b], b)}
<1>7. 0 \in S
  <2>1. UpTo(0) = Into(0, VoiceCount)
    BY <1>1, <1>5 DEF UpTo, Into, Voices
  <2>2. {Final(v) : v \in UpTo(0)} = {Raw(v) : v \in Into(0, VoiceCount)}
    <3>1. \A v \in Into(0, VoiceCount) : Final(v) = Raw(v)
      BY DEF Into, Final, Raw
    <3> QED
      BY <2>1, <3>1
  <2>3. SumOf(sum[0], 0)
    <3>1. /\ with[0] \in Seq(Sound) /\ IsFiniteSet(UpTo(0))
          /\ Len(with[0]) = Cardinality(UpTo(0))
          /\ SoundsIn(with[0]) = {Final(v) : v \in UpTo(0)}
      BY <1>1, <1>6, <2>1, <2>2
    <3>2. sum[0] = with[0]
      BY <1>4
    <3> QED
      BY <3>1, <3>2 DEF SumOf
  <2> QED
    BY <1>1, <2>3
<1>8. ASSUME NEW b \in 0..(MaxUserBuses - 1), b \in S PROVE b + 1 \in S
  <2>1. b \in Buses /\ b + 1 \in Buses /\ b + 1 # 0 /\ b \in Nat
    BY <1>1
  <2> DEFINE s == sum[b]
             t == sum[b + 1]
             old == UpTo(b)
             more == Into(b + 1, VoiceCount)
             new == UpTo(b + 1)
  <2>2. /\ s \in Seq(Sound)
        /\ IsFiniteSet(old) /\ Len(s) = Cardinality(old)
        /\ SoundsIn(s) = {Final(v) : v \in old}
    BY <1>8 DEF SumOf
  <2>3. new = old \cup more /\ old \cap more = {}
    BY <1>1, <1>5, <2>1 DEF UpTo, Into, Voices
  <2>4. CASE active[b + 1]
    <3> DEFINE u == Through(with[b + 1], owner[b + 1])
    <3>1. t = s \o u
      BY <1>4, <2>4
    <3>2. /\ with[b + 1] \in Seq(Sound) /\ IsFiniteSet(more)
          /\ Len(with[b + 1]) = Cardinality(more)
          /\ SoundsIn(with[b + 1]) = {Raw(v) : v \in more}
      BY <1>6, <2>1, <2>4
    <3>3. owner[b + 1] \in Int
      BY <1>1, <2>1
    <3>4. /\ u \in Seq(Sound) /\ Len(u) = Len(with[b + 1])
          /\ SoundsIn(u) =
               {[voice |-> x.voice, through |-> owner[b + 1]] : x \in SoundsIn(with[b + 1])}
      BY <3>2, <3>3, SoundsThrough
    <3>5. \A v \in more : /\ Final(v) = [voice |-> v, through |-> owner[b + 1]]
                          /\ Raw(v).voice = v
      BY <2>1 DEF Into, Final, Raw
    <3> HIDE DEF s, t, u, old, more, new
    <3>6. SoundsIn(u) = {Final(v) : v \in more}
      BY <3>2, <3>4, <3>5
    <3>7. /\ t \in Seq(Sound) /\ Len(t) = Len(s) + Len(u)
          /\ SoundsIn(t) = SoundsIn(s) \cup SoundsIn(u)
      BY <2>2, <3>1, <3>4, SoundsJoined
    <3>8. SoundsIn(t) = {Final(v) : v \in new}
      BY <2>2, <2>3, <3>6, <3>7
    <3>9. /\ IsFiniteSet(new)
          /\ Cardinality(new) = Cardinality(old) + Cardinality(more) - Cardinality(old \cap more)
      BY <2>2, <2>3, <3>2, FS_Union
    <3>10. Cardinality(old \cap more) = 0
      BY <2>3, FS_EmptySet
    <3>11. Cardinality(old) \in Nat /\ Cardinality(more) \in Nat
      BY <2>2, <3>2, FS_CardinalityType
    <3>12. Len(t) = Cardinality(new)
      BY <2>2, <3>2, <3>4, <3>7, <3>9, <3>10, <3>11
    <3>13. SumOf(sum[b + 1], b + 1)
      BY <3>7, <3>8, <3>9, <3>12 DEF SumOf, t, new
    <3> QED
      BY <1>1, <2>1, <3>13
  <2>5. CASE ~active[b + 1]
    <3>1. t = s
      BY <1>4, <2>5
    <3>2. more = {}
      BY <1>5, <2>5 DEF Into, Voices
    <3>3. new = old
      BY <2>3, <3>2
    <3>4. SumOf(sum[b + 1], b + 1)
      BY <2>2, <3>1, <3>3 DEF SumOf
    <3> QED
      BY <1>1, <2>1, <3>4
  <2> QED
    BY <2>4, <2>5
<1> HIDE DEF S
<1>9. \A b \in 0..MaxUserBuses : b \in S
  BY <1>1, <1>7, <1>8, InductionTo
<1>10. SumOf(sum[MaxUserBuses], MaxUserBuses)
  <2>1. MaxUserBuses \in S
    BY <1>1, <1>9
  <2> QED
    BY <2>1 DEF S
<1>11. sum[MaxUserBuses] \in Seq(Sound)
  BY <1>10 DEF SumOf
<1>12. Mixed[0] = sum[MaxUserBuses] /\ Mixed \in Accumulators
  BY <1>1, <1>2, <1>3, <1>11 DEF Accumulators, with
<1> QED
  BY <1>10, <1>12

LEMMA MixedIsHeard ==
  ASSUME Inv, MixInv
  PROVE  HeardOnce
<1>1. MaxUserBuses \in Nat /\ VoiceCount \in Nat /\ Buses = 0..MaxUserBuses
  BY BusAssumption DEF BusAssumption, Buses
<1>2. \A v \in Voices :
        Dest(v) \in Buses /\ Destination(v) = IF Dest(v) = 0 THEN 0 ELSE owner[Dest(v)]
  BY Resolved DEF Dest
<1>3. UpTo(MaxUserBuses) = Voices
  BY <1>1, <1>2 DEF UpTo
<1> DEFINE s == Mixed[0]
<1>4. /\ s \in Seq(Sound) /\ Len(s) = Cardinality(Voices)
      /\ SoundsIn(s) = {Final(v) : v \in Voices}
  BY <1>3, MasterSum DEF SumOf
<1>5. Cardinality(Voices) = VoiceCount
  BY <1>1, FS_Interval DEF Voices
<1>6. \A v \in Voices : Final(v) = [voice |-> v, through |-> Destination(v)]
  BY <1>2 DEF Final
<1>7. {Final(v) : v \in Voices} = {[voice |-> v, through |-> Destination(v)] : v \in Voices}
  BY <1>6
<1> HIDE DEF s
<1>8. Len(s) = VoiceCount /\ {s[n] : n \in DOMAIN s} = {Final(v) : v \in Voices}
  BY <1>4, <1>5 DEF SoundsIn
<1> QED
  BY <1>7, <1>8 DEF HeardOnce, s

-----------------------------------------------------------------------------
(* MixInv holds initially. *)
LEMMA MixInvInit == Init => MixInv
<1> SUFFICES ASSUME Init PROVE MixInv
  OBVIOUS
<1>1. SerialsInv
  BY DEF Init, SerialsInv, kMasterBusId, BusId
<1>2. RoutesInv
  <2>1. (tail + 1)..head = {} /\ kMasterBusId \in Targets
    BY DEF Init, Targets
  <2> QED
    BY <2>1 DEF Init, RoutesInv
<1>3. accumulator \in Accumulators
  BY DEF Init, Accumulators
<1> QED
  BY <1>1, <1>2, <1>3 DEF MixInv

(* A push of a command that names a bus of the application, or a voice and *)
(* any bus.                                                                *)
LEMMA MixPushed ==
  ASSUME Inv, MixInv, NEW command \in Command, Fifo!Push(command),
         command.type = "route" => command.bus \in Targets /\ command.voice \in Voices,
         UNCHANGED <<creates, handles, accumulator, target>>
  PROVE  MixInv'
<1>1. /\ \A i \in (tail' + 1)..head' : i \in (tail + 1)..head \/ i = head + 1
      /\ \A i \in (tail + 1)..head : queue'[i] = queue[i]
      /\ queue'[head + 1] = command
  BY Pushed DEF Inv
<1>2. Targets' = Targets /\ Voices' = Voices
  BY DEF Targets, Voices
<1>3. RoutesInv'
  BY <1>1, <1>2 DEF MixInv, RoutesInv
<1>4. SerialsInv' /\ accumulator' \in Accumulators
  BY DEF MixInv, SerialsInv
<1> QED
  BY <1>3, <1>4 DEF MixInv, Accumulators

(* A new bus has a serial of its own. *)
LEMMA MixCreated ==
  ASSUME Inv, MixInv, NEW b \in Buses, CreateBus(b)
  PROVE  MixInv'
<1> DEFINE bus == BusId(b, nextGeneration'[b], creates')
           command == CommandFor("create", bus, 0, FALSE)
<1>1. /\ creates \in Nat /\ creates' = creates + 1 /\ Fifo!Push(command)
      /\ handles' = handles \cup {bus} /\ bus.serial = creates + 1
      /\ UNCHANGED <<accumulator, target>>
  BY DEF CreateBus, MayCreate, Inv, TypeInv, BusId
<1>2. nextGeneration'[b] \in Nat /\ b \in Nat
  BY BusAssumption DEF CreateBus, ReserveSlot, Inv, TypeInv, Buses
<1>3. bus \in Bus
  BY <1>1, <1>2 DEF Bus, BusId
<1>4. command \in Command /\ command.type = "create"
  BY <1>3 DEF CommandFor, Command, Inv, TypeInv
<1> HIDE DEF bus, command
<1>5. /\ \A i \in (tail' + 1)..head' : i \in (tail + 1)..head \/ i = head + 1
      /\ \A i \in (tail + 1)..head : queue'[i] = queue[i]
      /\ queue'[head + 1] = command
  BY <1>1, <1>4, Pushed DEF Inv
<1>6. Targets \subseteq Targets'
  BY <1>1 DEF Targets, NoBusId, BusId
<1>7. RoutesInv'
  BY <1>1, <1>4, <1>5, <1>6 DEF MixInv, RoutesInv, Voices
<1>8. SerialsInv'
  BY <1>1 DEF MixInv, SerialsInv
<1> QED
  BY <1>1, <1>7, <1>8 DEF MixInv, Accumulators

(* A command that is applied changes the bus of a voice to the one that    *)
(* the application named.                                                  *)
LEMMA RouteApplied ==
  ASSUME NEW command, ApplyCommand(command), target \in [Voices -> Targets],
         command.type = "route" => command.bus \in Targets
  PROVE  target' \in [Voices -> Targets]
<1>1. CASE command.type = "route" /\ ApplyRoute(command.voice, command.bus)
  BY <1>1 DEF ApplyRoute
<1>2. CASE target' = target
  BY <1>2
<1> QED
  BY <1>1, <1>2 DEF ApplyCommand, ApplyCreate, ApplyDestroy, ApplyGain, Ignored

LEMMA MixPopped ==
  ASSUME Inv, MixInv, PopScheduled \/ PopImmediate
  PROVE  MixInv'
<1>1. UNCHANGED <<creates, handles, accumulator>> /\ Fifo!Pop
  BY DEF PopScheduled, PopImmediate, control
<1>2. /\ \A i \in (tail' + 1)..head' : i \in (tail + 1)..head /\ queue'[i] = queue[i]
      /\ tail + 1 \in (tail + 1)..head
  BY <1>1, Popped DEF Inv
<1>3. target' \in [Voices -> Targets]
  <2>1. target \in [Voices -> Targets] /\ (first.type = "route" => first.bus \in Targets)
    BY <1>2 DEF MixInv, RoutesInv, first
  <2>2. CASE PopImmediate
    <3>1. ApplyCommand(first)
      BY <2>2 DEF PopImmediate, first
    <3> QED
      BY <2>1, <3>1, RouteApplied
  <2>3. CASE PopScheduled
    BY <2>1, <2>3 DEF PopScheduled
  <2> QED
    BY <2>2, <2>3
<1>4. Targets' = Targets
  BY <1>1 DEF Targets
<1>5. RoutesInv'
  BY <1>2, <1>3, <1>4 DEF MixInv, RoutesInv, Voices
<1> QED
  BY <1>1, <1>5 DEF MixInv, SerialsInv, Accumulators

(* An event is a gain. *)
LEMMA MixEvent ==
  ASSUME Inv, MixInv, PopEvent
  PROVE  MixInv'
<1>1. PICK command \in heap : ApplyCommand(command)
  BY DEF PopEvent
<1>2. command.type = "gain"
  BY DEF Inv, CommandsInv
<1>3. target' \in [Voices -> Targets]
  BY <1>1, <1>2, RouteApplied DEF MixInv, RoutesInv
<1>4. UNCHANGED <<creates, handles, queue, head, tail, accumulator>>
  BY DEF PopEvent, control, pipe
<1> QED
  BY <1>3, <1>4 DEF MixInv, RoutesInv, SerialsInv, Targets, Voices, Accumulators

LEMMA MixInvStep == Inv /\ MixInv /\ [Next]_vars => MixInv'
<1> SUFFICES ASSUME Inv, MixInv, [Next]_vars
             PROVE  MixInv'
  OBVIOUS
<1>1. ASSUME NEW b \in Buses, CreateBus(b)
      PROVE  MixInv'
  BY <1>1, MixCreated
<1>2. ASSUME NEW b \in Buses, CreateBusRollsBack(b)
      PROVE  MixInv'
  <2>1. /\ creates \in Nat /\ creates' = creates + 1
        /\ UNCHANGED <<handles, queue, head, tail, accumulator, target>>
    BY <1>2 DEF CreateBusRollsBack, MayCreate, pipe, Inv, TypeInv
  <2>2. SerialsInv'
    BY <2>1 DEF MixInv, SerialsInv
  <2> QED
    BY <2>1, <2>2 DEF MixInv, RoutesInv, Targets, Voices, Accumulators
<1>3. ASSUME NEW command \in Command, Fifo!Push(command),
             command.type = "route" => command.bus \in Targets /\ command.voice \in Voices,
             UNCHANGED <<creates, handles, accumulator, target>>
      PROVE  MixInv'
  BY <1>3, MixPushed
<1>4. ASSUME NEW bus \in handles, DestroyBus(bus)
      PROVE  MixInv'
  <2> DEFINE command == CommandFor("destroy", bus, 0, FALSE)
  <2>1. command \in Command /\ command.type = "destroy"
    BY DEF CommandFor, Command, Inv, TypeInv
  <2>2. Fifo!Push(command) /\ UNCHANGED <<creates, handles, accumulator, target>>
    BY <1>4 DEF Submit, DestroyBus
  <2> HIDE DEF command
  <2> QED
    BY <1>3, <2>1, <2>2
<1>5. ASSUME NEW bus \in handles, SetBusGain(bus)
      PROVE  MixInv'
  <2>1. PICK scheduled \in BOOLEAN : Submit("gain", bus, 0, scheduled)
    BY <1>5 DEF SetBusGain
  <2> DEFINE command == CommandFor("gain", bus, 0, scheduled)
  <2>2. command \in Command /\ command.type = "gain"
    BY DEF CommandFor, Command, Inv, TypeInv
  <2>3. Fifo!Push(command) /\ UNCHANGED <<creates, handles, accumulator, target>>
    BY <2>1 DEF Submit
  <2> HIDE DEF command
  <2> QED
    BY <1>3, <2>2, <2>3
<1>6. ASSUME NEW v \in Voices, NEW bus \in handles \cup {NoBusId}, SetVoiceBus(v, bus)
      PROVE  MixInv'
  <2> DEFINE command == CommandFor("route", bus, v, FALSE)
  <2>1. bus \in Bus
    BY BusAssumption DEF NoBusId, BusId, Bus, Inv, TypeInv
  <2>2. command \in Command /\ command.bus = bus /\ command.voice = v
    BY <2>1, BusAssumption DEF CommandFor, Command, Inv, TypeInv, Voices
  <2>3. Fifo!Push(command) /\ UNCHANGED <<creates, handles, accumulator, target>>
    BY <1>6 DEF Submit, SetVoiceBus
  <2>4. command.bus \in Targets /\ command.voice \in Voices
    BY <2>2 DEF Targets
  <2> HIDE DEF command
  <2> QED
    BY <1>3, <2>2, <2>3, <2>4
<1>7. CASE PopScheduled \/ PopImmediate
  BY <1>7, MixPopped
<1>8. CASE PopEvent
  BY <1>8, MixEvent
<1>9. CASE RenderVoicesAndBuses
  <2>1. accumulator' \in Accumulators
    BY <1>9, MasterSum DEF RenderVoicesAndBuses
  <2>2. UNCHANGED <<creates, handles, queue, head, tail, target>>
    BY <1>9 DEF RenderVoicesAndBuses, control, pipe
  <2> QED
    BY <2>1, <2>2 DEF MixInv, RoutesInv, SerialsInv, Targets, Voices, Accumulators
<1>10. CASE UNCHANGED vars
  BY <1>10 DEF vars, control, pipe, MixInv, RoutesInv, SerialsInv, Targets, Voices,
               Accumulators
<1> QED
  BY <1>1, <1>2, <1>4, <1>5, <1>6, <1>7, <1>8, <1>9, <1>10 DEF Next

(* HeardOnce: whatever the buses and the commands did, a segment rendered  *)
(* now has every voice exactly once, through the bus it names if that bus  *)
(* still is and from the master otherwise, and nothing of an earlier one.  *)
THEOREM HeardOnceAlways == Spec => []HeardOnce
<1>1. Init => Inv /\ MixInv
  BY InvInit, MixInvInit
<1>2. Inv /\ MixInv /\ [Next]_vars => Inv' /\ MixInv'
  BY InvStep, MixInvStep
<1>3. Inv /\ MixInv => HeardOnce
  BY MixedIsHeard
<1> QED
  BY <1>1, <1>2, <1>3, PTL DEF Spec
=============================================================================
