------------------------ MODULE AudioTimelineProofs -------------------------
(***************************************************************************)
(* Proofs about AudioTimeline, for every queue, every event capacity,      *)
(* every set of block sizes and target frames, and every bound: first the  *)
(* types and the accounting of reservations, then when and in which order  *)
(* events are executed and discarded, and that the timeline implements     *)
(* ScheduledTimeline.                                                      *)
(***************************************************************************)
EXTENDS AudioTimeline, FiniteSetTheorems, TLAPS

(* The queue's domain follows its two indices. *)
LEMMA EnqueueType ==
  ASSUME PipeTypeOK, NEW item \in Item, Enqueue(item)
  PROVE  PipeTypeOK'
BY DEF PipeTypeOK, Enqueue, Fifo!Put

(* A pop returns a command and keeps the queue contiguous. *)
LEMMA DequeueType ==
  ASSUME PipeTypeOK, tail < head, Dequeue
  PROVE  PipeTypeOK' /\ queue[tail + 1] \in Item
BY DEF PipeTypeOK, Dequeue, Fifo!Take

(* Type correctness: every variable of the two threads keeps its type.     *)
THEOREM TypeCorrect == Spec => []TypeOK
<1> USE ConfigAssumption, BoundsAssumption
<1>1. Init => TypeOK
  <2> SUFFICES ASSUME Init
               PROVE  TypeOK
    OBVIOUS
  <2>1. PipeTypeOK
    BY DEF Init, PipeTypeOK
  <2>2. stats \in [Counters -> Nat]
    BY DEF Init
  <2>3. outcome \in Outcome
    BY DEF Init, Outcome, NoOutcome
  <2>4. /\ call \subseteq [target: Frame, epoch: Nat]
        /\ last \subseteq [event: [pos: Nat, target: Frame, epoch: Nat, at: Nat], frame: Nat]
        /\ hand \subseteq Item /\ heap \subseteq HeapEvent
    BY DEF Init
  <2>5. /\ ctl = "idle" /\ aud = "idle" /\ ret = "idle"
        /\ outstanding = 0 /\ isActive \in BOOLEAN /\ sessionEpoch = 0 /\ clock = 0
        /\ running \in BOOLEAN /\ blockStart = 0 /\ total = 0 /\ rendered = 0
        /\ adopting = 0 /\ audioEpoch = 0 /\ seenEpoch = 0 /\ drained = 0
        /\ nextSequence = 0
    BY DEF Init
  <2>6. QED
    BY <2>1, <2>2, <2>3, <2>4, <2>5 DEF TypeOK
<1>2. TypeOK /\ [Next]_vars => TypeOK'
  <2> SUFFICES ASSUME TypeOK, [Next]_vars
               PROVE  TypeOK'
    OBVIOUS
  <2> USE DEF TypeOK
  <2>1. ASSUME NEW target \in Targets, ScheduleReserve(target)
        PROVE  TypeOK'
    BY <2>1 DEF ScheduleReserve, PipeTypeOK, audioVars, block, epochs, heapVars, pipe, Frame
  <2>2. CASE ScheduleExhausted
    BY <2>2, SMTT(30)
       DEF ScheduleExhausted, Count, Counters, PipeTypeOK, control, audioVars, block,
           epochs, heapVars, pipe
  <2>3. CASE Submit
    <3> DEFINE item == [scheduled |-> FALSE, target |-> 0, epoch |-> 0, pos |-> head + 1,
    at |-> clock]
    <3>1. item \in Item
      BY DEF PipeTypeOK, Item, Frame, kMaxFramePosition
    <3>2. Enqueue(item)
      BY <2>3 DEF Submit
    <3>3. PipeTypeOK'
      BY <3>1, <3>2, EnqueueType
    <3>4. QED
      BY <2>3, <3>3 DEF Submit, control, audioVars, block, epochs, heapVars
  <2>4. CASE SubmitQueueFull
    BY <2>4, SMTT(30)
       DEF SubmitQueueFull, Count, Counters, PipeTypeOK, control, audioVars, block,
           epochs, heapVars, pipe
  <2>5. CASE Start
    BY <2>5 DEF Start, PipeTypeOK, control, audioVars, block, epochs, heapVars, pipe
  <2>6. CASE Stop
    BY <2>6 DEF Stop, PipeTypeOK, control, audioVars, block, epochs, heapVars, pipe
  <2>7. CASE Shutdown
    BY <2>7 DEF Shutdown, PipeTypeOK, control, audioVars, block, epochs, heapVars, pipe
  <2>8. CASE SchedulePush
    <3>1. PICK c \in call : Enqueue([scheduled |-> TRUE, target |-> c.target, epoch |-> c.epoch,
                                    pos |-> head + 1, at |-> clock])
      BY <2>8 DEF SchedulePush
    <3> DEFINE item == [scheduled |-> TRUE, target |-> c.target, epoch |-> c.epoch,
                        pos |-> head + 1, at |-> clock]
    <3>2. item \in Item
      BY DEF PipeTypeOK, Item, Frame
    <3>3. PipeTypeOK'
      BY <3>1, <3>2, EnqueueType
    <3>4. QED
      BY <2>8, <3>3 DEF SchedulePush, audioVars, block, epochs, heapVars
  <2>9. CASE ScheduleQueueFull
    BY <2>9 DEF ScheduleQueueFull, PipeTypeOK, control, audioVars, block, epochs, heapVars, pipe
  <2>10. CASE ScheduleRollback
    BY <2>10, SMTT(30)
       DEF ScheduleRollback, Count, Counters, PipeTypeOK, control, audioVars, block,
           epochs, heapVars, pipe
  <2>11. CASE ScheduleRecordAccepted
    BY <2>11, SMTT(30)
       DEF ScheduleRecordAccepted, Count, Counters, PipeTypeOK, control, audioVars,
           block, epochs, heapVars, pipe
  <2>12. CASE DeviceStart
    BY <2>12 DEF DeviceStart, PipeTypeOK, control, audioVars, block, epochs, heapVars, pipe
  <2>13. CASE DeviceStartFails
    BY <2>13 DEF DeviceStartFails, PipeTypeOK, control, audioVars, block, epochs, heapVars, pipe
  <2>14. CASE DeviceStop
    BY <2>14 DEF DeviceStop, PipeTypeOK, control, audioVars, block, epochs, heapVars, pipe
  <2>15. CASE EndSession
    BY <2>15 DEF EndSession, PipeTypeOK, control, audioVars, block, epochs, heapVars, pipe
  <2>16. ASSUME NEW frames \in BlockSizes, BeginCallback(frames)
        PROVE  TypeOK'
    BY <2>16 DEF BeginCallback, PipeTypeOK, controlVars, control, block, epochs, heapVars
  <2>17. CASE LoadEpoch
    BY <2>17 DEF LoadEpoch, PipeTypeOK, controlVars, control, block, epochs, heapVars
  <2>18. CASE FlushEvent
    BY <2>18 DEF FlushEvent, PopDue, IsFront, Settle, Outcome, PipeTypeOK, controlVars,
       control, block, epochs, heapVars
  <2>19. CASE AdoptEpochReturns
    BY <2>19 DEF AdoptEpochReturns, PipeTypeOK, controlVars, control, block, epochs, heapVars
  <2>20. CASE ApplyImmediate
    <3>1. PipeTypeOK'
      BY <2>20, DequeueType DEF ApplyImmediate
    <3>2. /\ drained' = drained + 1
          /\ UNCHANGED <<ctl, call, isActive, sessionEpoch, running, outstanding, clock, stats,
                         aud, ret, blockStart, total, rendered, adopting, audioEpoch,
                         seenEpoch, hand, heap, nextSequence, outcome, last>>
      BY <2>20 DEF ApplyImmediate, control, block, epochs, heapVars
    <3>3. QED
      BY <3>1, <3>2
  <2>21. CASE PopScheduled
    <3>1. PipeTypeOK' /\ queue[tail + 1] \in Item
      BY <2>21, DequeueType DEF PopScheduled
    <3>2. queue[tail + 1].epoch \in Nat
      BY <3>1 DEF Item
    <3>3. /\ drained' = drained + 1 /\ aud' = "adopt"
          /\ hand' = {queue[tail + 1]} /\ adopting' = queue[tail + 1].epoch
          /\ UNCHANGED <<ctl, call, isActive, sessionEpoch, running, outstanding, clock, stats,
                         ret, blockStart, total, rendered, audioEpoch, seenEpoch, heap,
                         nextSequence, outcome, last>>
      BY <2>21 DEF PopScheduled, control, block, epochs, heapVars
    <3>4. QED
      BY <3>1, <3>2, <3>3
  <2>22. CASE DiscardStale
    BY <2>22 DEF DiscardStale, Settle, Outcome, PipeTypeOK, controlVars, control, block,
       epochs, heapVars
  <2>23. CASE AdmitScheduled
    <3>1. PICK item \in hand : PushEvent(item)
      BY <2>23 DEF AdmitScheduled
    <3>2. [target |-> item.target, sequence |-> nextSequence, epoch |-> item.epoch,
           pos |-> item.pos, at |-> item.at] \in HeapEvent
      BY DEF Item, HeapEvent
    <3>3. /\ heap' \subseteq HeapEvent /\ nextSequence' \in Nat
          /\ outcome' \in Outcome /\ ret' \in {"idle", "adopt", "drain", "dispatch"}
          /\ aud' \in {"drain", "release"}
      BY <3>1, <3>2 DEF PushEvent, Settle, Outcome, heapVars
    <3>4. QED
      BY <2>23, <3>3 DEF AdmitScheduled, PipeTypeOK, controlVars, control, block, epochs
  <2>24. CASE DrainEnds
    BY <2>24 DEF DrainEnds, PipeTypeOK, controlVars, control, block, epochs, heapVars
  <2>25. CASE DispatchEvent
    <3>1. PICK e \in heap : /\ PopDue(e, Cursor)
                           /\ Settle("executed", Cursor - e.target, "dispatch")
                           /\ last' = {[event |-> Event(e), frame |-> Cursor]}
      BY <2>25 DEF DispatchEvent
    <3>2. /\ e.pos \in Nat /\ e.target \in Frame /\ e.epoch \in Nat /\ e.at \in Nat
          /\ e.target \in Nat
      BY DEF HeapEvent, Frame
    <3>3. Cursor \in Nat /\ Cursor - e.target \in Nat
      BY <3>1, <3>2 DEF Cursor, PopDue, Due
    <3>4. /\ outcome' \in Outcome /\ ret' = "dispatch" /\ aud' = "release"
          /\ heap' \subseteq HeapEvent /\ nextSequence' \in Nat
      BY <3>1, <3>3 DEF Settle, Outcome, PopDue
    <3>5. last' \subseteq [event: [pos: Nat, target: Frame, epoch: Nat, at: Nat], frame: Nat]
      BY <3>1, <3>2, <3>3 DEF Event
    <3>6. QED
      BY <2>25, <3>4, <3>5 DEF DispatchEvent, PipeTypeOK, controlVars, control, block, epochs
  <2>26. CASE DispatchEnds
    BY <2>26 DEF DispatchEnds, PipeTypeOK, controlVars, control, block, epochs, heapVars
  <2>27. CASE RenderSegment
    BY <2>27 DEF RenderSegment, PipeTypeOK, controlVars, control, block, epochs, heapVars
  <2>28. CASE AdvanceClock
    BY <2>28 DEF AdvanceClock, PipeTypeOK, controlVars, control, block, epochs, heapVars
  <2>29. CASE ReleaseReservation
    BY <2>29 DEF ReleaseReservation, PipeTypeOK, controlVars, control, block, epochs, heapVars
  <2>30. CASE RecordOutcome
    <3>1. stats' \in [Counters -> Nat]
      BY <2>30 DEF RecordOutcome
    <3>2. outcome' \in Outcome
      BY <2>30 DEF RecordOutcome, Outcome, NoOutcome
    <3>3. QED
      BY <2>30, <3>1, <3>2 DEF RecordOutcome, PipeTypeOK, controlVars, control, block, epochs,
         heapVars
  <2>31. CASE UNCHANGED vars
    BY <2>31 DEF PipeTypeOK, vars, control, pipe, block, epochs, heapVars
  <2>32. QED
    BY <2>1, <2>2, <2>3, <2>4, <2>5, <2>6, <2>7, <2>8, <2>9, <2>10, <2>11, <2>12, <2>13, <2>14,
       <2>15, <2>16, <2>17, <2>18, <2>19, <2>20, <2>21, <2>22, <2>23, <2>24, <2>25, <2>26,
       <2>27, <2>28, <2>29, <2>30, <2>31 DEF Next, Control, ControlCompletes, Callback
<1>3. QED
  BY <1>1, <1>2, PTL DEF Spec

-----------------------------------------------------------------------------
(* How the three places an event waits in change in size. *)

(* The events in the queue can be counted. *)
LEMMA QueuedEventsFinite ==
  ASSUME PipeTypeOK
  PROVE  IsFiniteSet(QueuedEvents) /\ Cardinality(QueuedEvents) \in Nat
<1>1. IsFiniteSet((tail + 1)..head)
  BY FS_Interval DEF PipeTypeOK
<1>2. QueuedEvents \subseteq (tail + 1)..head
  BY DEF QueuedEvents
<1>3. QED
  BY <1>1, <1>2, FS_Subset, FS_CardinalityType

(* A push adds one event to the queue if the command is scheduled, none    *)
(* if it is immediate.                                                     *)
LEMMA EnqueueCount ==
  ASSUME PipeTypeOK, tail <= head, NEW item \in Item, Enqueue(item)
  PROVE  Cardinality(QueuedEvents)' = Cardinality(QueuedEvents) + One(item.scheduled)
<1>1. head + 1 \notin QueuedEvents
  BY DEF QueuedEvents, PipeTypeOK
<1>2. \A i \in (tail + 1)..head : queue'[i] = queue[i]
  BY DEF Enqueue, Fifo!Put, PipeTypeOK
<1>3. queue'[head + 1] = item
  BY DEF Enqueue, Fifo!Put, PipeTypeOK
<1>4. head' = head + 1 /\ tail' = tail
  BY DEF Enqueue, Fifo!Put
<1>5. CASE item.scheduled
  <2>1. QueuedEvents' = QueuedEvents \cup {head + 1}
    BY <1>2, <1>3, <1>4, <1>5 DEF QueuedEvents, PipeTypeOK
  <2>2. QED
    BY <2>1, <1>1, <1>5, QueuedEventsFinite, FS_AddElement DEF One
<1>6. CASE ~item.scheduled
  <2>1. QueuedEvents' = QueuedEvents
    BY <1>2, <1>3, <1>4, <1>6 DEF QueuedEvents, PipeTypeOK
  <2>2. QED
    BY <2>1, <1>6, QueuedEventsFinite DEF One
<1>7. QED
  BY <1>5, <1>6

(* A pop takes one event from the queue if the oldest command is           *)
(* scheduled, none if it is immediate.                                     *)
LEMMA DequeueCount ==
  ASSUME PipeTypeOK, tail < head, Dequeue
  PROVE  Cardinality(QueuedEvents)' = Cardinality(QueuedEvents) - One(queue[tail + 1].scheduled)
<1>1. \A i \in (tail + 2)..head : queue'[i] = queue[i]
  BY DEF Dequeue, Fifo!Take, PipeTypeOK
<1>2. head' = head /\ tail' = tail + 1
  BY DEF Dequeue, Fifo!Take
<1>3. QueuedEvents' = QueuedEvents \ {tail + 1}
  BY <1>1, <1>2 DEF QueuedEvents, PipeTypeOK
<1>4. tail + 1 \in QueuedEvents <=> queue[tail + 1].scheduled
  BY DEF QueuedEvents, PipeTypeOK
<1>5. CASE queue[tail + 1].scheduled
  BY <1>3, <1>4, <1>5, QueuedEventsFinite, FS_RemoveElement DEF One
<1>6. CASE ~queue[tail + 1].scheduled
  <2>1. QueuedEvents' = QueuedEvents
    BY <1>3, <1>4, <1>6
  <2>2. QED
    BY <2>1, <1>6, QueuedEventsFinite DEF One
<1>7. QED
  BY <1>5, <1>6

(* A step that leaves the queue alone leaves the number of its events. *)
LEMMA UnchangedCount ==
  ASSUME UNCHANGED <<queue, head, tail>>
  PROVE  Cardinality(QueuedEvents)' = Cardinality(QueuedEvents)
BY DEF QueuedEvents

(* An empty hand counts for nothing, a popped event for one. *)
LEMMA HandCount ==
  ASSUME NEW q
  PROVE  Cardinality({}) = 0 /\ Cardinality({q}) = 1
BY FS_EmptySet, FS_Singleton

-----------------------------------------------------------------------------
(* The strengthening that is inductive.  The accounting of a step depends  *)
(* on where the thread is: the hand holds at most one item and only while  *)
(* DrainCommands works on it, the item being settled has an outcome, and   *)
(* the sequence number of the next event is in the heap of no other.       *)
HandInv ==
  /\ hand = {} \/ \E q \in hand : hand = {q} /\ q.scheduled
  /\ hand # {} => aud \in {"adopt", "admit"} \/ (aud \in {"release", "record"} /\ ret = "adopt")
  /\ aud = "admit" => hand # {}

HeapInv ==
  /\ IsFiniteSet(heap)
  /\ \A e \in heap : e.sequence < nextSequence

SettleInv ==
  aud \in {"release", "record"} => outcome.kind \in {"executed", "discarded", "dropped"}

CapacityInv == outstanding <= MaxScheduledEvents

(* Every event pushed is counted as accepted once, at the end of its call, *)
(* and every event that stopped waiting is being settled or was counted.   *)
Accounting ==
  stats["accepted"] + One(ctl = "accepted")
    = stats["executed"] + stats["discarded"] + stats["dropped"]
        + One(aud \in {"release", "record"}) + Waiting

IInv ==
  /\ tail <= head
  /\ HandInv /\ HeapInv /\ SettleInv
  /\ CapacityInv /\ ReservationConservation /\ Accounting /\ NeverDropped

-----------------------------------------------------------------------------
(* A step that moves no event changes no size. *)
LEMMA QuietStep ==
  ASSUME UNCHANGED <<queue, head, tail, hand, heap>>
  PROVE  /\ Waiting' = Waiting
         /\ Cardinality(QueuedEvents)' = Cardinality(QueuedEvents)
BY UnchangedCount DEF Waiting

(* The numbers of waiting events are natural numbers, which the            *)
(* arithmetic of the steps below needs.                                    *)
LEMMA SizesAreNumbers ==
  ASSUME TypeOK, IInv
  PROVE  /\ Cardinality(QueuedEvents) \in Nat
         /\ Cardinality(hand) \in Nat
         /\ Cardinality(heap) \in Nat
<1>1. Cardinality(hand) \in Nat
  <2>1. CASE hand = {}
    BY <2>1, FS_EmptySet
  <2>2. ASSUME NEW q \in hand, hand = {q}
        PROVE  Cardinality(hand) \in Nat
    <3>1. Cardinality(hand) = 1
      BY <2>2, HandCount
    <3>2. QED
      BY <3>1
  <2>3. QED
    BY <2>1, <2>2 DEF IInv, HandInv
<1>2. Cardinality(heap) \in Nat
  BY FS_CardinalityType DEF IInv, HeapInv
<1>3. QED
  BY <1>1, <1>2, QueuedEventsFinite DEF TypeOK

(* The invariant holds before the first call and the first callback. *)
LEMMA InvariantInit == Init => IInv
<1> SUFFICES ASSUME Init
             PROVE  IInv
  OBVIOUS
<1>1. QueuedEvents = {}
  BY DEF Init, QueuedEvents
<1>2. Waiting = 0
  BY <1>1, FS_EmptySet DEF Init, Waiting
<1>3. HandInv /\ HeapInv /\ SettleInv
  BY FS_EmptySet DEF Init, HandInv, HeapInv, SettleInv
<1>4. CapacityInv /\ ReservationConservation /\ Accounting /\ NeverDropped
  BY <1>2, ConfigAssumption DEF Init, CapacityInv, ReservationConservation, Accounting,
     NeverDropped, One, Counters, NoOutcome
<1>5. QED
  BY <1>3, <1>4 DEF Init, IInv

(* Every step of the two threads keeps the invariant. *)
LEMMA InvariantStep == TypeOK /\ IInv /\ [Next]_vars => IInv'
<1> SUFFICES ASSUME TypeOK, IInv, [Next]_vars
             PROVE  IInv'
  OBVIOUS
<1> USE ConfigAssumption
<1>0. /\ PipeTypeOK
      /\ Cardinality(QueuedEvents) \in Nat
      /\ Cardinality(hand) \in Nat
      /\ Cardinality(heap) \in Nat
  BY SizesAreNumbers DEF TypeOK
<1>1. ASSUME NEW target \in Targets, ScheduleReserve(target)
      PROVE  IInv'
  <2>1. UNCHANGED <<queue, head, tail, hand, heap>>
    BY <1>1 DEF ScheduleReserve, control, audioVars, block, epochs, heapVars, pipe
  <2>2. outstanding \in Int
    BY DEF TypeOK
  <2>3. Waiting' = Waiting /\ Waiting \in Nat
    BY <1>0, <2>1, QuietStep DEF Waiting
  <2>4. CapacityInv'
    BY <1>1, <2>2 DEF ScheduleReserve, MayReserve, CapacityInv
  <2>5. ReservationConservation'
    BY <1>1, <2>2, <2>3 DEF ScheduleReserve, MayCall, One, ReservationConservation, audioVars,
       IInv
  <2>6. QED
    BY <1>1, <2>1, <2>3, <2>4, <2>5 DEF ScheduleReserve, MayCall, One, audioVars, block,
       epochs, heapVars, pipe,
       IInv, HandInv, HeapInv, SettleInv, Accounting, NeverDropped
<1>2. CASE ScheduleExhausted
  <2>1. UNCHANGED <<queue, head, tail, hand, heap>>
    BY <1>2 DEF ScheduleExhausted, control, audioVars, block, epochs, heapVars, pipe
  <2>2. QED
    BY <1>2, <2>1, <1>0, QuietStep DEF ScheduleExhausted, Count, Counters, One, TypeOK,
       PipeTypeOK, Waiting, IInv,
       HandInv, HeapInv, SettleInv, CapacityInv, ReservationConservation, Accounting,
       NeverDropped,
       control, audioVars, block, epochs, heapVars, pipe
<1>3. CASE Submit
  <2> DEFINE item == [scheduled |-> FALSE, target |-> 0, epoch |-> 0, pos |-> head + 1,
  at |-> clock]
  <2>1. item \in Item /\ Enqueue(item)
    BY <1>3, BoundsAssumption DEF Submit, TypeOK, PipeTypeOK, Item, Frame, kMaxFramePosition
  <2>2. Cardinality(QueuedEvents)' = Cardinality(QueuedEvents) + One(FALSE)
    BY <2>1, <1>0, EnqueueCount DEF IInv
  <2>3. UNCHANGED <<hand, heap>> /\ head' = head + 1 /\ tail' = tail
    BY <1>3 DEF Submit, Enqueue, Fifo!Put, audioVars, heapVars
  <2>4. Waiting' = Waiting
    BY <2>2, <2>3, <1>0 DEF Waiting, One
  <2>5. QED
    BY <1>3, <2>3, <2>4, <1>0 DEF Submit, One, PipeTypeOK, control, audioVars, heapVars, IInv,
       HandInv, HeapInv, SettleInv, CapacityInv, ReservationConservation, Accounting, NeverDropped
<1>4. CASE SubmitQueueFull
  <2>1. UNCHANGED <<queue, head, tail, hand, heap>>
    BY <1>4 DEF SubmitQueueFull, control, audioVars, block, epochs, heapVars, pipe
  <2>2. QED
    BY <1>4, <2>1, <1>0, QuietStep DEF SubmitQueueFull, Count, Counters, One, TypeOK,
       PipeTypeOK, Waiting, IInv,
       HandInv, HeapInv, SettleInv, CapacityInv, ReservationConservation, Accounting,
       NeverDropped,
       control, audioVars, block, epochs, heapVars, pipe
<1>5. CASE Start
  <2>1. UNCHANGED <<queue, head, tail, hand, heap>>
    BY <1>5 DEF Start, control, audioVars, block, epochs, heapVars, pipe
  <2>2. QED
    BY <1>5, <2>1, <1>0, QuietStep DEF Start, One, TypeOK, PipeTypeOK, Waiting, IInv,
       HandInv, HeapInv, SettleInv, CapacityInv, ReservationConservation, Accounting,
       NeverDropped,
       control, audioVars, block, epochs, heapVars, pipe
<1>6. CASE Stop
  <2>1. UNCHANGED <<queue, head, tail, hand, heap>>
    BY <1>6 DEF Stop, control, audioVars, block, epochs, heapVars, pipe
  <2>2. QED
    BY <1>6, <2>1, <1>0, QuietStep DEF Stop, One, TypeOK, PipeTypeOK, Waiting, IInv,
       HandInv, HeapInv, SettleInv, CapacityInv, ReservationConservation, Accounting,
       NeverDropped,
       control, audioVars, block, epochs, heapVars, pipe
<1>7. CASE Shutdown
  <2>1. UNCHANGED <<queue, head, tail, hand, heap>>
    BY <1>7 DEF Shutdown, control, audioVars, block, epochs, heapVars, pipe
  <2>2. QED
    BY <1>7, <2>1, <1>0, QuietStep DEF Shutdown, One, TypeOK, PipeTypeOK, Waiting, IInv,
       HandInv, HeapInv, SettleInv, CapacityInv, ReservationConservation, Accounting,
       NeverDropped,
       control, audioVars, block, epochs, heapVars, pipe
<1>8. CASE SchedulePush
  <2>1. PICK c \in call : Enqueue([scheduled |-> TRUE, target |-> c.target, epoch |-> c.epoch,
                                  pos |-> head + 1, at |-> clock])
    BY <1>8 DEF SchedulePush
  <2> DEFINE item == [scheduled |-> TRUE, target |-> c.target, epoch |-> c.epoch,
                      pos |-> head + 1, at |-> clock]
  <2>2. item \in Item
    BY DEF TypeOK, PipeTypeOK, Item, Frame
  <2>3. Cardinality(QueuedEvents)' = Cardinality(QueuedEvents) + One(TRUE)
    BY <2>1, <2>2, <1>0, EnqueueCount DEF IInv
  <2>4. UNCHANGED <<hand, heap>> /\ head' = head + 1 /\ tail' = tail
    BY <1>8, <2>1 DEF SchedulePush, Enqueue, Fifo!Put, audioVars, heapVars
  <2>5. Waiting' = Waiting + 1 /\ Waiting \in Nat
    BY <2>3, <2>4, <1>0 DEF Waiting, One
  <2>6. ReservationConservation'
    BY <1>8, <2>5 DEF SchedulePush, One, TypeOK, ReservationConservation, audioVars, IInv
  <2>7. Accounting'
    BY <1>8, <2>5 DEF SchedulePush, One, TypeOK, Counters, Accounting, audioVars, IInv
  <2>8. tail' <= head'
    BY <1>0, <2>4 DEF PipeTypeOK, IInv
  <2>9. QED
    BY <1>8, <2>4, <2>6, <2>7, <2>8 DEF SchedulePush, audioVars, heapVars,
       IInv, HandInv, HeapInv, SettleInv, CapacityInv, NeverDropped
<1>9. CASE ScheduleQueueFull
  <2>1. UNCHANGED <<queue, head, tail, hand, heap>>
    BY <1>9 DEF ScheduleQueueFull, control, audioVars, block, epochs, heapVars, pipe
  <2>2. QED
    BY <1>9, <2>1, <1>0, QuietStep DEF ScheduleQueueFull, One, TypeOK, PipeTypeOK, Waiting, IInv,
       HandInv, HeapInv, SettleInv, CapacityInv, ReservationConservation, Accounting,
       NeverDropped,
       control, audioVars, block, epochs, heapVars, pipe
<1>10. CASE ScheduleRollback
  <2>1. UNCHANGED <<queue, head, tail, hand, heap>>
    BY <1>10 DEF ScheduleRollback, control, audioVars, block, epochs, heapVars, pipe
  <2>2. Waiting' = Waiting /\ Waiting \in Nat
    BY <1>0, <2>1, QuietStep DEF Waiting
  <2>3. ReservationConservation' /\ CapacityInv'
    BY <1>10, <2>2 DEF ScheduleRollback, One, TypeOK, ReservationConservation, CapacityInv,
       audioVars, IInv
  <2>4. \A c \in Counters \ {"commandFailures"} : stats'[c] = stats[c]
    BY <1>10 DEF ScheduleRollback, Count, TypeOK
  <2>5. Accounting' /\ NeverDropped'
    BY <1>10, <2>2, <2>4 DEF ScheduleRollback, One, Counters, Accounting, NeverDropped,
       audioVars, IInv
  <2>6. QED
    BY <1>10, <2>1, <2>3, <2>5 DEF ScheduleRollback, audioVars, heapVars,
       IInv, HandInv, HeapInv, SettleInv
<1>11. CASE ScheduleRecordAccepted
  <2>1. UNCHANGED <<queue, head, tail, hand, heap>>
    BY <1>11 DEF ScheduleRecordAccepted, control, audioVars, block, epochs, heapVars, pipe
  <2>2. QED
    BY <1>11, <2>1, <1>0, QuietStep, SMTT(30)
    DEF ScheduleRecordAccepted, Count, Counters, One, TypeOK,
       PipeTypeOK, Waiting, IInv,
       HandInv, HeapInv, SettleInv, CapacityInv, ReservationConservation, Accounting,
       NeverDropped,
       control, audioVars, block, epochs, heapVars, pipe
<1>12. CASE DeviceStart
  <2>1. UNCHANGED <<queue, head, tail, hand, heap>>
    BY <1>12 DEF DeviceStart, control, audioVars, block, epochs, heapVars, pipe
  <2>2. QED
    BY <1>12, <2>1, <1>0, QuietStep DEF DeviceStart, One, TypeOK, PipeTypeOK, Waiting, IInv,
       HandInv, HeapInv, SettleInv, CapacityInv, ReservationConservation, Accounting,
       NeverDropped,
       control, audioVars, block, epochs, heapVars, pipe
<1>13. CASE DeviceStartFails
  <2>1. UNCHANGED <<queue, head, tail, hand, heap>>
    BY <1>13 DEF DeviceStartFails, control, audioVars, block, epochs, heapVars, pipe
  <2>2. QED
    BY <1>13, <2>1, <1>0, QuietStep DEF DeviceStartFails, One, TypeOK, PipeTypeOK, Waiting, IInv,
       HandInv, HeapInv, SettleInv, CapacityInv, ReservationConservation, Accounting,
       NeverDropped,
       control, audioVars, block, epochs, heapVars, pipe
<1>14. CASE DeviceStop
  <2>1. UNCHANGED <<queue, head, tail, hand, heap>>
    BY <1>14 DEF DeviceStop, control, audioVars, block, epochs, heapVars, pipe
  <2>2. QED
    BY <1>14, <2>1, <1>0, QuietStep DEF DeviceStop, One, TypeOK, PipeTypeOK, Waiting, IInv,
       HandInv, HeapInv, SettleInv, CapacityInv, ReservationConservation, Accounting,
       NeverDropped,
       control, audioVars, block, epochs, heapVars, pipe
<1>15. CASE EndSession
  <2>1. UNCHANGED <<queue, head, tail, hand, heap>>
    BY <1>15 DEF EndSession, control, audioVars, block, epochs, heapVars, pipe
  <2>2. QED
    BY <1>15, <2>1, <1>0, QuietStep DEF EndSession, One, TypeOK, PipeTypeOK, Waiting, IInv,
       HandInv, HeapInv, SettleInv, CapacityInv, ReservationConservation, Accounting,
       NeverDropped,
       control, audioVars, block, epochs, heapVars, pipe
<1>16. ASSUME NEW frames \in BlockSizes, BeginCallback(frames)
      PROVE  IInv'
  <2>1. UNCHANGED <<queue, head, tail, hand, heap>>
    BY <1>16 DEF BeginCallback, controlVars, control, block, epochs, heapVars
  <2>2. QED
    BY <1>16, <2>1, <1>0, QuietStep DEF BeginCallback, One, TypeOK, PipeTypeOK, Waiting, IInv,
       HandInv, HeapInv, SettleInv, CapacityInv, ReservationConservation, Accounting,
       NeverDropped,
       controlVars, control, block, epochs, heapVars
<1>17. CASE LoadEpoch
  <2>1. UNCHANGED <<queue, head, tail, hand, heap>>
    BY <1>17 DEF LoadEpoch, controlVars, control, block, epochs, heapVars
  <2>2. QED
    BY <1>17, <2>1, <1>0, QuietStep DEF LoadEpoch, One, TypeOK, PipeTypeOK, Waiting, IInv,
       HandInv, HeapInv, SettleInv, CapacityInv, ReservationConservation, Accounting,
       NeverDropped,
       controlVars, control, block, epochs, heapVars
<1>18. CASE FlushEvent
  <2>1. PICK e \in heap : heap' = heap \ {e} /\ nextSequence' = nextSequence
    BY <1>18 DEF FlushEvent, PopDue
  <2>2. IsFiniteSet(heap') /\ Cardinality(heap') = Cardinality(heap) - 1
    BY <2>1, FS_RemoveElement DEF IInv, HeapInv
  <2>3. Cardinality(QueuedEvents)' = Cardinality(QueuedEvents)
    BY <1>18, UnchangedCount DEF FlushEvent, controlVars
  <2>4. Waiting' = Waiting - 1 /\ Waiting \in Nat
    BY <1>18, <2>2, <2>3, <1>0 DEF FlushEvent, Waiting
  <2>5. HeapInv'
    BY <2>1, <2>2 DEF IInv, HeapInv
  <2>6. QED
    BY <1>18, <2>4, <2>5 DEF FlushEvent, Settle, One, TypeOK, Counters, controlVars, control,
       IInv, HandInv, SettleInv, CapacityInv, ReservationConservation, Accounting, NeverDropped
<1>19. CASE AdoptEpochReturns
  <2>1. UNCHANGED <<queue, head, tail, hand, heap>>
    BY <1>19 DEF AdoptEpochReturns, controlVars, control, block, epochs, heapVars
  <2>2. QED
    BY <1>19, <2>1, <1>0, QuietStep DEF AdoptEpochReturns, One, TypeOK, PipeTypeOK, Waiting, IInv,
       HandInv, HeapInv, SettleInv, CapacityInv, ReservationConservation, Accounting,
       NeverDropped,
       controlVars, control, block, epochs, heapVars
<1>20. CASE ApplyImmediate
  <2>1. Cardinality(QueuedEvents)' = Cardinality(QueuedEvents)
    BY <1>20, <1>0, DequeueCount DEF ApplyImmediate, One
  <2>2. UNCHANGED <<hand, heap, nextSequence>> /\ head' = head /\ tail' = tail + 1 /\ tail < head
    BY <1>20 DEF ApplyImmediate, Dequeue, Fifo!Take, heapVars
  <2>3. Waiting' = Waiting
    BY <2>1, <2>2, <1>0 DEF Waiting
  <2>4. QED
    BY <1>20, <2>2, <2>3, <1>0 DEF ApplyImmediate, One, PipeTypeOK, control, IInv, HandInv,
       HeapInv, SettleInv, CapacityInv, ReservationConservation, Accounting, NeverDropped
<1>21. CASE PopScheduled
  <2>1. Cardinality(QueuedEvents)' = Cardinality(QueuedEvents) - 1
    BY <1>21, <1>0, DequeueCount DEF PopScheduled, One
  <2>2. /\ UNCHANGED <<heap, nextSequence>> /\ head' = head /\ tail' = tail + 1 /\ tail < head
        /\ hand = {} /\ hand' = {queue[tail + 1]} /\ queue[tail + 1].scheduled
    BY <1>21 DEF PopScheduled, Dequeue, Fifo!Take, heapVars, IInv, HandInv
  <2>3. Waiting' = Waiting
    <3>1. Cardinality(hand) = 0 /\ Cardinality(hand') = 1
      BY <2>2, HandCount
    <3>2. heap' = heap
      BY <2>2
    <3>3. QED
      BY <2>1, <3>1, <3>2, <1>0 DEF Waiting
  <2>4. HandInv'
    BY <1>21, <2>2 DEF PopScheduled, HandInv
  <2>5. ReservationConservation' /\ CapacityInv'
    BY <1>21, <2>3 DEF PopScheduled, One, control, ReservationConservation, CapacityInv, IInv
  <2>6. Accounting' /\ NeverDropped'
    BY <1>21, <2>3 DEF PopScheduled, One, control, Accounting, NeverDropped, IInv
  <2>7. tail' <= head'
    BY <1>0, <2>2 DEF PipeTypeOK
  <2>8. HeapInv' /\ SettleInv'
    BY <1>21, <2>2 DEF PopScheduled, HeapInv, SettleInv, IInv
  <2>9. QED
    BY <2>4, <2>5, <2>6, <2>7, <2>8 DEF IInv
<1>22. CASE DiscardStale
  <2>1. Cardinality(hand) = 1 /\ Cardinality(hand') = 0
    BY <1>22, HandCount DEF DiscardStale, IInv, HandInv
  <2>2. Cardinality(QueuedEvents)' = Cardinality(QueuedEvents)
    BY <1>22, UnchangedCount DEF DiscardStale, controlVars
  <2>3. Waiting' = Waiting - 1 /\ Waiting \in Nat
    BY <1>22, <2>1, <2>2, <1>0 DEF DiscardStale, Waiting, heapVars
  <2>4. QED
    BY <1>22, <2>3 DEF DiscardStale, Settle, One, TypeOK, Counters, controlVars, control,
       heapVars, IInv, HandInv, HeapInv, SettleInv, CapacityInv, ReservationConservation,
       Accounting, NeverDropped
<1>23. CASE AdmitScheduled
  <2>1. Cardinality(hand) = 1 /\ Cardinality(hand') = 0 /\ hand' = {}
    BY <1>23, HandCount DEF AdmitScheduled, IInv, HandInv
  <2>2. Cardinality(QueuedEvents)' = Cardinality(QueuedEvents)
    BY <1>23, UnchangedCount DEF AdmitScheduled, controlVars
  <2>3. Cardinality(heap) < MaxScheduledEvents
    BY <2>1, <1>0, <1>23 DEF AdmitScheduled, Waiting, One, TypeOK, IInv, CapacityInv,
       ReservationConservation
  <2>4. PICK item \in hand : PushEvent(item)
    BY <1>23 DEF AdmitScheduled
  <2> DEFINE event == [target |-> item.target, sequence |-> nextSequence,
                       epoch |-> item.epoch, pos |-> item.pos, at |-> item.at]
  <2>5. /\ heap' = heap \cup {event} /\ nextSequence' = nextSequence + 1
        /\ aud' = "drain" /\ UNCHANGED <<outcome, ret>>
    BY <2>3, <2>4 DEF PushEvent
  <2>6. event.sequence = nextSequence /\ nextSequence \in Nat
    BY DEF TypeOK
  <2>7. event \notin heap
    BY <2>6 DEF IInv, HeapInv
  <2>8. IsFiniteSet(heap') /\ Cardinality(heap') = Cardinality(heap) + 1
    BY <2>5, <2>7, FS_AddElement DEF IInv, HeapInv
  <2>9. HeapInv'
    <3>1. \A e \in heap : e.sequence < nextSequence + 1
      BY <2>6 DEF IInv, HeapInv, TypeOK, HeapEvent
    <3>2. QED
      BY <3>1, <2>5, <2>6, <2>8 DEF HeapInv
  <2>10. Waiting' = Waiting
    BY <2>1, <2>2, <2>8, <1>0 DEF Waiting
  <2>11. QED
    BY <1>23, <2>1, <2>5, <2>9, <2>10 DEF AdmitScheduled, One, controlVars, control, IInv,
       HandInv, SettleInv, CapacityInv, ReservationConservation, Accounting, NeverDropped
<1>24. CASE DrainEnds
  <2>1. UNCHANGED <<queue, head, tail, hand, heap>>
    BY <1>24 DEF DrainEnds, controlVars, control, block, epochs, heapVars
  <2>2. QED
    BY <1>24, <2>1, <1>0, QuietStep DEF DrainEnds, One, TypeOK, PipeTypeOK, Waiting, IInv,
       HandInv, HeapInv, SettleInv, CapacityInv, ReservationConservation, Accounting,
       NeverDropped,
       controlVars, control, block, epochs, heapVars
<1>25. CASE DispatchEvent
  <2>1. PICK e \in heap : heap' = heap \ {e} /\ nextSequence' = nextSequence
    BY <1>25 DEF DispatchEvent, PopDue
  <2>2. IsFiniteSet(heap') /\ Cardinality(heap') = Cardinality(heap) - 1
    BY <2>1, FS_RemoveElement DEF IInv, HeapInv
  <2>3. Cardinality(QueuedEvents)' = Cardinality(QueuedEvents)
    BY <1>25, UnchangedCount DEF DispatchEvent, controlVars
  <2>4. Waiting' = Waiting - 1 /\ Waiting \in Nat
    BY <1>25, <2>2, <2>3, <1>0 DEF DispatchEvent, Waiting
  <2>5. HeapInv'
    BY <2>1, <2>2 DEF IInv, HeapInv
  <2>6. QED
    BY <1>25, <2>4, <2>5 DEF DispatchEvent, Settle, One, TypeOK, Counters, controlVars,
       control, IInv, HandInv, SettleInv, CapacityInv, ReservationConservation, Accounting,
       NeverDropped
<1>26. CASE DispatchEnds
  <2>1. UNCHANGED <<queue, head, tail, hand, heap>>
    BY <1>26 DEF DispatchEnds, controlVars, control, block, epochs, heapVars
  <2>2. QED
    BY <1>26, <2>1, <1>0, QuietStep DEF DispatchEnds, One, TypeOK, PipeTypeOK, Waiting, IInv,
       HandInv, HeapInv, SettleInv, CapacityInv, ReservationConservation, Accounting,
       NeverDropped,
       controlVars, control, block, epochs, heapVars
<1>27. CASE RenderSegment
  <2>1. UNCHANGED <<queue, head, tail, hand, heap>>
    BY <1>27 DEF RenderSegment, controlVars, control, block, epochs, heapVars
  <2>2. QED
    BY <1>27, <2>1, <1>0, QuietStep DEF RenderSegment, One, TypeOK, PipeTypeOK, Waiting, IInv,
       HandInv, HeapInv, SettleInv, CapacityInv, ReservationConservation, Accounting,
       NeverDropped,
       controlVars, control, block, epochs, heapVars
<1>28. CASE AdvanceClock
  <2>1. UNCHANGED <<queue, head, tail, hand, heap>>
    BY <1>28 DEF AdvanceClock, controlVars, control, block, epochs, heapVars
  <2>2. QED
    BY <1>28, <2>1, <1>0, QuietStep DEF AdvanceClock, One, TypeOK, PipeTypeOK, Waiting, IInv,
       HandInv, HeapInv, SettleInv, CapacityInv, ReservationConservation, Accounting,
       NeverDropped,
       controlVars, control, block, epochs, heapVars
<1>29. CASE ReleaseReservation
  <2>1. UNCHANGED <<queue, head, tail, hand, heap>>
    BY <1>29 DEF ReleaseReservation, controlVars, control, block, epochs, heapVars
  <2>2. Waiting' = Waiting
    BY <2>1, QuietStep
  <2>3. /\ aud = "release" /\ aud' = "record" /\ ret' = ret /\ outcome' = outcome
        /\ outstanding' = outstanding - 1 /\ outstanding \in Int
        /\ ctl' = ctl /\ stats' = stats /\ nextSequence' = nextSequence
    BY <1>29 DEF ReleaseReservation, controlVars, control, heapVars, TypeOK
  <2>4. HandInv' /\ HeapInv' /\ SettleInv'
    BY <2>1, <2>3 DEF HandInv, HeapInv, SettleInv, IInv
  <2>5. CapacityInv' /\ ReservationConservation'
    BY <1>0, <2>2, <2>3 DEF One, Waiting, CapacityInv, ReservationConservation, IInv
  <2>6. Accounting' /\ NeverDropped'
    BY <2>2, <2>3 DEF One, Accounting, NeverDropped, IInv
  <2>7. QED
    BY <2>1, <2>4, <2>5, <2>6 DEF IInv
<1>30. CASE RecordOutcome
  <2>1. UNCHANGED <<queue, head, tail, hand, heap>>
    BY <1>30 DEF RecordOutcome, controlVars, control, block, epochs, heapVars
  <2>2. Waiting' = Waiting /\ Waiting \in Nat
    BY <1>0, <2>1, QuietStep DEF Waiting
  <2>3. outcome.kind \in {"executed", "discarded"}
    BY <1>30 DEF RecordOutcome, SettleInv, NeverDropped, IInv
  <2>4. /\ stats'["accepted"] = stats["accepted"] /\ stats'["dropped"] = stats["dropped"]
        /\ stats'["executed"] + stats'["discarded"] = stats["executed"] + stats["discarded"] + 1
    BY <1>30, <2>3 DEF RecordOutcome, Counters, TypeOK
  <2>5. /\ aud = "record" /\ aud' = ret /\ ret \in {"idle", "adopt", "drain", "dispatch"}
        /\ ctl' = ctl /\ outstanding' = outstanding /\ nextSequence' = nextSequence
        /\ outcome'.kind = "none"
    BY <1>30 DEF RecordOutcome, controlVars, control, heapVars, NoOutcome, TypeOK
  <2>6. ReservationConservation' /\ CapacityInv'
    BY <2>2, <2>5 DEF One, ReservationConservation, CapacityInv, IInv
  <2>7. stats["executed"] \in Nat /\ stats["discarded"] \in Nat /\ stats["accepted"] \in Nat
        /\ stats'["executed"] \in Nat /\ stats'["discarded"] \in Nat
    BY <1>30 DEF RecordOutcome, Counters, TypeOK
  <2>8. Accounting' /\ NeverDropped'
    BY <2>2, <2>4, <2>5, <2>7 DEF One, Accounting, NeverDropped, IInv
  <2>9. QED
    BY <2>1, <2>5, <2>6, <2>8 DEF IInv, HandInv, HeapInv, SettleInv
<1>31. CASE UNCHANGED vars
  <2>1. UNCHANGED <<queue, head, tail, hand, heap>>
    BY <1>31 DEF vars, pipe, heapVars
  <2>2. QED
    BY <1>31, <2>1, QuietStep DEF vars, control, heapVars, pipe, One, Waiting, IInv,
       HandInv, HeapInv, SettleInv, CapacityInv, ReservationConservation, Accounting, NeverDropped
<1>32. QED
  BY <1>1, <1>2, <1>3, <1>4, <1>5, <1>6, <1>7, <1>8, <1>9, <1>10, <1>11, <1>12, <1>13, <1>14,
     <1>15, <1>16, <1>17, <1>18, <1>19, <1>20, <1>21, <1>22, <1>23, <1>24, <1>25, <1>26, <1>27,
     <1>28, <1>29, <1>30, <1>31
     DEF Next, Control, ControlCompletes, Callback

(* Together with the types, the invariant holds in every reachable state. *)
LEMMA Invariant == Spec => [](TypeOK /\ IInv)
<1>1. TypeOK /\ IInv /\ [Next]_vars => IInv'
  BY InvariantStep
<1>2. QED
  BY <1>1, InvariantInit, TypeCorrect, PTL DEF Spec

(* Reservations are conserved: none leaks and none is released twice.      *)
THEOREM ReservationsConserved == Spec => []ReservationConservation
<1>1. IInv => ReservationConservation
  BY DEF IInv
<1>2. QED
  BY <1>1, Invariant, PTL

(* EventScheduler::Push never finds the heap full.                         *)
THEOREM AcceptedNeverDropped == Spec => []NeverDropped
<1>1. IInv => NeverDropped
  BY DEF IInv
<1>2. QED
  BY <1>1, Invariant, PTL

(* The accounting identity of the quiescent runtime.                       *)
THEOREM AccountingBalances == Spec => []QuiescentAccounting
<1>1. TypeOK /\ IInv => QuiescentAccounting
  <2> SUFFICES ASSUME TypeOK, IInv, ctl = "idle", aud = "idle"
               PROVE  stats["accepted"] = stats["executed"] + stats["discarded"]
                                            + stats["dropped"] + outstanding
    BY DEF QuiescentAccounting
  <2>1. Waiting \in Nat
    BY SizesAreNumbers DEF Waiting
  <2>2. QED
    BY <2>1 DEF IInv, ReservationConservation, Accounting, One, TypeOK, Counters
<1>2. QED
  BY <1>1, Invariant, PTL

-----------------------------------------------------------------------------
(* When and in which order events are executed and discarded.              *)

(* What the callback is doing, the settling of an event left aside. *)
Where == IF aud \in {"release", "record"} THEN ret ELSE aud

Early == Where \in {"load", "adopt", "drain", "admit"}
Late == Where \in {"dispatch", "segment", "advance"}

(* The locals of the callback. *)
BlockInv ==
  /\ Where \in {"idle", "load", "adopt", "drain", "admit", "dispatch", "segment", "advance"}
  /\ Where = "idle" => aud = "idle" /\ last = {} /\ drained = 0
  /\ Where # "idle" =>
       /\ blockStart = clock /\ total \in BlockSizes /\ clock + total <= MaxFrame
       /\ rendered <= total
  /\ Early => rendered = 0 /\ last = {}
  /\ Where = "load" \/ (Where = "adopt" /\ hand = {}) \/ Late => drained = 0
  /\ Late => hand = {}
  /\ clock <= MaxFrame

(* Between Shutdown's DeviceStop and the end of the session no callback    *)
(* runs, if Stop is synchronous; and a call in progress names the session. *)
SessionInv ==
  /\ ctl = "reserved" => head < MaxCommands /\ \A c \in call : c.epoch = sessionEpoch
  /\ SyncStop /\ ctl = "ending" => aud = "idle" /\ ~running

(* The epoch adopted is that of every event in the heap; while the         *)
(* callback adopts, it is at most the one to adopt, and afterwards at      *)
(* least the one the callback began with.                                  *)
EpochInv ==
  /\ audioEpoch <= sessionEpoch /\ adopting <= sessionEpoch /\ seenEpoch <= sessionEpoch
  /\ \A e \in heap : e.epoch = audioEpoch
  /\ Where = "adopt" /\ hand = {} => adopting = seenEpoch
  /\ Where = "adopt" => \A q \in hand : adopting = q.epoch /\ audioEpoch >= seenEpoch
  /\ Where = "admit" => \A q \in hand : q.epoch <= audioEpoch
  /\ Where \in {"drain", "admit"} \/ Late => audioEpoch >= seenEpoch
  /\ SyncStop /\ Where \notin {"idle", "load"} => seenEpoch = sessionEpoch

(* Positions follow the order of submissions from the queue through the    *)
(* hand into the heap, where the sequence numbers repeat it.               *)
PlaceInv ==
  /\ \A i \in (tail + 1)..head :
       queue[i].pos = i /\ queue[i].at <= clock /\ queue[i].epoch <= sessionEpoch
  /\ \A q \in hand : q.pos = tail /\ q.at <= clock /\ q.epoch <= sessionEpoch
  /\ \A e \in heap : e.pos <= tail /\ e.at <= clock /\ \A q \in hand : e.pos < q.pos
  /\ \A e, f \in heap :
       /\ e.sequence < f.sequence => e.pos < f.pos
       /\ e.sequence = f.sequence => e = f

(* DrainCommands' bound is enough for the commands that were there when    *)
(* the callback began.                                                     *)
DrainInv ==
  /\ head - tail <= QueueCapacity
  /\ Early => \A i \in (tail + 1)..head :
                queue[i].at < clock => i <= tail - drained + QueueCapacity
  /\ Late => \A i \in (tail + 1)..head : queue[i].at >= clock

(* What is left in the heap lies ahead of the segments rendered. *)
AheadInv ==
  /\ Where = "segment" => rendered < total /\ \A e \in heap : e.target > Cursor
  /\ rendered > 0 /\ ~Oversized => \A e \in heap : e.target >= Cursor
  /\ rendered > 0 /\ Oversized => rendered = total /\ \A e \in heap : e.target > blockStart
  /\ Where = "advance" => rendered = total /\ (total = 0 => \A e \in heap : e.target >= Cursor)

Splittable == \A n \in BlockSizes : n <= MaxFramesPerBlock
Led(e) == \A n \in BlockSizes : e.target >= e.at + n

WaitingEvents == {queue[i] : i \in QueuedEvents} \cup hand \cup heap

(* An event submitted with a lead of one block is never behind the clock.  *)
LeadInv ==
  Splittable /\ BlockSizes # {} => \A e \in WaitingEvents : Led(e) => e.target >= clock

(* The event executed last. *)
LastInv ==
  \A x \in last :
    /\ x.frame >= x.event.target /\ x.frame >= x.event.at /\ x.frame <= Cursor
    /\ x.event.pos <= tail
    /\ x.event.epoch >= seenEpoch /\ (SyncStop => x.event.epoch = sessionEpoch)
    /\ \A e \in heap : Precedes(x.event, e)
    /\ Splittable /\ Led(x.event) => x.frame = x.event.target

OrderInv ==
  /\ BlockInv /\ SessionInv /\ EpochInv /\ PlaceInv /\ DrainInv /\ AheadInv /\ LeadInv /\ LastInv

-----------------------------------------------------------------------------
(* The types that the arithmetic below needs, one fact for each record.    *)
Numbers ==
  /\ head \in Nat /\ tail \in Nat /\ clock \in Nat /\ sessionEpoch \in Nat
  /\ blockStart \in Nat /\ total \in Nat /\ rendered \in Nat /\ drained \in Nat
  /\ adopting \in Nat /\ audioEpoch \in Nat /\ seenEpoch \in Nat /\ nextSequence \in Nat
  /\ \A i \in (tail + 1)..head :
       /\ queue[i].pos \in Nat /\ queue[i].at \in Nat /\ queue[i].epoch \in Nat
       /\ queue[i].target \in Nat
  /\ \A q \in hand : q.pos \in Nat /\ q.at \in Nat /\ q.epoch \in Nat /\ q.target \in Nat
  /\ \A e \in heap :
       /\ e.pos \in Nat /\ e.at \in Nat /\ e.epoch \in Nat /\ e.sequence \in Nat
       /\ e.target \in Nat /\ e.target <= kMaxFramePosition
  /\ \A x \in last :
       /\ x.frame \in Nat
       /\ x.event.pos \in Nat /\ x.event.at \in Nat /\ x.event.epoch \in Nat
       /\ x.event.target \in Nat

(* They follow from the type invariant. *)
LEMMA NumbersTyped == TypeOK => Numbers
<1> SUFFICES ASSUME TypeOK
             PROVE  Numbers
  OBVIOUS
<1>1. \A i \in (tail + 1)..head : queue[i] \in Item
  BY DEF TypeOK, PipeTypeOK
<1>2. \A i \in (tail + 1)..head :
        /\ queue[i].pos \in Nat /\ queue[i].at \in Nat /\ queue[i].epoch \in Nat
        /\ queue[i].target \in Nat
  BY <1>1, BoundsAssumption DEF Item, Frame, kMaxFramePosition
<1>3. \A q \in hand : q.pos \in Nat /\ q.at \in Nat /\ q.epoch \in Nat /\ q.target \in Nat
  BY BoundsAssumption DEF TypeOK, Item, Frame, kMaxFramePosition
<1>4. \A e \in heap :
        /\ e.pos \in Nat /\ e.at \in Nat /\ e.epoch \in Nat /\ e.sequence \in Nat
        /\ e.target \in Nat /\ e.target <= kMaxFramePosition
  BY BoundsAssumption DEF TypeOK, HeapEvent, Frame, kMaxFramePosition
<1>5. \A x \in last :
        /\ x.frame \in Nat
        /\ x.event.pos \in Nat /\ x.event.at \in Nat /\ x.event.epoch \in Nat
        /\ x.event.target \in Nat
  BY BoundsAssumption DEF TypeOK, Frame, kMaxFramePosition
<1> QED
  BY <1>2, <1>3, <1>4, <1>5 DEF Numbers, TypeOK, PipeTypeOK

(* The variables the invariant is about, but for the places of the two     *)
(* threads.                                                                *)
timelineVars == <<clock, sessionEpoch, queue, head, tail, blockStart, total, rendered, adopting,
                  audioEpoch, seenEpoch, drained, hand, heap, nextSequence, last>>

CallbackInv ==
  BlockInv /\ EpochInv /\ PlaceInv /\ DrainInv /\ AheadInv /\ LeadInv /\ LastInv

(* A step that leaves the timeline alone, as most calls do and the two     *)
(* steps that settle an event.                                             *)
LEMMA QuietCallback ==
  ASSUME CallbackInv, UNCHANGED timelineVars, Where' = Where, Where = "idle" => aud' = "idle"
  PROVE  CallbackInv'
<1> USE DEF CallbackInv, timelineVars
<1>1. BlockInv'
  BY DEF BlockInv, Early, Late
<1>2. EpochInv'
  BY DEF EpochInv, Late
<1>3. PlaceInv'
  BY DEF PlaceInv
<1>4. DrainInv'
  BY DEF DrainInv, Early, Late
<1>5. AheadInv'
  BY DEF AheadInv, Cursor, Oversized
<1>6. LeadInv'
  BY DEF LeadInv, WaitingEvents, QueuedEvents
<1>7. LastInv'
  BY DEF LastInv, Cursor
<1> QED
  BY <1>1, <1>2, <1>3, <1>4, <1>5, <1>6, <1>7

(* Every step of the control thread but a push and the end of a session    *)
(* leaves the timeline alone.                                              *)
QuietCall ==
  \/ \E target \in Targets : ScheduleReserve(target)
  \/ ScheduleExhausted \/ SubmitQueueFull \/ Start \/ Stop \/ Shutdown \/ ScheduleQueueFull
  \/ ScheduleRollback \/ ScheduleRecordAccepted \/ DeviceStart \/ DeviceStartFails \/ DeviceStop

(* They change none of these variables, and not the place of the callback. *)
LEMMA QuietCalls ==
  ASSUME QuietCall
  PROVE  UNCHANGED <<timelineVars, aud, ret>>
<1> USE DEF timelineVars, audioVars, pipe, block, epochs, heapVars
<1>1. ASSUME NEW target \in Targets, ScheduleReserve(target)
      PROVE  UNCHANGED <<timelineVars, aud, ret>>
  BY <1>1 DEF ScheduleReserve
<1>2. CASE ScheduleExhausted
  BY <1>2 DEF ScheduleExhausted
<1>3. CASE SubmitQueueFull
  BY <1>3 DEF SubmitQueueFull
<1>4. CASE Start
  BY <1>4 DEF Start
<1>5. CASE Stop
  BY <1>5 DEF Stop
<1>6. CASE Shutdown
  BY <1>6 DEF Shutdown
<1>7. CASE ScheduleQueueFull
  BY <1>7 DEF ScheduleQueueFull
<1>8. CASE ScheduleRollback
  BY <1>8 DEF ScheduleRollback
<1>9. CASE ScheduleRecordAccepted
  BY <1>9 DEF ScheduleRecordAccepted
<1>10. CASE DeviceStart
  BY <1>10 DEF DeviceStart
<1>11. CASE DeviceStartFails
  BY <1>11 DEF DeviceStartFails
<1>12. CASE DeviceStop
  BY <1>12 DEF DeviceStop
<1> QED
  BY <1>1, <1>2, <1>3, <1>4, <1>5, <1>6, <1>7, <1>8, <1>9, <1>10, <1>11, <1>12 DEF QuietCall

(* The two pushes: a command of the order's next place enters the queue,   *)
(* stamped with the clock.                                                 *)
LEMMA Pushes ==
  ASSUME TypeOK, SessionInv, Submit \/ SchedulePush
  PROVE  \E item \in Item :
           /\ Enqueue(item) /\ QueueHasRoom
           /\ item.pos = head + 1 /\ item.at = clock /\ item.epoch <= sessionEpoch
           /\ UNCHANGED <<clock, sessionEpoch, audioVars>>
<1>1. CASE Submit
  <2> DEFINE item == [scheduled |-> FALSE, target |-> 0, epoch |-> 0, pos |-> head + 1,
                      at |-> clock]
  <2>1. item \in Item
    BY BoundsAssumption DEF TypeOK, PipeTypeOK, Item, Frame, kMaxFramePosition
  <2>2. item.epoch <= sessionEpoch
    BY DEF TypeOK
  <2> QED
    BY <1>1, <2>1, <2>2 DEF Submit
<1>2. CASE SchedulePush
  <2>1. PICK c \in call :
          Enqueue([scheduled |-> TRUE, target |-> c.target, epoch |-> c.epoch,
                   pos |-> head + 1, at |-> clock])
    BY <1>2 DEF SchedulePush
  <2> DEFINE item == [scheduled |-> TRUE, target |-> c.target, epoch |-> c.epoch,
                      pos |-> head + 1, at |-> clock]
  <2>2. item \in Item
    BY DEF TypeOK, PipeTypeOK, Item, Frame
  <2>3. item.epoch = sessionEpoch /\ sessionEpoch \in Nat
    BY <1>2 DEF SchedulePush, SessionInv, TypeOK
  <2> QED
    BY <1>2, <2>1, <2>2, <2>3 DEF SchedulePush
<1> QED
  BY <1>1, <1>2

(* What a push does to the queue, item by item.                            *)
LEMMA Pushed ==
  ASSUME PipeTypeOK, tail <= head, NEW item \in Item, Enqueue(item)
  PROVE  /\ head' = head + 1 /\ tail' = tail
         /\ \A i \in (tail + 1)..head : queue'[i] = queue[i]
         /\ queue'[head + 1] = item
         /\ \A i \in (tail' + 1)..head' : i \in (tail + 1)..head \/ i = head + 1
BY DEF PipeTypeOK, Enqueue, Fifo!Put

(* And a pop.                                                              *)
LEMMA Popped ==
  ASSUME PipeTypeOK, tail < head, Dequeue
  PROVE  /\ head' = head /\ tail' = tail + 1
         /\ \A i \in (tail' + 1)..head' : i \in (tail + 1)..head /\ queue'[i] = queue[i]
         /\ tail + 1 \in (tail + 1)..head
BY DEF PipeTypeOK, Dequeue, Fifo!Take

(* So a push preserves what the callback relies on.                        *)
LEMMA PushCallback ==
  ASSUME TypeOK, IInv, SessionInv, CallbackInv, Submit \/ SchedulePush
  PROVE  CallbackInv'
<1> USE DEF CallbackInv
<1>1. PICK item \in Item :
        /\ Enqueue(item) /\ QueueHasRoom
        /\ item.pos = head + 1 /\ item.at = clock /\ item.epoch <= sessionEpoch
        /\ UNCHANGED <<clock, sessionEpoch, audioVars>>
  BY Pushes
<1>2. /\ head' = head + 1 /\ tail' = tail
      /\ \A i \in (tail + 1)..head : queue'[i] = queue[i]
      /\ queue'[head + 1] = item
      /\ \A i \in (tail' + 1)..head' : i \in (tail + 1)..head \/ i = head + 1
  BY <1>1, Pushed DEF TypeOK, IInv
<1>3. /\ UNCHANGED <<clock, sessionEpoch, blockStart, total, rendered, adopting, audioEpoch,
                     seenEpoch, drained, hand, heap, nextSequence, last, aud, ret>>
      /\ Where' = Where
  BY <1>1 DEF audioVars, block, epochs, heapVars, Where
<1>4. Numbers /\ QueueCapacity \in Nat
  BY NumbersTyped, ConfigAssumption
<1>5. BlockInv'
  BY <1>3 DEF BlockInv, Early, Late
<1>6. EpochInv'
  BY <1>3 DEF EpochInv, Late
<1>7. PlaceInv'
  BY <1>1, <1>2, <1>3, <1>4 DEF PlaceInv, Numbers
<1>8. DrainInv'
  BY <1>1, <1>2, <1>3, <1>4 DEF DrainInv, Numbers, Early, Late, QueueHasRoom, Fifo!HasRoom
<1>9. AheadInv'
  BY <1>3 DEF AheadInv, Cursor, Oversized
<1>10. LeadInv'
  <2>1. \A e \in WaitingEvents' : e \in WaitingEvents \/ e = item
    BY <1>2, <1>3 DEF WaitingEvents, QueuedEvents
  <2>2. Led(item) /\ BlockSizes # {} => item.target >= clock
    <3>1. item.target \in Nat /\ item.at = clock /\ clock \in Nat
      BY <1>1, <1>4, BoundsAssumption DEF Numbers, Item, Frame, kMaxFramePosition
    <3>2. BlockSizes \subseteq Nat
      BY BoundsAssumption
    <3>3. ASSUME NEW n \in BlockSizes, Led(item)
          PROVE  item.target >= clock
      BY <3>1, <3>2, <3>3 DEF Led
    <3> QED
      BY <3>3
  <2> QED
    BY <1>3, <2>1, <2>2 DEF LeadInv
<1>11. LastInv'
  BY <1>2, <1>3 DEF LastInv, Cursor
<1> QED
  BY <1>5, <1>6, <1>7, <1>8, <1>9, <1>10, <1>11

(* The end of a session.  With a synchronous Stop no callback sees it.     *)
LEMMA SessionEnds ==
  ASSUME TypeOK, IInv, CallbackInv, SessionInv, EndSession
  PROVE  CallbackInv'
<1> USE DEF CallbackInv
<1>0. Numbers /\ QueueCapacity \in Nat /\ MaxFrame \in Nat /\ BlockSizes \subseteq Nat
  BY NumbersTyped, ConfigAssumption, BoundsAssumption
<1>1. /\ ctl = "ending" /\ sessionEpoch' = sessionEpoch + 1
      /\ aud' = aud /\ ret' = ret /\ Where' = Where
      /\ UNCHANGED <<clock, queue, head, tail, blockStart, total, rendered, adopting, audioEpoch,
                    seenEpoch, drained, hand, heap, nextSequence, last>>
  BY DEF EndSession, pipe, audioVars, block, epochs, heapVars, Where
<1>2. BlockInv'
  BY <1>0, <1>1 DEF Numbers, BlockInv, Early, Late
<1>3. EpochInv'
  BY <1>0, <1>1 DEF Numbers, EpochInv, Late, SessionInv, Where
<1>4. PlaceInv'
  BY <1>0, <1>1 DEF Numbers, PlaceInv
<1>5. DrainInv'
  BY <1>0, <1>1 DEF Numbers, DrainInv, Early, Late
<1>6. AheadInv'
  BY <1>0, <1>1 DEF Numbers, AheadInv, Cursor, Oversized
<1>7. LeadInv'
  BY <1>0, <1>1 DEF Numbers, LeadInv, WaitingEvents, QueuedEvents
<1>8. LastInv'
  BY <1>0, <1>1 DEF Numbers, LastInv, BlockInv, SessionInv, Cursor, Where
<1> QED
  BY <1>2, <1>3, <1>4, <1>5, <1>6, <1>7, <1>8

(* A callback reads its block from the clock.                              *)
LEMMA CallbackBegins ==
  ASSUME TypeOK, IInv, CallbackInv, NEW frames \in BlockSizes, BeginCallback(frames)
  PROVE  CallbackInv'
<1> USE DEF CallbackInv
<1>0. Numbers /\ QueueCapacity \in Nat /\ MaxFrame \in Nat /\ BlockSizes \subseteq Nat
  BY NumbersTyped, ConfigAssumption, BoundsAssumption
<1>1. /\ Where = "idle" /\ Where' = "load" /\ last = {}
      /\ blockStart' = clock /\ total' = frames /\ rendered' = 0
      /\ clock + frames <= MaxFrame /\ frames \in Nat /\ drained = 0
      /\ UNCHANGED <<clock, sessionEpoch, queue, head, tail, adopting, audioEpoch, seenEpoch,
                    drained, hand, heap, nextSequence, last>>
  BY <1>0 DEF BeginCallback, BlockInv, controlVars, control, block, epochs, heapVars, Where
<1>2. BlockInv'
  BY <1>0, <1>1, BoundsAssumption DEF Numbers, BlockInv, Early, Late
<1>3. EpochInv'
  BY <1>0, <1>1 DEF Numbers, EpochInv, Late
<1>4. PlaceInv'
  BY <1>0, <1>1 DEF Numbers, PlaceInv
<1>5. DrainInv'
  BY <1>0, <1>1 DEF Numbers, DrainInv, Early, Late
<1>6. AheadInv'
  BY <1>0, <1>1 DEF Numbers, AheadInv, Cursor, Oversized
<1>7. LeadInv'
  BY <1>0, <1>1 DEF Numbers, LeadInv, WaitingEvents, QueuedEvents
<1>8. LastInv'
  BY <1>0, <1>1 DEF Numbers, LastInv, Cursor
<1> QED
  BY <1>2, <1>3, <1>4, <1>5, <1>6, <1>7, <1>8

(* It adopts the session's epoch.                                          *)
LEMMA EpochLoads ==
  ASSUME TypeOK, IInv, CallbackInv, LoadEpoch
  PROVE  CallbackInv'
<1> USE DEF CallbackInv
<1>0. Numbers /\ QueueCapacity \in Nat /\ MaxFrame \in Nat /\ BlockSizes \subseteq Nat
  BY NumbersTyped, ConfigAssumption, BoundsAssumption
<1>1. /\ Where = "load" /\ Where' = "adopt"
      /\ adopting' = sessionEpoch /\ seenEpoch' = sessionEpoch
      /\ hand = {} /\ last = {}
      /\ UNCHANGED <<clock, sessionEpoch, queue, head, tail, blockStart, total, rendered,
                    audioEpoch, drained, hand, heap, nextSequence, last>>
  BY DEF LoadEpoch, IInv, HandInv, BlockInv, Early, controlVars, control, block, epochs,
     heapVars, Where
<1>2. BlockInv'
  BY <1>0, <1>1 DEF Numbers, BlockInv, Early, Late
<1>3. EpochInv'
  BY <1>0, <1>1 DEF Numbers, EpochInv, Late
<1>4. PlaceInv'
  BY <1>0, <1>1 DEF Numbers, PlaceInv
<1>5. DrainInv'
  BY <1>0, <1>1 DEF Numbers, DrainInv, Early, Late
<1>6. AheadInv'
  BY <1>0, <1>1 DEF Numbers, AheadInv, Cursor, Oversized
<1>7. LeadInv'
  BY <1>0, <1>1 DEF Numbers, LeadInv, WaitingEvents, QueuedEvents
<1>8. LastInv'
  BY <1>0, <1>1 DEF Numbers, LastInv, Cursor
<1> QED
  BY <1>2, <1>3, <1>4, <1>5, <1>6, <1>7, <1>8

(* It flushes events, which leaves fewer.                                  *)
LEMMA EventFlushed ==
  ASSUME TypeOK, IInv, CallbackInv, FlushEvent
  PROVE  CallbackInv'
<1> USE DEF CallbackInv
<1>0. Numbers /\ QueueCapacity \in Nat /\ MaxFrame \in Nat /\ BlockSizes \subseteq Nat
  BY NumbersTyped, ConfigAssumption, BoundsAssumption
<1>1. /\ Where = "adopt" /\ Where' = "adopt" /\ aud' = "release"
      /\ heap' \subseteq heap /\ nextSequence' = nextSequence
      /\ UNCHANGED <<clock, sessionEpoch, queue, head, tail, blockStart, total, rendered,
                    adopting, audioEpoch, seenEpoch, drained, hand, nextSequence, last>>
  BY DEF FlushEvent, PopDue, Settle, controlVars, control, block, epochs, heapVars, Where
<1>2. BlockInv'
  BY <1>0, <1>1 DEF Numbers, BlockInv, Early, Late
<1>3. EpochInv'
  BY <1>0, <1>1 DEF Numbers, EpochInv, Late
<1>4. PlaceInv'
  BY <1>0, <1>1 DEF Numbers, PlaceInv
<1>5. DrainInv'
  BY <1>0, <1>1 DEF Numbers, DrainInv, Early, Late
<1>6. AheadInv'
  BY <1>0, <1>1 DEF Numbers, AheadInv, Cursor, Oversized
<1>7. LeadInv'
  BY <1>0, <1>1 DEF Numbers, LeadInv, WaitingEvents, QueuedEvents
<1>8. LastInv'
  BY <1>0, <1>1 DEF Numbers, LastInv, Cursor
<1> QED
  BY <1>2, <1>3, <1>4, <1>5, <1>6, <1>7, <1>8

(* A newer epoch is adopted once the heap is empty.                        *)
LEMMA EpochAdopted ==
  ASSUME TypeOK, IInv, CallbackInv, AdoptEpochReturns
  PROVE  CallbackInv'
<1> USE DEF CallbackInv
<1>0. Numbers /\ QueueCapacity \in Nat /\ MaxFrame \in Nat /\ BlockSizes \subseteq Nat
  BY NumbersTyped, ConfigAssumption, BoundsAssumption
<1>1. /\ Where = "adopt" /\ Where' = IF hand = {} THEN "drain" ELSE "admit"
      /\ audioEpoch' = IF adopting > audioEpoch THEN adopting ELSE audioEpoch
      /\ adopting' = 0
      /\ adopting > audioEpoch => heap = {}
      /\ UNCHANGED <<clock, sessionEpoch, queue, head, tail, blockStart, total, rendered,
                    seenEpoch, drained, hand, heap, nextSequence, last>>
  BY <1>0 DEF AdoptEpochReturns, NewerEpoch, NothingDue, Due, Numbers, controlVars, control,
     block, epochs, heapVars, Where
<1>2. BlockInv'
  BY <1>0, <1>1 DEF Numbers, BlockInv, Early, Late
<1>3. EpochInv'
  BY <1>0, <1>1 DEF Numbers, EpochInv, Late
<1>4. PlaceInv'
  BY <1>0, <1>1 DEF Numbers, PlaceInv
<1>5. DrainInv'
  BY <1>0, <1>1 DEF Numbers, DrainInv, Early, Late
<1>6. AheadInv'
  BY <1>0, <1>1 DEF Numbers, AheadInv, Cursor, Oversized
<1>7. LeadInv'
  BY <1>0, <1>1 DEF Numbers, LeadInv, WaitingEvents, QueuedEvents
<1>8. LastInv'
  BY <1>0, <1>1 DEF Numbers, LastInv, Cursor
<1> QED
  BY <1>2, <1>3, <1>4, <1>5, <1>6, <1>7, <1>8

(* An immediate command leaves the queue.                                  *)
LEMMA ImmediateApplied ==
  ASSUME TypeOK, IInv, CallbackInv, ApplyImmediate
  PROVE  CallbackInv'
<1> USE DEF CallbackInv
<1>0. Numbers /\ QueueCapacity \in Nat /\ MaxFrame \in Nat /\ BlockSizes \subseteq Nat
  BY NumbersTyped, ConfigAssumption, BoundsAssumption
<1>1. /\ Where = "drain" /\ Where' = "drain" /\ drained' = drained + 1 /\ hand = {}
      /\ tail' = tail + 1 /\ head' = head /\ tail < head
      /\ \A i \in (tail' + 1)..head' : i \in (tail + 1)..head /\ queue'[i] = queue[i]
      /\ UNCHANGED <<clock, sessionEpoch, blockStart, total, rendered, adopting, audioEpoch,
                    seenEpoch, hand, heap, nextSequence, last>>
  BY Popped DEF ApplyImmediate, TypeOK, IInv, HandInv, controlVars, control, block, epochs,
     heapVars, Where
<1>2. BlockInv'
  BY <1>0, <1>1 DEF Numbers, BlockInv, Early, Late
<1>3. EpochInv'
  BY <1>0, <1>1 DEF Numbers, EpochInv, Late
<1>4. PlaceInv'
  BY <1>0, <1>1 DEF Numbers, PlaceInv
<1>5. DrainInv'
  BY <1>0, <1>1 DEF Numbers, DrainInv, Early, Late
<1>6. AheadInv'
  BY <1>0, <1>1 DEF Numbers, AheadInv, Cursor, Oversized
<1>7. LeadInv'
  BY <1>0, <1>1 DEF Numbers, LeadInv, WaitingEvents, QueuedEvents
<1>8. LastInv'
  BY <1>0, <1>1 DEF Numbers, LastInv, Cursor
<1> QED
  BY <1>2, <1>3, <1>4, <1>5, <1>6, <1>7, <1>8

(* A scheduled command goes from the queue to the hand.                    *)
LEMMA ScheduledPopped ==
  ASSUME TypeOK, IInv, CallbackInv, PopScheduled
  PROVE  CallbackInv'
<1> USE DEF CallbackInv
<1>0. Numbers /\ QueueCapacity \in Nat /\ MaxFrame \in Nat /\ BlockSizes \subseteq Nat
  BY NumbersTyped, ConfigAssumption, BoundsAssumption
<1>1. /\ Where = "drain" /\ Where' = "adopt" /\ drained' = drained + 1
      /\ hand = {} /\ hand' = {queue[tail + 1]} /\ adopting' = queue[tail + 1].epoch
      /\ tail' = tail + 1 /\ head' = head /\ tail < head
      /\ tail + 1 \in (tail + 1)..head /\ queue[tail + 1].scheduled
      /\ \A i \in (tail' + 1)..head' : i \in (tail + 1)..head /\ queue'[i] = queue[i]
      /\ UNCHANGED <<clock, sessionEpoch, blockStart, total, rendered, audioEpoch, seenEpoch,
                    heap, nextSequence, last>>
  BY Popped DEF PopScheduled, TypeOK, IInv, HandInv, controlVars, control, block, epochs,
     heapVars, Where
<1>2. BlockInv'
  BY <1>0, <1>1 DEF Numbers, BlockInv, Early, Late
<1>3. EpochInv'
  BY <1>0, <1>1 DEF Numbers, EpochInv, PlaceInv, Late
<1>4. PlaceInv'
  BY <1>0, <1>1 DEF Numbers, PlaceInv
<1>5. DrainInv'
  BY <1>0, <1>1 DEF Numbers, DrainInv, Early, Late
<1>6. AheadInv'
  BY <1>0, <1>1 DEF Numbers, AheadInv, Cursor, Oversized
<1>7. LeadInv'
  BY <1>0, <1>1 DEF Numbers, LeadInv, WaitingEvents, QueuedEvents
<1>8. LastInv'
  BY <1>0, <1>1 DEF Numbers, LastInv, Cursor
<1> QED
  BY <1>2, <1>3, <1>4, <1>5, <1>6, <1>7, <1>8

(* One of an older session is discarded.                                   *)
LEMMA StaleDiscarded ==
  ASSUME TypeOK, IInv, CallbackInv, DiscardStale
  PROVE  CallbackInv'
<1> USE DEF CallbackInv
<1>0. Numbers /\ QueueCapacity \in Nat /\ MaxFrame \in Nat /\ BlockSizes \subseteq Nat
  BY NumbersTyped, ConfigAssumption, BoundsAssumption
<1>1. /\ Where = "admit" /\ Where' = "drain" /\ aud' = "release" /\ hand' = {}
      /\ UNCHANGED <<clock, sessionEpoch, queue, head, tail, blockStart, total, rendered,
                    adopting, audioEpoch, seenEpoch, drained, heap, nextSequence, last>>
  BY DEF DiscardStale, Settle, controlVars, control, block, epochs, heapVars, Where
<1>2. BlockInv'
  BY <1>0, <1>1 DEF Numbers, BlockInv, Early, Late
<1>3. EpochInv'
  BY <1>0, <1>1 DEF Numbers, EpochInv, Late
<1>4. PlaceInv'
  BY <1>0, <1>1 DEF Numbers, PlaceInv
<1>5. DrainInv'
  BY <1>0, <1>1 DEF Numbers, DrainInv, Early, Late
<1>6. AheadInv'
  BY <1>0, <1>1 DEF Numbers, AheadInv, Cursor, Oversized
<1>7. LeadInv'
  BY <1>0, <1>1 DEF Numbers, LeadInv, WaitingEvents, QueuedEvents
<1>8. LastInv'
  BY <1>0, <1>1 DEF Numbers, LastInv, Cursor
<1> QED
  BY <1>2, <1>3, <1>4, <1>5, <1>6, <1>7, <1>8

(* Another enters the heap with the next sequence number.                  *)
LEMMA ScheduledAdmitted ==
  ASSUME TypeOK, IInv, CallbackInv, AdmitScheduled
  PROVE  CallbackInv'
<1> USE DEF CallbackInv
<1>0. Numbers /\ QueueCapacity \in Nat /\ MaxFrame \in Nat /\ BlockSizes \subseteq Nat
  BY NumbersTyped, ConfigAssumption, BoundsAssumption
<1>1. PICK item \in hand : ~Stale(item) /\ PushEvent(item)
  BY DEF AdmitScheduled
<1> DEFINE event == [target |-> item.target, sequence |-> nextSequence, epoch |-> item.epoch,
                     pos |-> item.pos, at |-> item.at]
<1>2. Cardinality(heap) < MaxScheduledEvents
  <2>1. Cardinality(hand) = 1
    BY HandCount DEF AdmitScheduled, IInv, HandInv
  <2> QED
    BY <2>1, SizesAreNumbers, ConfigAssumption
       DEF AdmitScheduled, Waiting, One, TypeOK, IInv, CapacityInv, ReservationConservation
<1>3. /\ event.target = item.target /\ event.sequence = nextSequence
      /\ event.epoch = item.epoch /\ event.pos = item.pos /\ event.at = item.at
  OBVIOUS
<1> HIDE DEF event
<1>4. /\ Where = "admit" /\ Where' = "drain" /\ hand' = {}
      /\ item.epoch >= audioEpoch
      /\ nextSequence' = nextSequence + 1 /\ heap' = heap \cup {event}
      /\ UNCHANGED <<clock, sessionEpoch, queue, head, tail, blockStart, total, rendered,
                    adopting, audioEpoch, seenEpoch, drained, last>>
  BY <1>0, <1>1, <1>2 DEF event, AdmitScheduled, Stale, PushEvent, Numbers, controlVars,
     control, block, epochs, heapVars, Where
<1>5. BlockInv'
  BY <1>0, <1>4 DEF Numbers, BlockInv, Early, Late
<1>6. EpochInv'
  BY <1>0, <1>4, <1>3 DEF Numbers, EpochInv, Late
<1>7. PlaceInv'
  BY <1>0, <1>4, <1>3 DEF Numbers, PlaceInv, IInv, HeapInv
<1>8. DrainInv'
  BY <1>0, <1>4 DEF Numbers, DrainInv, Early, Late
<1>9. AheadInv'
  BY <1>0, <1>4 DEF Numbers, AheadInv, BlockInv, Early, Cursor, Oversized
<1>10. LeadInv'
  <2>1. \A e \in WaitingEvents' : e \in WaitingEvents \/ e = event
    BY <1>4 DEF WaitingEvents, QueuedEvents
  <2>2. item \in WaitingEvents /\ (Led(event) => Led(item))
    BY <1>3 DEF WaitingEvents, Led
  <2> QED
    BY <1>4, <1>3, <2>1, <2>2 DEF LeadInv
<1>11. LastInv'
  BY <1>4 DEF LastInv, BlockInv, Early
<1> QED
  BY <1>5, <1>6, <1>7, <1>8, <1>9, <1>10, <1>11

(* The queue holds nothing older than the block any more.                  *)
LEMMA DrainReturns ==
  ASSUME TypeOK, IInv, CallbackInv, DrainEnds
  PROVE  CallbackInv'
<1> USE DEF CallbackInv
<1>0. Numbers /\ QueueCapacity \in Nat /\ MaxFrame \in Nat /\ BlockSizes \subseteq Nat
  BY NumbersTyped, ConfigAssumption, BoundsAssumption
<1>1. /\ Where = "drain" /\ Where' = "dispatch" /\ drained' = 0 /\ hand = {}
      /\ drained >= QueueCapacity \/ tail = head
      /\ UNCHANGED <<clock, sessionEpoch, queue, head, tail, blockStart, total, rendered,
                    adopting, audioEpoch, seenEpoch, hand, heap, nextSequence, last>>
  BY <1>0 DEF DrainEnds, MayDrain, Numbers, IInv, HandInv, controlVars, control, block, epochs,
     heapVars, Where
<1>2. BlockInv'
  BY <1>0, <1>1 DEF Numbers, BlockInv, Early, Late
<1>3. EpochInv'
  BY <1>0, <1>1 DEF Numbers, EpochInv, Late
<1>4. PlaceInv'
  BY <1>0, <1>1 DEF Numbers, PlaceInv
<1>5. DrainInv'
  BY <1>0, <1>1 DEF Numbers, DrainInv, Early, Late
<1>6. AheadInv'
  BY <1>0, <1>1 DEF Numbers, AheadInv, Cursor, Oversized
<1>7. LeadInv'
  BY <1>0, <1>1 DEF Numbers, LeadInv, WaitingEvents, QueuedEvents
<1>8. LastInv'
  BY <1>0, <1>1 DEF Numbers, LastInv, Cursor
<1> QED
  BY <1>2, <1>3, <1>4, <1>5, <1>6, <1>7, <1>8

(* The heap's front is executed.                                           *)
LEMMA EventDispatched ==
  ASSUME TypeOK, IInv, CallbackInv, DispatchEvent
  PROVE  CallbackInv'
<1> USE DEF CallbackInv
<1>0. Numbers /\ QueueCapacity \in Nat /\ MaxFrame \in Nat /\ BlockSizes \subseteq Nat
  BY NumbersTyped, ConfigAssumption, BoundsAssumption
<1>1. PICK e \in heap : /\ PopDue(e, Cursor)
                          /\ Settle("executed", Cursor - e.target, "dispatch")
                          /\ last' = {[event |-> Event(e), frame |-> Cursor]}
  BY DEF DispatchEvent
<1>2. /\ Where = "dispatch" /\ Where' = "dispatch" /\ aud' = "release"
      /\ heap' = heap \ {e} /\ nextSequence' = nextSequence
      /\ e.target <= Cursor /\ \A f \in heap : ~Later(e, f)
      /\ last' = {[event |-> Event(e), frame |-> Cursor]}
      /\ UNCHANGED <<clock, sessionEpoch, queue, head, tail, blockStart, total, rendered,
                    adopting, audioEpoch, seenEpoch, drained, hand, nextSequence>>
  BY <1>1 DEF DispatchEvent, PopDue, IsFront, Due, Settle, controlVars, control, block, epochs,
     heapVars, Where
<1>3. BlockInv'
  BY <1>0, <1>2 DEF Numbers, BlockInv, Early, Late
<1>4. EpochInv'
  BY <1>0, <1>2 DEF Numbers, EpochInv, Late
<1>5. PlaceInv'
  BY <1>0, <1>2 DEF Numbers, PlaceInv
<1>6. DrainInv'
  BY <1>0, <1>2 DEF Numbers, DrainInv, Early, Late
<1>7. AheadInv'
  BY <1>0, <1>2 DEF Numbers, AheadInv, Cursor, Oversized
<1>8. LeadInv'
  BY <1>0, <1>2 DEF Numbers, LeadInv, WaitingEvents, QueuedEvents
<1>9. LastInv'
  <2> DEFINE x == [event |-> Event(e), frame |-> Cursor]
  <2>1. /\ x.frame = Cursor /\ x.event.target = e.target /\ x.event.at = e.at
        /\ x.event.pos = e.pos /\ x.event.epoch = e.epoch
    BY DEF Event
  <2>2. Cursor' = Cursor /\ Cursor \in Nat /\ Cursor >= clock
    BY <1>0, <1>2 DEF Numbers, BlockInv, Cursor
  <2>3. e.at <= clock /\ e.pos <= tail
    BY DEF PlaceInv
  <2>4. e.epoch >= seenEpoch /\ (SyncStop => e.epoch = sessionEpoch)
    BY <1>0, <1>2 DEF EpochInv, Late, Numbers
  <2>5. ASSUME NEW f \in heap'
        PROVE  Precedes(x.event, f)
    <3>1. f \in heap /\ f # e /\ ~Later(e, f)
      BY <1>2
    <3>2. f.target > e.target \/ (f.target = e.target /\ f.sequence > e.sequence)
      BY <1>0, <3>1 DEF Later, Numbers, PlaceInv
    <3> QED
      BY <2>1, <3>1, <3>2 DEF Precedes, PlaceInv
  <2>6. ASSUME Splittable, Led(x.event)
        PROVE  e.target = Cursor
    <3>1. Led(e) /\ e \in WaitingEvents
      BY <2>1, <2>6 DEF Led, WaitingEvents
    <3>2. e.target >= clock
      BY <1>2, <2>6, <3>1 DEF LeadInv, BlockInv
    <3>3. CASE rendered = 0
      BY <1>0, <1>2, <3>2, <3>3 DEF Cursor, BlockInv, Numbers
    <3>4. CASE rendered > 0
      <4>1. ~Oversized
        BY <1>0, <1>2, <2>6, BoundsAssumption, ConfigAssumption
           DEF Splittable, Oversized, BlockInv, Numbers
      <4> QED
        BY <1>0, <1>2, <2>2, <3>4, <4>1 DEF AheadInv, Numbers
    <3> QED
      BY <1>0, <3>3, <3>4 DEF Numbers
  <2>7. last' = {x} /\ tail' = tail /\ seenEpoch' = seenEpoch /\ sessionEpoch' = sessionEpoch
    BY <1>2
  <2>8. e.target \in Nat /\ e.at \in Nat /\ clock \in Nat
    BY <1>0 DEF Numbers
  <2> HIDE DEF x
  <2> QED
    BY <1>2, <2>1, <2>2, <2>3, <2>4, <2>5, <2>6, <2>7, <2>8 DEF LastInv
<1> QED
  BY <1>3, <1>4, <1>5, <1>6, <1>7, <1>8, <1>9

(* Nothing in the heap is due at the cursor any more.                      *)
LEMMA DispatchReturns ==
  ASSUME TypeOK, IInv, CallbackInv, DispatchEnds
  PROVE  CallbackInv'
<1> USE DEF CallbackInv
<1>0. Numbers /\ QueueCapacity \in Nat /\ MaxFrame \in Nat /\ BlockSizes \subseteq Nat
  BY NumbersTyped, ConfigAssumption, BoundsAssumption
<1>1. /\ Where = "dispatch" /\ Where' = IF rendered < total THEN "segment" ELSE "advance"
      /\ \A e \in heap : e.target > Cursor
      /\ UNCHANGED <<clock, sessionEpoch, queue, head, tail, blockStart, total, rendered,
                    adopting, audioEpoch, seenEpoch, drained, hand, heap, nextSequence, last>>
  BY <1>0 DEF DispatchEnds, NothingDue, Due, Numbers, Cursor, controlVars, control, block,
     epochs, heapVars, Where
<1>2. BlockInv'
  BY <1>0, <1>1 DEF Numbers, BlockInv, Early, Late
<1>3. EpochInv'
  BY <1>0, <1>1 DEF Numbers, EpochInv, Late
<1>4. PlaceInv'
  BY <1>0, <1>1 DEF Numbers, PlaceInv
<1>5. DrainInv'
  BY <1>0, <1>1 DEF Numbers, DrainInv, Early, Late
<1>6. AheadInv'
  BY <1>0, <1>1 DEF Numbers, AheadInv, BlockInv, Cursor, Oversized
<1>7. LeadInv'
  BY <1>0, <1>1 DEF Numbers, LeadInv, WaitingEvents, QueuedEvents
<1>8. LastInv'
  BY <1>0, <1>1 DEF Numbers, LastInv, Cursor
<1> QED
  BY <1>2, <1>3, <1>4, <1>5, <1>6, <1>7, <1>8

(* A segment ends at or before the next event.                             *)
LEMMA SegmentRendered ==
  ASSUME TypeOK, IInv, CallbackInv, RenderSegment
  PROVE  CallbackInv'
<1> USE DEF CallbackInv
<1>0. Numbers /\ QueueCapacity \in Nat /\ MaxFrame \in Nat /\ BlockSizes \subseteq Nat
  BY NumbersTyped, ConfigAssumption, BoundsAssumption
<1>1. PICK frames \in 0..(total - rendered) :
        SegmentLength(frames) /\ rendered' = rendered + frames
  BY DEF RenderSegment
<1>2. /\ Where = "segment" /\ Where' = IF rendered' < total THEN "dispatch" ELSE "advance"
      /\ frames \in 0..(total - rendered) /\ SegmentLength(frames) /\ rendered' = rendered + frames
      /\ UNCHANGED <<clock, sessionEpoch, queue, head, tail, blockStart, total, adopting,
                    audioEpoch, seenEpoch, drained, hand, heap, nextSequence, last>>
  BY <1>1 DEF RenderSegment, controlVars, control, block, epochs, heapVars, Where
<1>3. BlockInv'
  BY <1>0, <1>2 DEF Numbers, BlockInv, Early, Late
<1>4. EpochInv'
  BY <1>0, <1>2 DEF Numbers, EpochInv, Late
<1>5. PlaceInv'
  BY <1>0, <1>2 DEF Numbers, PlaceInv
<1>6. DrainInv'
  BY <1>0, <1>2 DEF Numbers, DrainInv, Early, Late
<1>7. AheadInv'
  <2>1. /\ rendered < total /\ frames \in Nat /\ frames <= total - rendered
        /\ \A e \in heap : e.target > Cursor
    BY <1>0, <1>2 DEF AheadInv, Numbers
  <2>2. \A e \in heap : e.target >= Cursor + frames \/ Oversized
    <3>1. ASSUME ~Oversized, NEW e \in heap
          PROVE  e.target >= Cursor + frames
      <4>1. PICK first \in heap :
              /\ IsFront(first)
              /\ frames = IF FramesUntil(first.target, Cursor) < total - rendered
                          THEN FramesUntil(first.target, Cursor) ELSE total - rendered
        BY <1>2, <3>1 DEF SegmentLength
      <4>2. FramesUntil(first.target, Cursor) = first.target - Cursor
        BY <1>0, <2>1 DEF FramesUntil, Numbers, Cursor
      <4>3. e.target >= first.target
        BY <1>0, <4>1 DEF IsFront, Later, Numbers
      <4> QED
        BY <1>0, <4>1, <4>2, <4>3 DEF Numbers, Cursor
    <3> QED
      BY <3>1
  <2>3. Oversized => frames = total - rendered
    BY <1>2 DEF SegmentLength
  <2>4. Cursor' = Cursor + frames /\ Oversized' = Oversized
    BY <1>0, <1>2, <2>1 DEF Cursor, Oversized, Numbers
  <2>5. rendered' <= total /\ (rendered' = total \/ rendered' < total)
    BY <1>0, <1>2, <2>1 DEF Numbers
  <2>6. \A e \in heap : e.target > blockStart
    BY <1>0, <2>1 DEF Cursor, Numbers
  <2> QED
    BY <1>0, <1>2, <2>1, <2>2, <2>3, <2>4, <2>5, <2>6 DEF AheadInv, Numbers
<1>8. LeadInv'
  BY <1>0, <1>2 DEF Numbers, LeadInv, WaitingEvents, QueuedEvents
<1>9. LastInv'
  BY <1>0, <1>2 DEF Numbers, LastInv, Cursor
<1> QED
  BY <1>3, <1>4, <1>5, <1>6, <1>7, <1>8, <1>9

(* The clock passes the block.                                             *)
LEMMA BlockEnds ==
  ASSUME TypeOK, IInv, CallbackInv, AdvanceClock
  PROVE  CallbackInv'
<1> USE DEF CallbackInv
<1>0. Numbers /\ QueueCapacity \in Nat /\ MaxFrame \in Nat /\ BlockSizes \subseteq Nat
  BY NumbersTyped, ConfigAssumption, BoundsAssumption
<1>1. /\ Where = "advance" /\ Where' = "idle" /\ aud' = "idle"
      /\ clock' = clock + total
      /\ blockStart' = 0 /\ total' = 0 /\ rendered' = 0 /\ seenEpoch' = 0 /\ last' = {}
      /\ hand = {}
      /\ UNCHANGED <<sessionEpoch, queue, head, tail, adopting, audioEpoch, drained, hand, heap,
                    nextSequence>>
  BY DEF AdvanceClock, IInv, HandInv, controlVars, control, block, epochs, heapVars, Where
<1>2. BlockInv'
  BY <1>0, <1>1 DEF Numbers, BlockInv, Early, Late
<1>3. EpochInv'
  BY <1>0, <1>1 DEF Numbers, EpochInv, Late
<1>4. PlaceInv'
  BY <1>0, <1>1 DEF Numbers, PlaceInv
<1>5. DrainInv'
  BY <1>0, <1>1 DEF Numbers, DrainInv, Early, Late
<1>6. AheadInv'
  BY <1>0, <1>1 DEF Numbers, AheadInv, Cursor, Oversized
<1>7. LeadInv'
  <2>1. SUFFICES ASSUME Splittable, NEW e \in WaitingEvents, Led(e)
                 PROVE  e.target >= clock + total
    BY <1>1 DEF LeadInv, WaitingEvents, QueuedEvents
  <2>2. total \in BlockSizes /\ blockStart = clock /\ ~Oversized
    BY <1>0, <1>1, <2>1, ConfigAssumption DEF BlockInv, Splittable, Oversized, Numbers
  <2>3. e.target >= e.at + total
    BY <2>1, <2>2 DEF Led
  <2>4. CASE e \in heap
    BY <1>0, <1>1, <2>2, <2>4 DEF AheadInv, Numbers, Cursor
  <2>5. ASSUME NEW i \in QueuedEvents, e = queue[i]
        PROVE  e.target >= clock + total
    BY <1>0, <1>1, <2>3, <2>5 DEF QueuedEvents, DrainInv, Late, Numbers
  <2> QED
    BY <1>1, <2>4, <2>5 DEF WaitingEvents
<1>8. LastInv'
  BY <1>0, <1>1 DEF Numbers, LastInv, Cursor
<1> QED
  BY <1>2, <1>3, <1>4, <1>5, <1>6, <1>7, <1>8

(* The callback writes nothing of the control thread's.                    *)
LEMMA CallbackFrame ==
  ASSUME Callback
  PROVE  UNCHANGED <<ctl, call, head, isActive, sessionEpoch, running>> /\ aud # "idle"
<1> USE DEF controlVars, control, Dequeue, Fifo!Take
<1>1. CASE LoadEpoch
  BY <1>1 DEF LoadEpoch
<1>2. CASE FlushEvent
  BY <1>2 DEF FlushEvent
<1>3. CASE AdoptEpochReturns
  BY <1>3 DEF AdoptEpochReturns
<1>4. CASE ApplyImmediate
  BY <1>4 DEF ApplyImmediate
<1>5. CASE PopScheduled
  BY <1>5 DEF PopScheduled
<1>6. CASE DiscardStale
  BY <1>6 DEF DiscardStale
<1>7. CASE AdmitScheduled
  BY <1>7 DEF AdmitScheduled
<1>8. CASE DrainEnds
  BY <1>8 DEF DrainEnds
<1>9. CASE DispatchEvent
  BY <1>9 DEF DispatchEvent
<1>10. CASE DispatchEnds
  BY <1>10 DEF DispatchEnds
<1>11. CASE RenderSegment
  BY <1>11 DEF RenderSegment
<1>12. CASE AdvanceClock
  BY <1>12 DEF AdvanceClock
<1>13. CASE ReleaseReservation
  BY <1>13 DEF ReleaseReservation
<1>14. CASE RecordOutcome
  BY <1>14 DEF RecordOutcome
<1> QED
  BY <1>1, <1>2, <1>3, <1>4, <1>5, <1>6, <1>7, <1>8, <1>9, <1>10, <1>11, <1>12, <1>13, <1>14 DEF
     Callback

(* The calls: only a push uses the reserved call, and only Shutdown's      *)
(* DeviceStop leads to the end of a session.                               *)
LEMMA SessionStep ==
  ASSUME TypeOK, SessionInv, [Next]_vars
  PROVE  SessionInv'
<1> USE DEF SessionInv, audioVars, pipe, control
<1>1. ASSUME NEW target \in Targets, ScheduleReserve(target)
      PROVE  SessionInv'
  BY <1>1 DEF ScheduleReserve, MayCall
<1>2. CASE ScheduleExhausted
  BY <1>2 DEF ScheduleExhausted, MayCall
<1>3. CASE Submit
  BY <1>3 DEF Submit, MayCall, Enqueue, Fifo!Put
<1>4. CASE SubmitQueueFull
  BY <1>4 DEF SubmitQueueFull, MayCall
<1>5. CASE Start
  BY <1>5 DEF Start, MayCall
<1>6. CASE Stop
  BY <1>6 DEF Stop, MayCall
<1>7. CASE Shutdown
  BY <1>7 DEF Shutdown, MayCall
<1>8. CASE SchedulePush
  BY <1>8 DEF SchedulePush, MayCall, Enqueue, Fifo!Put
<1>9. CASE ScheduleQueueFull
  BY <1>9 DEF ScheduleQueueFull, MayCall
<1>10. CASE ScheduleRollback
  BY <1>10 DEF ScheduleRollback, MayCall
<1>11. CASE ScheduleRecordAccepted
  BY <1>11 DEF ScheduleRecordAccepted, MayCall
<1>12. CASE DeviceStart
  BY <1>12 DEF DeviceStart, MayCall
<1>13. CASE DeviceStartFails
  BY <1>13 DEF DeviceStartFails, MayCall
<1>14. CASE DeviceStop
  BY <1>14 DEF DeviceStop, MayCall
<1>15. CASE EndSession
  BY <1>15 DEF EndSession, MayCall
<1>16. ASSUME NEW frames \in BlockSizes, BeginCallback(frames)
      PROVE  SessionInv'
  BY <1>16 DEF BeginCallback, controlVars
<1>17. CASE Callback
  BY <1>17, CallbackFrame
<1>18. CASE UNCHANGED vars
  BY <1>18 DEF vars
<1> QED
  BY <1>1, <1>2, <1>3, <1>4, <1>5, <1>6, <1>7, <1>8, <1>9, <1>10, <1>11, <1>12, <1>13, <1>14,
     <1>15, <1>16, <1>17, <1>18 DEF Next, Control, ControlCompletes

-----------------------------------------------------------------------------

(* The invariant holds before the first call and the first callback.       *)
LEMMA OrderInit == Init => OrderInv
<1> SUFFICES ASSUME Init
             PROVE  OrderInv
  OBVIOUS
<1> USE ConfigAssumption, BoundsAssumption DEF Init
<1>1. BlockInv /\ SessionInv /\ EpochInv
  BY DEF BlockInv, SessionInv, EpochInv, Where, Early, Late
<1>2. PlaceInv /\ DrainInv /\ AheadInv
  BY DEF PlaceInv, DrainInv, AheadInv, Where, Early, Late
<1>3. LeadInv /\ LastInv
  BY DEF LeadInv, LastInv, WaitingEvents, QueuedEvents
<1> QED
  BY <1>1, <1>2, <1>3 DEF OrderInv

(* Settling an event, which the callback's place does not see.             *)
LEMMA Settles ==
  ASSUME TypeOK, BlockInv, ReleaseReservation \/ RecordOutcome
  PROVE  UNCHANGED timelineVars /\ Where' = Where /\ Where # "idle"
<1> USE DEF timelineVars, controlVars, control, block, epochs, heapVars, Where
<1>1. CASE ReleaseReservation
  BY <1>1 DEF ReleaseReservation, BlockInv
<1>2. CASE RecordOutcome
  BY <1>2 DEF RecordOutcome, BlockInv, TypeOK
<1> QED
  BY <1>1, <1>2

(* Every step of the two threads keeps the invariant.                      *)
LEMMA OrderStep == TypeOK /\ IInv /\ OrderInv /\ [Next]_vars => OrderInv'
<1> SUFFICES ASSUME TypeOK, IInv, OrderInv, [Next]_vars
             PROVE  OrderInv'
  OBVIOUS
<1>1. SessionInv /\ CallbackInv /\ BlockInv
  BY DEF OrderInv, CallbackInv
<1>2. SessionInv'
  BY <1>1, SessionStep
<1>3. CallbackInv'
  <2>1. CASE QuietCall
    BY <1>1, <2>1, QuietCalls, QuietCallback DEF Where, BlockInv
  <2>2. CASE Submit \/ SchedulePush
    BY <1>1, <2>2, PushCallback
  <2>3. CASE EndSession
    BY <1>1, <2>3, SessionEnds
  <2>4. ASSUME NEW frames \in BlockSizes, BeginCallback(frames)
        PROVE  CallbackInv'
    BY <1>1, <2>4, CallbackBegins
  <2>5. CASE LoadEpoch \/ FlushEvent \/ AdoptEpochReturns
    BY <1>1, <2>5, EpochLoads, EventFlushed, EpochAdopted
  <2>6. CASE ApplyImmediate \/ PopScheduled \/ DiscardStale \/ AdmitScheduled \/ DrainEnds
    BY <1>1, <2>6, ImmediateApplied, ScheduledPopped, StaleDiscarded, ScheduledAdmitted,
       DrainReturns
  <2>7. CASE DispatchEvent \/ DispatchEnds \/ RenderSegment \/ AdvanceClock
    BY <1>1, <2>7, EventDispatched, DispatchReturns, SegmentRendered, BlockEnds
  <2>8. CASE ReleaseReservation \/ RecordOutcome
    BY <1>1, <2>8, Settles, QuietCallback
  <2>9. CASE UNCHANGED vars
    <3>1. UNCHANGED <<timelineVars, aud, ret>>
      BY <2>9 DEF vars, timelineVars, pipe, block, epochs, heapVars
    <3> QED
      BY <1>1, <3>1, QuietCallback DEF Where, BlockInv
  <2> QED
    BY <2>1, <2>2, <2>3, <2>4, <2>5, <2>6, <2>7, <2>8, <2>9
       DEF Next, Control, ControlCompletes, Callback, QuietCall
<1> QED
  BY <1>2, <1>3 DEF OrderInv, CallbackInv

(* All that is known of every reachable state.                             *)
Known == TypeOK /\ IInv /\ OrderInv

(* The inductive invariant holds in every reachable state.                 *)
LEMMA OrderInvariant == Spec => []Known
<1>1. TypeOK /\ IInv /\ OrderInv /\ [Next]_vars => OrderInv'
  BY OrderStep
<1> QED
  BY <1>1, OrderInit, Invariant, PTL DEF Spec, Known

(* SubmissionGuarantee: an event is executed neither before its target nor *)
(* before the clock its caller could have read.                            *)
THEOREM NeverTooEarly == Spec => []SubmissionGuarantee
<1>1. Known => SubmissionGuarantee
  BY DEF Known, OrderInv, LastInv, SubmissionGuarantee
<1> QED
  BY <1>1, OrderInvariant, PTL

(* ScheduledOrder: in a callback events are executed by target and, for    *)
(* one target, in the order of their submissions.                          *)
THEOREM ExecutedInOrder == Spec => []ScheduledOrder
<1>1. Known => ScheduledOrder
  <2> SUFFICES ASSUME Known, NEW x \in last
               PROVE  /\ \A e \in heap : Precedes(x.event, e)
                      /\ \A i \in QueuedEvents :
                           queue[i].target = x.event.target => x.event.pos < queue[i].pos
    BY DEF ScheduledOrder
  <2>1. \A e \in heap : Precedes(x.event, e)
    BY DEF Known, OrderInv, LastInv
  <2>2. Numbers
    BY NumbersTyped DEF Known
  <2>3. ASSUME NEW i \in QueuedEvents
        PROVE  x.event.pos < queue[i].pos
    BY <2>2, <2>3 DEF Known, OrderInv, LastInv, PlaceInv, QueuedEvents, Numbers
  <2> QED
    BY <2>1, <2>3
<1> QED
  BY <1>1, OrderInvariant, PTL

(* NothingPassedOver: a segment never begins at or after an event it did   *)
(* not execute, and no block ends before its events were executed.         *)
THEOREM NoEventPassedOver == Spec => []NothingPassedOver
<1>1. Known => NextEventAhead
  <2> SUFFICES ASSUME Known
               PROVE  NextEventAhead
    OBVIOUS
  <2>1. AheadInv /\ Numbers
    BY NumbersTyped DEF Known, OrderInv
  <2> QED
    BY <2>1 DEF AheadInv, NextEventAhead, Where, Numbers
<1>2. Known => NothingLeftBehind
  <2> SUFFICES ASSUME Known, aud = "advance",
                      NEW e \in {queue[i] : i \in QueuedEvents} \cup hand \cup heap
               PROVE  \/ e.at >= blockStart
                      \/ e.target >= blockStart + total
                      \/ Oversized /\ e.target > blockStart
    BY DEF NothingLeftBehind
  <2>1. AheadInv /\ DrainInv /\ BlockInv /\ Numbers /\ Where = "advance" /\ Late
    BY NumbersTyped DEF Known, OrderInv, Where, Late
  <2>2. hand = {} /\ blockStart = clock /\ rendered = total
    BY <2>1 DEF BlockInv, AheadInv
  <2>3. CASE e \in heap
    BY <2>1, <2>2, <2>3 DEF AheadInv, Cursor, Numbers
  <2>4. ASSUME NEW i \in QueuedEvents, e = queue[i]
        PROVE  e.at >= blockStart
    BY <2>1, <2>2, <2>4 DEF DrainInv, QueuedEvents
  <2> QED
    BY <2>2, <2>3, <2>4
<1> QED
  BY <1>1, <1>2, OrderInvariant, PTL DEF NothingPassedOver

(* NoStaleExecution: a callback executes no event of a session that was    *)
(* over when it began and, if Stop is synchronous, only the current one's. *)
THEOREM OldSessionsStaySilent == Spec => []NoStaleExecution
<1>1. Known => NoStaleExecution
  BY DEF Known, OrderInv, LastInv, NoStaleExecution
<1> QED
  BY <1>1, OrderInvariant, PTL

(* PunctualWithLead: given a lead of one block, and blocks that can be     *)
(* split, an event is executed at exactly its frame.                       *)
THEOREM LeadMakesPunctual == Spec => []PunctualWithLead
<1>1. Known => PunctualWithLead
  BY DEF Known, OrderInv, LastInv, PunctualWithLead, Splittable, Led
<1> QED
  BY <1>1, OrderInvariant, PTL

(* DiscardsAreStale: only events of a session that is over are discarded.  *)
THEOREM OnlyStaleDiscarded == Spec => DiscardsAreStale
<1>1. Known => [/\ FlushEvent => \A e \in heap : e.epoch < sessionEpoch
                /\ DiscardStale => \A item \in hand : item.epoch < sessionEpoch]_vars
  <2> SUFFICES ASSUME Known
               PROVE  /\ FlushEvent => \A e \in heap : e.epoch < sessionEpoch
                      /\ DiscardStale => \A item \in hand : item.epoch < sessionEpoch
    OBVIOUS
  <2>1. EpochInv /\ Numbers
    BY NumbersTyped DEF Known, OrderInv
  <2>2. FlushEvent => \A e \in heap : e.epoch < sessionEpoch
    BY <2>1 DEF FlushEvent, NewerEpoch, EpochInv, Numbers
  <2>3. DiscardStale => \A item \in hand : item.epoch < sessionEpoch
    BY <2>1 DEF DiscardStale, Stale, EpochInv, Numbers, Known, IInv, HandInv
  <2> QED
    BY <2>2, <2>3
<1> QED
  BY <1>1, OrderInvariant, PTL DEF DiscardsAreStale

-----------------------------------------------------------------------------
(* The refinement. *)

(* What is pending, as ScheduledTimeline sees it.                          *)
Pending == {Event(queue[i]) : i \in QueuedEvents} \cup {Event(q) : q \in hand}
             \cup {Event(e) : e \in heap}

(* It is what waits, in the queue, the hand or the heap.                   *)
LEMMA PendingIsWaiting == Pending = {Event(e) : e \in WaitingEvents}
BY DEF Pending, WaitingEvents

(* The events that wait are told apart by their places.                    *)
LEMMA PlacesDistinct ==
  ASSUME Numbers, IInv, PlaceInv,
         NEW e \in hand \cup heap, NEW f \in WaitingEvents, e.pos = f.pos
  PROVE  e = f
<1> USE DEF Numbers, PlaceInv
<1>1. CASE f \in heap
  BY <1>1
<1>2. CASE f \in hand
  BY <1>2 DEF IInv, HandInv
<1>3. ASSUME NEW i \in QueuedEvents, f = queue[i]
      PROVE  FALSE
  <2>1. f.pos = i /\ i > tail /\ i \in Int
    BY <1>3 DEF QueuedEvents
  <2>2. e.pos <= tail /\ e.pos \in Nat
    OBVIOUS
  <2> QED
    BY <2>1, <2>2
<1> QED
  BY <1>1, <1>2, <1>3 DEF WaitingEvents

(* So an event that leaves the hand or the heap leaves what is pending.    *)
LEMMA EventLeaves ==
  ASSUME Numbers, IInv, PlaceInv, NEW e \in hand \cup heap, UNCHANGED <<queue, head, tail>>,
         hand' = hand \ {e}, heap' = heap \ {e}
  PROVE  Event(e) \in Pending /\ Pending' = Pending \ {Event(e)}
<1>1. e \in WaitingEvents
  BY DEF WaitingEvents
<1>2. \A f \in WaitingEvents : e.pos = f.pos => e = f
  BY PlacesDistinct
<1>3. \A i \in QueuedEvents : queue[i].pos > tail /\ queue[i] \in WaitingEvents
  BY DEF QueuedEvents, PlaceInv, Numbers, WaitingEvents
<1>4. e.pos <= tail
  BY DEF PlaceInv, Numbers
<1>5. \A i \in QueuedEvents : queue[i] # e
  BY <1>3, <1>4 DEF Numbers, QueuedEvents
<1>6. WaitingEvents' = WaitingEvents \ {e}
  BY <1>5 DEF WaitingEvents, QueuedEvents
<1>7. \A f \in WaitingEvents : Event(f) = Event(e) => f = e
  BY <1>2 DEF Event
<1>8. Pending' = {Event(f) : f \in WaitingEvents \ {e}}
  BY <1>6 DEF Pending, WaitingEvents
<1> QED
  BY <1>1, <1>7, <1>8, PendingIsWaiting

(* There are no more pending events than events that wait.                 *)
LEMMA PendingCount ==
  ASSUME TypeOK, IInv
  PROVE  IsFiniteSet(Pending) /\ Cardinality(Pending) \in Nat /\ Cardinality(Pending) <= Waiting
<1> DEFINE Q == {Event(queue[i]) : i \in QueuedEvents}
           H == {Event(q) : q \in hand}
           E == {Event(e) : e \in heap}
<1>1. IsFiniteSet(Q) /\ Cardinality(Q) <= Cardinality(QueuedEvents)
  <2>1. [i \in QueuedEvents |-> Event(queue[i])] \in Surjection(QueuedEvents, Q)
    BY DEF Surjection
  <2> QED
    BY <2>1, QueuedEventsFinite, FS_Surjection DEF TypeOK
<1>2. IsFiniteSet(H) /\ Cardinality(H) <= Cardinality(hand)
  <2>1. [q \in hand |-> Event(q)] \in Surjection(hand, H)
    BY DEF Surjection
  <2>2. IsFiniteSet(hand)
    <3>1. hand = {} \/ \E q \in hand : hand = {q}
      BY DEF IInv, HandInv
    <3>2. IsFiniteSet({}) /\ \A q \in hand : IsFiniteSet({q})
      BY FS_EmptySet, FS_Singleton
    <3> QED
      BY <3>1, <3>2
  <2> QED
    BY <2>1, <2>2, FS_Surjection
<1>3. IsFiniteSet(E) /\ Cardinality(E) <= Cardinality(heap)
  <2>1. [e \in heap |-> Event(e)] \in Surjection(heap, E)
    BY DEF Surjection
  <2> QED
    BY <2>1, FS_Surjection DEF IInv, HeapInv
<1>4. Pending = (Q \cup H) \cup E
  BY DEF Pending
<1> HIDE DEF Q, H, E
<1>5. /\ Cardinality(Q) \in Nat /\ Cardinality(H) \in Nat /\ Cardinality(E) \in Nat
  BY <1>1, <1>2, <1>3, FS_CardinalityType
<1>6. IsFiniteSet(Q \cup H) /\ Cardinality(Q \cup H) <= Cardinality(Q) + Cardinality(H)
  <2>1. IsFiniteSet(Q \cap H)
    BY <1>1, FS_Intersection
  <2>2. Cardinality(Q \cap H) \in Nat
    BY <2>1, FS_CardinalityType
  <2>3. /\ IsFiniteSet(Q \cup H)
        /\ Cardinality(Q \cup H) = Cardinality(Q) + Cardinality(H) - Cardinality(Q \cap H)
    BY <1>1, <1>2, FS_Union
  <2> QED
    BY <1>5, <2>2, <2>3
<1>7. Cardinality(Q \cup H) \in Nat
  BY <1>6, FS_CardinalityType
<1>8. /\ IsFiniteSet((Q \cup H) \cup E)
      /\ Cardinality((Q \cup H) \cup E) <= Cardinality(Q \cup H) + Cardinality(E)
  <2>1. IsFiniteSet((Q \cup H) \cap E)
    BY <1>6, FS_Intersection
  <2>2. Cardinality((Q \cup H) \cap E) \in Nat
    BY <2>1, FS_CardinalityType
  <2>3. /\ IsFiniteSet((Q \cup H) \cup E)
        /\ Cardinality((Q \cup H) \cup E)
             = Cardinality(Q \cup H) + Cardinality(E) - Cardinality((Q \cup H) \cap E)
    BY <1>3, <1>6, FS_Union
  <2> QED
    BY <1>5, <1>7, <2>2, <2>3
<1>9. Cardinality(Pending) \in Nat
  BY <1>4, <1>8, FS_CardinalityType
<1> QED
  BY <1>1, <1>2, <1>3, <1>4, <1>5, <1>6, <1>7, <1>8, <1>9, SizesAreNumbers DEF Waiting

(* The abstract timeline counts with the same Cardinality.                 *)
LEMMA SameCardinality == \A S : Timeline!Cardinality(S) = Cardinality(S)
  BY DEF Timeline!Cardinality, Cardinality

(* A push that is accepted is the abstract Accept.                         *)
LEMMA PushAccepts ==
  ASSUME Known, SchedulePush, head < MaxCommands
  PROVE  \E pos \in 1..MaxCommands, target \in Frame :
           Timeline!Accept([pos |-> pos, target |-> target, epoch |-> sessionEpoch, at |-> clock])
<1>0. TypeOK /\ IInv /\ SessionInv /\ PlaceInv /\ Numbers /\ MaxCommands \in Nat
  BY NumbersTyped, BoundsAssumption DEF Known, OrderInv
<1>1. PICK c \in call :
        Enqueue([scheduled |-> TRUE, target |-> c.target, epoch |-> c.epoch,
                 pos |-> head + 1, at |-> clock])
  BY DEF SchedulePush
<1> DEFINE item == [scheduled |-> TRUE, target |-> c.target, epoch |-> c.epoch,
                    pos |-> head + 1, at |-> clock]
           event == [pos |-> head + 1, target |-> c.target, epoch |-> sessionEpoch, at |-> clock]
<1>2. c.target \in Frame /\ c.epoch = sessionEpoch /\ ctl = "reserved"
  BY <1>0 DEF TypeOK, SessionInv, SchedulePush
<1>3. item \in Item /\ item.scheduled /\ Event(item) = event
  BY <1>0, <1>2 DEF Item, Event, Numbers
<1>4. /\ head' = head + 1 /\ tail' = tail
      /\ \A i \in (tail + 1)..head : queue'[i] = queue[i]
      /\ queue'[head + 1] = item
  BY <1>0, <1>1, <1>3, Pushed DEF TypeOK, IInv
<1>5. UNCHANGED <<clock, sessionEpoch, hand, heap, last>>
  BY DEF SchedulePush, audioVars, heapVars
<1> HIDE DEF item
<1>6. QueuedEvents' = QueuedEvents \cup {head + 1}
  BY <1>0, <1>3, <1>4 DEF QueuedEvents, IInv, Numbers
<1>7. Pending' = Pending \cup {event}
  <2>1. \A i \in QueuedEvents : queue'[i] = queue[i]
    BY <1>4 DEF QueuedEvents
  <2>2. {Event(queue[i]) : i \in QueuedEvents}'
          = {Event(queue[i]) : i \in QueuedEvents} \cup {event}
    BY <1>3, <1>4, <1>6, <2>1
  <2> QED
    BY <1>5, <2>2 DEF Pending
<1>8. Cardinality(Pending) < MaxScheduledEvents
  <2>1. Waiting + 1 <= outstanding /\ Waiting \in Nat /\ outstanding <= MaxScheduledEvents
    BY <1>0, <1>2, SizesAreNumbers
       DEF IInv, CapacityInv, ReservationConservation, One, TypeOK, Waiting
  <2> QED
    BY <1>0, <2>1, PendingCount, ConfigAssumption DEF TypeOK
<1>9. \A p \in Pending : p.pos < event.pos
  <2>1. \A e \in WaitingEvents : e.pos < head + 1
    BY <1>0 DEF WaitingEvents, QueuedEvents, PlaceInv, Numbers, IInv
  <2> QED
    BY <2>1, PendingIsWaiting DEF Event
<1>10. head + 1 \in 1..MaxCommands
  BY <1>0 DEF Numbers
<1>11. event.at = clock /\ event.epoch = sessionEpoch
  OBVIOUS
<1> HIDE DEF event
<1>12. Timeline!Accept(event)
  <2>1. Cardinality(Pending) < MaxScheduledEvents /\ Pending' = Pending \cup {event}
    BY <1>7, <1>8
  <2>2. \A p \in Pending : p.pos < event.pos
    BY <1>9
  <2> QED
    BY <1>5, <1>11, <2>1, <2>2, SameCardinality DEF Timeline!Accept, Pending
<1> QED
  BY <1>2, <1>10, <1>12 DEF event

(* The dispatch of an event is the abstract Execute.                       *)
LEMMA DispatchExecutes ==
  ASSUME SyncStop, Known, DispatchEvent
  PROVE  \E event \in Pending, frame \in Frame : Timeline!Execute(event, frame)
<1>0. /\ TypeOK /\ IInv /\ BlockInv /\ EpochInv /\ PlaceInv /\ LastInv /\ Numbers
      /\ Where = "dispatch" /\ Late /\ hand = {}
  BY NumbersTyped DEF Known, OrderInv, DispatchEvent, Where, Late, BlockInv
<1>1. PICK e \in heap : /\ PopDue(e, Cursor)
                        /\ last' = {[event |-> Event(e), frame |-> Cursor]}
  BY DEF DispatchEvent
<1>2. /\ UNCHANGED <<clock, sessionEpoch, queue, head, tail, hand>>
      /\ heap' = heap \ {e} /\ e.target <= Cursor /\ \A f \in heap : ~Later(e, f)
  BY <1>1 DEF DispatchEvent, PopDue, IsFront, Due, controlVars, control
<1>3. Event(e) \in Pending /\ Pending' = Pending \ {Event(e)}
  BY <1>0, <1>2, EventLeaves
<1>4. Cursor \in Frame /\ Cursor >= clock
  BY <1>0, BoundsAssumption DEF BlockInv, Cursor, Frame, kMaxFramePosition, Numbers
<1>5. e.at <= clock /\ e.epoch = sessionEpoch
  BY <1>0 DEF PlaceInv, EpochInv, Numbers
<1>6. \A x \in last : x.frame <= Cursor /\ Precedes(x.event, e)
  BY <1>0 DEF LastInv
<1>7. ASSUME NEW f \in WaitingEvents, Event(f) # Event(e), f.target = e.target
      PROVE  e.pos < f.pos
  <2>1. CASE f \in heap
    <3>1. f.sequence > e.sequence
      BY <1>0, <1>2, <1>7, <2>1 DEF Later, Numbers, PlaceInv
    <3> QED
      BY <1>0, <2>1, <3>1 DEF PlaceInv
  <2>2. ASSUME NEW i \in QueuedEvents, f = queue[i]
        PROVE  e.pos < f.pos
    <3>1. f.pos = i /\ i > tail /\ i \in Int
      BY <1>0, <2>2 DEF QueuedEvents, PlaceInv, Numbers
    <3>2. e.pos <= tail /\ e.pos \in Nat
      BY <1>0 DEF PlaceInv, Numbers
    <3> QED
      BY <1>0, <3>1, <3>2 DEF Numbers
  <2> QED
    BY <1>0, <2>1, <2>2 DEF WaitingEvents
<1>8. /\ Event(e).target = e.target /\ Event(e).at = e.at
      /\ Event(e).pos = e.pos /\ Event(e).epoch = e.epoch
  BY DEF Event
<1>9. \A x \in last : x.frame <= Cursor /\ Timeline!Precedes(x.event, Event(e))
  BY <1>6, <1>8 DEF Precedes, Timeline!Precedes
<1>10. \A p \in Pending \ {Event(e)} : p.target = Event(e).target => Event(e).pos < p.pos
  <2>1. \A f \in WaitingEvents : Event(f).target = f.target /\ Event(f).pos = f.pos
    BY DEF Event
  <2> QED
    BY <1>7, <1>8, <2>1, PendingIsWaiting
<1>11. Cursor >= Event(e).target /\ Cursor >= Event(e).at
  BY <1>0, <1>2, <1>4, <1>5, <1>8 DEF Numbers, Cursor
<1>12. Timeline!Execute(Event(e), Cursor)
  BY <1>1, <1>2, <1>3, <1>5, <1>8, <1>9, <1>10, <1>11 DEF Timeline!Execute, Pending
<1> QED
  BY <1>3, <1>4, <1>12

(* A flush and a stale command are the abstract Discard.                   *)
LEMMA DiscardsAbstractly ==
  ASSUME Known, FlushEvent \/ DiscardStale
  PROVE  \E event \in Pending : Timeline!Discard(event)
<1>0. TypeOK /\ IInv /\ EpochInv /\ PlaceInv /\ Numbers
  BY NumbersTyped DEF Known, OrderInv
<1>1. PICK e \in hand \cup heap :
        /\ e.epoch < sessionEpoch
        /\ hand' = hand \ {e} /\ heap' = heap \ {e}
        /\ UNCHANGED <<clock, sessionEpoch, queue, head, tail, last>>
  <2>1. CASE FlushEvent
    <3>1. PICK e \in heap : heap' = heap \ {e}
      BY <2>1 DEF FlushEvent, PopDue
    <3>2. e.epoch < sessionEpoch
      BY <1>0, <2>1 DEF FlushEvent, NewerEpoch, EpochInv, Numbers
    <3>3. e \notin hand
      BY <1>0 DEF PlaceInv, Numbers
    <3>4. UNCHANGED <<clock, sessionEpoch, queue, head, tail, hand, last>>
      BY <2>1 DEF FlushEvent, controlVars
    <3> QED
      BY <3>1, <3>2, <3>3, <3>4
  <2>2. CASE DiscardStale
    <3>1. PICK q \in hand : Stale(q) /\ hand = {q}
      BY <1>0, <2>2 DEF DiscardStale, IInv, HandInv
    <3>2. q.epoch < sessionEpoch
      BY <1>0, <3>1 DEF Stale, EpochInv, Numbers
    <3>3. q \notin heap
      BY <1>0 DEF PlaceInv, Numbers
    <3>4. hand' = {} /\ UNCHANGED <<clock, sessionEpoch, queue, head, tail, heap, last>>
      BY <2>2 DEF DiscardStale, controlVars, heapVars
    <3> QED
      BY <3>1, <3>2, <3>3, <3>4
  <2> QED
    BY <2>1, <2>2
<1>2. Event(e) \in Pending /\ Pending' = Pending \ {Event(e)}
  BY <1>0, <1>1, EventLeaves
<1>3. Event(e).epoch < sessionEpoch
  BY <1>1 DEF Event
<1>4. Timeline!Discard(Event(e))
  BY <1>1, <1>2, <1>3 DEF Timeline!Discard, Pending
<1> QED
  BY <1>2, <1>4

(* The end of a callback is the abstract Advance.                          *)
LEMMA AdvancePasses ==
  ASSUME Known, AdvanceClock
  PROVE  total \in BlockSizes /\ Timeline!Advance(total)
<1>0. /\ BlockInv /\ AheadInv /\ DrainInv /\ Numbers
      /\ Where = "advance" /\ Late /\ hand = {} /\ blockStart = clock /\ rendered = total
  BY NumbersTyped DEF Known, OrderInv, AdvanceClock, Where, Late, BlockInv, AheadInv
<1>1. ASSUME NEW e \in WaitingEvents
      PROVE  \/ e.at >= clock
             \/ e.target >= clock + total
             \/ total > MaxFramesPerBlock /\ e.target > clock
  <2>1. CASE e \in heap
    BY <1>0, <2>1 DEF AheadInv, Oversized, Cursor, Numbers
  <2>2. ASSUME NEW i \in QueuedEvents, e = queue[i]
        PROVE  e.at >= clock
    BY <1>0, <2>2 DEF DrainInv, QueuedEvents
  <2> QED
    BY <1>0, <2>1, <2>2 DEF WaitingEvents
<1>2. \A p \in Pending : Timeline!Passable(p, total)
  BY <1>1, PendingIsWaiting DEF Event, Timeline!Passable
<1>3. /\ clock' = clock + total /\ last' = {}
      /\ UNCHANGED <<sessionEpoch, queue, head, tail, hand, heap>>
  BY DEF AdvanceClock, controlVars, control, heapVars
<1>4. Pending' = Pending
  BY <1>3 DEF Pending, QueuedEvents
<1> QED
  BY <1>0, <1>2, <1>3, <1>4 DEF BlockInv, Timeline!Advance, Pending

(* A step that moves no event and no clock is a stutter.                   *)
LEMMA StutterWhenQuiet ==
  ASSUME UNCHANGED <<clock, sessionEpoch, queue, head, tail, hand, heap, last>>
  PROVE  UNCHANGED Timeline!vars
BY DEF Timeline!vars, QueuedEvents

(* So are the moves of an event towards the heap.                          *)
LEMMA MovesStutter ==
  ASSUME Known, Submit \/ ApplyImmediate \/ PopScheduled \/ AdmitScheduled
  PROVE  UNCHANGED Timeline!vars
<1>0. TypeOK /\ IInv /\ PipeTypeOK /\ Numbers /\ SessionInv
  BY NumbersTyped DEF Known, OrderInv, TypeOK
<1>1. UNCHANGED <<clock, sessionEpoch, last>>
  BY DEF Submit, ApplyImmediate, PopScheduled, AdmitScheduled, controlVars, audioVars
<1>2. Pending' = Pending
  <2>1. CASE Submit
    <3> DEFINE item == [scheduled |-> FALSE, target |-> 0, epoch |-> 0, pos |-> head + 1,
                        at |-> clock]
    <3>1. Enqueue(item) /\ item \in Item /\ ~item.scheduled
      BY <1>0, <2>1, BoundsAssumption DEF Submit, Item, Frame, kMaxFramePosition, Numbers
    <3>2. /\ head' = head + 1 /\ tail' = tail
          /\ \A i \in (tail + 1)..head : queue'[i] = queue[i]
          /\ queue'[head + 1] = item
      BY <1>0, <3>1, Pushed DEF IInv
    <3>3. UNCHANGED <<hand, heap>>
      BY <2>1 DEF Submit, audioVars, heapVars
    <3> HIDE DEF item
    <3>4. QueuedEvents' = QueuedEvents
      BY <1>0, <3>1, <3>2 DEF QueuedEvents, Numbers
    <3>5. \A i \in QueuedEvents : queue'[i] = queue[i]
      BY <3>2 DEF QueuedEvents
    <3> QED
      BY <3>3, <3>4, <3>5 DEF Pending
  <2>2. CASE ApplyImmediate
    <3>1. /\ head' = head /\ tail' = tail + 1 /\ tail < head
          /\ \A i \in (tail' + 1)..head' : i \in (tail + 1)..head /\ queue'[i] = queue[i]
          /\ ~queue[tail + 1].scheduled /\ UNCHANGED <<hand, heap>>
      BY <1>0, <2>2, Popped DEF ApplyImmediate, heapVars
    <3>2. QueuedEvents' = QueuedEvents
      BY <1>0, <3>1 DEF QueuedEvents, Numbers
    <3>3. \A i \in QueuedEvents : queue'[i] = queue[i]
      BY <3>1, <3>2 DEF QueuedEvents
    <3> QED
      BY <3>1, <3>2, <3>3 DEF Pending
  <2>3. CASE PopScheduled
    <3>1. /\ head' = head /\ tail' = tail + 1 /\ tail < head
          /\ \A i \in (tail' + 1)..head' : i \in (tail + 1)..head /\ queue'[i] = queue[i]
          /\ queue[tail + 1].scheduled /\ hand' = {queue[tail + 1]} /\ heap' = heap
      BY <1>0, <2>3, Popped DEF PopScheduled, heapVars
    <3>2. hand = {}
      BY <1>0, <2>3 DEF PopScheduled, IInv, HandInv
    <3>3. QueuedEvents = QueuedEvents' \cup {tail + 1}
      BY <1>0, <3>1 DEF QueuedEvents, Numbers
    <3>4. \A i \in QueuedEvents' : queue'[i] = queue[i]
      BY <3>1 DEF QueuedEvents
    <3> QED
      BY <3>1, <3>2, <3>3, <3>4 DEF Pending
  <2>4. CASE AdmitScheduled
    <3>1. PICK item \in hand : PushEvent(item) /\ hand = {item}
      BY <1>0, <2>4 DEF AdmitScheduled, IInv, HandInv
    <3>2. Cardinality(heap) < MaxScheduledEvents
      <4>1. Cardinality(hand) = 1
        BY <3>1, HandCount
      <4> QED
        BY <1>0, <2>4, <4>1, SizesAreNumbers, ConfigAssumption
           DEF AdmitScheduled, Waiting, One, TypeOK, IInv, CapacityInv, ReservationConservation
    <3> DEFINE event == [target |-> item.target, sequence |-> nextSequence, epoch |-> item.epoch,
                         pos |-> item.pos, at |-> item.at]
    <3>3. /\ heap' = heap \cup {event} /\ hand' = {}
          /\ UNCHANGED <<queue, head, tail>>
      BY <2>4, <3>1, <3>2 DEF AdmitScheduled, PushEvent, controlVars
    <3>4. Event(event) = Event(item)
      BY DEF Event
    <3>5. QueuedEvents' = QueuedEvents
      BY <3>3 DEF QueuedEvents
    <3> HIDE DEF event
    <3> QED
      BY <3>1, <3>3, <3>4, <3>5 DEF Pending
  <2> QED
    BY <2>1, <2>2, <2>3, <2>4
<1> QED
  BY <1>1, <1>2 DEF Timeline!vars, Pending

(* Every step of the two threads is one of ScheduledTimeline's or none.    *)
LEMMA TimelineStep ==
  ASSUME SyncStop, Known, [Next]_vars
  PROVE  [Timeline!Next]_(Timeline!vars)
<1> USE DEF Timeline!Next
<1>1. CASE QuietCall \/ ReleaseReservation \/ RecordOutcome
  <2>1. UNCHANGED timelineVars
    BY <1>1, QuietCalls, Settles DEF Known, OrderInv
  <2> QED
    BY <2>1, StutterWhenQuiet DEF timelineVars
<1>2. CASE SchedulePush
  <2>1. head < MaxCommands
    BY <1>2 DEF SchedulePush, Known, OrderInv, SessionInv
  <2> QED
    BY <1>2, <2>1, PushAccepts
<1>3. CASE EndSession
  <2>1. /\ sessionEpoch' = sessionEpoch + 1
        /\ UNCHANGED <<clock, queue, head, tail, hand, heap, last>>
    BY <1>3 DEF EndSession, pipe, audioVars, heapVars
  <2>2. Timeline!EndSession
    BY <2>1 DEF Timeline!EndSession, QueuedEvents
  <2> QED
    BY <2>2
<1>4. CASE Submit \/ ApplyImmediate \/ PopScheduled \/ AdmitScheduled
  BY <1>4, MovesStutter
<1>5. CASE FlushEvent \/ DiscardStale
  BY <1>5, DiscardsAbstractly DEF Pending
<1>6. CASE DispatchEvent
  BY <1>6, DispatchExecutes DEF Pending
<1>7. CASE AdvanceClock
  BY <1>7, AdvancePasses
<1>8. ASSUME \/ \E frames \in BlockSizes : BeginCallback(frames)
             \/ LoadEpoch \/ AdoptEpochReturns \/ DrainEnds \/ DispatchEnds \/ RenderSegment
             \/ UNCHANGED vars
      PROVE  UNCHANGED Timeline!vars
  <2>1. UNCHANGED <<clock, sessionEpoch, queue, head, tail, hand, heap, last>>
    BY <1>8 DEF BeginCallback, LoadEpoch, AdoptEpochReturns, DrainEnds, DispatchEnds,
       RenderSegment, vars, controlVars, pipe, heapVars
  <2> QED
    BY <2>1, StutterWhenQuiet
<1> QED
  BY <1>1, <1>2, <1>3, <1>4, <1>5, <1>6, <1>7, <1>8
     DEF Next, Control, ControlCompletes, Callback, QuietCall

(* With a device whose Stop waits for the callback, as Core Audio's does,  *)
(* the runtime implements the timeline that applications are promised.     *)
THEOREM TimelineImplemented == SyncStop => (Spec => ImplementsTimeline)
<1> SUFFICES ASSUME SyncStop
             PROVE  Spec => ImplementsTimeline
  OBVIOUS
<1>1. Init => Timeline!Init
  <2> SUFFICES ASSUME Init
               PROVE  Timeline!Init
    OBVIOUS
  <2>1. QueuedEvents = {} /\ hand = {} /\ heap = {}
    BY DEF Init, QueuedEvents
  <2> QED
    BY <2>1 DEF Init, Timeline!Init
<1>2. Known /\ [Next]_vars => [Timeline!Next]_(Timeline!vars)
  BY TimelineStep
<1> QED
  BY <1>1, <1>2, OrderInvariant, PTL DEF Spec, ImplementsTimeline, Timeline!Spec
=============================================================================
