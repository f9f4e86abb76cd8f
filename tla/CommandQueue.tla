---------------------------- MODULE CommandQueue ----------------------------
(***************************************************************************)
(* The single-producer single-consumer ring behind CommandQueue, one step  *)
(* per access to shared memory: the control thread pushes, the audio       *)
(* thread pops, and neither takes a lock.                                  *)
(*                                                                         *)
(* A thread's load of the other one's index is an acquire load: it returns *)
(* any value the index has had since the value this thread saw last        *)
(* (producerSaw, consumerSaw), not necessarily the newest.  Copying a      *)
(* command is not atomic: a slot holds Garbage while it is written.        *)
(*                                                                         *)
(* The indices are size_t in the code and wrap at 2^64, a number of pushes *)
(* no program makes; here they only grow.                                  *)
(***************************************************************************)
EXTENDS Integers

CONSTANTS
  RequestedCapacity,  \* the constructor's argument, 0 included
  Commands,           \* what a QueuedCommand can be
  Garbage,            \* a slot's content before and while it is written
  MaxPushes           \* bound: commands pushed

ASSUME QueueAssumption ==
  /\ RequestedCapacity \in Nat
  /\ MaxPushes \in Nat
  /\ Garbage \notin Commands

VARIABLES
  buffer, head, tail,
  producer,      \* where the producer is in TryPush
  argument,      \* the command it pushes, or {}
  producerSaw,   \* the value of tail it loaded last
  consumer,      \* where the consumer is in TryPop
  copied,        \* what it has copied out of the slot, or {}
  consumerSaw    \* the value of head it loaded last

producerVars == <<producer, argument, producerSaw>>
consumerVars == <<consumer, copied, consumerSaw>>
vars == <<buffer, head, tail, producerVars, consumerVars>>

(* The constructor makes room for at least one command. *)
Capacity == IF RequestedCapacity = 0 THEN 1 ELSE RequestedCapacity

Slots == 0..(Capacity - 1)

Slot(position) == position % Capacity

Init ==
  /\ buffer = [s \in Slots |-> Garbage] /\ head = 0 /\ tail = 0
  /\ producer = "idle" /\ argument = {} /\ producerSaw = 0
  /\ consumer = "idle" /\ copied = {} /\ consumerSaw = 0

-----------------------------------------------------------------------------
(* TryPush *)

FullOneTooLate(seen) == head - seen > Capacity

Full(seen) == head - seen >= Capacity

(* The loads of head_ and tail_, and the early return when the ring looks  *)
(* full.                                                                   *)
PushLoads(command) ==
  /\ producer = "idle"
  /\ head < MaxPushes
  /\ producerSaw' \in producerSaw..tail
  /\ IF Full(producerSaw')
     THEN UNCHANGED <<producer, argument>>
     ELSE producer' = "write" /\ argument' = {command}
  /\ UNCHANGED <<buffer, head, tail, consumerVars>>

PushCopyStarts ==
  /\ producer = "write"
  /\ buffer' = [buffer EXCEPT ![Slot(head)] = Garbage]
  /\ producer' = "writing"
  /\ UNCHANGED <<head, tail, argument, producerSaw, consumerVars>>

PushCopyEnds ==
  /\ producer = "writing"
  /\ \E command \in argument : buffer' = [buffer EXCEPT ![Slot(head)] = command]
  /\ argument' = {}
  /\ producer' = "publish"
  /\ UNCHANGED <<head, tail, producerSaw, consumerVars>>

PushPublishes ==
  /\ producer = "publish"
  /\ head' = head + 1
  /\ producer' = "idle"
  /\ UNCHANGED <<buffer, tail, argument, producerSaw, consumerVars>>

-----------------------------------------------------------------------------
(* TryPop *)

EmptyNever(seen) == FALSE
EmptyOneTooEarly(seen) == seen <= tail + 1

Empty(seen) == tail = seen

PopLoads ==
  /\ consumer = "idle"
  /\ consumerSaw' \in consumerSaw..head
  /\ consumer' = IF Empty(consumerSaw') THEN "idle" ELSE "reading"
  /\ UNCHANGED <<buffer, head, tail, copied, producerVars>>

PopCopies ==
  /\ consumer = "reading"
  /\ copied' = {buffer[Slot(tail)]}
  /\ consumer' = "release"
  /\ UNCHANGED <<buffer, head, tail, consumerSaw, producerVars>>

PopReleases ==
  /\ consumer = "release"
  /\ tail' = tail + 1
  /\ copied' = {}
  /\ consumer' = "idle"
  /\ UNCHANGED <<buffer, head, consumerSaw, producerVars>>

-----------------------------------------------------------------------------

Producer == PushCopyStarts \/ PushCopyEnds \/ PushPublishes

Consumer == PopLoads \/ PopCopies \/ PopReleases

Next == Producer \/ Consumer \/ \E command \in Commands : PushLoads(command)

Spec == Init /\ [][Next]_vars

(* A push that was begun is finished.  The consumer polls the queue (each  *)
(* callback drains it), and a store becomes visible to the other thread in *)
(* finite time, so among its loads of head_ there is always a newer one    *)
(* that returns the newest value.                                          *)
FreshPopLoads == PopLoads /\ consumerSaw' = head

Fairness ==
  /\ WF_vars(Producer)
  /\ WF_vars(PopCopies \/ PopReleases)
  /\ SF_vars(FreshPopLoads)

FairSpec == Spec /\ Fairness

-----------------------------------------------------------------------------
(* Properties. *)

(* Every variable has its type, the ring never holds more commands than it *)
(* has slots (TryPush), nor fewer than none (TryPop).                      *)
TypeOK ==
  /\ buffer \in [Slots -> Commands \cup {Garbage}]
  /\ head \in Nat /\ tail \in Nat /\ head - tail \in 0..Capacity
  /\ producer \in {"idle", "write", "writing", "publish"}
  /\ argument \subseteq Commands
  /\ producerSaw \in Nat /\ producerSaw <= tail
  /\ consumer \in {"idle", "reading", "release"}
  /\ copied \subseteq Commands \cup {Garbage}
  /\ consumerSaw \in Nat /\ tail <= consumerSaw /\ consumerSaw <= head

(* The two threads never touch one slot at the same time: the slot between *)
(* the producer's loads and its store of head_ is not one the consumer     *)
(* reads between its loads and its store of tail_.                         *)
SlotsNotShared ==
  producer \in {"write", "writing", "publish"} /\ consumer \in {"reading", "release"} =>
    Slot(head) # Slot(tail)

(* The ring is a bounded FIFO: its commands are those of the slots between *)
(* the indices, a push happens at the store of head_ and a pop at the      *)
(* store of tail_.                                                         *)
Fifo == INSTANCE BoundedFifo WITH
  queue <- [i \in (tail + 1)..head |-> buffer[Slot(i - 1)]]

ImplementsFifo == Fifo!Spec

(* The command a pop returns is the queue's oldest, and whole: nothing is  *)
(* written to its slot between the copy and the store of tail_.            *)
OldestCopied ==
  consumer = "release" => copied = {buffer[Slot(tail)]} /\ copied \subseteq Commands

(* Everything pushed is popped.                                            *)
Delivered == \A k \in 1..MaxPushes : head >= k ~> tail >= k
=============================================================================
