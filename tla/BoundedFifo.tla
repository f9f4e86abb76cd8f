---------------------------- MODULE BoundedFifo -----------------------------
(***************************************************************************)
(* What the command queue promises its two threads: a bounded first-in     *)
(* first-out queue whose operations are atomic.  The k-th command pushed   *)
(* has position k; positions tail+1..head are in the queue.                *)
(*                                                                         *)
(* AudioTimeline is built on these operations, CommandQueue implements     *)
(* them on a ring of slots.                                                *)
(***************************************************************************)
EXTENDS Integers

CONSTANTS
  Capacity,   \* CommandQueue::capacity()
  Commands    \* what a QueuedCommand can be

VARIABLES queue, head, tail

fifo == <<queue, head, tail>>

HasRoom == head - tail < Capacity

Put(command) ==
  /\ queue' = [i \in (tail + 1)..(head + 1) |-> IF i = head + 1 THEN command ELSE queue[i]]
  /\ head' = head + 1
  /\ tail' = tail

Take ==
  /\ queue' = [i \in (tail + 2)..head |-> queue[i]]
  /\ tail' = tail + 1
  /\ head' = head

Push(command) == HasRoom /\ Put(command)
Pop == tail < head /\ Take

Init == queue = [i \in 1..0 |-> {}] /\ head = 0 /\ tail = 0

Next == Pop \/ \E command \in Commands : Push(command)

Spec == Init /\ [][Next]_fifo
=============================================================================
