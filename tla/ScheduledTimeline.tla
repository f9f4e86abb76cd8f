------------------------- MODULE ScheduledTimeline -------------------------
(***************************************************************************)
(* What the scheduler promises an application that calls                   *)
(* AudioRuntime::ScheduleAtFrame: a timeline that counts rendered frames,  *)
(* a bounded set of accepted events, and three things that can happen to   *)
(* an event - it is executed at its frame or later, it is discarded        *)
(* because its session ended, or it is still pending.  Nothing here says   *)
(* how (queue, heap, epochs, threads): AudioTimeline implements it.        *)
(***************************************************************************)
EXTENDS Integers, FiniteSets

CONSTANTS
  Capacity,          \* RuntimeConfig::max_scheduled_events
  MaxFramesPerBlock, \* RuntimeConfig::max_frames_per_block
  BlockSizes,        \* the frame counts a callback may have
  Frames,            \* the frame positions
  Positions          \* the places in the order of submissions

VARIABLES
  clock,    \* frames rendered so far
  session,  \* number of Shutdowns so far
  pending,  \* accepted events, neither executed nor discarded
  last      \* the event this callback executed last ({} before the first)

vars == <<clock, session, pending, last>>

(* An event is a record of its place `pos` in the order of submissions,    *)
(* its `target` frame, the session `epoch` that submitted it and the clock *)
(* `at` then.                                                              *)
Init ==
  /\ clock = 0
  /\ session = 0
  /\ pending = {}
  /\ last = {}

Accept(e) ==
  /\ Cardinality(pending) < Capacity
  /\ e.at = clock
  /\ e.epoch = session
  /\ \A p \in pending : p.pos < e.pos
  /\ pending' = pending \cup {e}
  /\ UNCHANGED <<clock, session, last>>

(* Earlier targets first, and submission order within one target. *)
Precedes(a, b) == a.target < b.target \/ (a.target = b.target /\ a.pos < b.pos)

(* Executing an event: never before its target or before the clock the     *)
(* caller saw, after every event this callback executed before it, after   *)
(* every older event of the same frame, and only in its own session.       *)
Execute(e, frame) ==
  /\ frame >= e.target
  /\ frame >= e.at
  /\ e.epoch = session
  /\ \A x \in last : x.frame <= frame /\ Precedes(x.event, e)
  /\ \A p \in pending \ {e} : p.target = e.target => e.pos < p.pos
  /\ pending' = pending \ {e}
  /\ last' = {[event |-> e, frame |-> frame]}
  /\ UNCHANGED <<clock, session>>

Discard(e) ==
  /\ e.epoch < session
  /\ pending' = pending \ {e}
  /\ UNCHANGED <<clock, session, last>>

EndSession ==
  /\ session' = session + 1
  /\ UNCHANGED <<clock, pending, last>>

(* The clock passes no event that was submitted before the callback's own  *)
(* start, except those inside a block too large to be split.               *)
Passable(e, frames) ==
  \/ e.at >= clock
  \/ e.target >= clock + frames
  \/ frames > MaxFramesPerBlock /\ e.target > clock

Advance(frames) ==
  /\ \A e \in pending : Passable(e, frames)
  /\ clock' = clock + frames
  /\ last' = {}
  /\ UNCHANGED <<session, pending>>

Next ==
  \/ \E pos \in Positions, target \in Frames :
       Accept([pos |-> pos, target |-> target, epoch |-> session, at |-> clock])
  \/ \E e \in pending, frame \in Frames : Execute(e, frame)
  \/ \E e \in pending : Discard(e)
  \/ EndSession
  \/ \E frames \in BlockSizes : Advance(frames)

Spec == Init /\ [][Next]_vars
=============================================================================
