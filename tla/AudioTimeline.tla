--------------------------- MODULE AudioTimeline ---------------------------
(***************************************************************************)
(* The sample-accurate timeline of AudioRuntime: one control thread that   *)
(* submits, schedules, starts, stops and shuts down, and one audio thread  *)
(* that drains the command queue, keeps the event heap and renders a block *)
(* in segments that end where an event is due.                             *)
(*                                                                         *)
(* A step is one access to state the other thread can see; what a thread   *)
(* does to its own state between two accesses belongs to the step.  The    *)
(* queue is the BoundedFifo that CommandQueue implements.  The device is   *)
(* external: it calls back with some block size while it is running, and   *)
(* SyncStop says whether its Stop waits for a callback in flight (Core     *)
(* Audio) or not (the fake device of the tests).                           *)
(*                                                                         *)
(* Left out: calls rejected before any state changes (null device, failed  *)
(* validation, Start on a running device, a failing Open), callbacks that  *)
(* find the runtime inactive (they only clear their output), what a        *)
(* command does when it is applied, and the counters of RecordRender.      *)
(*                                                                         *)
(* A definition that no action uses and that stands just before the one it *)
(* varies (MayReserveOneTooMany before MayReserve) is a fault: a slip this *)
(* code could contain, which the properties below are shown to catch.      *)
(***************************************************************************)
EXTENDS Integers, FiniteSets

CONSTANTS
  QueueCapacity,      \* RuntimeConfig::command_queue_capacity, at least 1
  MaxScheduledEvents, \* RuntimeConfig::max_scheduled_events, 0 disables
  MaxFramesPerBlock,  \* RuntimeConfig::max_frames_per_block
  FrameModulus,       \* frame arithmetic wraps at this value (2^64)
  SyncStop,           \* the device's Stop waits for the running callback
  BlockSizes,         \* the frame counts the device asks for
  Targets,            \* the target frames the application names
  MaxCommands,        \* bound: commands pushed
  MaxFrame,           \* bound: frames rendered
  MaxEpoch,           \* bound: Shutdowns
  MaxFailures         \* bound: rejected calls of each kind

kMaxFramePosition == FrameModulus - 1

ASSUME ConfigAssumption ==
  /\ QueueCapacity \in Nat \ {0}
  /\ MaxScheduledEvents \in Nat
  /\ MaxFramesPerBlock \in Nat
  /\ SyncStop \in BOOLEAN

ASSUME BoundsAssumption ==
  /\ MaxCommands \in Nat /\ MaxFrame \in Nat /\ MaxEpoch \in Nat /\ MaxFailures \in Nat
  /\ FrameModulus \in Nat /\ MaxFrame < kMaxFramePosition
  /\ BlockSizes \subseteq Nat
  /\ Targets \subseteq 0..kMaxFramePosition

VARIABLES
  \* control thread
  ctl,          \* where the control thread is in its call
  call,         \* the QueuedCommand ScheduleAtFrame is about to push, or {}
  \* shared
  queue,        \* items tail+1..head, by position
  head, tail,
  outstanding,  \* EventReservations::outstanding_
  isActive, sessionEpoch, clock,
  running,      \* the device is delivering callbacks
  stats,        \* the counters of RenderDiagnostics
  \* audio thread
  aud,          \* where the audio thread is in its callback
  ret,          \* where it continues once the current event is accounted for
  blockStart, total, rendered, \* S, N and the frames of the block done so far
  adopting,     \* the argument of the AdoptEpoch call in progress
  audioEpoch,   \* the epoch the audio thread has adopted
  seenEpoch,    \* history: the session epoch when this callback loaded it
  drained,      \* iterations of DrainCommands' loop
  hand,         \* the scheduled item popped from the queue, or {}
  heap, nextSequence,
  outcome,      \* what became of the event being accounted for
  last          \* history: the last event executed in this callback, or {}

control == <<ctl, call>>
pipe == <<queue, head, tail>>
block == <<blockStart, total, rendered>>
heapVars == <<heap, nextSequence>>
epochs == <<adopting, audioEpoch, seenEpoch>>
vars == <<control, pipe, outstanding, isActive, sessionEpoch, clock, running, stats,
          aud, ret, block, epochs, drained, hand, heapVars, outcome, last>>

(* QueuedCommand.  `pos` (the item's place in the order of submissions)    *)
(* and `at` (the clock when it was pushed) are history.                    *)
Frame == 0..kMaxFramePosition
Item == [scheduled: BOOLEAN, target: Frame, epoch: Nat, pos: Nat, at: Nat]

(* ScheduledEvent, with the same history. *)
HeapEvent == [target: Frame, sequence: Nat, epoch: Nat, pos: Nat, at: Nat]

Event(x) == [pos |-> x.pos, target |-> x.target, epoch |-> x.epoch, at |-> x.at]

Outcome == [kind: {"none", "executed", "discarded", "dropped"}, lateness: Nat]
NoOutcome == [kind |-> "none", lateness |-> 0]

(* The event counters and rejection counters of RenderDiagnostics. *)
Counters == {"accepted", "executed", "late", "discarded", "dropped", "capacityFailures",
             "commandFailures"}

Init ==
  /\ ctl = "idle" /\ call = {}
  /\ queue = [i \in 1..0 |-> {}] /\ head = 0 /\ tail = 0
  /\ outstanding = 0
  /\ isActive = FALSE /\ sessionEpoch = 0 /\ clock = 0 /\ running = FALSE
  /\ stats = [counter \in Counters |-> 0]
  /\ aud = "idle" /\ ret = "idle"
  /\ blockStart = 0 /\ total = 0 /\ rendered = 0
  /\ adopting = 0 /\ audioEpoch = 0 /\ seenEpoch = 0 /\ drained = 0
  /\ hand = {} /\ heap = {} /\ nextSequence = 0
  /\ outcome = NoOutcome /\ last = {}

-----------------------------------------------------------------------------
(* The shared structures. *)

Fifo == INSTANCE BoundedFifo WITH Capacity <- QueueCapacity, Commands <- Item

QueueHasRoom == Fifo!HasRoom

Enqueue(item) == Fifo!Put(item)

Dequeue == Fifo!Take

MayReserveOneTooMany == outstanding <= MaxScheduledEvents

(* TryReserve takes a slot only below the capacity. *)
MayReserve == outstanding < MaxScheduledEvents

Count(counter) == stats' = [stats EXCEPT ![counter] = @ + 1]

LaterByTargetOnly(a, b) == a.target > b.target

(* Later: the heap's comparator, by target frame and then by sequence.     *)
Later(a, b) ==
  \/ a.target > b.target
  \/ a.target = b.target /\ a.sequence > b.sequence

IsFront(e) == e \in heap /\ \A f \in heap : ~Later(e, f)

DueTooEarly(e, frame) == e.target <= frame + 1
DueTooLate(e, frame) == e.target < frame

Due(e, frame) == e.target <= frame

(* Unsigned subtraction of frame positions. *)
FramesUntil(target, cursor) ==
  IF target >= cursor THEN target - cursor ELSE target - cursor + FrameModulus

-----------------------------------------------------------------------------
(* Control thread.  Calls are serialized: one is in progress at a time.    *)

audioVars == <<aud, ret, block, epochs, drained, hand, heapVars, outcome, last>>

MayCall ==
  /\ ctl = "idle"
  /\ head < MaxCommands
  /\ stats["capacityFailures"] < MaxFailures
  /\ stats["commandFailures"] < MaxFailures

(* ScheduleAtFrame, in five steps: reserve, push, record; or give the      *)
(* reservation back when the queue is full.                                *)
ScheduleReserve(target) ==
  /\ MayCall
  /\ MayReserve
  /\ outstanding' = outstanding + 1
  /\ call' = {[target |-> target, epoch |-> sessionEpoch]}
  /\ ctl' = "reserved"
  /\ UNCHANGED <<pipe, isActive, sessionEpoch, clock, running, stats, audioVars>>

ScheduleExhausted ==
  /\ MayCall
  /\ ~MayReserve
  /\ Count("capacityFailures")
  /\ UNCHANGED <<control, pipe, outstanding, isActive, sessionEpoch, clock, running, audioVars>>

SchedulePush ==
  /\ ctl = "reserved"
  /\ QueueHasRoom
  /\ \E c \in call :
       Enqueue([scheduled |-> TRUE, target |-> c.target, epoch |-> c.epoch,
                pos |-> head + 1, at |-> clock])
  /\ call' = {}
  /\ ctl' = "accepted"
  /\ UNCHANGED <<outstanding, isActive, sessionEpoch, clock, running, stats, audioVars>>

ScheduleQueueFull ==
  /\ ctl = "reserved"
  /\ ~QueueHasRoom
  /\ call' = {}
  /\ ctl' = "rollback"
  /\ UNCHANGED <<pipe, outstanding, isActive, sessionEpoch, clock, running, stats, audioVars>>

RollbackKeepsReservation ==
  /\ ctl = "rollback"
  /\ Count("commandFailures")
  /\ ctl' = "idle"
  /\ UNCHANGED <<call, pipe, outstanding, isActive, sessionEpoch, clock, running, audioVars>>

ScheduleRollback ==
  /\ ctl = "rollback"
  /\ outstanding' = outstanding - 1
  /\ Count("commandFailures")
  /\ ctl' = "idle"
  /\ UNCHANGED <<call, pipe, isActive, sessionEpoch, clock, running, audioVars>>

ScheduleRecordAccepted ==
  /\ ctl = "accepted"
  /\ Count("accepted")
  /\ ctl' = "idle"
  /\ UNCHANGED <<call, pipe, outstanding, isActive, sessionEpoch, clock, running, audioVars>>

(* Submit: an immediate command, with the defaults of QueuedCommand. *)
Submit ==
  /\ MayCall
  /\ QueueHasRoom
  /\ Enqueue([scheduled |-> FALSE, target |-> 0, epoch |-> 0, pos |-> head + 1, at |-> clock])
  /\ UNCHANGED <<control, outstanding, isActive, sessionEpoch, clock, running, stats, audioVars>>

SubmitQueueFull ==
  /\ MayCall
  /\ ~QueueHasRoom
  /\ Count("commandFailures")
  /\ UNCHANGED <<control, pipe, outstanding, isActive, sessionEpoch, clock, running, audioVars>>

(* Start activates the runtime before it starts the device, and            *)
(* deactivates it again if the device does not start.                      *)
Start ==
  /\ ctl = "idle"
  /\ ~running
  /\ isActive' = TRUE
  /\ ctl' = "starting"
  /\ UNCHANGED <<call, pipe, outstanding, sessionEpoch, clock, running, stats, audioVars>>

DeviceStart ==
  /\ ctl = "starting"
  /\ running' = TRUE
  /\ ctl' = "idle"
  /\ UNCHANGED <<call, pipe, outstanding, isActive, sessionEpoch, clock, stats, audioVars>>

DeviceStartFails ==
  /\ ctl = "starting"
  /\ isActive' = FALSE
  /\ ctl' = "idle"
  /\ UNCHANGED <<call, pipe, outstanding, sessionEpoch, clock, running, stats, audioVars>>

StopLeavesActive ==
  /\ ctl = "idle"
  /\ ctl' = "stopping"
  /\ UNCHANGED <<call, pipe, outstanding, isActive, sessionEpoch, clock, running, stats, audioVars>>

(* Stop and Shutdown deactivate the runtime before they stop the device.   *)
Stop ==
  /\ ctl = "idle"
  /\ isActive' = FALSE
  /\ ctl' = "stopping"
  /\ UNCHANGED <<call, pipe, outstanding, sessionEpoch, clock, running, stats, audioVars>>

Shutdown ==
  /\ ctl = "idle"
  /\ sessionEpoch < MaxEpoch
  /\ isActive' = FALSE
  /\ ctl' = "closing"
  /\ UNCHANGED <<call, pipe, outstanding, sessionEpoch, clock, running, stats, audioVars>>

(* The device's Stop, and for Shutdown its Close. *)
DeviceStop ==
  /\ ctl \in {"stopping", "closing"}
  /\ SyncStop => aud = "idle"
  /\ running' = FALSE
  /\ ctl' = IF ctl = "stopping" THEN "idle" ELSE "ending"
  /\ UNCHANGED <<call, pipe, outstanding, isActive, sessionEpoch, clock, stats, audioVars>>

EndSession ==
  /\ ctl = "ending"
  /\ sessionEpoch' = sessionEpoch + 1
  /\ ctl' = "idle"
  /\ UNCHANGED <<call, pipe, outstanding, isActive, clock, running, stats, audioVars>>

-----------------------------------------------------------------------------
(* Audio thread: one callback is AudioRuntime::Impl::Render.               *)

controlVars == <<control, head, isActive, sessionEpoch, running>>

(* Render: is_active_ is set, S is read from the clock, which only this    *)
(* thread writes.  frames = 0 is a legal callback.                         *)
BeginCallback(frames) ==
  /\ aud = "idle"
  /\ running /\ isActive
  /\ clock + frames <= MaxFrame
  /\ blockStart' = clock /\ total' = frames /\ rendered' = 0
  /\ aud' = "load"
  /\ UNCHANGED <<controlVars, queue, tail, outstanding, clock, stats, ret, epochs, drained,
                 hand, heapVars, outcome, last>>

LoadEpoch ==
  /\ aud = "load"
  /\ adopting' = sessionEpoch /\ seenEpoch' = sessionEpoch
  /\ aud' = "adopt"
  /\ UNCHANGED <<controlVars, queue, tail, outstanding, clock, stats, ret, block, audioEpoch,
                 drained, hand, heapVars, outcome, last>>

(* EventScheduler::PopDue; it fails when NothingDue. *)
PopDue(e, frame) ==
  /\ IsFront(e)
  /\ Due(e, frame)
  /\ heap' = heap \ {e}
  /\ nextSequence' = nextSequence

NothingDue(frame) == \A e \in heap : ~Due(e, frame)

(* An event leaves the scheduler: its reservation is released and its      *)
(* outcome counted, in two steps, before the thread continues at `next`.   *)
Settle(kind, lateness, next) ==
  /\ outcome' = [kind |-> kind, lateness |-> lateness]
  /\ ret' = next
  /\ aud' = "release"

(* AdoptEpoch: a newer epoch flushes the heap, event by event. *)
NewerEpoch == adopting > audioEpoch

FlushUncounted ==
  /\ aud = "adopt"
  /\ NewerEpoch /\ heap # {}
  /\ heap' = {} /\ nextSequence' = nextSequence
  /\ outstanding' = outstanding - Cardinality(heap)
  /\ UNCHANGED <<controlVars, queue, tail, clock, stats, aud, ret, block, epochs, drained, hand,
                 outcome, last>>

FlushEvent ==
  /\ aud = "adopt"
  /\ NewerEpoch
  /\ \E e \in heap : PopDue(e, kMaxFramePosition)
  /\ Settle("discarded", 0, "adopt")
  /\ UNCHANGED <<controlVars, queue, tail, outstanding, clock, stats, block, epochs, drained,
                 hand, last>>

AdoptEpochReturns ==
  /\ aud = "adopt"
  /\ NewerEpoch => NothingDue(kMaxFramePosition)
  /\ audioEpoch' = IF NewerEpoch THEN adopting ELSE audioEpoch
  /\ adopting' = 0
  /\ aud' = IF hand = {} THEN "drain" ELSE "admit"
  /\ UNCHANGED <<controlVars, queue, tail, outstanding, clock, stats, ret, block, seenEpoch,
                 drained, hand, heapVars, outcome, last>>

MayDrainOneLess == drained < QueueCapacity - 1

(* DrainCommands: at most QueueCapacity items a callback. *)
MayDrain == drained < QueueCapacity

(* An immediate command is applied at once, at frame blockStart. *)
ApplyImmediate ==
  /\ aud = "drain"
  /\ MayDrain /\ tail < head /\ ~queue[tail + 1].scheduled
  /\ Dequeue
  /\ drained' = drained + 1
  /\ UNCHANGED <<control, isActive, sessionEpoch, running, outstanding, clock, stats, aud, ret,
                 block, epochs, hand, heapVars, outcome, last>>

PopScheduledKeepsEpoch ==
  /\ aud = "drain"
  /\ MayDrain /\ tail < head /\ queue[tail + 1].scheduled
  /\ Dequeue
  /\ drained' = drained + 1
  /\ hand' = {queue[tail + 1]}
  /\ aud' = "admit"
  /\ UNCHANGED <<control, isActive, sessionEpoch, running, outstanding, clock, stats, ret,
                 block, epochs, heapVars, outcome, last>>

PopScheduled ==
  /\ aud = "drain"
  /\ MayDrain /\ tail < head /\ queue[tail + 1].scheduled
  /\ Dequeue
  /\ drained' = drained + 1
  /\ hand' = {queue[tail + 1]}
  /\ adopting' = queue[tail + 1].epoch
  /\ aud' = "adopt"
  /\ UNCHANGED <<control, isActive, sessionEpoch, running, outstanding, clock, stats, ret,
                 block, audioEpoch, seenEpoch, heapVars, outcome, last>>

StaleNever(item) == FALSE
StaleAlways(item) == item.epoch <= audioEpoch

Stale(item) == item.epoch < audioEpoch

DiscardStale ==
  /\ aud = "admit"
  /\ \E item \in hand : Stale(item)
  /\ hand' = {}
  /\ Settle("discarded", 0, "drain")
  /\ UNCHANGED <<controlVars, queue, tail, outstanding, clock, stats, block, epochs, drained,
                 heapVars, last>>

(* EventScheduler::Push, which drops the event when the heap is full. *)
PushEvent(item) ==
  IF Cardinality(heap) < MaxScheduledEvents
  THEN /\ heap' = heap \cup {[target |-> item.target, sequence |-> nextSequence,
                              epoch |-> item.epoch, pos |-> item.pos, at |-> item.at]}
       /\ nextSequence' = nextSequence + 1
       /\ aud' = "drain"
       /\ UNCHANGED <<outcome, ret>>
  ELSE /\ Settle("dropped", 0, "drain")
       /\ UNCHANGED heapVars

AdmitScheduled ==
  /\ aud = "admit"
  /\ \E item \in hand : ~Stale(item) /\ PushEvent(item)
  /\ hand' = {}
  /\ UNCHANGED <<controlVars, queue, tail, outstanding, clock, stats, block, epochs, drained,
                 last>>

DrainEnds ==
  /\ aud = "drain"
  /\ ~MayDrain \/ tail = head
  /\ drained' = 0
  /\ aud' = "dispatch"
  /\ UNCHANGED <<controlVars, queue, tail, outstanding, clock, stats, ret, block, epochs, hand,
                 heapVars, outcome, last>>

(* RenderBlock.  DispatchDue runs at the block start and at the end of     *)
(* every segment but the last.                                             *)
Cursor == blockStart + rendered

DispatchEvent ==
  /\ aud = "dispatch"
  /\ \E e \in heap :
       /\ PopDue(e, Cursor)
       /\ Settle("executed", Cursor - e.target, "dispatch")
       /\ last' = {[event |-> Event(e), frame |-> Cursor]}
  /\ UNCHANGED <<controlVars, queue, tail, outstanding, clock, stats, block, epochs, drained,
                 hand>>

DispatchEnds ==
  /\ aud = "dispatch"
  /\ NothingDue(Cursor)
  /\ aud' = IF rendered < total THEN "segment" ELSE "advance"
  /\ UNCHANGED <<controlVars, queue, tail, outstanding, clock, stats, ret, block, epochs,
                 drained, hand, heapVars, outcome, last>>

(* A block above max_frames_per_block is one segment; any other segment    *)
(* ends where the next event is due or where the block ends.               *)
Oversized == total > MaxFramesPerBlock

SegmentUnsplit(frames) == frames = total - rendered

SegmentLength(frames) ==
  LET rest == total - rendered
  IN  IF Oversized \/ heap = {}
      THEN frames = rest
      ELSE \E e \in heap :
             /\ IsFront(e)
             /\ LET until == FramesUntil(e.target, Cursor)
                IN  frames = IF until < rest THEN until ELSE rest

RenderSegment ==
  /\ aud = "segment"
  /\ \E frames \in 0..(total - rendered) :
       /\ SegmentLength(frames)
       /\ rendered' = rendered + frames
  /\ aud' = IF rendered' < total THEN "dispatch" ELSE "advance"
  /\ UNCHANGED <<controlVars, queue, tail, outstanding, clock, stats, ret, blockStart, total,
                 epochs, drained, hand, heapVars, outcome, last>>

(* The callback ends; its locals end with it. *)
AdvanceClock ==
  /\ aud = "advance"
  /\ clock' = clock + total
  /\ blockStart' = 0 /\ total' = 0 /\ rendered' = 0
  /\ seenEpoch' = 0 /\ last' = {}
  /\ aud' = "idle"
  /\ UNCHANGED <<controlVars, queue, tail, outstanding, stats, ret, adopting, audioEpoch,
                 drained, hand, heapVars, outcome>>

ReleaseReservation ==
  /\ aud = "release"
  /\ outstanding' = outstanding - 1
  /\ aud' = "record"
  /\ UNCHANGED <<controlVars, queue, tail, clock, stats, ret, block, epochs, drained, hand,
                 heapVars, outcome, last>>

RecordOutcome ==
  /\ aud = "record"
  /\ stats' = [counter \in Counters |->
                 IF counter = outcome.kind \/ (counter = "late" /\ outcome.lateness > 0)
                 THEN stats[counter] + 1
                 ELSE stats[counter]]
  /\ outcome' = NoOutcome
  /\ ret' = "idle"
  /\ aud' = ret
  /\ UNCHANGED <<controlVars, queue, tail, outstanding, clock, block, epochs, drained, hand,
                 heapVars, last>>

-----------------------------------------------------------------------------

ControlCompletes ==
  \/ SchedulePush \/ ScheduleQueueFull \/ ScheduleRollback \/ ScheduleRecordAccepted
  \/ DeviceStart \/ DeviceStartFails \/ DeviceStop \/ EndSession

Control ==
  \/ \E target \in Targets : ScheduleReserve(target)
  \/ ScheduleExhausted \/ Submit \/ SubmitQueueFull
  \/ Start \/ Stop \/ Shutdown
  \/ ControlCompletes

Callback ==
  \/ LoadEpoch \/ FlushEvent \/ AdoptEpochReturns
  \/ ApplyImmediate \/ PopScheduled \/ DiscardStale \/ AdmitScheduled \/ DrainEnds
  \/ DispatchEvent \/ DispatchEnds \/ RenderSegment \/ AdvanceClock
  \/ ReleaseReservation \/ RecordOutcome

Next ==
  \/ Control
  \/ \E frames \in BlockSizes : BeginCallback(frames)
  \/ Callback

Spec == Init /\ [][Next]_vars

(* A call in progress and a callback in progress are finished by their     *)
(* threads, and a device that keeps running asks for frames again and      *)
(* again, whatever empty callbacks it makes in between.  (At the bound of  *)
(* the clock only empty callbacks are left to ask for.)                    *)
AsksForFrames ==
  \E frames \in BlockSizes :
    /\ frames > 0 \/ \A n \in BlockSizes \ {0} : clock + n > MaxFrame
    /\ BeginCallback(frames)

Fairness ==
  /\ WF_vars(ControlCompletes)
  /\ WF_vars(Callback)
  /\ SF_vars(AsksForFrames)

FairSpec == Spec /\ Fairness

-----------------------------------------------------------------------------
(* Properties. *)

(* The queue's part of the type invariant: its commands are those between  *)
(* the indices that TryPush and TryPop move.                               *)
PipeTypeOK ==
  /\ head \in Nat /\ tail \in Nat
  /\ queue \in [(tail + 1)..head -> Item]

(* Every variable has its type: the counters of RenderDiagnostics and the  *)
(* clock never go below zero, and the queue is contiguous.                 *)
TypeOK ==
  /\ ctl \in {"idle", "reserved", "rollback", "accepted", "starting", "stopping", "closing",
              "ending"}
  /\ call \subseteq [target: Frame, epoch: Nat]
  /\ PipeTypeOK
  /\ outstanding \in Int
  /\ isActive \in BOOLEAN /\ sessionEpoch \in Nat /\ clock \in Nat /\ running \in BOOLEAN
  /\ stats \in [Counters -> Nat]
  /\ aud \in {"idle", "load", "adopt", "drain", "admit", "dispatch", "segment", "advance",
              "release", "record"}
  /\ ret \in {"idle", "adopt", "drain", "dispatch"}
  /\ blockStart \in Nat /\ total \in Nat /\ rendered \in Nat
  /\ adopting \in Nat /\ audioEpoch \in Nat /\ seenEpoch \in Nat /\ drained \in Nat
  /\ hand \subseteq Item
  /\ heap \subseteq HeapEvent /\ nextSequence \in Nat
  /\ outcome \in Outcome
  /\ last \subseteq [event: [pos: Nat, target: Frame, epoch: Nat, at: Nat], frame: Nat]

(* The scheduled items still in the queue, by position. *)
QueuedEvents == {i \in (tail + 1)..head : queue[i].scheduled}

(* Events that were pushed and are neither executed nor discarded. *)
Waiting == Cardinality(QueuedEvents) + Cardinality(hand) + Cardinality(heap)

One(b) == IF b THEN 1 ELSE 0

(* Every outstanding reservation belongs to exactly one event: waiting,    *)
(* about to be pushed, rolled back, or just taken out of the scheduler.    *)
(* A leak would shrink the capacity for good, a double release would let   *)
(* more events in than the heap holds.                                     *)
ReservationConservation ==
  outstanding = Waiting + One(ctl \in {"reserved", "rollback"}) + One(aud = "release")

(* An accepted event always finds room in the heap.                        *)
NeverDropped == stats["dropped"] = 0 /\ outcome.kind # "dropped"

(* Between calls and between callbacks, accepted = executed + discarded +  *)
(* dropped + pending (the identity the scheduling document gives).         *)
QuiescentAccounting ==
  ctl = "idle" /\ aud = "idle" =>
    stats["accepted"] =
      stats["executed"] + stats["discarded"] + stats["dropped"] + outstanding

(* A command never takes effect before its target, nor before the clock    *)
(* the application could have read when it was pushed.                     *)
SubmissionGuarantee ==
  \A x \in last : x.frame >= x.event.target /\ x.frame >= x.event.at

(* Within a callback events execute by target and, for one target, in the  *)
(* order of their submissions, whatever the heap does inside.              *)
Precedes(a, b) == a.target < b.target \/ (a.target = b.target /\ a.pos < b.pos)

ScheduledOrder ==
  \A x \in last :
    /\ \A e \in heap : Precedes(x.event, e)
    /\ \A i \in QueuedEvents : queue[i].target = x.event.target => x.event.pos < queue[i].pos

(* A segment never starts with an event due at or before its first frame.  *)
NextEventAhead ==
  /\ aud = "segment" => \A e \in heap : e.target > Cursor
  /\ rendered > 0 /\ ~Oversized => \A e \in heap : e.target >= Cursor

(* A callback executes no event of a session that was over when it loaded  *)
(* the epoch; with a synchronous Stop, none but the current session's.     *)
NoStaleExecution ==
  \A x \in last :
    /\ x.event.epoch >= seenEpoch
    /\ SyncStop => x.event.epoch = sessionEpoch

(* What was pushed before the block began and falls due in it has been     *)
(* executed when the block is rendered, and what was pushed in an earlier  *)
(* session has been discarded.  Only inside an oversized block may a due   *)
(* event wait for the next block.                                          *)
NothingLeftBehind ==
  aud = "advance" =>
    \A e \in {queue[i] : i \in QueuedEvents} \cup hand \cup heap :
      \/ e.at >= blockStart
      \/ e.target >= blockStart + total
      \/ Oversized /\ e.target > blockStart

(* No event is passed over, neither by a segment - an event behind it      *)
(* would make frames_until_event zero, a loop that renders nothing, or     *)
(* wrap it around - nor by a block that ends before it was executed.       *)
NothingPassedOver == NextEventAhead /\ NothingLeftBehind

(* Only the events of a session that is over are discarded.                *)
DiscardsAreStale ==
  [][/\ FlushEvent => \A e \in heap : e.epoch < sessionEpoch
     /\ DiscardStale => \A item \in hand : item.epoch < sessionEpoch]_vars

(* With a lead of one block, and blocks that can be split, an event is     *)
(* executed at exactly its frame.                                          *)
PunctualWithLead ==
  (\A n \in BlockSizes : n <= MaxFramesPerBlock) =>
    \A x \in last :
      (\A n \in BlockSizes : x.event.target >= x.event.at + n)
        => x.frame = x.event.target

(* The order rule of the document's "Core idea": immediate and scheduled   *)
(* commands take effect in the order of their submission.  The code does   *)
(* not keep it: an event due at the block start that was submitted first   *)
(* waits in the heap while a later immediate command is applied.           *)
SubmissionOrderKept ==
  [][ApplyImmediate => \A e \in heap : ~Due(e, blockStart)]_vars

(* What ScheduledTimeline promises.                                        *)
Timeline == INSTANCE ScheduledTimeline WITH
  Capacity <- MaxScheduledEvents,
  Frames <- Frame,
  Positions <- 1..MaxCommands,
  session <- sessionEpoch,
  pending <- {Event(queue[i]) : i \in QueuedEvents} \cup {Event(q) : q \in hand}
               \cup {Event(e) : e \in heap}

ImplementsTimeline == Timeline!Spec

(* Every event whose frame the device reaches is executed or discarded, if *)
(* from some time on the runtime stays started.                            *)
IsWaiting(p) ==
  \/ p \in QueuedEvents /\ queue[p].target <= MaxFrame
  \/ \E e \in hand \cup heap : e.pos = p /\ e.target <= MaxFrame

EventsSettle ==
  \A p \in 1..MaxCommands :
    <>[](isActive /\ running) => (IsWaiting(p) ~> ~IsWaiting(p))

(* Every callback returns - neither the drain loop nor the segment loop    *)
(* goes on for ever - and so does every control call, even a Stop that     *)
(* waits for the callback.                                                 *)
EverythingReturns ==
  /\ aud # "idle" ~> aud = "idle"
  /\ ctl # "idle" ~> ctl = "idle"
=============================================================================
