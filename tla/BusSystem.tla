------------------------------ MODULE BusSystem ------------------------------
(***************************************************************************)
(* Buses and the mix.  The control thread reserves and releases slots, the *)
(* audio thread has its own view of each slot, and commands go from one to *)
(* the other.  A voice names the bus it plays into by its identifier, and  *)
(* may go on naming it when the bus is gone or its slot is another bus's.  *)
(*                                                                         *)
(* The control slots are the control thread's and the audio slots the      *)
(* audio thread's alone, so that the one access a call has to shared state *)
(* is its push, and a call is a step.  Gain commands can be scheduled;     *)
(* AudioTimeline says when scheduled commands are applied, here it is at   *)
(* any time or never.  A gain is known by the bus it was meant for, and    *)
(* the sound of a voice by the bus it came through.  The voices are some   *)
(* that play all the time.  A fault that a property catches stands before  *)
(* the definition it varies.                                               *)
(***************************************************************************)
EXTENDS Integers, Sequences, FiniteSets

CONSTANTS
  MaxUserBuses,   \* RuntimeConfig::max_user_buses
  QueueCapacity,  \* RuntimeConfig::command_queue_capacity
  VoiceCount,     \* voices that play
  MaxCreates,     \* bound: buses reserved
  MaxCommands     \* bound: commands submitted

ASSUME BusAssumption ==
  /\ MaxUserBuses \in Nat /\ QueueCapacity \in Nat \ {0}
  /\ VoiceCount \in Nat
  /\ MaxCreates \in Nat /\ MaxCommands \in Nat

VARIABLES
  \* control thread
  inUse, nextGeneration,  \* the control slots
  creates,                \* history: buses reserved so far
  handles,                \* history: the buses the application was given
  \* the command queue
  queue, head, tail,
  \* audio thread
  heap,                   \* scheduled commands that were drained
  active, generation,     \* the audio slots
  gain,                   \* the serial of the bus it was meant for; {} is 1.0
  owner,                  \* history: the serial of the bus in the slot
  accumulator,            \* the sounds in it, each a voice and a serial
  target                  \* the BusId each voice names

control == <<inUse, nextGeneration, creates, handles>>
pipe == <<queue, head, tail>>
slots == <<active, generation, gain, owner>>
vars == <<control, pipe, heap, slots, accumulator, target>>

Buses == 0..MaxUserBuses
Voices == 1..VoiceCount

(* serial tells the creations apart and no step depends on it. *)
BusId(b, g, serial) == [index |-> b, generation |-> g, serial |-> serial]
kMasterBusId == BusId(0, 0, 0)
NoBusId == BusId(MaxUserBuses + 1, 0, -1)   \* kInvalidIndex

(* For a command that sets a voice's bus, voice is the voice. *)
CommandFor(type, bus, voice, scheduled) ==
  [type |-> type, bus |-> bus, voice |-> voice, scheduled |-> scheduled,
   position |-> head + 1]

Fifo == INSTANCE BoundedFifo WITH Capacity <- QueueCapacity, Commands <- {}

Init ==
  /\ inUse = [b \in Buses |-> b = 0] /\ nextGeneration = [b \in Buses |-> 0]
  /\ creates = 0 /\ handles = {kMasterBusId}
  /\ queue = [i \in 1..0 |-> {}] /\ head = 0 /\ tail = 0
  /\ heap = {}
  /\ active = [b \in Buses |-> b = 0] /\ generation = [b \in Buses |-> 0]
  /\ gain = [b \in Buses |-> {}] /\ owner = [b \in Buses |-> 0]
  /\ accumulator = [b \in Buses |-> <<>>]
  /\ target = [v \in Voices |-> kMasterBusId]

-----------------------------------------------------------------------------
(* Control thread. *)

ReserveSlot(b) ==
  /\ ~inUse[b] /\ \A c \in 0..(b - 1) : inUse[c]
  /\ nextGeneration' = [nextGeneration EXCEPT ![b] = @ + 1]

(* Fault: the slot is released whoever has it. *)
ReleaseSlotAnyGeneration(bus) ==
  inUse' = IF bus.index # 0
           THEN [inUse EXCEPT ![bus.index] = FALSE] ELSE inUse

(* Releases the slot unless it is the master's or no longer the bus's. *)
ReleaseSlot(bus) ==
  inUse' = IF bus.index # 0 /\ nextGeneration[bus.index] = bus.generation
           THEN [inUse EXCEPT ![bus.index] = FALSE] ELSE inUse

MayCreate == creates < MaxCreates /\ creates' = creates + 1

CreateBus(b) ==
  /\ MayCreate
  /\ ReserveSlot(b)
  /\ inUse' = [inUse EXCEPT ![b] = TRUE]
  /\ LET bus == BusId(b, nextGeneration'[b], creates')
     IN  /\ Fifo!Push(CommandFor("create", bus, 0, FALSE))
         /\ handles' = handles \cup {bus}
  /\ UNCHANGED <<heap, slots, accumulator, target>>

(* The queue is full: the slot is released, its generation spent. *)
CreateBusRollsBack(b) ==
  /\ MayCreate
  /\ ~Fifo!HasRoom
  /\ ReserveSlot(b)
  /\ UNCHANGED <<inUse, handles, pipe, heap, slots, accumulator, target>>

Submit(type, bus, voice, scheduled) ==
  /\ head < MaxCommands
  /\ Fifo!Push(CommandFor(type, bus, voice, scheduled))
  /\ UNCHANGED <<creates, handles, nextGeneration, heap, slots, accumulator, target>>

DestroyBus(bus) ==
  /\ bus # kMasterBusId
  /\ Submit("destroy", bus, 0, FALSE)
  /\ ReleaseSlot(bus)

(* SetGain and RampGain. *)
SetBusGain(bus) ==
  /\ \E scheduled \in BOOLEAN : Submit("gain", bus, 0, scheduled)
  /\ UNCHANGED inUse

(* Voice::SetBus checks nothing. *)
SetVoiceBus(v, bus) == Submit("route", bus, v, FALSE) /\ UNCHANGED inUse

-----------------------------------------------------------------------------
(* Audio thread. *)

IsValidTarget(bus) ==
  bus.index \in Buses /\ active[bus.index] /\ generation[bus.index] = bus.generation

ApplyCreate(bus) ==
  /\ bus.index # 0
  /\ active' = [active EXCEPT ![bus.index] = TRUE]
  /\ generation' = [generation EXCEPT ![bus.index] = bus.generation]
  /\ gain' = [gain EXCEPT ![bus.index] = {}]
  /\ owner' = [owner EXCEPT ![bus.index] = bus.serial]
  /\ UNCHANGED target

ApplyDestroy(bus) ==
  /\ bus.index # 0 /\ IsValidTarget(bus)
  /\ active' = [active EXCEPT ![bus.index] = FALSE]
  /\ UNCHANGED <<generation, gain, owner, target>>

(* Fault: the gain of a bus that is gone goes where its sound goes. *)
ApplyGainResolved(bus) ==
  /\ gain' = [gain EXCEPT ![IF IsValidTarget(bus) THEN bus.index ELSE 0] = {bus.serial}]
  /\ UNCHANGED <<active, generation, owner, target>>

ApplyGain(bus) ==
  /\ IsValidTarget(bus)
  /\ gain' = [gain EXCEPT ![bus.index] = {bus.serial}]
  /\ UNCHANGED <<active, generation, owner, target>>

ApplyRoute(v, bus) == target' = [target EXCEPT ![v] = bus] /\ UNCHANGED slots

(* Creation and destruction reject the master, and all but creation a bus  *)
(* that is not there.                                                      *)
Accepts(command) ==
  /\ command.type \in {"create", "destroy"} => command.bus.index # 0
  /\ command.type \in {"destroy", "gain"} => IsValidTarget(command.bus)

Ignored(command) == ~Accepts(command) /\ UNCHANGED <<slots, target>>

ApplyCommand(command) ==
  \/ command.type = "create"  /\ ApplyCreate(command.bus)
  \/ command.type = "destroy" /\ ApplyDestroy(command.bus)
  \/ command.type = "gain"    /\ ApplyGain(command.bus)
  \/ command.type = "route"   /\ ApplyRoute(command.voice, command.bus)
  \/ Ignored(command)

PopScheduled ==
  /\ Fifo!Pop
  /\ queue[tail + 1].scheduled
  /\ heap' = heap \cup {queue[tail + 1]}
  /\ UNCHANGED <<control, slots, accumulator, target>>

PopImmediate ==
  /\ Fifo!Pop
  /\ ~queue[tail + 1].scheduled
  /\ ApplyCommand(queue[tail + 1])
  /\ UNCHANGED <<control, heap, accumulator>>

PopEvent ==
  /\ \E command \in heap : heap' = heap \ {command} /\ ApplyCommand(command)
  /\ UNCHANGED <<control, pipe, accumulator>>

(* Fault: the slot's bus, whichever it is. *)
ResolveBusIndexAnyGeneration(bus) ==
  IF bus.index \in Buses /\ active[bus.index] THEN bus.index ELSE 0

ResolveBusIndex(bus) == IF IsValidTarget(bus) THEN bus.index ELSE 0

(* The accumulators of active buses are cleared, *)
Cleared == [b \in Buses |-> IF active[b] THEN <<>> ELSE accumulator[b]]

(* each voice is added to that of the bus it names, or to the master's, *)
WithVoices ==
  LET mix[v \in 0..VoiceCount] ==
        IF v = 0 THEN Cleared
        ELSE [mix[v - 1] EXCEPT ![ResolveBusIndex(target[v])] =
                Append(@, [voice |-> v, through |-> 0])]
  IN  mix[VoiceCount]

Through(sounds, serial) ==
  [n \in DOMAIN sounds |-> [sounds[n] EXCEPT !.through = serial]]

(* and the active buses are added to the master's. *)
Mixed ==
  LET sum[b \in Buses] ==
        IF b = 0 THEN WithVoices[0]
        ELSE IF active[b] THEN sum[b - 1] \o Through(WithVoices[b], owner[b])
        ELSE sum[b - 1]
  IN  [WithVoices EXCEPT ![0] = sum[MaxUserBuses]]

RenderVoicesAndBuses ==
  /\ accumulator' = Mixed
  /\ UNCHANGED <<control, pipe, heap, slots, target>>

-----------------------------------------------------------------------------

Next ==
  \/ \E b \in Buses : CreateBus(b) \/ CreateBusRollsBack(b)
  \/ \E bus \in handles : DestroyBus(bus) \/ SetBusGain(bus)
  \/ \E v \in Voices, bus \in handles \cup {NoBusId} : SetVoiceBus(v, bus)
  \/ PopScheduled \/ PopImmediate \/ PopEvent \/ RenderVoicesAndBuses

Spec == Init /\ [][Next]_vars

-----------------------------------------------------------------------------
(* Properties. *)

Queued(type, b) ==
  {i \in (tail + 1)..head : queue[i].type = type /\ queue[i].bus.index = b}

(* The two threads agree on a bus slot: a creation that is next in the     *)
(* queue finds the slot inactive; a slot in use has its bus, or the        *)
(* creation is on its way; a slot not in use has none, or its destruction  *)
(* is on its way.  The master is always there.                             *)
BusSlotsAgree ==
  /\ inUse[0] /\ active[0]
  /\ \A b \in Buses \ {0} :
       /\ (tail + 1) \in Queued("create", b) => ~active[b]
       /\ IF inUse[b]
          THEN \/ \E i \in Queued("create", b) : queue[i].bus.generation = nextGeneration[b]
               \/ active[b] /\ generation[b] = nextGeneration[b]
          ELSE \/ ~active[b]
               \/ \E i \in Queued("destroy", b) : queue[i].bus.generation = generation[b]

(* A bus has the gain it was given, or 1.0: not the gain of the bus that   *)
(* had its slot before, and not one sent to a bus that is gone, late from  *)
(* the heap or through a stale handle.  In particular none of these        *)
(* reaches the master.                                                     *)
OwnGain == \A b \in Buses : active[b] => gain[b] \subseteq {owner[b]}

(* The bus a voice names if that bus still is, and the master otherwise. *)
Destination(v) ==
  IF \E b \in Buses : active[b] /\ owner[b] = target[v].serial
  THEN target[v].serial ELSE 0

(* A segment rendered now has every voice once, through the bus it names,  *)
(* or straight from the master when that bus is gone or never was; and     *)
(* nothing is left of an earlier segment.                                  *)
HeardOnce ==
  /\ Len(Mixed[0]) = VoiceCount
  /\ {Mixed[0][n] : n \in DOMAIN Mixed[0]} =
       {[voice |-> v, through |-> Destination(v)] : v \in Voices}
=============================================================================
