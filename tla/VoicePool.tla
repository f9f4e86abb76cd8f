----------------------------- MODULE VoicePool ------------------------------
(***************************************************************************)
(* Voices: slots the control thread reserves and releases, commands that   *)
(* carry its decisions to the audio thread, and the audio thread's own     *)
(* view of each slot.  An asset-backed voice holds a pin on its asset from *)
(* CreateVoice until the audio thread applies its destruction.             *)
(*                                                                         *)
(* Start and Stop go through the queue at once or, scheduled, through the  *)
(* heap; AudioTimeline says when the heap's events are applied, here it is *)
(* at any time or never.  Creations and destructions cannot be scheduled.  *)
(* A Voice can be copied, so any handle ever returned may be used again.   *)
(* A call that is refused and changes nothing is left out, and so are a    *)
(* voice's gain, pan, bus and position.  A fault that a property catches   *)
(* stands before the definition it varies.                                 *)
(***************************************************************************)
EXTENDS ResourceStore

CONSTANTS
  MaxVoices,      \* RuntimeConfig::max_voices, 0 included
  QueueCapacity,  \* RuntimeConfig::command_queue_capacity
  MaxCreates,     \* bound: voices created
  MaxCommands     \* bound: commands submitted

ASSUME VoicePoolAssumption ==
  /\ MaxVoices \in Nat /\ QueueCapacity \in Nat \ {0}
  /\ MaxCreates \in Nat /\ MaxCommands \in Nat

VARIABLES
  \* control thread
  inUse, nextGeneration,  \* the control slots
  creating,               \* the command of the CreateVoice in progress, or {}
  creates,                \* history: voices reserved so far
  handles,                \* history: the voices the application was given
  \* the command queue
  queue, head, tail,
  \* audio thread: the audio slots
  voiceState, voiceGeneration,
  voiceAsset,             \* the asset id of the voice, or {}
  voicePointer,           \* the asset object it plays, or {}
  owner,                  \* history: which creation the voice is
  \* audio thread: commands
  heap,                   \* scheduled commands that were drained
  aud, applying           \* where it is in ApplyCommand, and the command, or {}

reservations == <<inUse, nextGeneration>>
creation == <<creating, creates, handles>>
pipe == <<queue, head, tail>>
slots == <<voiceState, voiceGeneration, voiceAsset, voicePointer, owner>>
audio == <<heap, aud, applying>>
vars == <<storeVars, controlVars, reservations, creation, pipe, slots, audio>>

Voices == 0..((IF MaxVoices = 0 THEN 1 ELSE MaxVoices) - 1)

(* A VoiceId; serial tells the creations apart and no step depends on it. *)
VoiceId == [index: Voices, generation: Nat, serial: Nat]

Command == [type: {"create", "start", "stop", "destroy"}, voice: VoiceId,
            asset: SUBSET AssetId, scheduled: BOOLEAN, position: Nat]

Fifo == INSTANCE BoundedFifo WITH Capacity <- QueueCapacity, Commands <- Command

CommandFor(type, voice, id, scheduled) ==
  [type |-> type, voice |-> voice, asset |-> id, scheduled |-> scheduled, position |-> head + 1]

Init ==
  /\ StoreInit
  /\ inUse = [v \in Voices |-> FALSE] /\ nextGeneration = [v \in Voices |-> 0]
  /\ creating = {} /\ creates = 0 /\ handles = {}
  /\ queue = [i \in 1..0 |-> {}] /\ head = 0 /\ tail = 0
  /\ voiceState = [v \in Voices |-> "inactive"] /\ voiceGeneration = [v \in Voices |-> 0]
  /\ voiceAsset = [v \in Voices |-> {}] /\ voicePointer = [v \in Voices |-> {}]
  /\ owner = [v \in Voices |-> 0]
  /\ heap = {} /\ aud = "idle" /\ applying = {}

-----------------------------------------------------------------------------
(* Control thread. *)

FirstUnused(v) == ~inUse[v] /\ \A u \in 0..(v - 1) : inUse[u]

ReserveSameGeneration(v) ==
  /\ FirstUnused(v)
  /\ inUse' = [inUse EXCEPT ![v] = TRUE]
  /\ nextGeneration' = [nextGeneration EXCEPT ![v] = IF @ = 0 THEN 1 ELSE @]

ReserveSlot(v) ==
  /\ FirstUnused(v)
  /\ inUse' = [inUse EXCEPT ![v] = TRUE]
  /\ nextGeneration' = [nextGeneration EXCEPT ![v] = @ + 1]

ReleaseSlotAnyGeneration(voice) ==
  /\ inUse' = [inUse EXCEPT ![voice.index] = FALSE]
  /\ UNCHANGED nextGeneration

ReleaseSlot(voice) ==
  /\ inUse' = [inUse EXCEPT ![voice.index] = @ /\ nextGeneration[voice.index] # voice.generation]
  /\ UNCHANGED nextGeneration

(* CreateVoice: reserve a slot and, with an asset, pin it. *)
CreateBegins(id) ==
  /\ ctl = "idle"
  /\ creates < MaxCreates
  /\ \E v \in Voices :
       /\ ReserveSlot(v)
       /\ creating' = {CommandFor("create",
            [index |-> v, generation |-> nextGeneration'[v], serial |-> creates + 1], id, FALSE)}
  /\ creates' = creates + 1
  /\ ctl' = "create"
  /\ UNCHANGED <<reclaimVars, loading, handles, pipe, slots, audio>>

CreateVoice == CreateBegins({}) /\ UNCHANGED storeVars

CreateVoiceOf(id) ==
  /\ Lookup(id, "resident")
  /\ CreateBegins({id})
  /\ Pin(id)

CreateSubmits ==
  /\ ctl = "create"
  /\ \E command \in creating :
       /\ Fifo!Push(command)
       /\ handles' = handles \cup {command.voice}
  /\ creating' = {} /\ ctl' = "idle"
  /\ UNCHANGED <<storeVars, reclaimVars, loading, reservations, creates, slots, audio>>

CreateKeepsPin ==
  /\ ctl = "create"
  /\ ~Fifo!HasRoom
  /\ \E command \in creating : ReleaseSlot(command.voice)
  /\ creating' = {} /\ ctl' = "idle"
  /\ UNCHANGED <<storeVars, reclaimVars, loading, creates, handles, pipe, slots, audio>>

(* The queue is full: unpin and release. *)
CreateRollsBack ==
  /\ ctl = "create"
  /\ ~Fifo!HasRoom
  /\ \E command \in creating :
       /\ ReleaseSlot(command.voice)
       /\ IF command.asset = {} THEN UNCHANGED storeVars ELSE \E id \in command.asset : Unpin(id)
  /\ creating' = {} /\ ctl' = "idle"
  /\ UNCHANGED <<reclaimVars, loading, creates, handles, pipe, slots, audio>>

Submit(type, voice, scheduled) ==
  /\ ctl = "idle"
  /\ head < MaxCommands
  /\ Fifo!Push(CommandFor(type, voice, {}, scheduled))
  /\ UNCHANGED <<storeVars, controlVars, creation, slots, audio>>

StartVoice(voice) ==
  (\E scheduled \in BOOLEAN : Submit("start", voice, scheduled)) /\ UNCHANGED reservations

StopVoice(voice) ==
  (\E scheduled \in BOOLEAN : Submit("stop", voice, scheduled)) /\ UNCHANGED reservations

DestroyVoice(voice) == Submit("destroy", voice, FALSE) /\ ReleaseSlot(voice)

-----------------------------------------------------------------------------
(* Audio thread. *)

audioSees == <<storeVars, controlVars, reservations, creation, head>>

IsValidTarget(voice) ==
  /\ voiceGeneration[voice.index] = voice.generation
  /\ voiceState[voice.index] # "inactive"

PopScheduled ==
  /\ aud = "idle"
  /\ Fifo!Pop
  /\ queue[tail + 1].scheduled
  /\ heap' = heap \cup {queue[tail + 1]}
  /\ UNCHANGED <<audioSees, slots, aud, applying>>

PopImmediate ==
  /\ aud = "idle"
  /\ Fifo!Pop
  /\ ~queue[tail + 1].scheduled
  /\ applying' = {queue[tail + 1]}
  /\ aud' = "apply"
  /\ UNCHANGED <<audioSees, slots, heap>>

PopEvent ==
  /\ aud = "idle"
  /\ \E command \in heap : heap' = heap \ {command} /\ applying' = {command}
  /\ aud' = "apply"
  /\ UNCHANGED <<audioSees, queue, tail, slots>>

SetState(v, newState) == voiceState' = [voiceState EXCEPT ![v] = newState]

Done == aud' = "idle" /\ applying' = {}

ApplyIgnored ==
  /\ aud = "apply"
  /\ \E command \in applying : command.type # "create" /\ ~IsValidTarget(command.voice)
  /\ Done
  /\ UNCHANGED <<audioSees, queue, tail, slots, heap>>

(* An asset-backed voice that found no asset does not start. *)
ApplyStart ==
  /\ aud = "apply"
  /\ \E command \in applying :
       LET v == command.voice.index
       IN  /\ command.type = "start" /\ IsValidTarget(command.voice)
           /\ SetState(v, IF voiceAsset[v] # {} /\ voicePointer[v] = {}
                          THEN voiceState[v] ELSE "playing")
  /\ Done
  /\ UNCHANGED <<audioSees, queue, tail, voiceGeneration, voiceAsset, voicePointer, owner, heap>>

ApplyStop ==
  /\ aud = "apply"
  /\ \E command \in applying :
       /\ command.type = "stop" /\ IsValidTarget(command.voice)
       /\ SetState(command.voice.index, "stopped")
  /\ Done
  /\ UNCHANGED <<audioSees, queue, tail, voiceGeneration, voiceAsset, voicePointer, owner, heap>>

(* Create and Destroy first release the asset of the voice in the slot: a  *)
(* load of the generation, the decrement, and the slot forgets it.         *)
ApplyReleases ==
  /\ aud = "apply"
  /\ \E command \in applying :
       /\ \/ command.type = "create"
          \/ command.type = "destroy" /\ IsValidTarget(command.voice)
       /\ aud' = IF \E id \in voiceAsset[command.voice.index] : NotStale(id)
                 THEN "unpin" ELSE "released"
  /\ UNCHANGED <<audioSees, queue, tail, slots, heap, applying>>

ApplyUnpins ==
  /\ aud = "unpin"
  /\ \E command \in applying : \E id \in voiceAsset[command.voice.index] : Unpin(id)
  /\ aud' = "released"
  /\ UNCHANGED <<controlVars, reservations, creation, pipe, slots, heap, applying>>

ApplyDestroy ==
  /\ aud = "released"
  /\ \E command \in applying :
       LET v == command.voice.index
       IN  /\ command.type = "destroy"
           /\ SetState(v, "inactive")
           /\ voiceAsset' = [voiceAsset EXCEPT ![v] = {}]
           /\ voicePointer' = [voicePointer EXCEPT ![v] = {}]
  /\ Done
  /\ UNCHANGED <<audioSees, queue, tail, voiceGeneration, owner, heap>>

(* The new voice, and ResolveForAudio: a load of the generation, and of    *)
(* the published asset.                                                    *)
ApplyCreate ==
  /\ aud = "released"
  /\ \E command \in applying :
       LET v == command.voice.index
       IN  /\ command.type = "create"
           /\ SetState(v, "stopped")
           /\ voiceGeneration' = [voiceGeneration EXCEPT ![v] = command.voice.generation]
           /\ owner' = [owner EXCEPT ![v] = command.voice.serial]
           /\ voiceAsset' = [voiceAsset EXCEPT ![v] = command.asset]
           /\ voicePointer' = [voicePointer EXCEPT ![v] = {}]
           /\ IF \E id \in command.asset : NotStale(id)
              THEN aud' = "resolve" /\ applying' = applying
              ELSE Done
  /\ UNCHANGED <<audioSees, queue, tail, heap>>

ApplyResolves ==
  /\ aud = "resolve"
  /\ \E command \in applying : \E id \in command.asset :
       voicePointer' = [voicePointer EXCEPT ![command.voice.index] = published[id.index]]
  /\ Done
  /\ UNCHANGED <<audioSees, queue, tail, voiceState, voiceGeneration, voiceAsset, owner, heap>>

(* A voice that plays reaches the end of its asset. *)
RenderEnds(v) ==
  /\ aud = "idle"
  /\ voiceState[v] = "playing" /\ voicePointer[v] # {}
  /\ SetState(v, "stopped")
  /\ UNCHANGED <<audioSees, queue, tail, voiceGeneration, voiceAsset, voicePointer, owner, audio>>

-----------------------------------------------------------------------------

Control ==
  \/ StoreControl /\ UNCHANGED <<reservations, creation, pipe, slots, audio>>
  \/ CreateVoice
  \/ \E id \in ids : CreateVoiceOf(id)
  \/ CreateSubmits \/ CreateRollsBack
  \/ \E voice \in handles : StartVoice(voice) \/ StopVoice(voice) \/ DestroyVoice(voice)

Audio ==
  \/ PopScheduled \/ PopImmediate \/ PopEvent
  \/ ApplyIgnored \/ ApplyStart \/ ApplyStop \/ ApplyReleases \/ ApplyUnpins
  \/ ApplyDestroy \/ ApplyCreate \/ ApplyResolves
  \/ \E v \in Voices : RenderEnds(v)

Next == Control \/ Audio

Spec == Init /\ [][Next]_vars

-----------------------------------------------------------------------------
(* Properties. *)

(* Every variable has its type: the store's, a voice slot in range, and    *)
(* the state of a voice.                                                   *)
TypeOK ==
  /\ StoreTypeOK
  /\ inUse \in [Voices -> BOOLEAN] /\ nextGeneration \in [Voices -> Nat]
  /\ creating \subseteq Command /\ creates \in Nat /\ handles \subseteq VoiceId
  /\ head \in Nat /\ tail \in Nat /\ queue \in [(tail + 1)..head -> Command]
  /\ voiceState \in [Voices -> {"inactive", "stopped", "playing"}]
  /\ voiceGeneration \in [Voices -> Nat] /\ owner \in [Voices -> Nat]
  /\ voiceAsset \in [Voices -> SUBSET AssetId]
  /\ voicePointer \in [Voices -> SUBSET AssetObject]
  /\ heap \subseteq Command /\ applying \subseteq Command
  /\ ctl \in {"idle", "reclaim", "bump", "unpublish", "destroy", "released", "prepare", "insert",
              "publish", "create"}
  /\ aud \in {"idle", "apply", "unpin", "released", "resolve"}

(* When the audio thread renders, an asset-backed voice points to the      *)
(* asset its id was given for, and the asset is still in memory: released  *)
(* or reclaimed meanwhile, it waits for the voice; and a creation never    *)
(* comes too late to find it.                                              *)
VoiceHoldsAsset ==
  aud = "idle" =>
    \A v \in Voices : \A id \in voiceAsset[v] :
      /\ voicePointer[v] # {}
      /\ voicePointer[v] = asset[id.index]
      /\ generation[id.index] = id.generation

(* The voices that hold a pin on slot s, and the one that just dropped it  *)
(* and is about to be forgotten.                                           *)
PinnedBy(s) ==
  LET pending(command) == command.type = "create" /\ \E id \in command.asset : id.index = s
  IN  Cardinality({command \in creating : pending(command)})
        + Cardinality({i \in (tail + 1)..head : pending(queue[i])})
        + Cardinality({command \in applying : aud # "resolve" /\ pending(command)})
        + Cardinality({v \in Voices : \E id \in voiceAsset[v] : id.index = s})

Unpinned(s) ==
  IF aud = "released" /\ \E command \in applying :
       \E id \in voiceAsset[command.voice.index] : id.index = s
  THEN 1 ELSE 0

(* Every pin is held by exactly one voice: one being created, one whose    *)
(* creation is queued, or one in its audio slot; an asset with no such     *)
(* voice can be reclaimed.                                                 *)
PinsBalance == \A s \in Assets : pins[s] = PinnedBy(s) - Unpinned(s)

(* A command of this type for this voice is queued or being applied. *)
OnItsWay(type, voiceIndex, voiceGen) ==
  LET concerns(command) ==
        /\ command.type = type
        /\ command.voice.index = voiceIndex /\ command.voice.generation = voiceGen
  IN  \/ \E command \in applying : concerns(command)
      \/ \E i \in (tail + 1)..head : concerns(queue[i])

(* Of their types, the two threads' views of a voice slot agree: a         *)
(* creation finds it inactive; a slot in use has its voice, or the         *)
(* creation is on its way; a slot not in use is inactive, or the           *)
(* destruction is on its way.                                              *)
SlotsAgree ==
  /\ TypeOK
  /\ aud = "released" => \A command \in applying :
       command.type = "create" => voiceState[command.voice.index] = "inactive"
  /\ \A v \in Voices :
       IF inUse[v]
       THEN \/ \E command \in creating : command.voice.index = v
            \/ OnItsWay("create", v, nextGeneration[v])
            \/ voiceState[v] # "inactive" /\ voiceGeneration[v] = nextGeneration[v]
       ELSE voiceState[v] = "inactive" \/ OnItsWay("destroy", v, voiceGeneration[v])

(* A voice obeys its own commands only: a command of a destroyed voice,    *)
(* late in the queue, waiting in the heap or sent with a stale handle,     *)
(* never starts, stops or destroys the next voice in the slot.             *)
OwnCommandsOnly ==
  [][\A v \in Voices : \A command \in applying :
       voiceState'[v] # voiceState[v] /\ command.type # "create" =>
         owner[v] = command.voice.serial]_vars
=============================================================================
