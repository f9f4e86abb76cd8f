--------------------------- MODULE VoicePoolProofs --------------------------
(***************************************************************************)
(* Proofs about VoicePool and the ResourceStore under it: the store is     *)
(* consistent, every pin has its voice, a voice's asset stays in memory,   *)
(* the two threads agree on the slots, and a voice obeys its own commands. *)
(***************************************************************************)
EXTENDS VoicePool, FiniteSetTheorems, TLAPS

-----------------------------------------------------------------------------
(* The store. *)

(* A slot has at most one asset, and none just when it is free. *)
MemoryInv ==
  \A s \in Assets :
    /\ slotState[s] = "free" <=> asset[s] = {}
    /\ \A a, b \in asset[s] : a = b
    /\ \A a \in asset[s] : bytes[s] = BytesOf[a.key]

(* The key table and the keys of the slots; no key has two slots. *)
TableInv ==
  /\ \A k \in Keys, s \in Assets :
       /\ s \in keyToIndex[k] <=>
            slotState[s] = "resident" /\ \E object \in asset[s] : object.key = k
       /\ k \in key[s] <=> s \in keyToIndex[k]
  /\ \A k \in Keys : \A s, t \in keyToIndex[k] : s = t
  /\ ctl # "publish" => \A k \in loading : keyToIndex[k] = {}

(* The control thread frees a slot only while nothing pins it, and what is *)
(* published is what is in the slot, but for the slot it works on.         *)
ScanInv ==
  /\ after \in {"idle", "released", "prepare", "insert"}
  /\ ctl \in {"bump", "unpublish", "destroy"} => slotState[scan] = "retiring" /\ pins[scan] = 0
  /\ ctl = "publish" => asset[scan] # {} /\ pins[scan] = 0
  /\ \A s \in Assets :
       published[s] = IF s = scan /\ ctl \in {"publish", "destroy"} THEN {} ELSE asset[s]

(* The bytes of the assets in memory are counted. *)
BudgetInv ==
  IsFiniteSet(BytesInMemory) /\ totalBytes = Cardinality(BytesInMemory)

-----------------------------------------------------------------------------
(* The threads and the commands. *)

OneAsset(command) ==
  /\ \A a, b \in command.asset : a = b
  /\ command.type # "create" => command.asset = {}

(* What each thread is doing. *)
ThreadsInv ==
  /\ ctl = "create" <=> creating # {}
  /\ \A c, d \in creating : c = d
  /\ aud = "idle" <=> applying = {}
  /\ \A c, d \in applying : c = d
  /\ aud \in {"unpin", "released"} => \A c \in applying :
       c.type = "create" \/ (c.type = "destroy" /\ IsValidTarget(c.voice))
  /\ aud = "unpin" => \A c \in applying : voiceAsset[c.voice.index] # {}
  /\ aud = "resolve" => \A c \in applying :
       c.type = "create" /\ voiceAsset[c.voice.index] = c.asset

(* The commands under way: creations and destructions are not scheduled,   *)
(* and a command is for a voice the application was given.                 *)
CommandsInv ==
  /\ \A c \in creating : c.type = "create" /\ ~c.scheduled /\ OneAsset(c)
  /\ \A i \in (tail + 1)..head :
       /\ queue[i].voice \in handles /\ OneAsset(queue[i])
       /\ queue[i].type \in {"create", "destroy"} => ~queue[i].scheduled
  /\ \A c \in applying : c.voice \in handles /\ OneAsset(c)
  /\ \A c \in heap : c.voice \in handles /\ OneAsset(c) /\ c.type \in {"start", "stop"}

(* The handles tell the voices apart. *)
HandlesInv ==
  /\ \A a, b \in handles : a.index = b.index /\ a.generation = b.generation => a = b
  /\ \A h \in handles : h.generation <= nextGeneration[h.index]
  /\ \A c \in creating :
       /\ inUse[c.voice.index] /\ nextGeneration[c.voice.index] = c.voice.generation
       /\ \A h \in handles : h.index = c.voice.index => h.generation < c.voice.generation

Active(v) == voiceState[v] # "inactive"

(* A voice in an audio slot is one the application was given. *)
ActiveInv ==
  \A v \in Voices :
    /\ voiceGeneration[v] <= nextGeneration[v]
    /\ Active(v) => \E h \in handles : h.index = v /\ h.generation = voiceGeneration[v]
                                                   /\ h.serial = owner[v]
    /\ \A a, b \in voiceAsset[v] : a = b

-----------------------------------------------------------------------------
(* The order of creations and destructions.                                *)

(* The commands still to be applied, by their places in the order of       *)
(* submissions: the one being applied is the last one popped, the one      *)
(* being created will be the next one pushed.                              *)
UnappliedAt(i) ==
  (IF i = tail /\ aud \in {"apply", "unpin", "released"} THEN applying ELSE {})
    \cup (IF i \in (tail + 1)..head THEN {queue[i]} ELSE {})
    \cup (IF i = head + 1 THEN creating ELSE {})

Comes(type, v, g, i) ==
  \E c \in UnappliedAt(i) : c.type = type /\ c.voice.index = v /\ c.voice.generation = g

Holds(v, g) == inUse[v] /\ nextGeneration[v] = g

CreationInv ==
  \A v \in Voices, i, g \in Nat : Comes("create", v, g, i) =>
    /\ voiceGeneration[v] < g
    /\ Active(v) => \E d \in Nat : d < i /\ Comes("destroy", v, voiceGeneration[v], d)

OrderInv ==
  \A v \in Voices, i, j, g, h \in Nat :
    Comes("create", v, g, i) /\ Comes("create", v, h, j) /\ i < j =>
      g < h /\ \E d \in Nat : i < d /\ d < j /\ Comes("destroy", v, g, d)

ReleaseInv ==
  \A v \in Voices :
    /\ \A i, g \in Nat : Comes("create", v, g, i) =>
         Holds(v, g) \/ \E d \in Nat : i < d /\ Comes("destroy", v, g, d)
    /\ Active(v) =>
         \/ Holds(v, voiceGeneration[v])
         \/ \E d \in Nat : Comes("destroy", v, voiceGeneration[v], d)

DestroysInv ==
  \A v \in Voices, d, g \in Nat :
    Comes("destroy", v, g, d) /\ inUse[v] => g < nextGeneration[v]

InUseInv ==
  \A v \in Voices : inUse[v] =>
    \/ \E i \in Nat : Comes("create", v, nextGeneration[v], i)
    \/ Active(v) /\ voiceGeneration[v] = nextGeneration[v]

-----------------------------------------------------------------------------
(* The pins. *)

(* The voice of this slot has dropped its pin and is about to be forgotten. *)
Dropping(v) == aud = "released" /\ \E c \in applying : c.voice.index = v

(* An asset id is held by the voice being created, by the creation in the  *)
(* queue or in the audio thread's hands, or by the voice in a slot.        *)
Held(id) ==
  \/ \E c \in creating : id \in c.asset
  \/ \E i \in (tail + 1)..head : id \in queue[i].asset
  \/ aud # "resolve" /\ \E c \in applying : id \in c.asset
  \/ \E v \in Voices : ~Dropping(v) /\ id \in voiceAsset[v]

(* An asset that is held stays where it is. *)
HoldInv ==
  \A id : Held(id) => NotStale(id) /\ asset[id.index] # {}

PointerInv ==
  \A v \in Voices : \A id \in voiceAsset[v] :
    \/ aud \in {"released", "resolve"} /\ \E c \in applying : c.voice.index = v
    \/ voicePointer[v] = asset[id.index]

Pending(command, s) == command.type = "create" /\ \E id \in command.asset : id.index = s

CreatingPins(s) == {c \in creating : Pending(c, s)}
QueuedPins(s) == {i \in (tail + 1)..head : Pending(queue[i], s)}
ApplyingPins(s) == {c \in applying : aud # "resolve" /\ Pending(c, s)}
VoicePins(s) == {v \in Voices : ~Dropping(v) /\ \E id \in voiceAsset[v] : id.index = s}

CountInv ==
  \A s \in Assets :
    pins[s] = Cardinality(CreatingPins(s)) + Cardinality(QueuedPins(s))
                + Cardinality(ApplyingPins(s)) + Cardinality(VoicePins(s))

-----------------------------------------------------------------------------
TypeInv == TypeOK /\ tail <= head

StoreInv == MemoryInv /\ TableInv /\ ScanInv /\ BudgetInv

SequenceInv == CreationInv /\ OrderInv /\ ReleaseInv /\ DestroysInv /\ InUseInv

SlotInv == ThreadsInv /\ CommandsInv /\ HandlesInv /\ ActiveInv /\ SequenceInv

PinInv == HoldInv /\ PointerInv /\ CountInv

Inv == TypeInv /\ StoreInv /\ SlotInv /\ PinInv

(* The invariant holds initially. *)
LEMMA InvInit == Init => Inv
<1> SUFFICES ASSUME Init
             PROVE  Inv
  OBVIOUS
<1> USE StoreAssumption, VoicePoolAssumption DEF Init, StoreInit
<1>1. TypeInv
  <2>1. /\ 0 \in Assets /\ 1..0 = (tail + 1)..head /\ 1..0 = {}
        /\ totalBytes \in 0..MaxTotalBytes
    BY DEF Assets
  <2>2. StoreTypeOK
    BY <2>1 DEF StoreTypeOK
  <2>3. queue \in [(tail + 1)..head -> Command]
    BY <2>1
  <2> QED
    BY <2>2, <2>3 DEF TypeInv, TypeOK
<1>2. MemoryInv
  BY DEF MemoryInv
<1>3. TableInv
  BY DEF TableInv
<1>4. ScanInv
  BY DEF ScanInv
<1>5. BudgetInv
  <2>1. BytesInMemory = {}
    BY DEF BytesInMemory, BytesIn
  <2> QED
    BY <2>1, FS_EmptySet DEF BudgetInv
<1>6. ThreadsInv /\ CommandsInv /\ HandlesInv
  BY DEF ThreadsInv, CommandsInv, HandlesInv
<1>7. \A v \in Voices : ~Active(v) /\ ~inUse[v] /\ voiceAsset[v] = {}
                        /\ voiceGeneration[v] = 0 /\ nextGeneration[v] = 0
  BY DEF Active
<1>8. \A type, v, g, i : ~Comes(type, v, g, i)
  BY DEF Comes, UnappliedAt
<1>9. ActiveInv
  BY <1>7 DEF ActiveInv
<1>10. CreationInv /\ OrderInv /\ ReleaseInv /\ DestroysInv /\ InUseInv
  BY <1>7, <1>8 DEF CreationInv, OrderInv, ReleaseInv, DestroysInv, InUseInv
<1>11. HoldInv /\ PointerInv
  BY <1>7 DEF HoldInv, PointerInv, Held
<1>12. CountInv
  <2> SUFFICES ASSUME NEW s \in Assets
               PROVE  pins[s] = Cardinality(CreatingPins(s)) + Cardinality(QueuedPins(s))
                         + Cardinality(ApplyingPins(s)) + Cardinality(VoicePins(s))
    BY DEF CountInv
  <2>1. /\ CreatingPins(s) = {} /\ QueuedPins(s) = {} /\ ApplyingPins(s) = {} /\ VoicePins(s) = {}
    BY <1>7 DEF CreatingPins, QueuedPins, ApplyingPins, VoicePins
  <2> QED
    BY <2>1, FS_EmptySet
<1> QED
  BY <1>1, <1>2, <1>3, <1>4, <1>5, <1>6, <1>9, <1>10, <1>11, <1>12
     DEF Inv, StoreInv, SlotInv, SequenceInv, PinInv

-----------------------------------------------------------------------------
(* The pins counted. *)

(* A set of at most one element. *)
LEMMA AtMostOne ==
  ASSUME NEW S, \A a, b \in S : a = b
  PROVE  IsFiniteSet(S) /\ (S # {} => Cardinality(S) = 1)
<1>1. CASE S = {}
  BY <1>1, FS_EmptySet
<1>2. CASE S # {}
  <2>1. PICK a \in S : S = {a}
    BY <1>2
  <2> QED
    BY <2>1, FS_Singleton
<1> QED
  BY <1>1, <1>2

(* The sets of pins are finite. *)
LEMMA PinSetsFinite ==
  ASSUME TypeInv, ThreadsInv, NEW s
  PROVE  /\ IsFiniteSet(CreatingPins(s)) /\ IsFiniteSet(QueuedPins(s))
         /\ IsFiniteSet(ApplyingPins(s)) /\ IsFiniteSet(VoicePins(s))
<1>1. IsFiniteSet(CreatingPins(s)) /\ IsFiniteSet(ApplyingPins(s))
  BY AtMostOne DEF ThreadsInv, CreatingPins, ApplyingPins
<1>2. tail + 1 \in Int /\ head \in Int /\ MaxVoices \in Nat
  BY VoicePoolAssumption DEF TypeInv, TypeOK
<1>3. IsFiniteSet((tail + 1)..head)
  BY <1>2, FS_Interval
<1>4. IsFiniteSet(Voices)
  <2>1. (IF MaxVoices = 0 THEN 1 ELSE MaxVoices) - 1 \in Int
    BY <1>2
  <2> QED
    BY <2>1, FS_Interval DEF Voices
<1>5. QueuedPins(s) \subseteq (tail + 1)..head /\ VoicePins(s) \subseteq Voices
  BY DEF QueuedPins, VoicePins
<1> QED
  BY <1>1, <1>3, <1>4, <1>5, FS_Subset

(* An asset has no pin just when nothing holds it. *)
LEMMA PinnedIffHeld ==
  ASSUME TypeInv, ThreadsInv, CommandsInv, CountInv, NEW s \in Assets
  PROVE  pins[s] = 0 <=> \A id : Held(id) => id.index # s
<1>1. /\ IsFiniteSet(CreatingPins(s)) /\ IsFiniteSet(QueuedPins(s))
      /\ IsFiniteSet(ApplyingPins(s)) /\ IsFiniteSet(VoicePins(s))
  BY PinSetsFinite
<1>2. /\ Cardinality(CreatingPins(s)) \in Nat /\ Cardinality(QueuedPins(s)) \in Nat
      /\ Cardinality(ApplyingPins(s)) \in Nat /\ Cardinality(VoicePins(s)) \in Nat
  BY <1>1, FS_CardinalityType
<1>3. pins[s] = 0 <=> /\ Cardinality(CreatingPins(s)) = 0 /\ Cardinality(QueuedPins(s)) = 0
                      /\ Cardinality(ApplyingPins(s)) = 0 /\ Cardinality(VoicePins(s)) = 0
  <2>1. pins[s] = Cardinality(CreatingPins(s)) + Cardinality(QueuedPins(s))
                    + Cardinality(ApplyingPins(s)) + Cardinality(VoicePins(s))
    BY DEF CountInv
  <2> QED
    BY <1>2, <2>1
<1>4. pins[s] = 0 <=> /\ CreatingPins(s) = {} /\ QueuedPins(s) = {}
                      /\ ApplyingPins(s) = {} /\ VoicePins(s) = {}
  BY <1>1, <1>3, FS_EmptySet
<1>5. CreatingPins(s) = {} <=> \A c \in creating : \A id \in c.asset : id.index # s
  BY DEF CreatingPins, Pending, CommandsInv
<1>6. QueuedPins(s) = {} <=>
        \A i \in (tail + 1)..head : \A id \in queue[i].asset : id.index # s
  BY DEF QueuedPins, Pending, CommandsInv, OneAsset
<1>7. ApplyingPins(s) = {} <=>
        \A c \in applying : aud # "resolve" => \A id \in c.asset : id.index # s
  BY DEF ApplyingPins, Pending, CommandsInv, OneAsset
<1>8. VoicePins(s) = {} <=>
        \A v \in Voices : ~Dropping(v) => \A id \in voiceAsset[v] : id.index # s
  BY DEF VoicePins
<1> QED
  BY <1>4, <1>5, <1>6, <1>7, <1>8 DEF Held

(* What is held is an asset id. *)
LEMMA HeldTyped ==
  ASSUME Inv, NEW id, Held(id)
  PROVE  id \in AssetId /\ id.index \in Assets /\ id.generation \in Nat
BY DEF Inv, TypeInv, TypeOK, Held, Command, AssetId

(* A free slot is held by nothing. *)
LEMMA FreeIsUnheld ==
  ASSUME MemoryInv, HoldInv, NEW s \in Assets, slotState[s] = "free"
  PROVE  \A id : Held(id) => id.index # s
BY DEF MemoryInv, HoldInv

-----------------------------------------------------------------------------
(* The steps of the store. *)

voiceVars == <<reservations, creation, pipe, slots, audio>>

(* They leave the voices alone, *)
LEMMA SlotsUntouched ==
  ASSUME SlotInv, UNCHANGED voiceVars, ctl' = "create" <=> ctl = "create"
  PROVE  SlotInv'
<1>1. UNCHANGED <<inUse, nextGeneration, creating, creates, handles, queue, head, tail,
                  voiceState, voiceGeneration, voiceAsset, voicePointer, owner, heap, aud,
                  applying>>
  BY DEF voiceVars, reservations, creation, pipe, slots, audio
<1> USE <1>1 DEF SlotInv, SequenceInv
<1>2. ThreadsInv'
  BY DEF ThreadsInv, IsValidTarget
<1>3. CommandsInv' /\ HandlesInv'
  BY DEF CommandsInv, HandlesInv
<1>4. ActiveInv'
  BY DEF ActiveInv, Active
<1>5. \A type, v, g, i : Comes(type, v, g, i)' <=> Comes(type, v, g, i)
  BY DEF Comes, UnappliedAt
<1>6. \A v : Active(v)' <=> Active(v)
  BY DEF Active
<1>7. CreationInv' /\ OrderInv' /\ DestroysInv'
  BY <1>5, <1>6 DEF CreationInv, OrderInv, DestroysInv
<1>8. ReleaseInv' /\ InUseInv'
  BY <1>5, <1>6 DEF ReleaseInv, InUseInv, Holds
<1> QED
  BY <1>2, <1>3, <1>4, <1>7, <1>8 DEF SlotInv

(* and what is held, if they touch only what is not. *)
LEMMA PinsUntouched ==
  ASSUME Inv, UNCHANGED voiceVars,
         \A id : Held(id) => /\ generation'[id.index] = generation[id.index]
                             /\ asset'[id.index] = asset[id.index],
         \A s \in Assets : \/ pins'[s] = pins[s]
                           \/ pins'[s] = 0 /\ \A id : Held(id) => id.index # s
  PROVE  PinInv'
<1>1. UNCHANGED <<inUse, nextGeneration, creating, creates, handles, queue, head, tail,
                  voiceState, voiceGeneration, voiceAsset, voicePointer, owner, heap, aud,
                  applying>>
  BY DEF voiceVars, reservations, creation, pipe, slots, audio
<1> USE DEF Inv, PinInv
<1>2. \A v : Dropping(v)' <=> Dropping(v)
  BY <1>1 DEF Dropping
<1>3. \A id : Held(id)' <=> Held(id)
  BY <1>1, <1>2 DEF Held
<1>4. HoldInv'
  BY <1>3 DEF HoldInv, NotStale
<1>5. PointerInv'
  <2> SUFFICES ASSUME NEW v \in Voices, NEW id \in voiceAsset[v],
                      ~(aud \in {"released", "resolve"} /\ \E c \in applying : c.voice.index = v)
               PROVE  voicePointer[v] = asset'[id.index]
    BY <1>1 DEF PointerInv
  <2>1. Held(id)
    BY DEF Held, Dropping
  <2> QED
    BY <2>1 DEF PointerInv
<1>6. CountInv'
  <2> SUFFICES ASSUME NEW s \in Assets
               PROVE  pins'[s] = Cardinality(CreatingPins(s)') + Cardinality(QueuedPins(s)')
                         + Cardinality(ApplyingPins(s)') + Cardinality(VoicePins(s)')
    BY DEF CountInv
  <2>1. CreatingPins(s)' = CreatingPins(s)
    BY <1>1 DEF CreatingPins
  <2>2. QueuedPins(s)' = QueuedPins(s)
    BY <1>1 DEF QueuedPins, Pending
  <2>3. ApplyingPins(s)' = ApplyingPins(s)
    BY <1>1 DEF ApplyingPins
  <2>4. VoicePins(s)' = VoicePins(s)
    BY <1>1, <1>2 DEF VoicePins
  <2>5. pins'[s] = pins[s]
    <3>1. CASE \A id : Held(id) => id.index # s
      BY <3>1, PinnedIffHeld DEF SlotInv
    <3> QED
      BY <3>1
  <2> QED
    BY <2>1, <2>2, <2>3, <2>4, <2>5 DEF CountInv
<1> QED
  BY <1>4, <1>5, <1>6

(* Their types, for a step of the store. *)
LEMMA TypesUntouched ==
  ASSUME TypeInv, UNCHANGED voiceVars, StoreTypeOK',
         ctl' \in {"idle", "reclaim", "bump", "unpublish", "destroy", "released", "prepare",
                   "insert", "publish"}
  PROVE  TypeInv'
BY DEF TypeInv, TypeOK, voiceVars, reservations, creation, pipe, slots, audio

(* The steps that only move the control thread. *)
LEMMA StoreMoves ==
  ASSUME Inv, UNCHANGED voiceVars, UNCHANGED storeVars, ctl # "create",
         ctl \notin {"publish", "destroy"},
         ctl' \in {"idle", "reclaim", "bump", "released", "prepare", "insert"},
         scan' \in Assets, after' \in {"idle", "released", "prepare", "insert"},
         ctl' = "bump" => slotState[scan'] = "retiring" /\ pins[scan'] = 0,
         loading' \subseteq Keys, \A k \in loading' : keyToIndex[k] = {}
  PROVE  Inv'
<1> USE DEF Inv, StoreInv
<1>1. UNCHANGED <<slotState, key, bytes, asset, generation, pins, published, keyToIndex,
                  totalBytes, loads, ids>>
  BY DEF storeVars, slotVars
<1>2. TypeInv'
  <2>1. StoreTypeOK'
    BY <1>1 DEF TypeInv, TypeOK, StoreTypeOK
  <2> QED
    BY <2>1, TypesUntouched
<1>3. MemoryInv' /\ BudgetInv'
  BY <1>1 DEF MemoryInv, BudgetInv, BytesInMemory, BytesIn
<1>4. TableInv'
  BY <1>1 DEF TableInv
<1>5. ScanInv'
  BY <1>1 DEF ScanInv
<1>6. SlotInv'
  BY SlotsUntouched
<1>7. PinInv'
  BY <1>1, PinsUntouched
<1> QED
  BY <1>2, <1>3, <1>4, <1>5, <1>6, <1>7

(* The next slot of the loop, or the return from it. *)
LEMMA NextSlotMoves ==
  ASSUME Inv, NextSlot
  PROVE  /\ ctl' \in {"idle", "reclaim", "released", "prepare", "insert"}
         /\ scan' \in Assets /\ after' \in {"idle", "released", "prepare", "insert"}
BY StoreAssumption DEF NextSlot, Inv, StoreInv, ScanInv, TypeInv, TypeOK, StoreTypeOK, Assets

(* The calls' control steps. *)
LEMMA ControlMoves ==
  ASSUME Inv, UNCHANGED voiceVars,
         \/ ReclaimAssets \/ ReclaimScans \/ ReleaseReclaims \/ LoadFails \/ LoadPrepares
         \/ InsertRefuses \/ \E k \in Keys : LoadBegins(k)
  PROVE  Inv'
<1> USE DEF Inv
<1>0. 0 \in Assets /\ loading \subseteq Keys /\ scan \in Assets
      /\ after \in {"idle", "released", "prepare", "insert"}
      /\ (ctl # "publish" => \A k \in loading : keyToIndex[k] = {})
  BY StoreAssumption DEF TypeInv, TypeOK, StoreTypeOK, StoreInv, ScanInv, TableInv, Assets
<1>1. CASE ReclaimAssets
  BY <1>0, <1>1, StoreMoves DEF ReclaimAssets, Reclaim
<1>2. CASE ReclaimScans
  <2>1. CASE Reclaimable(scan)
    BY <1>0, <1>2, <2>1, StoreMoves DEF ReclaimScans, Reclaimable, reclaimVars
  <2>2. CASE ~Reclaimable(scan)
    <3>1. NextSlot
      BY <1>2, <2>2 DEF ReclaimScans
    <3> QED
      BY <1>0, <1>2, <3>1, NextSlotMoves, StoreMoves DEF ReclaimScans
  <2> QED
    BY <2>1, <2>2
<1>3. CASE ReleaseReclaims
  BY <1>0, <1>3, StoreMoves DEF ReleaseReclaims, Reclaim
<1>4. CASE LoadFails
  BY <1>0, <1>4, StoreMoves DEF LoadFails, reclaimVars
<1>5. CASE LoadPrepares
  BY <1>0, <1>5, StoreMoves DEF LoadPrepares, Reclaim
<1>6. CASE InsertRefuses
  BY <1>0, <1>6, StoreMoves DEF InsertRefuses, reclaimVars
<1>7. ASSUME NEW k \in Keys, LoadBegins(k)
      PROVE  Inv'
  BY <1>0, <1>7, StoreMoves DEF LoadBegins, Reclaim
<1> QED
  BY <1>1, <1>2, <1>3, <1>4, <1>5, <1>6, <1>7

(* Nothing holds an asset that is being freed. *)
LEMMA FreedIsUnheld ==
  ASSUME Inv, ctl \in {"bump", "unpublish", "destroy"}
  PROVE  scan \in Assets /\ \A id : Held(id) => id.index # scan
BY PinnedIffHeld DEF Inv, StoreInv, ScanInv, SlotInv, PinInv, TypeInv, TypeOK, StoreTypeOK

(* A retiring slot without pins moves to its next generation. *)
LEMMA Bumps ==
  ASSUME Inv, UNCHANGED voiceVars, ReclaimBumps
  PROVE  Inv'
<1> USE DEF Inv, StoreInv
<1>1. /\ ctl = "bump" /\ ctl' = "unpublish"
      /\ generation' = [generation EXCEPT ![scan] = @ + 1]
      /\ UNCHANGED <<slotState, key, bytes, asset, pins, published, keyToIndex, totalBytes, loads,
                     ids, scan, after, loading>>
  BY DEF ReclaimBumps, reclaimVars
<1>2. scan \in Assets /\ \A id : Held(id) => id.index # scan
  BY <1>1, FreedIsUnheld
<1>3. TypeInv'
  <2>1. generation' \in [Assets -> Nat]
    BY <1>1, <1>2 DEF TypeInv, TypeOK, StoreTypeOK
  <2>2. StoreTypeOK'
    BY <1>1, <2>1 DEF TypeInv, TypeOK, StoreTypeOK
  <2> QED
    BY <1>1, <2>2, TypesUntouched
<1>4. MemoryInv' /\ BudgetInv'
  BY <1>1 DEF MemoryInv, BudgetInv, BytesInMemory, BytesIn
<1>5. TableInv' /\ ScanInv'
  BY <1>1 DEF TableInv, ScanInv
<1>6. SlotInv'
  BY <1>1, SlotsUntouched
<1>7. PinInv'
  <2>1. \A id : Held(id) => generation'[id.index] = generation[id.index]
    <3>1. generation \in [Assets -> Nat]
      BY DEF TypeInv, TypeOK, StoreTypeOK
    <3> QED
      BY <1>1, <1>2, <3>1, HeldTyped
  <2> QED
    BY <1>1, <2>1, PinsUntouched
<1> QED
  BY <1>3, <1>4, <1>5, <1>6, <1>7

(* It is no longer published, *)
LEMMA Unpublishes ==
  ASSUME Inv, UNCHANGED voiceVars, ReclaimUnpublishes
  PROVE  Inv'
<1> USE DEF Inv, StoreInv
<1>1. /\ ctl = "unpublish" /\ ctl' = "destroy"
      /\ published' = [published EXCEPT ![scan] = {}]
      /\ UNCHANGED <<slotState, key, bytes, asset, generation, pins, keyToIndex, totalBytes, loads,
                     ids, scan, after, loading>>
  BY DEF ReclaimUnpublishes, reclaimVars
<1>2. published \in [Assets -> SUBSET AssetObject] /\ scan \in Assets
  BY DEF TypeInv, TypeOK, StoreTypeOK
<1>3. TypeInv'
  <2>1. published' \in [Assets -> SUBSET AssetObject]
    BY <1>1, <1>2
  <2>2. StoreTypeOK'
    BY <1>1, <2>1 DEF TypeInv, TypeOK, StoreTypeOK
  <2> QED
    BY <1>1, <2>2, TypesUntouched
<1>4. MemoryInv' /\ BudgetInv'
  BY <1>1 DEF MemoryInv, BudgetInv, BytesInMemory, BytesIn
<1>5. TableInv'
  BY <1>1 DEF TableInv
<1>6. ScanInv'
  BY <1>1, <1>2 DEF ScanInv
<1>7. SlotInv'
  BY <1>1, SlotsUntouched
<1>8. PinInv'
  BY <1>1, PinsUntouched
<1> QED
  BY <1>3, <1>4, <1>5, <1>6, <1>7, <1>8

(* The bytes of an asset are as many as its size. *)
LEMMA ObjectBytes ==
  ASSUME NEW s, NEW size \in Nat
  PROVE  /\ IsFiniteSet({s} \X (1..size)) /\ Cardinality({s} \X (1..size)) = size
<1>1. IsFiniteSet({s}) /\ Cardinality({s}) = 1
  BY FS_Singleton
<1>2. IsFiniteSet(1..size) /\ Cardinality(1..size) = size
  BY FS_Interval
<1>3. /\ IsFiniteSet({s} \X (1..size))
      /\ Cardinality({s} \X (1..size)) = Cardinality({s}) * Cardinality(1..size)
  BY <1>1, <1>2, FS_Product
<1>4. 1 * size = size
  OBVIOUS
<1> QED
  BY <1>1, <1>2, <1>3, <1>4

(* Bytes of different slots are different. *)
LEMMA BytesApart ==
  ASSUME NEW b, NEW s, b \in BytesIn(s)
  PROVE  b[1] = s
BY DEF BytesIn

(* The asset is destroyed and its bytes are given back. *)
LEMMA Destroys ==
  ASSUME Inv, UNCHANGED voiceVars, ReclaimDestroys
  PROVE  Inv'
<1> USE DEF Inv, StoreInv
<1>1. /\ ctl = "destroy"
      /\ asset' = [asset EXCEPT ![scan] = {}]
      /\ totalBytes' = totalBytes - bytes[scan]
      /\ bytes' = [bytes EXCEPT ![scan] = 0]
      /\ slotState' = [slotState EXCEPT ![scan] = "free"]
      /\ NextSlot
      /\ UNCHANGED <<key, generation, pins, published, keyToIndex, loads, ids, loading>>
  BY DEF ReclaimDestroys
<1>2. scan \in Assets /\ \A id : Held(id) => id.index # scan
  BY <1>1, FreedIsUnheld
<1>3. /\ ctl' \in {"idle", "reclaim", "released", "prepare", "insert"}
      /\ scan' \in Assets /\ after' \in {"idle", "released", "prepare", "insert"}
  BY <1>1, NextSlotMoves
<1>4. /\ slotState[scan] = "retiring" /\ asset[scan] # {} /\ published[scan] = {}
      /\ \A s \in Assets : s # scan => published[s] = asset[s]
  BY <1>1, <1>2 DEF ScanInv, MemoryInv
<1>5. /\ slotState \in [Assets -> {"free", "resident", "retiring"}]
      /\ bytes \in [Assets -> Nat] /\ asset \in [Assets -> SUBSET AssetObject]
  BY DEF TypeInv, TypeOK, StoreTypeOK
<1>6. PICK object \in asset[scan] : asset[scan] = {object} /\ bytes[scan] = BytesOf[object.key]
  BY <1>2, <1>4 DEF MemoryInv
<1>7. BytesOf[object.key] \in Nat
  BY <1>2, <1>5, <1>6, StoreAssumption DEF AssetObject
<1>8. IsFiniteSet(BytesIn(scan)) /\ Cardinality(BytesIn(scan)) = bytes[scan]
  <2>1. BytesIn(scan) = {scan} \X (1..BytesOf[object.key])
    BY <1>6 DEF BytesIn
  <2>2. /\ IsFiniteSet({scan} \X (1..BytesOf[object.key]))
        /\ Cardinality({scan} \X (1..BytesOf[object.key])) = BytesOf[object.key]
    BY <1>7, ObjectBytes
  <2> QED
    BY <1>6, <2>1, <2>2
<1>9. BytesInMemory' = BytesInMemory \ BytesIn(scan)
  <2>1. \A s : s = scan => BytesIn(s)' = {}
    BY <1>1, <1>2, <1>5 DEF BytesIn
  <2>2. \A s \in Assets : s # scan => BytesIn(s)' = BytesIn(s)
    BY <1>1, <1>2, <1>5 DEF BytesIn
  <2>3. \A b : b \in BytesInMemory' <=> \E s \in Assets : b \in BytesIn(s)'
    BY DEF BytesInMemory
  <2>4. \A b : b \in BytesInMemory <=> \E s \in Assets : b \in BytesIn(s)
    BY DEF BytesInMemory
  <2> QED
    BY <2>1, <2>2, <2>3, <2>4, BytesApart
<1>10. /\ IsFiniteSet(BytesInMemory') /\ totalBytes' = Cardinality(BytesInMemory')
       /\ totalBytes' \in Nat /\ totalBytes' <= totalBytes
  <2>1. BytesIn(scan) \subseteq BytesInMemory
    BY <1>2 DEF BytesInMemory
  <2>2. BytesInMemory \cap BytesIn(scan) = BytesIn(scan)
    BY <2>1
  <2>3. /\ IsFiniteSet(BytesInMemory \ BytesIn(scan))
        /\ Cardinality(BytesInMemory \ BytesIn(scan))
             = Cardinality(BytesInMemory) - Cardinality(BytesInMemory \cap BytesIn(scan))
    BY FS_Difference DEF BudgetInv
  <2>4. Cardinality(BytesInMemory \ BytesIn(scan)) \in Nat
    BY <2>3, FS_CardinalityType
  <2>5. totalBytes = Cardinality(BytesInMemory) /\ totalBytes \in Int /\ bytes[scan] \in Nat
    BY <1>2, <1>5 DEF BudgetInv, TypeInv, TypeOK, StoreTypeOK
  <2>6. Cardinality(BytesInMemory \ BytesIn(scan)) = totalBytes - bytes[scan]
    BY <1>8, <2>2, <2>3, <2>5
  <2>7. totalBytes' = totalBytes - bytes[scan] /\ totalBytes' \in Nat
    BY <1>1, <2>4, <2>6
  <2>8. totalBytes' <= totalBytes
    BY <2>5, <2>7
  <2> QED
    BY <1>9, <2>3, <2>6, <2>7, <2>8
<1>11. TypeInv'
  <2>1. /\ slotState' \in [Assets -> {"free", "resident", "retiring"}]
        /\ bytes' \in [Assets -> Nat] /\ asset' \in [Assets -> SUBSET AssetObject]
    BY <1>1, <1>2, <1>5
  <2>2. totalBytes' \in 0..MaxTotalBytes
    BY <1>10, StoreAssumption DEF TypeInv, TypeOK, StoreTypeOK
  <2>3. StoreTypeOK'
    BY <1>1, <1>3, <2>1, <2>2 DEF TypeInv, TypeOK, StoreTypeOK
  <2> QED
    BY <1>3, <2>3, TypesUntouched
<1>12. /\ slotState'[scan] = "free" /\ asset'[scan] = {}
       /\ \A s \in Assets : s # scan => /\ slotState'[s] = slotState[s] /\ asset'[s] = asset[s]
                                        /\ bytes'[s] = bytes[s]
  BY <1>1, <1>2, <1>5
<1>13. MemoryInv'
  BY <1>12 DEF MemoryInv
<1>14. TableInv'
  BY <1>1, <1>3, <1>4, <1>12 DEF TableInv
<1>15. ScanInv'
  BY <1>1, <1>3, <1>4, <1>12 DEF ScanInv
<1>16. BudgetInv'
  BY <1>10 DEF BudgetInv
<1>17. SlotInv'
  BY <1>1, <1>3, SlotsUntouched
<1>18. PinInv'
  BY <1>1, <1>2, <1>12, HeldTyped, PinsUntouched
<1> QED
  BY <1>11, <1>13, <1>14, <1>15, <1>16, <1>17, <1>18

(* Releasing an asset takes its key out of the table. *)
LEMMA Releases ==
  ASSUME Inv, UNCHANGED voiceVars, NEW id \in ids, ReleaseAudioAsset(id)
  PROVE  Inv'
<1> USE DEF Inv, StoreInv
<1> DEFINE r == id.index
<1>1. /\ ctl = "idle" /\ ctl' = "reclaim" /\ scan' = 0 /\ after' = "released"
      /\ r \in Assets /\ slotState[r] = "resident"
      /\ slotState' = [slotState EXCEPT ![r] = "retiring"]
      /\ keyToIndex' = [k \in Keys |-> IF k \in key[r] THEN {} ELSE keyToIndex[k]]
      /\ key' = [key EXCEPT ![r] = {}]
      /\ UNCHANGED <<bytes, asset, generation, pins, published, totalBytes, loads, ids, loading>>
  BY DEF ReleaseAudioAsset, Reclaim, Lookup
<1> HIDE DEF r
<1>2. /\ slotState \in [Assets -> {"free", "resident", "retiring"}]
      /\ key \in [Assets -> SUBSET Keys] /\ keyToIndex \in [Keys -> SUBSET Assets]
      /\ 0 \in Assets
  BY StoreAssumption DEF TypeInv, TypeOK, StoreTypeOK, Assets
<1>3. /\ slotState'[r] = "retiring" /\ key'[r] = {}
      /\ \A s \in Assets : s # r => slotState'[s] = slotState[s] /\ key'[s] = key[s]
      /\ \A k \in Keys : keyToIndex'[k] = IF k \in key[r] THEN {} ELSE keyToIndex[k]
  BY <1>1, <1>2
<1>4. TypeInv'
  <2>1. slotState' \in [Assets -> {"free", "resident", "retiring"}]
    BY <1>1, <1>2
  <2>2. key' \in [Assets -> SUBSET Keys]
    BY <1>1, <1>2
  <2>3. keyToIndex' \in [Keys -> SUBSET Assets]
    BY <1>1, <1>2
  <2>4. StoreTypeOK'
    BY <1>1, <1>2, <2>1, <2>2, <2>3 DEF TypeInv, TypeOK, StoreTypeOK
  <2> QED
    BY <1>1, <2>4, TypesUntouched
<1>5. MemoryInv'
  BY <1>1, <1>3 DEF MemoryInv
<1>6. BudgetInv'
  BY <1>1 DEF BudgetInv, BytesInMemory, BytesIn
<1>7. TableInv'
  <2>1. \A k \in Keys : k \in key[r] <=> r \in keyToIndex[k]
    BY <1>1 DEF TableInv
  <2>2. \A k \in Keys, s \in Assets :
          /\ s \in keyToIndex'[k] <=> s # r /\ s \in keyToIndex[k]
          /\ k \in key'[s] <=> s \in keyToIndex'[k]
          /\ s # r => (s \in keyToIndex[k] <=>
               slotState'[s] = "resident" /\ \E object \in asset'[s] : object.key = k)
    BY <1>1, <1>3, <2>1 DEF TableInv
  <2>3. \A k \in Keys : keyToIndex'[k] \subseteq keyToIndex[k]
    BY <1>3
  <2>4. \A k \in loading' : keyToIndex'[k] = {}
    <3>1. \A k \in loading : k \in Keys /\ keyToIndex[k] = {}
      BY <1>1 DEF TableInv, TypeInv, TypeOK, StoreTypeOK
    <3> QED
      BY <1>1, <2>3, <3>1
  <2>5. \A k \in Keys : \A s, t \in keyToIndex'[k] : s = t
    BY <2>3 DEF TableInv
  <2>6. \A k \in Keys, s \in Assets : s \in keyToIndex'[k] <=>
               slotState'[s] = "resident" /\ \E object \in asset'[s] : object.key = k
    BY <1>3, <2>2
  <2> QED
    BY <2>2, <2>4, <2>5, <2>6 DEF TableInv
<1>8. ScanInv'
  BY <1>1 DEF ScanInv
<1>9. SlotInv'
  BY <1>1, SlotsUntouched
<1>10. PinInv'
  BY <1>1, PinsUntouched
<1> QED
  BY <1>4, <1>5, <1>6, <1>7, <1>8, <1>9, <1>10

(* The id of a slot. *)
LEMMA IdTyped ==
  ASSUME TypeInv, NEW s \in Assets
  PROVE  IdOf(s) \in AssetId
BY DEF TypeInv, TypeOK, StoreTypeOK, IdOf, AssetId

(* A key already loaded is found. *)
LEMMA Finds ==
  ASSUME Inv, UNCHANGED voiceVars, NEW k \in Keys, LoadFinds(k)
  PROVE  Inv'
<1> USE DEF Inv, StoreInv
<1>1. PICK s \in keyToIndex[k] : ids' = ids \cup {IdOf(s)}
  BY DEF LoadFinds
<1>2. /\ ctl = "idle"
      /\ UNCHANGED <<slotState, key, bytes, asset, generation, pins, published, keyToIndex,
                     totalBytes, loads, ctl, scan, after, loading>>
  BY DEF LoadFinds, slotVars, controlVars, reclaimVars
<1>3. ids' \subseteq AssetId
  <2>1. s \in Assets /\ ids \subseteq AssetId
    BY DEF TypeInv, TypeOK, StoreTypeOK
  <2> QED
    BY <1>1, <2>1, IdTyped
<1>4. TypeInv'
  <2>1. StoreTypeOK'
    BY <1>2, <1>3 DEF TypeInv, TypeOK, StoreTypeOK
  <2> QED
    BY <1>2, <2>1, TypesUntouched
<1>5. MemoryInv' /\ BudgetInv'
  BY <1>2 DEF MemoryInv, BudgetInv, BytesInMemory, BytesIn
<1>6. TableInv' /\ ScanInv'
  BY <1>2 DEF TableInv, ScanInv
<1>7. SlotInv'
  BY <1>2, SlotsUntouched
<1>8. PinInv'
  BY <1>2, PinsUntouched
<1> QED
  BY <1>4, <1>5, <1>6, <1>7, <1>8

(* Insert fills a free slot, whose bytes are charged. *)
LEMMA Fills ==
  ASSUME Inv, UNCHANGED voiceVars, InsertFills
  PROVE  Inv'
<1> USE DEF Inv, StoreInv
<1>1. PICK k \in loading, s \in Assets :
        /\ WithinBudget(k)
        /\ FirstFree(s)
        /\ keyToIndex' = [keyToIndex EXCEPT ![k] = {s}]
        /\ asset' = [asset EXCEPT ![s] = {[key |-> k, load |-> loads + 1]}]
        /\ key' = [key EXCEPT ![s] = {k}]
        /\ bytes' = [bytes EXCEPT ![s] = BytesOf[k]]
        /\ pins' = [pins EXCEPT ![s] = 0]
        /\ slotState' = [slotState EXCEPT ![s] = "resident"]
        /\ totalBytes' = totalBytes + BytesOf[k]
        /\ scan' = s
  BY DEF InsertFills
<1>2. /\ ctl = "insert" /\ ctl' = "publish" /\ loads' = loads + 1
      /\ UNCHANGED <<generation, published, ids, after, loading>>
  BY DEF InsertFills
<1>3. /\ slotState \in [Assets -> {"free", "resident", "retiring"}]
      /\ key \in [Assets -> SUBSET Keys] /\ bytes \in [Assets -> Nat]
      /\ asset \in [Assets -> SUBSET AssetObject] /\ pins \in [Assets -> Nat]
      /\ keyToIndex \in [Keys -> SUBSET Assets]
      /\ totalBytes \in 0..MaxTotalBytes /\ loads \in Nat
      /\ k \in Keys /\ BytesOf[k] \in Nat /\ MaxTotalBytes \in Nat
  BY StoreAssumption DEF TypeInv, TypeOK, StoreTypeOK
<1> DEFINE object == [key |-> k, load |-> loads + 1]
<1>4. object \in AssetObject /\ object.key = k
  BY <1>3 DEF AssetObject
<1> HIDE DEF object
<1>5. /\ asset'[s] = {object} /\ key'[s] = {k} /\ bytes'[s] = BytesOf[k] /\ pins'[s] = 0
      /\ slotState'[s] = "resident" /\ keyToIndex'[k] = {s}
      /\ \A t \in Assets : t # s =>
           /\ asset'[t] = asset[t] /\ key'[t] = key[t] /\ bytes'[t] = bytes[t]
           /\ pins'[t] = pins[t] /\ slotState'[t] = slotState[t]
      /\ \A l \in Keys : l # k => keyToIndex'[l] = keyToIndex[l]
  BY <1>1, <1>3 DEF object
<1>6. slotState[s] = "free" /\ asset[s] = {} /\ published[s] = {}
  <2>1. slotState[s] = "free" /\ asset[s] = {}
    BY <1>1 DEF FirstFree, MemoryInv
  <2> QED
    BY <1>2, <2>1 DEF ScanInv
<1>7. \A id : Held(id) => id.index # s
  BY <1>6, FreeIsUnheld DEF PinInv
<1>8. totalBytes' \in 0..MaxTotalBytes
  BY <1>1, <1>3 DEF WithinBudget
<1>9. TypeInv'
  <2>1. /\ slotState' \in [Assets -> {"free", "resident", "retiring"}]
        /\ key' \in [Assets -> SUBSET Keys] /\ keyToIndex' \in [Keys -> SUBSET Assets]
    BY <1>1, <1>3
  <2>2. bytes' \in [Assets -> Nat] /\ pins' \in [Assets -> Nat]
    BY <1>1, <1>3
  <2>3. asset' \in [Assets -> SUBSET AssetObject]
    BY <1>1, <1>3, <1>4 DEF object
  <2>4. /\ generation' \in [Assets -> Nat] /\ published' \in [Assets -> SUBSET AssetObject]
        /\ loads' \in Nat /\ ids' \subseteq AssetId /\ scan' \in Assets /\ loading' \subseteq Keys
    BY <1>1, <1>2, <1>3 DEF TypeInv, TypeOK, StoreTypeOK
  <2>5. StoreTypeOK'
    BY <1>8, <2>1, <2>2, <2>3, <2>4 DEF StoreTypeOK
  <2> QED
    BY <1>2, <2>5, TypesUntouched
<1>10. MemoryInv'
  BY <1>4, <1>5 DEF MemoryInv
<1>11. TableInv'
  <2>1. keyToIndex[k] = {}
    BY <1>2 DEF TableInv
  <2>2. \A l \in Keys : s \notin keyToIndex[l] /\ l \notin key[s]
    BY <1>6 DEF TableInv
  <2>3. \A l \in Keys, t \in Assets : t # s /\ l # k =>
          /\ t \in keyToIndex'[l] <=>
               slotState'[t] = "resident" /\ \E o \in asset'[t] : o.key = l
          /\ l \in key'[t] <=> t \in keyToIndex'[l]
    BY <1>5 DEF TableInv
  <2>4. \A t \in Assets : t # s =>
          /\ t \in keyToIndex'[k] <=>
               slotState'[t] = "resident" /\ \E o \in asset'[t] : o.key = k
          /\ k \in key'[t] <=> t \in keyToIndex'[k]
    <3>1. \A t \in Assets :
            /\ ~(slotState[t] = "resident" /\ \E o \in asset[t] : o.key = k)
            /\ k \notin key[t]
      BY <1>3, <2>1 DEF TableInv
    <3> QED
      BY <1>5, <3>1
  <2>5. \A l \in Keys :
          /\ s \in keyToIndex'[l] <=>
               slotState'[s] = "resident" /\ \E o \in asset'[s] : o.key = l
          /\ l \in key'[s] <=> s \in keyToIndex'[l]
    BY <1>4, <1>5, <2>2
  <2>6. \A l \in Keys : \A t, u \in keyToIndex'[l] : t = u
    BY <1>5 DEF TableInv
  <2> QED
    BY <1>2, <2>3, <2>4, <2>5, <2>6 DEF TableInv
<1>12. ScanInv'
  BY <1>1, <1>2, <1>5, <1>6 DEF ScanInv
<1>13. BudgetInv'
  <2>1. BytesIn(s)' = {s} \X (1..BytesOf[k]) /\ BytesIn(s) = {}
    BY <1>4, <1>5, <1>6 DEF BytesIn
  <2>2. \A t \in Assets : t # s => BytesIn(t)' = BytesIn(t)
    BY <1>5 DEF BytesIn
  <2> DEFINE new == {s} \X (1..BytesOf[k])
  <2>3. IsFiniteSet(new) /\ Cardinality(new) = BytesOf[k]
    BY <1>3, ObjectBytes
  <2>4. \A b : b \in BytesInMemory' <=> \E t \in Assets : b \in BytesIn(t)'
    BY DEF BytesInMemory
  <2>5. \A b : b \in BytesInMemory <=> \E t \in Assets : b \in BytesIn(t)
    BY DEF BytesInMemory
  <2>6. \A b \in new : b[1] = s
    OBVIOUS
  <2>7. \A b \in BytesInMemory : b[1] # s
    BY <2>1, <2>5, BytesApart
  <2> HIDE DEF new
  <2>8. BytesInMemory' = BytesInMemory \cup new /\ BytesInMemory \cap new = {}
    <3>1. \A b : b \in BytesInMemory' <=> b \in BytesInMemory \/ b \in new
      BY <2>1, <2>2, <2>4, <2>5 DEF new
    <3>2. BytesInMemory' = BytesInMemory \cup new
      BY <3>1
    <3> QED
      BY <2>6, <2>7, <3>2
  <2>9. /\ IsFiniteSet(BytesInMemory \cup new)
        /\ Cardinality(BytesInMemory \cup new) =
             Cardinality(BytesInMemory) + Cardinality(new) - Cardinality(BytesInMemory \cap new)
    BY <2>3, FS_Union DEF BudgetInv
  <2>10. Cardinality(BytesInMemory \cap new) = 0
    BY <2>8, FS_EmptySet
  <2>11. Cardinality(BytesInMemory \cup new) = totalBytes + BytesOf[k]
    BY <1>3, <2>3, <2>9, <2>10 DEF BudgetInv
  <2> QED
    BY <1>1, <2>8, <2>9, <2>11 DEF BudgetInv
<1>14. SlotInv'
  BY <1>2, SlotsUntouched
<1>15. PinInv'
  BY <1>2, <1>5, <1>7, HeldTyped, PinsUntouched
<1> QED
  BY <1>9, <1>10, <1>11, <1>12, <1>13, <1>14, <1>15

(* The new asset is published. *)
LEMMA Publishes ==
  ASSUME Inv, UNCHANGED voiceVars, InsertPublishes
  PROVE  Inv'
<1> USE DEF Inv, StoreInv
<1>1. /\ ctl = "publish" /\ ctl' = "idle" /\ scan' = 0 /\ loading' = {}
      /\ published' = [published EXCEPT ![scan] = asset[scan]]
      /\ ids' = ids \cup {IdOf(scan)}
      /\ UNCHANGED <<slotState, key, bytes, asset, generation, pins, keyToIndex, totalBytes, loads,
                     after>>
  BY DEF InsertPublishes
<1>2. /\ published \in [Assets -> SUBSET AssetObject] /\ scan \in Assets /\ 0 \in Assets
      /\ asset \in [Assets -> SUBSET AssetObject] /\ ids \subseteq AssetId
  BY StoreAssumption DEF TypeInv, TypeOK, StoreTypeOK, Assets
<1>3. TypeInv'
  <2>1. published' \in [Assets -> SUBSET AssetObject] /\ ids' \subseteq AssetId
    BY <1>1, <1>2, IdTyped
  <2>2. StoreTypeOK'
    BY <1>1, <1>2, <2>1 DEF TypeInv, TypeOK, StoreTypeOK
  <2> QED
    BY <1>1, <2>2, TypesUntouched
<1>4. MemoryInv' /\ BudgetInv'
  BY <1>1 DEF MemoryInv, BudgetInv, BytesInMemory, BytesIn
<1>5. TableInv'
  BY <1>1 DEF TableInv
<1>6. ScanInv'
  BY <1>1, <1>2 DEF ScanInv
<1>7. SlotInv'
  BY <1>1, SlotsUntouched
<1>8. PinInv'
  BY <1>1, PinsUntouched
<1> QED
  BY <1>3, <1>4, <1>5, <1>6, <1>7, <1>8

(* Every step of the store keeps the invariant. *)
LEMMA StoreSteps ==
  ASSUME Inv, UNCHANGED voiceVars, StoreControl
  PROVE  Inv'
BY ControlMoves, Bumps, Unpublishes, Destroys, Releases, Finds, Fills, Publishes
   DEF StoreControl, ReclaimStep

-----------------------------------------------------------------------------
(* The order of creations and destructions.                                *)

(* A pin or an unpin, and the steps between the calls, keep the store. *)
LEMMA StoreKept ==
  ASSUME StoreInv,
         UNCHANGED <<slotState, key, bytes, asset, generation, published, keyToIndex, totalBytes,
                     scan, after, loading>>,
         \/ ctl' = ctl /\ \A s \in Assets : pins[s] = 0 => pins'[s] = 0
         \/ {ctl, ctl'} \subseteq {"idle", "create"},
         scan \in Assets
  PROVE  StoreInv'
<1> USE DEF StoreInv
<1>1. MemoryInv' /\ BudgetInv'
  BY DEF MemoryInv, BudgetInv, BytesInMemory, BytesIn
<1>2. TableInv'
  BY DEF TableInv
<1>3. ScanInv'
  BY DEF ScanInv
<1> QED
  BY <1>1, <1>2, <1>3

(* What Push does to the queue, *)
LEMMA Pushed ==
  ASSUME TypeInv, NEW command, Fifo!Push(command)
  PROVE  /\ head \in Nat /\ tail \in Nat /\ tail <= head
         /\ head' = head + 1 /\ tail' = tail
         /\ queue'[head + 1] = command
         /\ \A i \in (tail + 1)..head : queue'[i] = queue[i]
         /\ (tail + 1)..(head + 1) = (tail + 1)..head \cup {head + 1}
         /\ head + 1 \notin (tail + 1)..head
         /\ command \in Command => queue' \in [(tail + 1)..(head + 1) -> Command]
BY DEF Fifo!Push, Fifo!Put, TypeInv, TypeOK

(* and what Pop does. *)
LEMMA Popped ==
  ASSUME TypeInv, Fifo!Pop
  PROVE  /\ head \in Nat /\ tail \in Nat /\ tail < head
         /\ head' = head /\ tail' = tail + 1
         /\ queue[tail + 1] \in Command
         /\ \A i \in (tail + 2)..head : queue'[i] = queue[i]
         /\ (tail + 1)..head = (tail + 2)..head \cup {tail + 1}
         /\ tail + 1 \notin (tail + 2)..head /\ tail + 1 + 1 = tail + 2
         /\ queue' \in [(tail + 2)..head -> Command]
BY DEF Fifo!Pop, Fifo!Take, TypeInv, TypeOK

(* The commands come between the one being applied and the one being       *)
(* created.                                                                *)
LEMMA Places ==
  ASSUME TypeInv, NEW type, NEW v, NEW g, NEW i, Comes(type, v, g, i)
  PROVE  /\ i \in Nat /\ tail <= i /\ i <= head + 1
         /\ i = tail => \E c \in applying :
              c.type = type /\ c.voice.index = v /\ c.voice.generation = g
         /\ i = head + 1 => \E c \in creating :
              c.type = type /\ c.voice.index = v /\ c.voice.generation = g
BY DEF Comes, UnappliedAt, TypeInv, TypeOK

(* A creation that comes is for a voice the slot has known. *)
LEMMA ComesKnown ==
  ASSUME TypeInv, CommandsInv, HandlesInv, NEW type, NEW v, NEW g, NEW i, Comes(type, v, g, i)
  PROVE  v \in Voices /\ g \in Nat /\ g <= nextGeneration[v]
<1>1. PICK c \in UnappliedAt(i) : c.type = type /\ c.voice.index = v /\ c.voice.generation = g
  BY DEF Comes
<1>2. c \in creating \/ c.voice \in handles
  BY <1>1 DEF UnappliedAt, CommandsInv
<1>3. c.voice \in VoiceId
  BY <1>2 DEF TypeInv, TypeOK, Command
<1>4. c.voice.generation <= nextGeneration[c.voice.index]
  <2>1. nextGeneration[c.voice.index] \in Nat
    BY <1>3 DEF TypeInv, TypeOK, VoiceId
  <2> QED
    BY <1>2, <1>3, <2>1 DEF HandlesInv, VoiceId
<1> QED
  BY <1>1, <1>3, <1>4 DEF VoiceId

(* A step that takes no creation or destruction from the order, adds none, *)
(* and leaves the slots as they are. *)
LEMMA SequenceKept ==
  ASSUME SequenceInv,
         \A type \in {"create", "destroy"} : \A v, g, i :
           Comes(type, v, g, i)' <=> Comes(type, v, g, i),
         \A v \in Voices : Active(v)' <=> Active(v),
         UNCHANGED <<voiceGeneration, inUse, nextGeneration>>
  PROVE  SequenceInv'
<1>1. /\ \A v, g, i : Comes("create", v, g, i)' <=> Comes("create", v, g, i)
      /\ \A v, g, i : Comes("destroy", v, g, i)' <=> Comes("destroy", v, g, i)
  OBVIOUS
<1> USE <1>1 DEF SequenceInv
<1>2. CreationInv' /\ OrderInv' /\ DestroysInv'
  BY DEF CreationInv, OrderInv, DestroysInv
<1>3. ReleaseInv' /\ InUseInv'
  BY DEF ReleaseInv, InUseInv, Holds
<1> QED
  BY <1>2, <1>3

(* A creation that begins comes last. *)
LEMMA SequenceCreates ==
  ASSUME TypeInv, SlotInv, creating = {},
         NEW v0 \in Voices, ~inUse[v0],
         inUse' = [inUse EXCEPT ![v0] = TRUE],
         nextGeneration' = [nextGeneration EXCEPT ![v0] = @ + 1],
         \A v, g, i : Comes("destroy", v, g, i)' <=> Comes("destroy", v, g, i),
         \A v, g, i : Comes("create", v, g, i)' <=>
           \/ Comes("create", v, g, i)
           \/ i = head + 1 /\ v = v0 /\ g = nextGeneration[v0] + 1,
         UNCHANGED <<voiceGeneration, voiceState>>
  PROVE  SequenceInv'
<1> USE DEF SlotInv, SequenceInv
<1>1. head \in Nat /\ nextGeneration \in [Voices -> Nat] /\ inUse \in [Voices -> BOOLEAN]
      /\ voiceGeneration \in [Voices -> Nat]
  BY DEF TypeInv, TypeOK
<1>2. /\ inUse'[v0] /\ nextGeneration'[v0] = nextGeneration[v0] + 1
      /\ \A v \in Voices : v # v0 => /\ inUse'[v] <=> inUse[v]
                                     /\ nextGeneration'[v] = nextGeneration[v]
      /\ \A v \in Voices : Active(v)' <=> Active(v)
  BY <1>1 DEF Active
<1>3. \A type, v, g, i : Comes(type, v, g, i) =>
        i \in Nat /\ i < head + 1 /\ g \in Nat /\ g <= nextGeneration[v]
  BY <1>1, Places, ComesKnown
<1>4. \A i, g \in Nat : Comes("create", v0, g, i) =>
        \E d \in Nat : i < d /\ d < head + 1 /\ Comes("destroy", v0, g, d)
  BY <1>3 DEF ReleaseInv, Holds
<1>5. Active(v0) => \E d \in Nat : d < head + 1 /\ Comes("destroy", v0, voiceGeneration[v0], d)
  BY <1>3 DEF ReleaseInv, Holds
<1>6. CreationInv'
  <2> SUFFICES ASSUME NEW v \in Voices, NEW i \in Nat, NEW g \in Nat, Comes("create", v, g, i)'
               PROVE  /\ voiceGeneration[v] < g
                      /\ Active(v)' =>
                           \E d \in Nat : d < i /\ Comes("destroy", v, voiceGeneration[v], d)'
    BY DEF CreationInv
  <2>1. CASE Comes("create", v, g, i)
    BY <1>2, <2>1 DEF CreationInv
  <2>2. CASE i = head + 1 /\ v = v0 /\ g = nextGeneration[v0] + 1
    <3>1. voiceGeneration[v0] <= nextGeneration[v0]
      BY DEF ActiveInv
    <3> QED
      BY <1>1, <1>2, <1>5, <2>2, <3>1
  <2> QED
    BY <2>1, <2>2
<1>7. OrderInv'
  <2> SUFFICES ASSUME NEW v \in Voices, NEW i \in Nat, NEW j \in Nat, NEW g \in Nat,
                      NEW h \in Nat, i < j,
                      Comes("create", v, g, i)', Comes("create", v, h, j)'
               PROVE  g < h /\ \E d \in Nat : i < d /\ d < j /\ Comes("destroy", v, g, d)'
    BY DEF OrderInv
  <2>1. Comes("create", v, g, i)
    <3>1. j <= head + 1
      BY <1>1, <1>3
    <3> QED
      BY <1>1, <3>1
  <2>2. CASE Comes("create", v, h, j)
    BY <2>1, <2>2 DEF OrderInv
  <2>3. CASE j = head + 1 /\ v = v0 /\ h = nextGeneration[v0] + 1
    BY <1>1, <1>3, <1>4, <2>1, <2>3
  <2> QED
    BY <2>2, <2>3
<1>8. ReleaseInv'
  <2>1. ASSUME NEW v \in Voices, NEW i \in Nat, NEW g \in Nat, Comes("create", v, g, i)'
        PROVE  Holds(v, g)' \/ \E d \in Nat : i < d /\ Comes("destroy", v, g, d)'
    <3>1. CASE v # v0
      BY <1>2, <2>1, <3>1 DEF ReleaseInv, Holds
    <3>2. CASE v = v0
      BY <1>2, <1>4, <2>1, <3>2 DEF Holds
    <3> QED
      BY <3>1, <3>2
  <2>2. ASSUME NEW v \in Voices, Active(v)'
        PROVE  \/ Holds(v, voiceGeneration[v])'
               \/ \E d \in Nat : Comes("destroy", v, voiceGeneration[v], d)'
    <3>1. CASE v # v0
      BY <1>2, <2>2, <3>1 DEF ReleaseInv, Holds
    <3>2. CASE v = v0
      BY <1>2, <1>5, <2>2, <3>2
    <3> QED
      BY <3>1, <3>2
  <2> QED
    BY <2>1, <2>2 DEF ReleaseInv
<1>9. DestroysInv'
  <2> SUFFICES ASSUME NEW v \in Voices, NEW d \in Nat, NEW g \in Nat,
                      Comes("destroy", v, g, d)', inUse'[v]
               PROVE  g < nextGeneration'[v]
    BY DEF DestroysInv
  <2>1. CASE v # v0
    BY <1>2, <2>1 DEF DestroysInv
  <2>2. CASE v = v0
    BY <1>1, <1>2, <1>3, <2>2
  <2> QED
    BY <2>1, <2>2
<1>10. InUseInv'
  <2> SUFFICES ASSUME NEW v \in Voices, inUse'[v]
               PROVE  \/ \E i \in Nat : Comes("create", v, nextGeneration[v], i)'
                      \/ Active(v)' /\ voiceGeneration[v] = nextGeneration'[v]
    BY DEF InUseInv
  <2>1. CASE v # v0
    <3>1. nextGeneration'[v] = nextGeneration[v] /\ inUse[v]
      BY <1>2, <2>1
    <3> QED
      BY <1>2, <3>1 DEF InUseInv
  <2>2. CASE v = v0
    BY <1>1, <1>2, <2>2
  <2> QED
    BY <2>1, <2>2
<1> QED
  BY <1>6, <1>7, <1>8, <1>9, <1>10

(* A creation withdrawn was the last to come. *)
LEMMA SequenceWithdraws ==
  ASSUME TypeInv, SlotInv, NEW c0 \in creating,
         \A v \in Voices : inUse'[v] <=> inUse[v] /\ v # c0.voice.index,
         \A v, g, i : Comes("destroy", v, g, i)' <=> Comes("destroy", v, g, i),
         \A v, g, i : Comes("create", v, g, i)' <=> Comes("create", v, g, i) /\ i # head + 1,
         UNCHANGED <<voiceGeneration, voiceState, nextGeneration>>
  PROVE  SequenceInv'
<1> USE DEF SlotInv, SequenceInv
<1> DEFINE v0 == c0.voice.index
           g0 == c0.voice.generation
<1>1. /\ head \in Nat /\ v0 \in Voices /\ g0 \in Nat
      /\ voiceGeneration \in [Voices -> Nat] /\ nextGeneration \in [Voices -> Nat]
  BY DEF TypeInv, TypeOK, Command, VoiceId
<1>2. nextGeneration[v0] = g0 /\ inUse[v0]
  BY DEF HandlesInv
<1>3. Comes("create", v0, g0, head + 1)
  BY DEF Comes, UnappliedAt, CommandsInv
<1>4. \A type, v, g, i : Comes(type, v, g, i) /\ i = head + 1 => v = v0 /\ g = g0
  BY Places DEF ThreadsInv
<1>5. \A type, v, g, i : Comes(type, v, g, i) => i \in Nat /\ i <= head + 1
  BY Places
<1> HIDE DEF v0, g0
<1>6. \A v \in Voices : Active(v)' <=> Active(v)
  BY DEF Active
<1>7. CreationInv' /\ OrderInv'
  <2>1. \A v, g, i : Comes("create", v, g, i)' => Comes("create", v, g, i)
    OBVIOUS
  <2>2. CreationInv'
    BY <1>6, <2>1 DEF CreationInv
  <2>3. OrderInv'
    BY <2>1 DEF OrderInv
  <2> QED
    BY <2>2, <2>3
<1>8. \A i, g \in Nat : Comes("create", v0, g, i) /\ i # head + 1 =>
        \E d \in Nat : i < d /\ Comes("destroy", v0, g, d)
  BY <1>1, <1>3, <1>5 DEF OrderInv
<1>9. voiceGeneration[v0] < g0
      /\ (Active(v0) => \E d \in Nat : Comes("destroy", v0, voiceGeneration[v0], d))
  BY <1>1, <1>3 DEF CreationInv
<1>10. ReleaseInv'
  <2>1. ASSUME NEW v \in Voices, NEW i \in Nat, NEW g \in Nat, Comes("create", v, g, i)'
        PROVE  Holds(v, g)' \/ \E d \in Nat : i < d /\ Comes("destroy", v, g, d)'
    <3>1. CASE v # v0
      BY <2>1, <3>1 DEF ReleaseInv, Holds, v0
    <3>2. CASE v = v0
      BY <1>8, <2>1, <3>2
    <3> QED
      BY <3>1, <3>2
  <2>2. ASSUME NEW v \in Voices, Active(v)'
        PROVE  \/ Holds(v, voiceGeneration[v])'
               \/ \E d \in Nat : Comes("destroy", v, voiceGeneration[v], d)'
    <3>1. CASE v # v0
      BY <1>6, <2>2, <3>1 DEF ReleaseInv, Holds, v0
    <3>2. CASE v = v0
      BY <1>6, <1>9, <2>2, <3>2
    <3> QED
      BY <3>1, <3>2
  <2> QED
    BY <2>1, <2>2 DEF ReleaseInv
<1>11. DestroysInv'
  BY DEF DestroysInv
<1>12. InUseInv'
  <2> SUFFICES ASSUME NEW v \in Voices, inUse'[v]
               PROVE  \/ \E i \in Nat : Comes("create", v, nextGeneration[v], i)'
                      \/ Active(v)' /\ voiceGeneration[v] = nextGeneration'[v]
    BY DEF InUseInv
  <2>1. v # v0 /\ inUse[v]
    BY DEF v0
  <2> QED
    BY <1>4, <1>6, <2>1 DEF InUseInv
<1> QED
  BY <1>7, <1>10, <1>11, <1>12

(* A destruction that is submitted releases the slot of its voice only. *)
LEMMA SequenceReleases ==
  ASSUME TypeInv, SlotInv, NEW h0 \in handles, creating = {},
         \A v \in Voices :
           inUse'[v] <=> inUse[v] /\ ~(v = h0.index /\ nextGeneration[v] = h0.generation),
         \A v, g, i : Comes("create", v, g, i)' <=> Comes("create", v, g, i),
         \A v, g, i : Comes("destroy", v, g, i)' <=>
           \/ Comes("destroy", v, g, i)
           \/ i = head + 1 /\ v = h0.index /\ g = h0.generation,
         UNCHANGED <<voiceGeneration, voiceState, nextGeneration>>
  PROVE  SequenceInv'
<1> USE DEF SlotInv, SequenceInv
<1> DEFINE v0 == h0.index
           g0 == h0.generation
<1>1. /\ head \in Nat /\ v0 \in Voices /\ g0 \in Nat /\ g0 <= nextGeneration[v0]
      /\ voiceGeneration \in [Voices -> Nat] /\ nextGeneration \in [Voices -> Nat]
  BY DEF TypeInv, TypeOK, VoiceId, HandlesInv
<1>2. \A type, v, g, i : Comes(type, v, g, i) => i \in Nat /\ i < head + 1
  BY <1>1, Places
<1>3. \E d \in Nat : d = head + 1 /\ Comes("destroy", v0, g0, d)'
  BY <1>1
<1> HIDE DEF v0, g0
<1>4. \A v \in Voices : Active(v)' <=> Active(v)
  BY DEF Active
<1>5. \A v, g : Holds(v, g) /\ v \in Voices => Holds(v, g)' \/ (v = v0 /\ g = g0)
  BY DEF Holds, v0, g0
<1>6. CreationInv' /\ OrderInv'
  BY <1>4 DEF CreationInv, OrderInv
<1>7. ReleaseInv'
  <2>1. ASSUME NEW v \in Voices, NEW i \in Nat, NEW g \in Nat, Comes("create", v, g, i)'
        PROVE  Holds(v, g)' \/ \E d \in Nat : i < d /\ Comes("destroy", v, g, d)'
    <3>1. CASE v = v0 /\ g = g0
      BY <1>1, <1>2, <1>3, <2>1, <3>1
    <3>2. CASE ~(v = v0 /\ g = g0)
      BY <1>5, <2>1, <3>2 DEF ReleaseInv
    <3> QED
      BY <3>1, <3>2
  <2>2. ASSUME NEW v \in Voices, Active(v)'
        PROVE  \/ Holds(v, voiceGeneration[v])'
               \/ \E d \in Nat : Comes("destroy", v, voiceGeneration[v], d)'
    <3>1. CASE v = v0 /\ voiceGeneration[v] = g0
      BY <1>1, <1>3, <3>1
    <3>2. CASE ~(v = v0 /\ voiceGeneration[v] = g0)
      <4>1. Holds(v, voiceGeneration[v]) => Holds(v, voiceGeneration[v])'
        BY <1>5, <3>2 DEF Holds
      <4> QED
        BY <1>4, <2>2, <4>1 DEF ReleaseInv
    <3> QED
      BY <3>1, <3>2
  <2> QED
    BY <2>1, <2>2 DEF ReleaseInv
<1>8. DestroysInv'
  <2> SUFFICES ASSUME NEW v \in Voices, NEW d \in Nat, NEW g \in Nat,
                      Comes("destroy", v, g, d)', inUse'[v]
               PROVE  g < nextGeneration[v]
    BY DEF DestroysInv
  <2>1. CASE Comes("destroy", v, g, d)
    BY <2>1 DEF DestroysInv
  <2>2. CASE v = v0 /\ g = g0
    BY <1>1, <2>2 DEF v0, g0
  <2> QED
    BY <2>1, <2>2 DEF v0, g0
<1>9. InUseInv'
  BY <1>4 DEF InUseInv
<1> QED
  BY <1>6, <1>7, <1>8, <1>9

(* The destruction being applied is taken: it frees the voice it is for,   *)
(* if that is in its slot. *)
LEMMA SequenceDestroys ==
  ASSUME TypeInv, SlotInv, NEW c0, applying = {c0},
         \A v, g, i : Comes("create", v, g, i)' <=> Comes("create", v, g, i),
         \A v, g, i : Comes("destroy", v, g, i)' <=> Comes("destroy", v, g, i) /\ i # tail,
         Comes("destroy", c0.voice.index, c0.voice.generation, tail),
         \A v \in Voices : Active(v)' <=>
           Active(v) /\ ~(v = c0.voice.index /\ voiceGeneration[v] = c0.voice.generation),
         UNCHANGED <<voiceGeneration, inUse, nextGeneration>>
  PROVE  SequenceInv'
<1> USE DEF SlotInv, SequenceInv
<1> DEFINE v0 == c0.voice.index
           g0 == c0.voice.generation
<1>1. /\ tail \in Nat /\ v0 \in Voices /\ g0 \in Nat
      /\ voiceGeneration \in [Voices -> Nat] /\ nextGeneration \in [Voices -> Nat]
  BY DEF TypeInv, TypeOK, Command, VoiceId
<1>2. \A type, v, g, i : Comes(type, v, g, i) => i \in Nat /\ tail <= i
  BY Places
<1>3. \A type, v, g, i : Comes(type, v, g, i) /\ i = tail => v = v0 /\ g = g0
  BY Places
<1> HIDE DEF v0, g0
<1>4. \A v \in Voices, d \in Nat :
        Active(v)' /\ Comes("destroy", v, voiceGeneration[v], d) =>
          Comes("destroy", v, voiceGeneration[v], d)'
  BY <1>3 DEF v0, g0
<1>5. \A i, d : \A v, g, h : Comes("create", v, g, i) /\ i < d /\ Comes("destroy", v, h, d)
        => Comes("destroy", v, h, d)'
  BY <1>1, <1>2
<1>6. CreationInv'
  <2> SUFFICES ASSUME NEW v \in Voices, NEW i \in Nat, NEW g \in Nat, Comes("create", v, g, i)'
               PROVE  /\ voiceGeneration[v] < g
                      /\ Active(v)' =>
                           \E d \in Nat : d < i /\ Comes("destroy", v, voiceGeneration[v], d)'
    BY DEF CreationInv
  <2> QED
    BY <1>4 DEF CreationInv
<1>7. OrderInv'
  BY <1>5 DEF OrderInv
<1>8. ReleaseInv'
  <2>1. ASSUME NEW v \in Voices, NEW i \in Nat, NEW g \in Nat, Comes("create", v, g, i)'
        PROVE  Holds(v, g)' \/ \E d \in Nat : i < d /\ Comes("destroy", v, g, d)'
    BY <1>5, <2>1 DEF ReleaseInv, Holds
  <2>2. ASSUME NEW v \in Voices, Active(v)'
        PROVE  \/ Holds(v, voiceGeneration[v])'
               \/ \E d \in Nat : Comes("destroy", v, voiceGeneration[v], d)'
    BY <1>4, <2>2 DEF ReleaseInv, Holds
  <2> QED
    BY <2>1, <2>2 DEF ReleaseInv
<1>9. DestroysInv'
  BY DEF DestroysInv
<1>10. InUseInv'
  <2> SUFFICES ASSUME NEW v \in Voices, inUse[v],
                      Active(v), voiceGeneration[v] = nextGeneration[v]
               PROVE  Active(v)'
    BY DEF InUseInv
  <2>1. ~(v = v0 /\ voiceGeneration[v] = g0)
    BY <1>1 DEF DestroysInv, v0, g0
  <2> QED
    BY <2>1 DEF v0, g0
<1> QED
  BY <1>6, <1>7, <1>8, <1>9, <1>10

(* The slot of a creation being applied is free. *)
LEMMA CreationFindsFree ==
  ASSUME TypeInv, SlotInv, NEW v \in Voices, NEW g \in Nat, Comes("create", v, g, tail)
  PROVE  ~Active(v)
<1>1. tail \in Nat
  BY DEF TypeInv, TypeOK
<1>2. \A type, u, h, i : Comes(type, u, h, i) => i \in Nat /\ tail <= i
  BY Places
<1> QED
  BY <1>1, <1>2 DEF SlotInv, SequenceInv, CreationInv

(* The creation being applied is taken. *)
LEMMA SequenceApplies ==
  ASSUME TypeInv, SlotInv, NEW c0, applying = {c0},
         \A v, g, i : Comes("destroy", v, g, i)' <=> Comes("destroy", v, g, i),
         \A v, g, i : Comes("create", v, g, i)' <=> Comes("create", v, g, i) /\ i # tail,
         Comes("create", c0.voice.index, c0.voice.generation, tail),
         voiceGeneration' = [voiceGeneration EXCEPT ![c0.voice.index] = c0.voice.generation],
         \A v \in Voices : Active(v)' <=> Active(v) \/ v = c0.voice.index,
         UNCHANGED <<inUse, nextGeneration>>
  PROVE  SequenceInv'
<1> USE DEF SlotInv, SequenceInv
<1> DEFINE v0 == c0.voice.index
           g0 == c0.voice.generation
<1>1. /\ tail \in Nat /\ v0 \in Voices /\ g0 \in Nat
      /\ voiceGeneration \in [Voices -> Nat] /\ nextGeneration \in [Voices -> Nat]
  BY DEF TypeInv, TypeOK, Command, VoiceId
<1>2. \A type, v, g, i : Comes(type, v, g, i) => i \in Nat /\ tail <= i
  BY Places
<1>3. \A type, v, g, i : Comes(type, v, g, i) /\ i = tail => v = v0 /\ g = g0
  BY Places
<1>4. Comes("create", v0, g0, tail)
  OBVIOUS
<1>5. /\ Active(v0)' /\ voiceGeneration'[v0] = g0
      /\ \A v \in Voices : v # v0 => /\ Active(v)' <=> Active(v)
                                     /\ voiceGeneration'[v] = voiceGeneration[v]
  BY <1>1
<1> HIDE DEF v0, g0
<1>6. CreationInv'
  <2> SUFFICES ASSUME NEW v \in Voices, NEW i \in Nat, NEW g \in Nat, Comes("create", v, g, i),
                      i # tail
               PROVE  /\ voiceGeneration'[v] < g
                      /\ Active(v)' =>
                           \E d \in Nat : d < i /\ Comes("destroy", v, voiceGeneration[v], d)'
    BY DEF CreationInv
  <2>1. CASE v # v0
    <3>1. voiceGeneration'[v] = voiceGeneration[v]
      BY <1>5, <2>1
    <3> QED
      BY <1>5, <2>1, <3>1 DEF CreationInv
  <2>2. CASE v = v0
    <3>1. tail < i
      BY <1>1, <1>2
    <3>2. g0 < g /\ \E d \in Nat : d < i /\ Comes("destroy", v0, g0, d)
      BY <1>1, <1>4, <2>2, <3>1 DEF OrderInv
    <3> QED
      BY <1>5, <2>2, <3>2
  <2> QED
    BY <2>1, <2>2
<1>7. OrderInv' /\ DestroysInv'
  BY DEF OrderInv, DestroysInv
<1>8. ReleaseInv'
  <2>1. ASSUME NEW v \in Voices, NEW i \in Nat, NEW g \in Nat, Comes("create", v, g, i)'
        PROVE  Holds(v, g)' \/ \E d \in Nat : i < d /\ Comes("destroy", v, g, d)'
    BY <2>1 DEF ReleaseInv, Holds
  <2>2. ASSUME NEW v \in Voices, Active(v)'
        PROVE  \/ Holds(v, voiceGeneration[v])'
               \/ \E d \in Nat : Comes("destroy", v, voiceGeneration[v], d)'
    <3>1. CASE v # v0
      <4>1. voiceGeneration'[v] = voiceGeneration[v]
        BY <1>5, <3>1
      <4> QED
        BY <1>5, <2>2, <3>1, <4>1 DEF ReleaseInv, Holds
    <3>2. CASE v = v0
      <4>1. Holds(v0, g0) \/ \E d \in Nat : Comes("destroy", v0, g0, d)
        BY <1>1, <1>4 DEF ReleaseInv
      <4> QED
        BY <1>5, <3>2, <4>1 DEF Holds
    <3> QED
      BY <3>1, <3>2
  <2> QED
    BY <2>1, <2>2 DEF ReleaseInv
<1>9. ~Active(v0)
  BY <1>1, <1>4, CreationFindsFree
<1>10. InUseInv'
  <2> SUFFICES ASSUME NEW v \in Voices, inUse[v]
               PROVE  \/ \E i \in Nat : Comes("create", v, nextGeneration[v], i)'
                      \/ Active(v)' /\ voiceGeneration'[v] = nextGeneration[v]
    BY DEF InUseInv
  <2>1. PICK i \in Nat : \/ Comes("create", v, nextGeneration[v], i)
                         \/ Active(v) /\ voiceGeneration[v] = nextGeneration[v]
    BY DEF InUseInv
  <2>2. CASE v # v0
    BY <1>3, <1>5, <2>1, <2>2
  <2>3. CASE v = v0
    BY <1>3, <1>5, <1>9, <2>1, <2>3
  <2> QED
    BY <2>2, <2>3
<1> QED
  BY <1>6, <1>7, <1>8, <1>10

-----------------------------------------------------------------------------
(* The steps of the audio thread. *)

storeRest == <<slotState, key, bytes, asset, generation, published, keyToIndex, totalBytes, loads,
               ids, scan, after, loading>>

(* The types of the store, when at most its pins change. *)
LEMMA StoreTypesKept ==
  ASSUME TypeInv, UNCHANGED storeRest, pins' \in [Assets -> Nat]
  PROVE  StoreTypeOK'
BY DEF TypeInv, TypeOK, StoreTypeOK, storeRest

(* What the audio thread does not touch. *)
LEMMA AudioSees ==
  ASSUME Inv, UNCHANGED audioSees
  PROVE  /\ UNCHANGED storeRest
         /\ UNCHANGED <<generation, asset, published, pins, ctl, scan, inUse, nextGeneration,
                        creating, creates, handles, head>>
         /\ StoreTypeOK' /\ StoreInv'
<1>1. /\ UNCHANGED storeRest
      /\ UNCHANGED <<slotState, key, bytes, asset, generation, published, keyToIndex, totalBytes,
                     scan, after, loading, pins, ctl, inUse, nextGeneration, creating, creates,
                     handles, head>>
  BY DEF audioSees, storeVars, slotVars, controlVars, reclaimVars, reservations, creation,
         storeRest
<1>2. scan \in Assets /\ pins \in [Assets -> Nat]
  BY DEF Inv, TypeInv, TypeOK, StoreTypeOK
<1>3. StoreTypeOK'
  BY <1>1, <1>2, StoreTypesKept DEF Inv
<1>4. StoreInv'
  BY <1>1, <1>2, StoreKept DEF Inv
<1> QED
  BY <1>1, <1>3, <1>4

(* A step that pins, unpins, and holds nothing more. *)
LEMMA PinsKept ==
  ASSUME PinInv, UNCHANGED <<generation, asset, pins>>,
         \A id : Held(id)' => Held(id),
         PointerInv',
         \A s \in Assets : /\ CreatingPins(s)' = CreatingPins(s) /\ QueuedPins(s)' = QueuedPins(s)
                           /\ ApplyingPins(s)' = ApplyingPins(s) /\ VoicePins(s)' = VoicePins(s)
  PROVE  PinInv'
<1>1. HoldInv'
  BY DEF PinInv, HoldInv, NotStale
<1>2. CountInv'
  BY DEF PinInv, CountInv
<1> QED
  BY <1>1, <1>2 DEF PinInv

(* A command that starts or stops a voice, and the end of an asset, change *)
(* the state of a voice in its slot. *)
LEMMA VoiceMoves ==
  ASSUME Inv, UNCHANGED audioSees,
         UNCHANGED <<queue, tail, voiceGeneration, voiceAsset, voicePointer, owner, heap>>,
         voiceState' \in [Voices -> {"inactive", "stopped", "playing"}],
         \A v \in Voices : Active(v)' <=> Active(v),
         \/ aud = "idle" /\ UNCHANGED <<aud, applying>>
         \/ aud = "apply" /\ Done /\ \A c \in applying : c.type \in {"start", "stop"}
  PROVE  Inv'
<1> USE DEF Inv
<1>1. /\ UNCHANGED <<generation, asset, published, pins, ctl, scan, inUse, nextGeneration,
                     creating, creates, handles, head>>
      /\ StoreTypeOK' /\ StoreInv'
  BY AudioSees
<1>2. /\ aud' = "idle" /\ applying' = {} /\ aud \in {"idle", "apply"}
      /\ \A c \in applying : c.type \in {"start", "stop"} /\ c.asset = {}
  BY DEF SlotInv, ThreadsInv, CommandsInv, OneAsset, Done
<1>3. TypeInv'
  BY <1>1, <1>2 DEF TypeInv, TypeOK
<1>4. SlotInv'
  <2> USE DEF SlotInv
  <2>1. ThreadsInv' /\ CommandsInv' /\ HandlesInv'
    BY <1>1, <1>2 DEF ThreadsInv, CommandsInv, HandlesInv
  <2>2. ActiveInv'
    BY <1>1 DEF ActiveInv
  <2>3. \A type \in {"create", "destroy"} : \A v, g, i :
          Comes(type, v, g, i)' <=> Comes(type, v, g, i)
    BY <1>1, <1>2 DEF Comes, UnappliedAt
  <2>4. SequenceInv'
    BY <1>1, <2>3, SequenceKept
  <2> QED
    BY <2>1, <2>2, <2>4
<1>5. PinInv'
  <2> USE DEF PinInv
  <2>1. \A v : ~Dropping(v) /\ ~Dropping(v)'
    BY <1>2 DEF Dropping
  <2>2. \A id : Held(id)' => Held(id)
    BY <1>1, <1>2, <2>1 DEF Held
  <2>3. PointerInv'
    BY <1>1, <1>2 DEF PointerInv
  <2>4. ASSUME NEW s \in Assets
        PROVE  /\ CreatingPins(s)' = CreatingPins(s) /\ QueuedPins(s)' = QueuedPins(s)
               /\ ApplyingPins(s)' = ApplyingPins(s) /\ VoicePins(s)' = VoicePins(s)
    <3>1. CreatingPins(s)' = CreatingPins(s)
      BY <1>1 DEF CreatingPins
    <3>2. QueuedPins(s)' = QueuedPins(s)
      BY <1>1 DEF QueuedPins, Pending
    <3>3. ApplyingPins(s)' = {} /\ ApplyingPins(s) = {}
      BY <1>2 DEF ApplyingPins, Pending
    <3>4. VoicePins(s)' = VoicePins(s)
      BY <2>1 DEF VoicePins
    <3> QED
      BY <3>1, <3>2, <3>3, <3>4
  <2> QED
    BY <1>1, <2>2, <2>3, <2>4, PinsKept
<1> QED
  BY <1>1, <1>3, <1>4, <1>5

(* The command being applied, and its place. *)
LEMMA Applied ==
  ASSUME TypeInv, ThreadsInv, CommandsInv, NEW c \in applying
  PROVE  /\ applying = {c} /\ c \in Command /\ c.voice \in VoiceId /\ c.voice \in handles
         /\ c.voice.index \in Voices /\ c.voice.generation \in Nat /\ OneAsset(c)
         /\ \A type, v, g : Comes(type, v, g, tail) <=>
              /\ aud \in {"apply", "unpin", "released"}
              /\ c.type = type /\ c.voice.index = v /\ c.voice.generation = g
<1>1. applying = {c} /\ c \in Command /\ c.voice \in handles /\ OneAsset(c)
  BY DEF ThreadsInv, CommandsInv, TypeInv, TypeOK
<1>2. c.voice \in VoiceId /\ c.voice.index \in Voices /\ c.voice.generation \in Nat
  BY <1>1 DEF Command, VoiceId
<1>3. UnappliedAt(tail) = IF aud \in {"apply", "unpin", "released"} THEN {c} ELSE {}
  BY <1>1 DEF UnappliedAt, TypeInv, TypeOK
<1> QED
  BY <1>1, <1>2, <1>3 DEF Comes

(* A destruction is taken, with the voice it is for or without effect. *)
LEMMA DestroyTaken ==
  ASSUME Inv, UNCHANGED audioSees, UNCHANGED <<queue, tail, voiceGeneration, owner, heap>>,
         aud \in {"apply", "released"}, Done, NEW c \in applying, c.type = "destroy",
         voiceState' \in [Voices -> {"inactive", "stopped", "playing"}],
         voiceAsset' \in [Voices -> SUBSET AssetId],
         voicePointer' \in [Voices -> SUBSET AssetObject],
         \A v \in Voices : Active(v)' <=>
           Active(v) /\ ~(v = c.voice.index /\ voiceGeneration[v] = c.voice.generation),
         \A v \in Voices : /\ voiceAsset'[v] = IF Dropping(v) THEN {} ELSE voiceAsset[v]
                           /\ voicePointer'[v] = IF Dropping(v) THEN {} ELSE voicePointer[v]
  PROVE  Inv'
<1> USE DEF Inv
<1>1. /\ UNCHANGED <<generation, asset, published, pins, ctl, scan, inUse, nextGeneration,
                     creating, creates, handles, head>>
      /\ StoreTypeOK' /\ StoreInv'
  BY AudioSees
<1>2. /\ aud' = "idle" /\ applying' = {}
      /\ applying = {c} /\ c.voice.index \in Voices /\ c.asset = {}
      /\ \A type, v, g : Comes(type, v, g, tail) <=>
           c.type = type /\ c.voice.index = v /\ c.voice.generation = g
  BY Applied DEF Done, SlotInv, OneAsset
<1>3. TypeInv'
  BY <1>1, <1>2 DEF TypeInv, TypeOK
<1>4. SlotInv'
  <2> USE DEF SlotInv
  <2>1. ThreadsInv' /\ CommandsInv' /\ HandlesInv'
    BY <1>1, <1>2 DEF ThreadsInv, CommandsInv, HandlesInv
  <2>2. ActiveInv'
    BY <1>1 DEF ActiveInv
  <2>3. tail \in Nat /\ head \in Nat /\ tail <= head
    BY DEF TypeInv, TypeOK
  <2>4. \A type, v, g, i : Comes(type, v, g, i)' <=> Comes(type, v, g, i) /\ i # tail
    BY <1>1, <1>2, <2>3 DEF Comes, UnappliedAt
  <2>5. \A v, g : ~Comes("create", v, g, tail)
    BY <1>2
  <2>6. \A v, g, i : Comes("create", v, g, i)' <=> Comes("create", v, g, i)
    BY <2>4, <2>5
  <2>7. SequenceInv'
    BY <1>1, <1>2, <2>4, <2>6, SequenceDestroys
  <2> QED
    BY <2>1, <2>2, <2>7
<1>5. PinInv'
  <2> USE DEF PinInv
  <2>1. \A v : ~Dropping(v)'
    BY <1>2 DEF Dropping
  <2>2. \A id : Held(id)' => Held(id)
    BY <1>1, <1>2, <2>1 DEF Held
  <2>3. PointerInv'
    BY <1>1, <1>2 DEF PointerInv, Dropping
  <2>4. ASSUME NEW s \in Assets
        PROVE  /\ CreatingPins(s)' = CreatingPins(s) /\ QueuedPins(s)' = QueuedPins(s)
               /\ ApplyingPins(s)' = ApplyingPins(s) /\ VoicePins(s)' = VoicePins(s)
    <3>1. CreatingPins(s)' = CreatingPins(s)
      BY <1>1 DEF CreatingPins
    <3>2. QueuedPins(s)' = QueuedPins(s)
      BY <1>1 DEF QueuedPins, Pending
    <3>3. ApplyingPins(s)' = {} /\ ApplyingPins(s) = {}
      BY <1>2 DEF ApplyingPins, Pending
    <3>4. VoicePins(s)' = VoicePins(s)
      BY <2>1 DEF VoicePins
    <3> QED
      BY <3>1, <3>2, <3>3, <3>4
  <2> QED
    BY <1>1, <2>2, <2>3, <2>4, PinsKept
<1> QED
  BY <1>1, <1>3, <1>4, <1>5

(* A command that finds another voice in its slot, or none, does nothing. *)
LEMMA Ignores ==
  ASSUME Inv, ApplyIgnored
  PROVE  Inv'
<1>1. PICK c \in applying : c.type # "create" /\ ~IsValidTarget(c.voice)
  BY DEF ApplyIgnored
<1>2. /\ aud = "apply" /\ Done /\ UNCHANGED audioSees
      /\ UNCHANGED <<queue, tail, voiceState, voiceGeneration, voiceAsset, voicePointer, owner,
                     heap>>
  BY DEF ApplyIgnored, slots
<1>3. applying = {c} /\ c.type \in {"start", "stop", "destroy"} /\ c.voice.index \in Voices
  BY <1>1, Applied DEF Inv, SlotInv, Command
<1>4. voiceState \in [Voices -> {"inactive", "stopped", "playing"}]
      /\ voiceAsset \in [Voices -> SUBSET AssetId]
      /\ voicePointer \in [Voices -> SUBSET AssetObject]
  BY DEF Inv, TypeInv, TypeOK
<1>5. \A v \in Voices : Active(v)' <=> Active(v)
  BY <1>2 DEF Active
<1>6. CASE c.type = "destroy"
  <2>1. \A v \in Voices : Active(v)' <=>
          Active(v) /\ ~(v = c.voice.index /\ voiceGeneration[v] = c.voice.generation)
    BY <1>1, <1>5 DEF IsValidTarget, Active
  <2>2. \A v : ~Dropping(v)
    BY <1>2 DEF Dropping
  <2> QED
    BY <1>2, <1>3, <1>4, <1>6, <2>1, <2>2, DestroyTaken
<1>7. CASE c.type # "destroy"
  BY <1>2, <1>3, <1>4, <1>5, <1>7, VoiceMoves
<1> QED
  BY <1>6, <1>7

(* A voice starts, *)
LEMMA Starts ==
  ASSUME Inv, ApplyStart
  PROVE  Inv'
<1>1. PICK c \in applying :
        /\ c.type = "start" /\ IsValidTarget(c.voice)
        /\ SetState(c.voice.index,
             IF voiceAsset[c.voice.index] # {} /\ voicePointer[c.voice.index] = {}
             THEN voiceState[c.voice.index] ELSE "playing")
  BY DEF ApplyStart
<1>2. /\ aud = "apply" /\ Done /\ UNCHANGED audioSees
      /\ UNCHANGED <<queue, tail, voiceGeneration, voiceAsset, voicePointer, owner, heap>>
  BY DEF ApplyStart
<1>3. applying = {c} /\ c.voice.index \in Voices
  BY <1>1, Applied DEF Inv, SlotInv
<1>4. voiceState \in [Voices -> {"inactive", "stopped", "playing"}]
  BY DEF Inv, TypeInv, TypeOK
<1>5. /\ voiceState' \in [Voices -> {"inactive", "stopped", "playing"}]
      /\ \A v \in Voices : Active(v)' <=> Active(v)
  BY <1>1, <1>3, <1>4 DEF SetState, Active, IsValidTarget
<1> QED
  BY <1>1, <1>2, <1>3, <1>5, VoiceMoves

(* stops, *)
LEMMA Stops ==
  ASSUME Inv, ApplyStop
  PROVE  Inv'
<1>1. PICK c \in applying :
        /\ c.type = "stop" /\ IsValidTarget(c.voice)
        /\ SetState(c.voice.index, "stopped")
  BY DEF ApplyStop
<1>2. /\ aud = "apply" /\ Done /\ UNCHANGED audioSees
      /\ UNCHANGED <<queue, tail, voiceGeneration, voiceAsset, voicePointer, owner, heap>>
  BY DEF ApplyStop
<1>3. applying = {c} /\ c.voice.index \in Voices
  BY <1>1, Applied DEF Inv, SlotInv
<1>4. voiceState \in [Voices -> {"inactive", "stopped", "playing"}]
  BY DEF Inv, TypeInv, TypeOK
<1>5. /\ voiceState' \in [Voices -> {"inactive", "stopped", "playing"}]
      /\ \A v \in Voices : Active(v)' <=> Active(v)
  BY <1>1, <1>3, <1>4 DEF SetState, Active, IsValidTarget
<1> QED
  BY <1>1, <1>2, <1>3, <1>5, VoiceMoves

(* or comes to the end of its asset. *)
LEMMA Ends ==
  ASSUME Inv, NEW u \in Voices, RenderEnds(u)
  PROVE  Inv'
<1>1. /\ aud = "idle" /\ UNCHANGED <<aud, applying>> /\ UNCHANGED audioSees
      /\ UNCHANGED <<queue, tail, voiceGeneration, voiceAsset, voicePointer, owner, heap>>
  BY DEF RenderEnds, audio
<1>2. voiceState \in [Voices -> {"inactive", "stopped", "playing"}]
  BY DEF Inv, TypeInv, TypeOK
<1>3. /\ voiceState' \in [Voices -> {"inactive", "stopped", "playing"}]
      /\ \A v \in Voices : Active(v)' <=> Active(v)
  BY <1>2 DEF RenderEnds, SetState, Active
<1> QED
  BY <1>1, <1>3, VoiceMoves

(* The voice of a destruction leaves its slot. *)
LEMMA Leaves ==
  ASSUME Inv, ApplyDestroy
  PROVE  Inv'
<1>1. PICK c \in applying :
        /\ c.type = "destroy"
        /\ SetState(c.voice.index, "inactive")
        /\ voiceAsset' = [voiceAsset EXCEPT ![c.voice.index] = {}]
        /\ voicePointer' = [voicePointer EXCEPT ![c.voice.index] = {}]
  BY DEF ApplyDestroy
<1>2. /\ aud = "released" /\ Done /\ UNCHANGED audioSees
      /\ UNCHANGED <<queue, tail, voiceGeneration, owner, heap>>
  BY DEF ApplyDestroy
<1>3. applying = {c} /\ c.voice.index \in Voices
  BY <1>1, Applied DEF Inv, SlotInv
<1>4. voiceState \in [Voices -> {"inactive", "stopped", "playing"}]
      /\ voiceAsset \in [Voices -> SUBSET AssetId]
      /\ voicePointer \in [Voices -> SUBSET AssetObject]
  BY DEF Inv, TypeInv, TypeOK
<1>5. IsValidTarget(c.voice)
  BY <1>1, <1>2 DEF Inv, SlotInv, ThreadsInv
<1>6. voiceState' \in [Voices -> {"inactive", "stopped", "playing"}]
      /\ voiceAsset' \in [Voices -> SUBSET AssetId]
      /\ voicePointer' \in [Voices -> SUBSET AssetObject]
  BY <1>1, <1>3, <1>4 DEF SetState
<1>7. \A v \in Voices : Active(v)' <=>
        Active(v) /\ ~(v = c.voice.index /\ voiceGeneration[v] = c.voice.generation)
  BY <1>1, <1>3, <1>4, <1>5 DEF Active, IsValidTarget, SetState
<1>8. \A v : Dropping(v) <=> v = c.voice.index
  BY <1>2, <1>3 DEF Dropping
<1>9. \A v \in Voices : /\ voiceAsset'[v] = IF Dropping(v) THEN {} ELSE voiceAsset[v]
                        /\ voicePointer'[v] = IF Dropping(v) THEN {} ELSE voicePointer[v]
  BY <1>1, <1>3, <1>4, <1>8
<1> QED
  BY <1>1, <1>2, <1>6, <1>7, <1>9, DestroyTaken

(* Before a slot is given away its asset is to be unpinned. *)
LEMMA ReleasesFirst ==
  ASSUME Inv, ApplyReleases
  PROVE  Inv'
<1> USE DEF Inv
<1>1. PICK c \in applying :
        /\ \/ c.type = "create"
           \/ c.type = "destroy" /\ IsValidTarget(c.voice)
        /\ aud' = IF \E id \in voiceAsset[c.voice.index] : NotStale(id)
                  THEN "unpin" ELSE "released"
  BY DEF ApplyReleases
<1>2. /\ aud = "apply" /\ UNCHANGED audioSees /\ applying = {c} /\ c.voice.index \in Voices
      /\ UNCHANGED <<queue, tail, voiceState, voiceGeneration, voiceAsset, voicePointer, owner,
                     heap, applying>>
  BY <1>1, Applied DEF ApplyReleases, slots, SlotInv
<1>3. /\ UNCHANGED <<generation, asset, published, pins, ctl, scan, inUse, nextGeneration,
                     creating, creates, handles, head>>
      /\ StoreTypeOK' /\ StoreInv'
  BY <1>2, AudioSees
<1>4. aud' \in {"unpin", "released"}
      /\ (aud' = "unpin" => voiceAsset[c.voice.index] # {})
  BY <1>1
<1>5. TypeInv'
  BY <1>2, <1>3, <1>4 DEF TypeInv, TypeOK
<1>6. SlotInv'
  <2> USE DEF SlotInv
  <2>1. ThreadsInv'
    BY <1>1, <1>2, <1>3, <1>4 DEF ThreadsInv, IsValidTarget
  <2>2. CommandsInv' /\ HandlesInv'
    BY <1>2, <1>3 DEF CommandsInv, HandlesInv
  <2>3. ActiveInv' /\ \A v \in Voices : Active(v)' <=> Active(v)
    BY <1>2, <1>3 DEF ActiveInv, Active
  <2>4. \A type, v, g, i : Comes(type, v, g, i)' <=> Comes(type, v, g, i)
    BY <1>2, <1>3, <1>4 DEF Comes, UnappliedAt
  <2>5. SequenceInv'
    BY <1>2, <1>3, <2>3, <2>4, SequenceKept
  <2> QED
    BY <2>1, <2>2, <2>3, <2>5
<1>7. PinInv'
  <2> USE DEF PinInv
  <2>1. \A v : ~Dropping(v) /\ (Dropping(v)' <=> aud' = "released" /\ v = c.voice.index)
    BY <1>2 DEF Dropping
  <2>2. aud' = "released" => voiceAsset[c.voice.index] = {}
    <3>1. \A id \in voiceAsset[c.voice.index] : NotStale(id)
      BY <1>2, <2>1 DEF HoldInv, Held
    <3> QED
      BY <1>1, <3>1
  <2>3. \A id : Held(id)' => Held(id)
    BY <1>2, <1>3, <1>4, <2>1 DEF Held
  <2>4. PointerInv'
    BY <1>2, <1>3 DEF PointerInv
  <2>5. ASSUME NEW s \in Assets
        PROVE  /\ CreatingPins(s)' = CreatingPins(s) /\ QueuedPins(s)' = QueuedPins(s)
               /\ ApplyingPins(s)' = ApplyingPins(s) /\ VoicePins(s)' = VoicePins(s)
    <3>1. CreatingPins(s)' = CreatingPins(s)
      BY <1>3 DEF CreatingPins
    <3>2. QueuedPins(s)' = QueuedPins(s)
      BY <1>2, <1>3 DEF QueuedPins, Pending
    <3>3. ApplyingPins(s)' = ApplyingPins(s)
      BY <1>2, <1>4 DEF ApplyingPins
    <3>4. VoicePins(s)' = VoicePins(s)
      BY <1>2, <2>1, <2>2 DEF VoicePins
    <3> QED
      BY <3>1, <3>2, <3>3, <3>4
  <2> QED
    BY <1>3, <2>3, <2>4, <2>5, PinsKept
<1> QED
  BY <1>3, <1>5, <1>6, <1>7

(* The pin of the voice that leaves its slot is given back. *)
LEMMA Unpins ==
  ASSUME Inv, ApplyUnpins
  PROVE  Inv'
<1> USE DEF Inv
<1>1. PICK c \in applying : \E id \in voiceAsset[c.voice.index] : Unpin(id)
  BY DEF ApplyUnpins
<1>2. PICK id0 \in voiceAsset[c.voice.index] : Unpin(id0)
  BY <1>1
<1>3. /\ aud = "unpin" /\ aud' = "released" /\ applying = {c} /\ c.voice.index \in Voices
      /\ UNCHANGED <<queue, head, tail, voiceState, voiceGeneration, voiceAsset, voicePointer,
                     owner, heap, applying, ctl, inUse, nextGeneration, creating, creates,
                     handles>>
  BY <1>1, Applied
     DEF ApplyUnpins, slots, pipe, SlotInv, controlVars, reservations, creation
<1>4. /\ UNCHANGED <<slotState, key, bytes, asset, generation, published, keyToIndex, totalBytes,
                     loads, ids, scan, after, loading>>
      /\ pins' = [pins EXCEPT ![id0.index] = IF @ = 0 THEN 0 ELSE @ - 1]
  BY <1>2 DEF Unpin, ApplyUnpins, controlVars, reclaimVars
<1>5. pins \in [Assets -> Nat] /\ scan \in Assets /\ id0.index \in Assets
  BY <1>3 DEF TypeInv, TypeOK, StoreTypeOK, AssetId
<1>6. pins' \in [Assets -> Nat] /\ \A s \in Assets : pins[s] = 0 => pins'[s] = 0
  BY <1>4, <1>5
<1>7. StoreTypeOK' /\ StoreInv'
  BY <1>3, <1>4, <1>5, <1>6, StoreTypesKept, StoreKept DEF storeRest
<1>8. TypeInv'
  BY <1>3, <1>7 DEF TypeInv, TypeOK
<1>9. SlotInv'
  <2> USE DEF SlotInv
  <2>1. ThreadsInv'
    BY <1>3 DEF ThreadsInv, IsValidTarget
  <2>2. CommandsInv' /\ HandlesInv'
    BY <1>3 DEF CommandsInv, HandlesInv
  <2>3. ActiveInv' /\ \A v \in Voices : Active(v)' <=> Active(v)
    BY <1>3 DEF ActiveInv, Active
  <2>4. \A type, v, g, i : Comes(type, v, g, i)' <=> Comes(type, v, g, i)
    BY <1>3 DEF Comes, UnappliedAt
  <2>5. SequenceInv'
    BY <1>3, <2>3, <2>4, SequenceKept
  <2> QED
    BY <2>1, <2>2, <2>3, <2>5
<1>10. PinInv'
  <2> USE DEF PinInv
  <2> DEFINE v0 == c.voice.index
  <2>1. \A v : ~Dropping(v) /\ (Dropping(v)' <=> v = v0)
    BY <1>3 DEF Dropping
  <2>2. \A id \in voiceAsset[v0] : id = id0
    BY <1>3 DEF SlotInv, ActiveInv
  <2>3. HoldInv'
    <3>1. \A id : Held(id)' => Held(id)
      BY <1>3, <2>1 DEF Held
    <3> QED
      BY <1>4, <3>1 DEF HoldInv, NotStale
  <2>4. PointerInv'
    BY <1>3, <1>4 DEF PointerInv
  <2>5. CountInv'
    <3> SUFFICES ASSUME NEW s \in Assets
                 PROVE  pins'[s] = Cardinality(CreatingPins(s)') + Cardinality(QueuedPins(s)')
                           + Cardinality(ApplyingPins(s)') + Cardinality(VoicePins(s)')
      BY DEF CountInv
    <3>1. CreatingPins(s)' = CreatingPins(s)
      BY <1>3 DEF CreatingPins
    <3>2. QueuedPins(s)' = QueuedPins(s)
      BY <1>3 DEF QueuedPins, Pending
    <3>3. ApplyingPins(s)' = ApplyingPins(s)
      BY <1>3 DEF ApplyingPins
    <3>4. VoicePins(s)' = VoicePins(s) \ {v0}
      BY <1>3, <2>1 DEF VoicePins
    <3>5. v0 \in VoicePins(s) <=> s = id0.index
      BY <1>3, <2>1, <2>2 DEF VoicePins
    <3>6. /\ IsFiniteSet(CreatingPins(s)) /\ IsFiniteSet(QueuedPins(s))
          /\ IsFiniteSet(ApplyingPins(s)) /\ IsFiniteSet(VoicePins(s))
      BY PinSetsFinite DEF SlotInv
    <3>7. /\ Cardinality(CreatingPins(s)) \in Nat /\ Cardinality(QueuedPins(s)) \in Nat
          /\ Cardinality(ApplyingPins(s)) \in Nat /\ Cardinality(VoicePins(s)) \in Nat
      BY <3>6, FS_CardinalityType
    <3>8. pins[s] = Cardinality(CreatingPins(s)) + Cardinality(QueuedPins(s))
                      + Cardinality(ApplyingPins(s)) + Cardinality(VoicePins(s))
      BY DEF CountInv
    <3>9. Cardinality(VoicePins(s) \ {v0}) \in Nat /\ Cardinality(VoicePins(s) \ {v0}) =
            IF s = id0.index THEN Cardinality(VoicePins(s)) - 1 ELSE Cardinality(VoicePins(s))
      BY <3>5, <3>6, FS_RemoveElement, FS_CardinalityType
    <3>10. pins'[s] = IF s = id0.index THEN pins[s] - 1 ELSE pins[s]
      <4>1. s = id0.index => pins[s] # 0
        BY <3>7, <3>8, <3>9
      <4> QED
        BY <1>4, <1>5, <4>1
    <3> HIDE DEF v0
    <3> QED
      BY <3>1, <3>2, <3>3, <3>4, <3>7, <3>8, <3>9, <3>10
  <2> QED
    BY <2>3, <2>4, <2>5
<1> QED
  BY <1>7, <1>8, <1>9, <1>10

(* The voice of a creation takes its slot, and its pin with it. *)
LEMMA TakesSlot ==
  ASSUME Inv, ApplyCreate
  PROVE  Inv'
<1> USE DEF Inv
<1>1. PICK c \in applying :
        /\ c.type = "create"
        /\ SetState(c.voice.index, "stopped")
        /\ voiceGeneration' = [voiceGeneration EXCEPT ![c.voice.index] = c.voice.generation]
        /\ owner' = [owner EXCEPT ![c.voice.index] = c.voice.serial]
        /\ voiceAsset' = [voiceAsset EXCEPT ![c.voice.index] = c.asset]
        /\ voicePointer' = [voicePointer EXCEPT ![c.voice.index] = {}]
        /\ IF \E id \in c.asset : NotStale(id)
           THEN aud' = "resolve" /\ applying' = applying
           ELSE Done
  BY DEF ApplyCreate
<1>2. /\ aud = "released" /\ UNCHANGED audioSees /\ UNCHANGED <<queue, tail, heap>>
      /\ applying = {c} /\ c \in Command /\ c.voice \in VoiceId /\ c.voice.index \in Voices
      /\ c.voice.generation \in Nat /\ c.voice \in handles /\ OneAsset(c)
      /\ \A type, v, g : Comes(type, v, g, tail) <=>
           c.type = type /\ c.voice.index = v /\ c.voice.generation = g
  BY <1>1, Applied DEF ApplyCreate, SlotInv
<1>3. /\ UNCHANGED <<generation, asset, published, pins, ctl, scan, inUse, nextGeneration,
                     creating, creates, handles, head>>
      /\ StoreTypeOK' /\ StoreInv'
  BY <1>2, AudioSees
<1>4. c.asset \subseteq AssetId /\ c.voice.serial \in Nat
  BY <1>2 DEF Command, VoiceId
<1>5. /\ voiceState \in [Voices -> {"inactive", "stopped", "playing"}]
      /\ voiceGeneration \in [Voices -> Nat] /\ owner \in [Voices -> Nat]
      /\ voiceAsset \in [Voices -> SUBSET AssetId]
      /\ voicePointer \in [Voices -> SUBSET AssetObject]
      /\ tail \in Nat /\ head \in Nat /\ tail <= head
  BY DEF TypeInv, TypeOK
<1> DEFINE v0 == c.voice.index
<1>6. /\ voiceState'[v0] = "stopped" /\ voiceGeneration'[v0] = c.voice.generation
      /\ owner'[v0] = c.voice.serial /\ voiceAsset'[v0] = c.asset /\ voicePointer'[v0] = {}
      /\ \A v \in Voices : v # v0 =>
           /\ voiceState'[v] = voiceState[v] /\ voiceGeneration'[v] = voiceGeneration[v]
           /\ owner'[v] = owner[v] /\ voiceAsset'[v] = voiceAsset[v]
           /\ voicePointer'[v] = voicePointer[v]
  BY <1>1, <1>2, <1>5 DEF SetState
<1>7. \/ aud' = "resolve" /\ applying' = {c}
      \/ aud' = "idle" /\ applying' = {} /\ \A id \in c.asset : ~NotStale(id)
  BY <1>1, <1>2 DEF Done
<1>8. TypeInv'
  <2>1. /\ voiceState' \in [Voices -> {"inactive", "stopped", "playing"}]
        /\ voiceGeneration' \in [Voices -> Nat] /\ owner' \in [Voices -> Nat]
    BY <1>1, <1>2, <1>4, <1>5 DEF SetState
  <2>2. voiceAsset' \in [Voices -> SUBSET AssetId]
    BY <1>1, <1>2, <1>4, <1>5
  <2>3. voicePointer' \in [Voices -> SUBSET AssetObject]
    BY <1>1, <1>2, <1>5
  <2> QED
    BY <1>2, <1>3, <1>7, <2>1, <2>2, <2>3 DEF TypeInv, TypeOK
<1> HIDE DEF v0
<1>9. SlotInv'
  <2> USE DEF SlotInv
  <2>1. ThreadsInv'
    BY <1>1, <1>2, <1>3, <1>6, <1>7 DEF ThreadsInv, v0
  <2>2. CommandsInv' /\ HandlesInv'
    BY <1>2, <1>3, <1>7 DEF CommandsInv, HandlesInv
  <2>3. \A v \in Voices : Active(v)' <=> Active(v) \/ v = v0
    BY <1>6 DEF Active
  <2>4. ActiveInv'
    <3>1. ASSUME NEW v \in Voices, v # v0
          PROVE  /\ voiceGeneration'[v] <= nextGeneration'[v]
                 /\ Active(v)' =>
                      \E h \in handles' : h.index = v /\ h.generation = voiceGeneration'[v]
                                                      /\ h.serial = owner'[v]
                 /\ \A a, b \in voiceAsset'[v] : a = b
      BY <1>3, <1>6, <2>3, <3>1 DEF ActiveInv
    <3>2. voiceGeneration'[v0] <= nextGeneration'[v0]
      BY <1>2, <1>3, <1>6 DEF HandlesInv, v0
    <3>3. \E h \in handles' : h.index = v0 /\ h.generation = voiceGeneration'[v0]
                                           /\ h.serial = owner'[v0]
      BY <1>2, <1>3, <1>6 DEF v0
    <3>4. \A a, b \in voiceAsset'[v0] : a = b
      BY <1>2, <1>6 DEF OneAsset
    <3> QED
      BY <3>1, <3>2, <3>3, <3>4 DEF ActiveInv
  <2>5. \A type, v, g, i : Comes(type, v, g, i)' <=> Comes(type, v, g, i) /\ i # tail
    BY <1>2, <1>3, <1>5, <1>7 DEF Comes, UnappliedAt
  <2>6. \A v, g : ~Comes("destroy", v, g, tail)
    BY <1>1, <1>2
  <2>7. \A v, g, i : Comes("destroy", v, g, i)' <=> Comes("destroy", v, g, i)
    BY <2>5, <2>6
  <2>8. SequenceInv'
    BY <1>1, <1>2, <1>3, <2>3, <2>5, <2>7, SequenceApplies DEF v0
  <2> QED
    BY <2>1, <2>2, <2>4, <2>8
<1>10. PinInv'
  <2> USE DEF PinInv
  <2>1. \A v : (Dropping(v) <=> v = v0) /\ ~Dropping(v)'
    BY <1>2, <1>7 DEF Dropping, v0
  <2>2. HoldInv'
    <3>1. \A id : Held(id)' => Held(id)
      BY <1>2, <1>3, <1>6, <1>7, <2>1 DEF Held
    <3> QED
      BY <1>3, <3>1 DEF HoldInv, NotStale
  <2>3. aud' = "idle" => c.asset = {}
    <3>1. \A id \in c.asset : NotStale(id)
      BY <1>2 DEF HoldInv, Held
    <3> QED
      BY <1>7, <3>1
  <2>4. PointerInv'
    <3> SUFFICES ASSUME NEW v \in Voices, NEW id \in voiceAsset'[v],
                        ~(aud' = "resolve" /\ v = v0)
                 PROVE  voicePointer'[v] = asset'[id.index]
      BY <1>7 DEF PointerInv, v0
    <3>1. v # v0
      BY <1>6, <1>7, <2>3
    <3> QED
      BY <1>2, <1>3, <1>6, <3>1 DEF PointerInv, v0
  <2>5. CountInv'
    <3> SUFFICES ASSUME NEW s \in Assets
                 PROVE  pins'[s] = Cardinality(CreatingPins(s)') + Cardinality(QueuedPins(s)')
                           + Cardinality(ApplyingPins(s)') + Cardinality(VoicePins(s)')
      BY DEF CountInv
    <3>1. CreatingPins(s)' = CreatingPins(s)
      BY <1>3 DEF CreatingPins
    <3>2. QueuedPins(s)' = QueuedPins(s)
      BY <1>2, <1>3 DEF QueuedPins, Pending
    <3>3. ApplyingPins(s) = IF Pending(c, s) THEN {c} ELSE {}
      BY <1>2 DEF ApplyingPins
    <3>4. ApplyingPins(s)' = {}
      BY <1>7 DEF ApplyingPins
    <3>5. VoicePins(s)' = IF Pending(c, s) THEN VoicePins(s) \cup {v0} ELSE VoicePins(s)
      BY <1>1, <1>2, <1>6, <2>1 DEF VoicePins, Pending, v0
    <3>6. v0 \notin VoicePins(s)
      BY <2>1 DEF VoicePins
    <3>7. IsFiniteSet(VoicePins(s)) /\ Cardinality(VoicePins(s)) \in Nat
      BY PinSetsFinite, FS_CardinalityType DEF SlotInv
    <3>8. Cardinality(VoicePins(s) \cup {v0}) = Cardinality(VoicePins(s)) + 1
      BY <3>6, <3>7, FS_AddElement
    <3>9. Cardinality({c}) = 1 /\ Cardinality(ApplyingPins(s)') = 0
      BY <3>4, FS_Singleton, FS_EmptySet
    <3>10. pins'[s] = Cardinality(CreatingPins(s)) + Cardinality(QueuedPins(s))
                      + Cardinality(ApplyingPins(s)) + Cardinality(VoicePins(s))
      BY <1>3 DEF CountInv
    <3>11. Cardinality(CreatingPins(s)) \in Nat /\ Cardinality(QueuedPins(s)) \in Nat
      BY PinSetsFinite, FS_CardinalityType DEF SlotInv
    <3>12. CASE Pending(c, s)
      BY <3>1, <3>2, <3>3, <3>5, <3>7, <3>8, <3>9, <3>10, <3>11, <3>12
    <3>13. CASE ~Pending(c, s)
      <4>1. Cardinality(ApplyingPins(s)) = 0
        BY <3>3, <3>13, FS_EmptySet
      <4> QED
        BY <3>1, <3>2, <3>5, <3>9, <3>10, <3>13, <4>1
    <3> QED
      BY <3>12, <3>13
  <2> QED
    BY <2>2, <2>4, <2>5
<1> QED
  BY <1>3, <1>8, <1>9, <1>10

(* The voice finds the asset it holds. *)
LEMMA Resolves ==
  ASSUME Inv, ApplyResolves
  PROVE  Inv'
<1> USE DEF Inv
<1>1. PICK c \in applying : \E id \in c.asset :
        voicePointer' = [voicePointer EXCEPT ![c.voice.index] = published[id.index]]
  BY DEF ApplyResolves
<1>2. PICK id0 \in c.asset :
        voicePointer' = [voicePointer EXCEPT ![c.voice.index] = published[id0.index]]
  BY <1>1
<1>3. /\ aud = "resolve" /\ aud' = "idle" /\ applying' = {} /\ UNCHANGED audioSees
      /\ UNCHANGED <<queue, tail, voiceState, voiceGeneration, voiceAsset, owner, heap>>
      /\ applying = {c} /\ c.voice.index \in Voices /\ OneAsset(c) /\ c \in Command
  BY Applied DEF ApplyResolves, SlotInv, Done
<1>4. /\ UNCHANGED <<generation, asset, published, pins, ctl, scan, inUse, nextGeneration,
                     creating, creates, handles, head>>
      /\ StoreTypeOK' /\ StoreInv'
  BY <1>3, AudioSees
<1>5. voiceAsset[c.voice.index] = c.asset /\ id0.index \in Assets
  BY <1>3 DEF SlotInv, ThreadsInv, Command, AssetId
<1>6. voicePointer \in [Voices -> SUBSET AssetObject]
      /\ published \in [Assets -> SUBSET AssetObject]
  BY DEF TypeInv, TypeOK, StoreTypeOK
<1>7. TypeInv'
  <2>1. voicePointer' \in [Voices -> SUBSET AssetObject]
    BY <1>2, <1>3, <1>5, <1>6
  <2> QED
    BY <1>3, <1>4, <2>1 DEF TypeInv, TypeOK
<1>8. SlotInv'
  <2> USE DEF SlotInv
  <2>1. ThreadsInv' /\ CommandsInv' /\ HandlesInv'
    BY <1>3, <1>4 DEF ThreadsInv, CommandsInv, HandlesInv
  <2>2. ActiveInv' /\ \A v \in Voices : Active(v)' <=> Active(v)
    BY <1>3, <1>4 DEF ActiveInv, Active
  <2>3. \A type, v, g, i : Comes(type, v, g, i)' <=> Comes(type, v, g, i)
    BY <1>3, <1>4 DEF Comes, UnappliedAt
  <2>4. SequenceInv'
    BY <1>3, <1>4, <2>2, <2>3, SequenceKept
  <2> QED
    BY <2>1, <2>2, <2>4
<1>9. PinInv'
  <2> USE DEF PinInv
  <2>1. \A v : ~Dropping(v) /\ ~Dropping(v)'
    BY <1>3 DEF Dropping
  <2>2. \A id : Held(id)' => Held(id)
    BY <1>3, <1>4, <2>1 DEF Held
  <2>3. Held(id0)
    BY <1>3, <1>5, <2>1 DEF Held
  <2>4. pins[id0.index] # 0
    BY <1>5, <2>3, PinnedIffHeld DEF SlotInv
  <2>5. published[id0.index] = asset[id0.index]
    BY <1>5, <2>4 DEF StoreInv, ScanInv
  <2>6. PointerInv'
    <3> SUFFICES ASSUME NEW v \in Voices, NEW id \in voiceAsset[v]
                 PROVE  voicePointer'[v] = asset[id.index]
      BY <1>3, <1>4 DEF PointerInv
    <3>1. CASE v = c.voice.index
      <4>1. id = id0
        BY <1>3, <1>5, <3>1 DEF OneAsset
      <4> QED
        BY <1>2, <1>6, <2>5, <3>1, <4>1
    <3>2. CASE v # c.voice.index
      BY <1>2, <1>3, <1>6, <3>2 DEF PointerInv
    <3> QED
      BY <3>1, <3>2
  <2>7. ASSUME NEW s \in Assets
        PROVE  /\ CreatingPins(s)' = CreatingPins(s) /\ QueuedPins(s)' = QueuedPins(s)
               /\ ApplyingPins(s)' = ApplyingPins(s) /\ VoicePins(s)' = VoicePins(s)
    <3>1. CreatingPins(s)' = CreatingPins(s)
      BY <1>4 DEF CreatingPins
    <3>2. QueuedPins(s)' = QueuedPins(s)
      BY <1>3, <1>4 DEF QueuedPins, Pending
    <3>3. ApplyingPins(s)' = {} /\ ApplyingPins(s) = {}
      BY <1>3 DEF ApplyingPins
    <3>4. VoicePins(s)' = VoicePins(s)
      BY <1>3, <2>1 DEF VoicePins
    <3> QED
      BY <3>1, <3>2, <3>3, <3>4
  <2> QED
    BY <1>4, <2>2, <2>6, <2>7, PinsKept
<1> QED
  BY <1>4, <1>7, <1>8, <1>9

(* A command leaves the queue for the heap, *)
LEMMA PopsScheduled ==
  ASSUME Inv, PopScheduled
  PROVE  Inv'
<1> USE DEF Inv
<1>1. /\ aud = "idle" /\ aud' = "idle" /\ applying' = applying /\ UNCHANGED audioSees
      /\ queue[tail + 1].scheduled /\ heap' = heap \cup {queue[tail + 1]}
      /\ Fifo!Pop
      /\ UNCHANGED <<voiceState, voiceGeneration, voiceAsset, voicePointer, owner>>
  BY DEF PopScheduled, slots
<1>2. /\ UNCHANGED <<generation, asset, published, pins, ctl, scan, inUse, nextGeneration,
                     creating, creates, handles, head>>
      /\ StoreTypeOK' /\ StoreInv'
  BY <1>1, AudioSees
<1>3. /\ head \in Nat /\ tail \in Nat /\ tail < head /\ tail' = tail + 1
      /\ queue[tail + 1] \in Command
      /\ \A i \in (tail + 2)..head : queue'[i] = queue[i]
      /\ (tail + 1)..head = (tail + 2)..head \cup {tail + 1}
      /\ tail + 1 \notin (tail + 2)..head /\ tail + 1 + 1 = tail + 2
      /\ queue' \in [(tail + 2)..head -> Command]
  BY <1>1, Popped
<1> DEFINE c == queue[tail + 1]
<1>4. c.type \in {"start", "stop"} /\ c.voice \in handles /\ OneAsset(c) /\ c.asset = {}
  BY <1>1, <1>3 DEF SlotInv, CommandsInv, Command, OneAsset
<1>5. applying = {} /\ applying' = {}
  BY <1>1 DEF SlotInv, ThreadsInv
<1> HIDE DEF c
<1>6. TypeInv'
  BY <1>1, <1>2, <1>3, <1>5 DEF TypeInv, TypeOK
<1>7. SlotInv'
  <2> USE DEF SlotInv
  <2>1. ThreadsInv' /\ HandlesInv'
    BY <1>1, <1>2, <1>5 DEF ThreadsInv, HandlesInv
  <2>2. CommandsInv'
    BY <1>1, <1>2, <1>3, <1>4, <1>5 DEF CommandsInv, c
  <2>3. ActiveInv' /\ \A v \in Voices : Active(v)' <=> Active(v)
    BY <1>1, <1>2 DEF ActiveInv, Active
  <2>4. ASSUME NEW type \in {"create", "destroy"}, NEW v, NEW g, NEW i
        PROVE  Comes(type, v, g, i)' <=> Comes(type, v, g, i)
    <3>1. CASE i = tail + 1
      <4>1. ~Comes(type, v, g, i)'
        BY <1>1, <1>2, <1>3, <1>5, <3>1 DEF Comes, UnappliedAt
      <4>2. UnappliedAt(i) = {c}
        BY <1>1, <1>3, <1>5, <3>1 DEF UnappliedAt, c
      <4> QED
        BY <1>4, <4>1, <4>2 DEF Comes
    <3>2. CASE i # tail + 1
      BY <1>1, <1>2, <1>3, <1>5, <3>2 DEF Comes, UnappliedAt
    <3> QED
      BY <3>1, <3>2
  <2>5. SequenceInv'
    BY <1>1, <1>2, <2>3, <2>4, SequenceKept
  <2> QED
    BY <2>1, <2>2, <2>3, <2>5
<1>8. PinInv'
  <2> USE DEF PinInv
  <2>1. \A v : ~Dropping(v) /\ ~Dropping(v)'
    BY <1>1 DEF Dropping
  <2>2. \A id : Held(id)' => Held(id)
    BY <1>1, <1>2, <1>3, <1>5, <2>1 DEF Held
  <2>3. PointerInv'
    BY <1>1, <1>2 DEF PointerInv
  <2>4. ASSUME NEW s \in Assets
        PROVE  /\ CreatingPins(s)' = CreatingPins(s) /\ QueuedPins(s)' = QueuedPins(s)
               /\ ApplyingPins(s)' = ApplyingPins(s) /\ VoicePins(s)' = VoicePins(s)
    <3>1. CreatingPins(s)' = CreatingPins(s)
      BY <1>2 DEF CreatingPins
    <3>2. QueuedPins(s)' = QueuedPins(s)
      BY <1>2, <1>3, <1>4 DEF QueuedPins, Pending, c
    <3>3. ApplyingPins(s)' = ApplyingPins(s)
      BY <1>5 DEF ApplyingPins
    <3>4. VoicePins(s)' = VoicePins(s)
      BY <1>1, <2>1 DEF VoicePins
    <3> QED
      BY <3>1, <3>2, <3>3, <3>4
  <2> QED
    BY <1>2, <2>2, <2>3, <2>4, PinsKept
<1> QED
  BY <1>2, <1>6, <1>7, <1>8

(* or to be applied, *)
LEMMA PopsImmediate ==
  ASSUME Inv, PopImmediate
  PROVE  Inv'
<1> USE DEF Inv
<1>1. /\ aud = "idle" /\ aud' = "apply" /\ applying' = {queue[tail + 1]} /\ UNCHANGED audioSees
      /\ Fifo!Pop
      /\ UNCHANGED <<voiceState, voiceGeneration, voiceAsset, voicePointer, owner, heap>>
  BY DEF PopImmediate, slots
<1>2. /\ UNCHANGED <<generation, asset, published, pins, ctl, scan, inUse, nextGeneration,
                     creating, creates, handles, head>>
      /\ StoreTypeOK' /\ StoreInv'
  BY <1>1, AudioSees
<1>3. /\ head \in Nat /\ tail \in Nat /\ tail < head /\ tail' = tail + 1
      /\ queue[tail + 1] \in Command
      /\ \A i \in (tail + 2)..head : queue'[i] = queue[i]
      /\ (tail + 1)..head = (tail + 2)..head \cup {tail + 1}
      /\ tail + 1 \notin (tail + 2)..head /\ tail + 1 + 1 = tail + 2
      /\ queue' \in [(tail + 2)..head -> Command]
  BY <1>1, Popped
<1>4. PICK c \in Command : c = queue[tail + 1]
  BY <1>3
<1>5. c.voice \in handles /\ OneAsset(c) /\ applying = {} /\ applying' = {c}
  BY <1>1, <1>3, <1>4 DEF SlotInv, CommandsInv, ThreadsInv
<1>6. TypeInv'
  BY <1>1, <1>2, <1>3, <1>5 DEF TypeInv, TypeOK
<1>7. SlotInv'
  <2> USE DEF SlotInv
  <2>1. ThreadsInv' /\ HandlesInv'
    BY <1>1, <1>2, <1>5 DEF ThreadsInv, HandlesInv
  <2>2. CommandsInv'
    BY <1>1, <1>2, <1>3, <1>5 DEF CommandsInv
  <2>3. ActiveInv' /\ \A v \in Voices : Active(v)' <=> Active(v)
    BY <1>1, <1>2 DEF ActiveInv, Active
  <2>4. ASSUME NEW type, NEW v, NEW g, NEW i
        PROVE  Comes(type, v, g, i)' <=> Comes(type, v, g, i)
    <3>1. UnappliedAt(i)' = UnappliedAt(i)
      <4>1. CASE i = tail + 1
        <5>1. UnappliedAt(i) = {c}
          BY <1>1, <1>3, <1>4, <1>5, <4>1 DEF UnappliedAt
        <5>2. i = tail' /\ i \notin (tail' + 1)..head' /\ i # head' + 1
          BY <1>2, <1>3, <4>1
        <5>3. UnappliedAt(i)' = {c}
          BY <1>1, <1>5, <5>2 DEF UnappliedAt
        <5> QED
          BY <5>1, <5>3
      <4>2. CASE i # tail + 1
        BY <1>1, <1>2, <1>3, <1>5, <4>2 DEF UnappliedAt
      <4> QED
        BY <4>1, <4>2
    <3> QED
      BY <3>1 DEF Comes
  <2>5. SequenceInv'
    BY <1>1, <1>2, <2>3, <2>4, SequenceKept
  <2> QED
    BY <2>1, <2>2, <2>3, <2>5
<1>8. PinInv'
  <2> USE DEF PinInv
  <2>1. \A v : ~Dropping(v) /\ ~Dropping(v)'
    BY <1>1 DEF Dropping
  <2>2. HoldInv'
    <3>1. \A id : Held(id)' => Held(id)
      BY <1>1, <1>2, <1>3, <1>4, <1>5, <2>1 DEF Held
    <3> QED
      BY <1>2, <3>1 DEF HoldInv, NotStale
  <2>3. PointerInv'
    BY <1>1, <1>2 DEF PointerInv
  <2>4. CountInv'
    <3> SUFFICES ASSUME NEW s \in Assets
                 PROVE  pins'[s] = Cardinality(CreatingPins(s)') + Cardinality(QueuedPins(s)')
                           + Cardinality(ApplyingPins(s)') + Cardinality(VoicePins(s)')
      BY DEF CountInv
    <3>1. CreatingPins(s)' = CreatingPins(s)
      BY <1>2 DEF CreatingPins
    <3>2. QueuedPins(s)' = QueuedPins(s) \ {tail + 1}
      BY <1>2, <1>3 DEF QueuedPins, Pending
    <3>3. tail + 1 \in QueuedPins(s) <=> Pending(c, s)
      BY <1>3, <1>4 DEF QueuedPins
    <3>4. /\ ApplyingPins(s) = {}
          /\ ApplyingPins(s)' = IF Pending(c, s) THEN {c} ELSE {}
      BY <1>1, <1>5 DEF ApplyingPins, Pending
    <3>5. VoicePins(s)' = VoicePins(s)
      BY <1>1, <2>1 DEF VoicePins
    <3>6. IsFiniteSet(QueuedPins(s)) /\ Cardinality(QueuedPins(s)) \in Nat
      BY PinSetsFinite, FS_CardinalityType DEF SlotInv
    <3>7. Cardinality(QueuedPins(s)') =
            IF Pending(c, s) THEN Cardinality(QueuedPins(s)) - 1 ELSE Cardinality(QueuedPins(s))
      BY <3>2, <3>3, <3>6, FS_RemoveElement
    <3>8. /\ Cardinality(ApplyingPins(s)) = 0
          /\ Cardinality(ApplyingPins(s)') = IF Pending(c, s) THEN 1 ELSE 0
      BY <3>4, FS_Singleton, FS_EmptySet
    <3>9. pins'[s] = Cardinality(CreatingPins(s)) + Cardinality(QueuedPins(s))
                      + Cardinality(ApplyingPins(s)) + Cardinality(VoicePins(s))
      BY <1>2 DEF CountInv
    <3>10. /\ Cardinality(CreatingPins(s)) \in Nat /\ Cardinality(VoicePins(s)) \in Nat
      BY PinSetsFinite, FS_CardinalityType DEF SlotInv
    <3> QED
      BY <3>1, <3>5, <3>6, <3>7, <3>8, <3>9, <3>10
  <2> QED
    BY <2>2, <2>3, <2>4
<1> QED
  BY <1>2, <1>6, <1>7, <1>8

(* and an event leaves the heap to be applied. *)
LEMMA PopsEvent ==
  ASSUME Inv, PopEvent
  PROVE  Inv'
<1> USE DEF Inv
<1>1. PICK c \in heap : heap' = heap \ {c} /\ applying' = {c}
  BY DEF PopEvent
<1>2. /\ aud = "idle" /\ aud' = "apply" /\ UNCHANGED audioSees
      /\ UNCHANGED <<queue, tail, voiceState, voiceGeneration, voiceAsset, voicePointer, owner>>
  BY DEF PopEvent, slots
<1>3. /\ UNCHANGED <<generation, asset, published, pins, ctl, scan, inUse, nextGeneration,
                     creating, creates, handles, head>>
      /\ StoreTypeOK' /\ StoreInv'
  BY <1>2, AudioSees
<1>4. /\ c \in Command /\ c.voice \in handles /\ OneAsset(c) /\ c.type \in {"start", "stop"}
      /\ c.asset = {} /\ applying = {}
  BY <1>2 DEF TypeInv, TypeOK, SlotInv, CommandsInv, ThreadsInv, OneAsset
<1>5. TypeInv'
  BY <1>1, <1>2, <1>3, <1>4 DEF TypeInv, TypeOK
<1>6. SlotInv'
  <2> USE DEF SlotInv
  <2>1. ThreadsInv' /\ HandlesInv'
    BY <1>1, <1>2, <1>3 DEF ThreadsInv, HandlesInv
  <2>2. CommandsInv'
    BY <1>1, <1>2, <1>3, <1>4 DEF CommandsInv
  <2>3. ActiveInv' /\ \A v \in Voices : Active(v)' <=> Active(v)
    BY <1>2, <1>3 DEF ActiveInv, Active
  <2>4. ASSUME NEW type \in {"create", "destroy"}, NEW v, NEW g, NEW i
        PROVE  Comes(type, v, g, i)' <=> Comes(type, v, g, i)
    <3>1. \A d : d.type = type => (d \in UnappliedAt(i)' <=> d \in UnappliedAt(i))
      BY <1>1, <1>2, <1>3, <1>4 DEF UnappliedAt
    <3> QED
      BY <3>1 DEF Comes
  <2>5. SequenceInv'
    BY <1>2, <1>3, <2>3, <2>4, SequenceKept
  <2> QED
    BY <2>1, <2>2, <2>3, <2>5
<1>7. PinInv'
  <2> USE DEF PinInv
  <2>1. \A v : ~Dropping(v) /\ ~Dropping(v)'
    BY <1>2 DEF Dropping
  <2>2. \A id : Held(id)' => Held(id)
    BY <1>1, <1>2, <1>3, <1>4, <2>1 DEF Held
  <2>3. PointerInv'
    BY <1>2, <1>3 DEF PointerInv
  <2>4. ASSUME NEW s \in Assets
        PROVE  /\ CreatingPins(s)' = CreatingPins(s) /\ QueuedPins(s)' = QueuedPins(s)
               /\ ApplyingPins(s)' = ApplyingPins(s) /\ VoicePins(s)' = VoicePins(s)
    <3>1. CreatingPins(s)' = CreatingPins(s)
      BY <1>3 DEF CreatingPins
    <3>2. QueuedPins(s)' = QueuedPins(s)
      BY <1>2, <1>3 DEF QueuedPins, Pending
    <3>3. ApplyingPins(s)' = {} /\ ApplyingPins(s) = {}
      BY <1>1, <1>4 DEF ApplyingPins, Pending
    <3>4. VoicePins(s)' = VoicePins(s)
      BY <1>2, <2>1 DEF VoicePins
    <3> QED
      BY <3>1, <3>2, <3>3, <3>4
  <2> QED
    BY <1>3, <2>2, <2>3, <2>4, PinsKept
<1> QED
  BY <1>3, <1>5, <1>6, <1>7

-----------------------------------------------------------------------------
(* The steps of the control thread. *)

(* What the creation of a voice, or another command, leaves alone. *)
LEMMA ControlSees ==
  ASSUME Inv, UNCHANGED <<slots, audio, reclaimVars, loading>>
  PROVE  /\ UNCHANGED <<voiceState, voiceGeneration, voiceAsset, voicePointer, owner, heap, aud,
                        applying, scan, after, loading>>
         /\ UNCHANGED storeVars => /\ UNCHANGED <<generation, asset, pins>>
                                   /\ StoreTypeOK'
         /\ UNCHANGED storeVars /\ {ctl, ctl'} \subseteq {"idle", "create"} => StoreInv'
<1>1. UNCHANGED <<voiceState, voiceGeneration, voiceAsset, voicePointer, owner, heap, aud,
                  applying, scan, after, loading>>
  BY DEF slots, audio, reclaimVars
<1>2. ASSUME UNCHANGED storeVars
      PROVE  /\ UNCHANGED <<generation, asset, pins>> /\ StoreTypeOK'
             /\ {ctl, ctl'} \subseteq {"idle", "create"} => StoreInv'
  <2>1. UNCHANGED <<slotState, key, bytes, asset, generation, published, pins, keyToIndex,
                    totalBytes, loads, ids>>
    BY <1>2 DEF storeVars, slotVars
  <2>2. scan \in Assets /\ pins \in [Assets -> Nat]
    BY DEF Inv, TypeInv, TypeOK, StoreTypeOK
  <2>3. StoreTypeOK'
    BY <1>1, <2>1, <2>2, StoreTypesKept DEF Inv, storeRest
  <2>4. {ctl, ctl'} \subseteq {"idle", "create"} => StoreInv'
    BY <1>1, <2>1, <2>2, StoreKept DEF Inv
  <2> QED
    BY <2>1, <2>3, <2>4
<1> QED
  BY <1>1, <1>2

(* A slot is reserved, and a creation is to come last. *)
LEMMA Begins ==
  ASSUME Inv, NEW assetIds \in SUBSET AssetId, \A a, b \in assetIds : a = b,
         CreateBegins(assetIds), StoreTypeOK'
  PROVE  /\ TypeInv' /\ SlotInv'
         /\ creating = {} /\ ctl = "idle" /\ ctl' = "create"
         /\ \E c : creating' = {c} /\ c.type = "create" /\ c.asset = assetIds
<1> USE DEF Inv, SlotInv
<1>1. PICK v0 \in Voices :
        /\ ReserveSlot(v0)
        /\ creating' = {CommandFor("create",
             [index |-> v0, generation |-> nextGeneration'[v0], serial |-> creates + 1],
             assetIds, FALSE)}
  BY DEF CreateBegins
<1>2. /\ ctl = "idle" /\ ctl' = "create" /\ creates' = creates + 1
      /\ UNCHANGED <<handles, queue, head, tail, voiceState, voiceGeneration, voiceAsset,
                     voicePointer, owner, heap, aud, applying>>
  BY DEF CreateBegins, pipe, slots, audio
<1>3. /\ inUse \in [Voices -> BOOLEAN] /\ nextGeneration \in [Voices -> Nat] /\ creates \in Nat
      /\ head \in Nat /\ tail \in Nat /\ tail <= head
  BY DEF TypeInv, TypeOK
<1>4. /\ ~inUse[v0] /\ inUse' = [inUse EXCEPT ![v0] = TRUE]
      /\ nextGeneration' = [nextGeneration EXCEPT ![v0] = @ + 1]
  BY <1>1 DEF ReserveSlot, FirstUnused
<1>5. /\ inUse'[v0] /\ nextGeneration'[v0] = nextGeneration[v0] + 1
      /\ \A v \in Voices : v # v0 => /\ inUse'[v] = inUse[v]
                                     /\ nextGeneration'[v] = nextGeneration[v]
      /\ inUse' \in [Voices -> BOOLEAN] /\ nextGeneration' \in [Voices -> Nat]
  BY <1>3, <1>4
<1>6. PICK c \in Command :
        /\ creating' = {c} /\ c.type = "create" /\ c.asset = assetIds /\ ~c.scheduled
        /\ c.voice.index = v0 /\ c.voice.generation = nextGeneration[v0] + 1
  <2> DEFINE h == [index |-> v0, generation |-> nextGeneration[v0] + 1, serial |-> creates + 1]
             d == [type |-> "create", voice |-> h, asset |-> assetIds, scheduled |-> FALSE,
                   position |-> head + 1]
  <2>1. h \in VoiceId
    BY <1>3 DEF VoiceId
  <2>2. d \in Command
    BY <1>3, <2>1 DEF Command
  <2>3. creating' = {d}
    BY <1>1, <1>5 DEF CommandFor
  <2> QED
    BY <2>2, <2>3
<1>7. creating = {}
  BY <1>2 DEF ThreadsInv
<1>8. TypeInv'
  BY <1>2, <1>3, <1>5, <1>6 DEF TypeInv, TypeOK
<1>9. ThreadsInv'
  BY <1>2, <1>6 DEF ThreadsInv, IsValidTarget
<1>10. CommandsInv'
  BY <1>2, <1>6 DEF CommandsInv, OneAsset
<1>11. HandlesInv'
  <2>1. \A h \in handles : h.index \in Voices /\ h.generation \in Nat
    BY DEF TypeInv, TypeOK, VoiceId
  <2>2. \A h \in handles : /\ h.generation <= nextGeneration'[h.index]
                           /\ h.index = v0 => h.generation < nextGeneration[v0] + 1
    <3> SUFFICES ASSUME NEW h \in handles
                 PROVE  /\ h.generation <= nextGeneration'[h.index]
                        /\ h.index = v0 => h.generation < nextGeneration[v0] + 1
      OBVIOUS
    <3>1. h.generation <= nextGeneration[h.index]
      BY DEF HandlesInv
    <3>2. CASE h.index = v0
      BY <1>3, <1>5, <2>1, <3>1, <3>2
    <3>3. CASE h.index # v0
      BY <1>5, <2>1, <3>1, <3>3
    <3> QED
      BY <3>2, <3>3
  <2> QED
    BY <1>2, <1>5, <1>6, <2>2 DEF HandlesInv
<1>12. ActiveInv'
  <2> SUFFICES ASSUME NEW v \in Voices
               PROVE  /\ voiceGeneration[v] <= nextGeneration'[v]
                      /\ Active(v)' => \E h \in handles : h.index = v
                           /\ h.generation = voiceGeneration[v] /\ h.serial = owner[v]
                      /\ \A a, b \in voiceAsset[v] : a = b
    BY <1>2 DEF ActiveInv
  <2>1. voiceGeneration[v] <= nextGeneration[v] /\ voiceGeneration[v] \in Nat
    BY DEF ActiveInv, TypeInv, TypeOK
  <2>2. voiceGeneration[v] <= nextGeneration'[v]
    BY <1>3, <1>5, <2>1
  <2> QED
    BY <1>2, <2>2 DEF ActiveInv, Active
<1>13. SequenceInv'
  <2>1. \A type, v, g, i : Comes(type, v, g, i)' <=>
          \/ Comes(type, v, g, i)
          \/ /\ i = head + 1 /\ type = "create" /\ v = v0 /\ g = nextGeneration[v0] + 1
    <3>1. \A i, d : d \in UnappliedAt(i)' <=> d \in UnappliedAt(i) \/ (i = head + 1 /\ d = c)
      BY <1>2, <1>6, <1>7 DEF UnappliedAt
    <3> QED
      BY <1>6, <3>1 DEF Comes
  <2> QED
    BY <1>2, <1>4, <1>7, <2>1, SequenceCreates
<1> QED
  BY <1>2, <1>6, <1>7, <1>8, <1>9, <1>10, <1>11, <1>12, <1>13

(* A voice without an asset, *)
LEMMA Creates ==
  ASSUME Inv, CreateVoice
  PROVE  Inv'
<1> USE DEF Inv
<1>1. /\ UNCHANGED storeVars /\ UNCHANGED <<slots, audio, reclaimVars, loading>>
      /\ CreateBegins({}) /\ UNCHANGED <<queue, head, tail>>
  BY DEF CreateVoice, CreateBegins, pipe
<1>2. /\ UNCHANGED <<voiceState, voiceGeneration, voiceAsset, voicePointer, owner, heap, aud,
                     applying, generation, asset, pins>>
      /\ StoreTypeOK' /\ ({ctl, ctl'} \subseteq {"idle", "create"} => StoreInv')
  BY <1>1, ControlSees
<1>3. /\ TypeInv' /\ SlotInv' /\ creating = {} /\ ctl = "idle" /\ ctl' = "create"
      /\ \E c : creating' = {c} /\ c.type = "create" /\ c.asset = {}
  BY <1>1, <1>2, Begins
<1>4. PinInv'
  <2> USE DEF PinInv
  <2>1. \A v : Dropping(v)' <=> Dropping(v)
    BY <1>2 DEF Dropping
  <2>2. \A id : Held(id)' => Held(id)
    BY <1>1, <1>2, <1>3, <2>1 DEF Held
  <2>3. PointerInv'
    BY <1>2 DEF PointerInv
  <2>4. ASSUME NEW s \in Assets
        PROVE  /\ CreatingPins(s)' = CreatingPins(s) /\ QueuedPins(s)' = QueuedPins(s)
               /\ ApplyingPins(s)' = ApplyingPins(s) /\ VoicePins(s)' = VoicePins(s)
    <3>1. CreatingPins(s)' = {} /\ CreatingPins(s) = {}
      BY <1>3 DEF CreatingPins, Pending
    <3>2. QueuedPins(s)' = QueuedPins(s)
      BY <1>1 DEF QueuedPins, Pending
    <3>3. ApplyingPins(s)' = ApplyingPins(s)
      BY <1>2 DEF ApplyingPins
    <3>4. VoicePins(s)' = VoicePins(s)
      BY <1>2, <2>1 DEF VoicePins
    <3> QED
      BY <3>1, <3>2, <3>3, <3>4
  <2> QED
    BY <1>2, <2>2, <2>3, <2>4, PinsKept
<1> QED
  BY <1>2, <1>3, <1>4

(* and one that pins its asset. *)
LEMMA CreatesOf ==
  ASSUME Inv, NEW id0 \in ids, CreateVoiceOf(id0)
  PROVE  Inv'
<1> USE DEF Inv
<1>1. /\ UNCHANGED <<slots, audio, reclaimVars, loading>>
      /\ CreateBegins({id0}) /\ UNCHANGED <<queue, head, tail>>
      /\ Lookup(id0, "resident")
      /\ pins' = [pins EXCEPT ![id0.index] = @ + 1]
      /\ UNCHANGED <<slotState, key, bytes, asset, generation, published, keyToIndex, totalBytes,
                     loads, ids>>
  BY DEF CreateVoiceOf, CreateBegins, pipe, Pin
<1>2. UNCHANGED <<voiceState, voiceGeneration, voiceAsset, voicePointer, owner, heap, aud,
                  applying, scan, after, loading>>
  BY <1>1, ControlSees
<1>3. /\ pins \in [Assets -> Nat] /\ scan \in Assets /\ id0.index \in Assets
      /\ id0 \in AssetId /\ slotState[id0.index] = "resident" /\ NotStale(id0)
  BY <1>1 DEF TypeInv, TypeOK, StoreTypeOK, Lookup, NotStale
<1>4. pins' \in [Assets -> Nat]
      /\ \A s \in Assets : pins'[s] = IF s = id0.index THEN pins[s] + 1 ELSE pins[s]
  BY <1>1, <1>3
<1>5. StoreTypeOK'
  BY <1>1, <1>2, <1>4, StoreTypesKept DEF storeRest
<1>6. PICK c : /\ TypeInv' /\ SlotInv' /\ creating = {} /\ ctl = "idle" /\ ctl' = "create"
               /\ creating' = {c} /\ c.type = "create" /\ c.asset = {id0}
  BY <1>1, <1>3, <1>5, Begins
<1>7. StoreInv'
  BY <1>1, <1>2, <1>3, <1>6, StoreKept
<1>8. PinInv'
  <2> USE DEF PinInv
  <2>1. \A v : Dropping(v)' <=> Dropping(v)
    BY <1>2 DEF Dropping
  <2>2. HoldInv'
    <3>1. \A id : Held(id)' => Held(id) \/ id = id0
      BY <1>1, <1>2, <1>6, <2>1 DEF Held
    <3>2. asset[id0.index] # {}
      BY <1>3 DEF StoreInv, MemoryInv
    <3> QED
      BY <1>1, <1>3, <3>1, <3>2 DEF HoldInv, NotStale
  <2>3. PointerInv'
    BY <1>1, <1>2 DEF PointerInv
  <2>4. CountInv'
    <3> SUFFICES ASSUME NEW s \in Assets
                 PROVE  pins'[s] = Cardinality(CreatingPins(s)') + Cardinality(QueuedPins(s)')
                           + Cardinality(ApplyingPins(s)') + Cardinality(VoicePins(s)')
      BY DEF CountInv
    <3>1. /\ CreatingPins(s) = {}
          /\ CreatingPins(s)' = IF s = id0.index THEN {c} ELSE {}
      BY <1>6 DEF CreatingPins, Pending
    <3>2. QueuedPins(s)' = QueuedPins(s)
      BY <1>1 DEF QueuedPins, Pending
    <3>3. ApplyingPins(s)' = ApplyingPins(s)
      BY <1>2 DEF ApplyingPins
    <3>4. VoicePins(s)' = VoicePins(s)
      BY <1>2, <2>1 DEF VoicePins
    <3>5. /\ Cardinality(CreatingPins(s)) = 0
          /\ Cardinality(CreatingPins(s)') = IF s = id0.index THEN 1 ELSE 0
      BY <3>1, FS_Singleton, FS_EmptySet
    <3>6. pins[s] = Cardinality(CreatingPins(s)) + Cardinality(QueuedPins(s))
                      + Cardinality(ApplyingPins(s)) + Cardinality(VoicePins(s))
      BY DEF CountInv
    <3>7. /\ Cardinality(QueuedPins(s)) \in Nat /\ Cardinality(ApplyingPins(s)) \in Nat
          /\ Cardinality(VoicePins(s)) \in Nat
      BY PinSetsFinite, FS_CardinalityType DEF SlotInv
    <3> QED
      BY <1>4, <3>2, <3>3, <3>4, <3>5, <3>6, <3>7
  <2> QED
    BY <2>2, <2>3, <2>4
<1> QED
  BY <1>6, <1>7, <1>8

(* The creation goes into the queue, *)
LEMMA Submits ==
  ASSUME Inv, CreateSubmits
  PROVE  Inv'
<1> USE DEF Inv
<1>1. PICK c \in creating : Fifo!Push(c) /\ handles' = handles \cup {c.voice}
  BY DEF CreateSubmits
<1>2. /\ ctl = "create" /\ ctl' = "idle" /\ creating' = {}
      /\ UNCHANGED storeVars /\ UNCHANGED <<slots, audio, reclaimVars, loading>>
      /\ UNCHANGED <<inUse, nextGeneration, creates>>
  BY DEF CreateSubmits, reservations
<1>3. /\ UNCHANGED <<voiceState, voiceGeneration, voiceAsset, voicePointer, owner, heap, aud,
                     applying, generation, asset, pins>>
      /\ StoreTypeOK' /\ StoreInv'
  BY <1>2, ControlSees
<1>4. /\ creating = {c} /\ c \in Command /\ c.voice \in VoiceId /\ c.type = "create"
      /\ ~c.scheduled /\ OneAsset(c)
  BY DEF SlotInv, ThreadsInv, CommandsInv, TypeInv, TypeOK, Command
<1>5. /\ head \in Nat /\ tail \in Nat /\ tail <= head /\ head' = head + 1 /\ tail' = tail
      /\ queue'[head + 1] = c
      /\ \A i \in (tail + 1)..head : queue'[i] = queue[i]
      /\ (tail + 1)..(head + 1) = (tail + 1)..head \cup {head + 1}
      /\ head + 1 \notin (tail + 1)..head
      /\ queue' \in [(tail + 1)..(head + 1) -> Command]
  BY <1>1, <1>4, Pushed
<1>6. TypeInv'
  BY <1>1, <1>2, <1>3, <1>4, <1>5 DEF TypeInv, TypeOK
<1>7. SlotInv'
  <2> USE DEF SlotInv
  <2>1. ThreadsInv'
    BY <1>2, <1>3 DEF ThreadsInv, IsValidTarget
  <2>2. CommandsInv'
    BY <1>1, <1>2, <1>3, <1>4, <1>5 DEF CommandsInv
  <2>3. HandlesInv'
    <3>1. \A h \in handles : h.index = c.voice.index =>
            h.generation < c.voice.generation /\ h.generation \in Nat
      BY <1>4 DEF HandlesInv, TypeInv, TypeOK, VoiceId
    <3>2. nextGeneration[c.voice.index] = c.voice.generation /\ c.voice.generation \in Nat
      BY <1>4 DEF HandlesInv, VoiceId
    <3>3. \A h \in handles' : h.generation <= nextGeneration[h.index]
      BY <1>1, <3>2 DEF HandlesInv
    <3>4. \A a, b \in handles' : a.index = b.index /\ a.generation = b.generation => a = b
      BY <1>1, <3>1, <3>2 DEF HandlesInv
    <3> QED
      BY <1>2, <3>3, <3>4 DEF HandlesInv
  <2>4. ActiveInv' /\ \A v \in Voices : Active(v)' <=> Active(v)
    <3>1. \A v \in Voices : Active(v)' <=> Active(v)
      BY <1>3 DEF Active
    <3> QED
      BY <1>1, <1>2, <1>3, <3>1 DEF ActiveInv
  <2>5. \A type, v, g, i : Comes(type, v, g, i)' <=> Comes(type, v, g, i)
    <3>1. \A i, d : d \in UnappliedAt(i)' <=> d \in UnappliedAt(i)
      <4> TAKE i, d
      <4>1. CASE i = head + 1
        BY <1>2, <1>3, <1>4, <1>5, <4>1 DEF UnappliedAt
      <4>2. CASE i # head + 1
        BY <1>2, <1>3, <1>4, <1>5, <4>2 DEF UnappliedAt
      <4> QED
        BY <4>1, <4>2
    <3> QED
      BY <3>1 DEF Comes
  <2>6. SequenceInv'
    BY <1>2, <1>3, <2>4, <2>5, SequenceKept
  <2> QED
    BY <2>1, <2>2, <2>3, <2>4, <2>6
<1>8. PinInv'
  <2> USE DEF PinInv
  <2>1. \A v : Dropping(v)' <=> Dropping(v)
    BY <1>3 DEF Dropping
  <2>2. HoldInv'
    <3>1. \A id : Held(id)' => Held(id)
      BY <1>2, <1>3, <1>4, <1>5, <2>1 DEF Held
    <3> QED
      BY <1>3, <3>1 DEF HoldInv, NotStale
  <2>3. PointerInv'
    BY <1>3 DEF PointerInv
  <2>4. CountInv'
    <3> SUFFICES ASSUME NEW s \in Assets
                 PROVE  pins'[s] = Cardinality(CreatingPins(s)') + Cardinality(QueuedPins(s)')
                           + Cardinality(ApplyingPins(s)') + Cardinality(VoicePins(s)')
      BY DEF CountInv
    <3>1. /\ CreatingPins(s) = IF Pending(c, s) THEN {c} ELSE {}
          /\ CreatingPins(s)' = {}
      BY <1>2, <1>4 DEF CreatingPins
    <3>2. QueuedPins(s)' =
            IF Pending(c, s) THEN QueuedPins(s) \cup {head + 1} ELSE QueuedPins(s)
      BY <1>5 DEF QueuedPins, Pending
    <3>3. head + 1 \notin QueuedPins(s)
      BY <1>5 DEF QueuedPins
    <3>4. ApplyingPins(s)' = ApplyingPins(s)
      BY <1>3 DEF ApplyingPins
    <3>5. VoicePins(s)' = VoicePins(s)
      BY <1>3, <2>1 DEF VoicePins
    <3>6. /\ Cardinality(CreatingPins(s)) = IF Pending(c, s) THEN 1 ELSE 0
          /\ Cardinality(CreatingPins(s)') = 0
      BY <3>1, FS_Singleton, FS_EmptySet
    <3>7. IsFiniteSet(QueuedPins(s)) /\ Cardinality(QueuedPins(s)) \in Nat
      BY PinSetsFinite, FS_CardinalityType DEF SlotInv
    <3>8. Cardinality(QueuedPins(s)') =
            IF Pending(c, s) THEN Cardinality(QueuedPins(s)) + 1 ELSE Cardinality(QueuedPins(s))
      BY <3>2, <3>3, <3>7, FS_AddElement
    <3>9. pins'[s] = Cardinality(CreatingPins(s)) + Cardinality(QueuedPins(s))
                      + Cardinality(ApplyingPins(s)) + Cardinality(VoicePins(s))
      BY <1>3 DEF CountInv
    <3>10. /\ Cardinality(ApplyingPins(s)) \in Nat /\ Cardinality(VoicePins(s)) \in Nat
      BY PinSetsFinite, FS_CardinalityType DEF SlotInv
    <3> QED
      BY <3>4, <3>5, <3>6, <3>7, <3>8, <3>9, <3>10
  <2> QED
    BY <2>2, <2>3, <2>4
<1> QED
  BY <1>3, <1>6, <1>7, <1>8

(* or, when the queue is full, is rolled back with its pin. *)
LEMMA RollsBack ==
  ASSUME Inv, CreateRollsBack
  PROVE  Inv'
<1> USE DEF Inv
<1>1. PICK c \in creating :
        /\ ReleaseSlot(c.voice)
        /\ IF c.asset = {} THEN UNCHANGED storeVars ELSE \E id \in c.asset : Unpin(id)
  BY DEF CreateRollsBack
<1>2. /\ ctl = "create" /\ ctl' = "idle" /\ creating' = {}
      /\ UNCHANGED <<slots, audio, reclaimVars, loading>>
      /\ UNCHANGED <<creates, handles, queue, head, tail>>
  BY DEF CreateRollsBack, pipe
<1>3. UNCHANGED <<voiceState, voiceGeneration, voiceAsset, voicePointer, owner, heap, aud,
                  applying, scan, after, loading>>
  BY <1>2, ControlSees
<1>4. /\ creating = {c} /\ c \in Command /\ c.voice \in VoiceId /\ c.type = "create"
      /\ OneAsset(c) /\ c.asset \subseteq AssetId /\ c.voice.index \in Voices
  BY DEF SlotInv, ThreadsInv, CommandsInv, TypeInv, TypeOK, Command, VoiceId
<1>5. pins \in [Assets -> Nat] /\ scan \in Assets
  BY DEF TypeInv, TypeOK, StoreTypeOK
<1>6. /\ UNCHANGED <<slotState, key, bytes, asset, generation, published, keyToIndex, totalBytes,
                     loads, ids>>
      /\ pins' \in [Assets -> Nat]
      /\ \A s \in Assets : pins'[s] = IF Pending(c, s) /\ pins[s] # 0 THEN pins[s] - 1 ELSE pins[s]
  <2>1. CASE c.asset = {}
    BY <1>1, <1>5, <2>1 DEF storeVars, slotVars, Pending
  <2>2. CASE c.asset # {}
    <3>1. PICK id0 \in c.asset : Unpin(id0)
      BY <1>1, <2>2
    <3>2. id0.index \in Assets
      BY <1>4 DEF AssetId
    <3>3. \A s : Pending(c, s) <=> s = id0.index
      BY <1>4 DEF Pending, OneAsset
    <3>4. pins' = [pins EXCEPT ![id0.index] = IF @ = 0 THEN 0 ELSE @ - 1]
      BY <3>1 DEF Unpin
    <3>5. /\ pins' \in [Assets -> Nat]
          /\ \A s \in Assets :
               pins'[s] = IF Pending(c, s) /\ pins[s] # 0 THEN pins[s] - 1 ELSE pins[s]
      BY <1>5, <3>2, <3>3, <3>4
    <3> QED
      BY <3>1, <3>5 DEF Unpin
  <2> QED
    BY <2>1, <2>2
<1>7. StoreTypeOK' /\ StoreInv'
  BY <1>2, <1>3, <1>5, <1>6, StoreTypesKept, StoreKept DEF storeRest
<1>8. /\ inUse' \in [Voices -> BOOLEAN] /\ nextGeneration' = nextGeneration
      /\ \A v \in Voices : inUse'[v] <=> inUse[v] /\ v # c.voice.index
  <2>1. nextGeneration[c.voice.index] = c.voice.generation
    BY DEF SlotInv, HandlesInv
  <2>2. inUse' = [inUse EXCEPT ![c.voice.index] =
                    @ /\ nextGeneration[c.voice.index] # c.voice.generation]
        /\ nextGeneration' = nextGeneration
    BY <1>1 DEF ReleaseSlot
  <2>3. inUse \in [Voices -> BOOLEAN]
    BY DEF TypeInv, TypeOK
  <2> QED
    BY <1>4, <2>1, <2>2, <2>3
<1>9. TypeInv'
  BY <1>2, <1>3, <1>7, <1>8 DEF TypeInv, TypeOK
<1>10. SlotInv'
  <2> USE DEF SlotInv
  <2>1. ThreadsInv'
    BY <1>2, <1>3 DEF ThreadsInv, IsValidTarget
  <2>2. CommandsInv' /\ HandlesInv'
    BY <1>2, <1>3, <1>8 DEF CommandsInv, HandlesInv
  <2>3. ActiveInv'
    BY <1>2, <1>3, <1>8 DEF ActiveInv, Active
  <2>4. \A i, d : d \in UnappliedAt(i)' <=> d \in UnappliedAt(i) /\ ~(i = head + 1)
    <3>1. head \in Nat /\ tail \in Nat /\ tail <= head
      BY DEF TypeInv, TypeOK
    <3> QED
      BY <1>2, <1>3, <3>1 DEF UnappliedAt
  <2>5. \A v, g : ~Comes("destroy", v, g, head + 1)
    BY <1>4, Places
  <2>6. \A type, v, g, i : Comes(type, v, g, i)' <=> Comes(type, v, g, i) /\ i # head + 1
    BY <2>4 DEF Comes
  <2>7. \A v, g, i : Comes("destroy", v, g, i)' <=> Comes("destroy", v, g, i)
    BY <2>5, <2>6
  <2>8. SequenceInv'
    BY <1>3, <1>4, <1>8, <2>6, <2>7, SequenceWithdraws
  <2> QED
    BY <2>1, <2>2, <2>3, <2>8
<1>11. PinInv'
  <2> USE DEF PinInv
  <2>1. \A v : Dropping(v)' <=> Dropping(v)
    BY <1>3 DEF Dropping
  <2>2. HoldInv'
    <3>1. \A id : Held(id)' => Held(id)
      BY <1>2, <1>3, <2>1 DEF Held
    <3> QED
      BY <1>6, <3>1 DEF HoldInv, NotStale
  <2>3. PointerInv'
    BY <1>3, <1>6 DEF PointerInv
  <2>4. CountInv'
    <3> SUFFICES ASSUME NEW s \in Assets
                 PROVE  pins'[s] = Cardinality(CreatingPins(s)') + Cardinality(QueuedPins(s)')
                           + Cardinality(ApplyingPins(s)') + Cardinality(VoicePins(s)')
      BY DEF CountInv
    <3>1. /\ CreatingPins(s) = IF Pending(c, s) THEN {c} ELSE {}
          /\ CreatingPins(s)' = {}
      BY <1>2, <1>4 DEF CreatingPins
    <3>2. QueuedPins(s)' = QueuedPins(s)
      BY <1>2 DEF QueuedPins, Pending
    <3>3. ApplyingPins(s)' = ApplyingPins(s)
      BY <1>3 DEF ApplyingPins
    <3>4. VoicePins(s)' = VoicePins(s)
      BY <1>3, <2>1 DEF VoicePins
    <3>5. /\ Cardinality(CreatingPins(s)) = IF Pending(c, s) THEN 1 ELSE 0
          /\ Cardinality(CreatingPins(s)') = 0
      BY <3>1, FS_Singleton, FS_EmptySet
    <3>6. pins[s] = Cardinality(CreatingPins(s)) + Cardinality(QueuedPins(s))
                      + Cardinality(ApplyingPins(s)) + Cardinality(VoicePins(s))
      BY DEF CountInv
    <3>7. /\ Cardinality(QueuedPins(s)) \in Nat /\ Cardinality(ApplyingPins(s)) \in Nat
          /\ Cardinality(VoicePins(s)) \in Nat
      BY PinSetsFinite, FS_CardinalityType DEF SlotInv
    <3>8. pins'[s] = IF Pending(c, s) THEN pins[s] - 1 ELSE pins[s]
      BY <1>6, <3>5, <3>6, <3>7
    <3> QED
      BY <3>2, <3>3, <3>4, <3>5, <3>6, <3>7, <3>8
  <2> QED
    BY <2>2, <2>3, <2>4
<1> QED
  BY <1>7, <1>9, <1>10, <1>11

(* A command for a voice goes into the queue; a destruction releases the   *)
(* slot. *)
LEMMA Sends ==
  ASSUME Inv, NEW voice \in handles, NEW type \in {"start", "stop", "destroy"},
         NEW scheduled \in BOOLEAN, Submit(type, voice, scheduled),
         \/ type # "destroy" /\ UNCHANGED reservations
         \/ type = "destroy" /\ ~scheduled /\ ReleaseSlot(voice)
  PROVE  Inv'
<1> USE DEF Inv
<1>1. /\ UNCHANGED storeVars /\ UNCHANGED <<slots, audio, reclaimVars, loading>>
      /\ UNCHANGED <<ctl, creating, creates, handles>>
      /\ ctl = "idle" /\ Fifo!Push(CommandFor(type, voice, {}, scheduled))
  BY DEF Submit, controlVars, creation, reclaimVars
<1>2. voice \in VoiceId /\ head \in Nat
  BY DEF TypeInv, TypeOK
<1>3. PICK c \in Command :
        /\ c = CommandFor(type, voice, {}, scheduled)
        /\ c.type = type /\ c.voice = voice /\ c.asset = {} /\ c.scheduled = scheduled
  <2>1. head + 1 \in Nat /\ {} \in SUBSET AssetId
    BY <1>2
  <2>2. CommandFor(type, voice, {}, scheduled) \in Command
    BY <1>2, <2>1 DEF CommandFor, Command
  <2> QED
    BY <2>2 DEF CommandFor
<1>4. /\ UNCHANGED <<voiceState, voiceGeneration, voiceAsset, voicePointer, owner, heap, aud,
                     applying, generation, asset, pins>>
      /\ StoreTypeOK' /\ StoreInv'
  BY <1>1, ControlSees
<1>5. /\ head \in Nat /\ tail \in Nat /\ tail <= head /\ head' = head + 1 /\ tail' = tail
      /\ queue'[head + 1] = c
      /\ \A i \in (tail + 1)..head : queue'[i] = queue[i]
      /\ (tail + 1)..(head + 1) = (tail + 1)..head \cup {head + 1}
      /\ head + 1 \notin (tail + 1)..head
      /\ queue' \in [(tail + 1)..(head + 1) -> Command]
  BY <1>1, <1>3, Pushed
<1>6. /\ nextGeneration' = nextGeneration /\ inUse' \in [Voices -> BOOLEAN]
      /\ type # "destroy" => UNCHANGED inUse
      /\ type = "destroy" => \A v \in Voices :
           inUse'[v] <=> inUse[v] /\ ~(v = voice.index /\ nextGeneration[v] = voice.generation)
  <2>1. inUse \in [Voices -> BOOLEAN] /\ voice.index \in Voices
    BY <1>2 DEF TypeInv, TypeOK, VoiceId
  <2>2. CASE type # "destroy" /\ UNCHANGED reservations
    BY <2>1, <2>2 DEF reservations
  <2>3. CASE type = "destroy" /\ ReleaseSlot(voice)
    BY <2>1, <2>3 DEF ReleaseSlot
  <2> QED
    BY <2>2, <2>3
<1>7. creating = {}
  BY <1>1 DEF SlotInv, ThreadsInv
<1>8. TypeInv'
  BY <1>1, <1>4, <1>5, <1>6 DEF TypeInv, TypeOK
<1>9. SlotInv'
  <2> USE DEF SlotInv
  <2>1. ThreadsInv'
    BY <1>1, <1>4 DEF ThreadsInv, IsValidTarget
  <2>2. CommandsInv'
    <3>1. c.type \in {"create", "destroy"} => ~c.scheduled
      BY <1>3
    <3> QED
      BY <1>1, <1>3, <1>4, <1>5, <1>7, <3>1 DEF CommandsInv, OneAsset
  <2>3. HandlesInv'
    BY <1>1, <1>6, <1>7 DEF HandlesInv
  <2>4. ActiveInv' /\ \A v \in Voices : Active(v)' <=> Active(v)
    BY <1>1, <1>4, <1>6 DEF ActiveInv, Active
  <2>5. \A i, d : d \in UnappliedAt(i)' <=> d \in UnappliedAt(i) \/ (i = head + 1 /\ d = c)
    <3> TAKE i, d
    <3>1. CASE i = head + 1
      BY <1>1, <1>4, <1>5, <1>7, <3>1 DEF UnappliedAt
    <3>2. CASE i # head + 1
      BY <1>1, <1>4, <1>5, <1>7, <3>2 DEF UnappliedAt
    <3> QED
      BY <3>1, <3>2
  <2>6. \A t, v, g, i : Comes(t, v, g, i)' <=>
          \/ Comes(t, v, g, i)
          \/ /\ i = head + 1 /\ t = type /\ v = voice.index /\ g = voice.generation
    BY <1>3, <2>5 DEF Comes
  <2>7. CASE type = "destroy"
    <3>1. SequenceInv'
      BY <1>4, <1>6, <1>7, <2>6, <2>7, SequenceReleases
    <3> QED
      BY <2>1, <2>2, <2>3, <2>4, <3>1
  <2>8. CASE type # "destroy"
    <3>1. \A t \in {"create", "destroy"} : \A v, g, i : Comes(t, v, g, i)' <=> Comes(t, v, g, i)
      BY <2>6, <2>8
    <3>2. SequenceInv'
      BY <1>4, <1>6, <2>4, <2>8, <3>1, SequenceKept
    <3> QED
      BY <2>1, <2>2, <2>3, <2>4, <3>2
  <2> QED
    BY <2>7, <2>8
<1>10. PinInv'
  <2> USE DEF PinInv
  <2>1. \A v : Dropping(v)' <=> Dropping(v)
    BY <1>4 DEF Dropping
  <2>2. \A id : Held(id)' => Held(id)
    BY <1>1, <1>3, <1>4, <1>5, <2>1 DEF Held
  <2>3. PointerInv'
    BY <1>4 DEF PointerInv
  <2>4. ASSUME NEW s \in Assets
        PROVE  /\ CreatingPins(s)' = CreatingPins(s) /\ QueuedPins(s)' = QueuedPins(s)
               /\ ApplyingPins(s)' = ApplyingPins(s) /\ VoicePins(s)' = VoicePins(s)
    <3>1. CreatingPins(s)' = CreatingPins(s)
      BY <1>1 DEF CreatingPins
    <3>2. QueuedPins(s)' = QueuedPins(s)
      BY <1>3, <1>5 DEF QueuedPins, Pending
    <3>3. ApplyingPins(s)' = ApplyingPins(s)
      BY <1>4 DEF ApplyingPins
    <3>4. VoicePins(s)' = VoicePins(s)
      BY <1>4, <2>1 DEF VoicePins
    <3> QED
      BY <3>1, <3>2, <3>3, <3>4
  <2> QED
    BY <1>4, <2>2, <2>3, <2>4, PinsKept
<1> QED
  BY <1>4, <1>8, <1>9, <1>10

-----------------------------------------------------------------------------

(* Every step keeps the invariant. *)
LEMMA InvNext ==
  ASSUME Inv, [Next]_vars
  PROVE  Inv'
<1>1. CASE StoreControl /\ UNCHANGED <<reservations, creation, pipe, slots, audio>>
  BY <1>1, StoreSteps DEF voiceVars
<1>2. CASE CreateVoice
  BY <1>2, Creates
<1>3. ASSUME NEW id \in ids, CreateVoiceOf(id)
      PROVE  Inv'
  BY <1>3, CreatesOf
<1>4. CASE CreateSubmits \/ CreateRollsBack
  BY <1>4, Submits, RollsBack
<1>5. ASSUME NEW voice \in handles, StartVoice(voice) \/ StopVoice(voice) \/ DestroyVoice(voice)
      PROVE  Inv'
  <2>1. CASE StartVoice(voice)
    BY <2>1, Sends DEF StartVoice
  <2>2. CASE StopVoice(voice)
    BY <2>2, Sends DEF StopVoice
  <2>3. CASE DestroyVoice(voice)
    BY <2>3, Sends DEF DestroyVoice
  <2> QED
    BY <1>5, <2>1, <2>2, <2>3
<1>6. CASE PopScheduled \/ PopImmediate \/ PopEvent
  BY <1>6, PopsScheduled, PopsImmediate, PopsEvent
<1>7. CASE ApplyIgnored \/ ApplyStart \/ ApplyStop \/ ApplyReleases
  BY <1>7, Ignores, Starts, Stops, ReleasesFirst
<1>8. CASE ApplyUnpins \/ ApplyDestroy \/ ApplyCreate \/ ApplyResolves
  BY <1>8, Unpins, Leaves, TakesSlot, Resolves
<1>9. ASSUME NEW v \in Voices, RenderEnds(v)
      PROVE  Inv'
  BY <1>9, Ends
<1>10. CASE UNCHANGED vars
  <2>1. UNCHANGED <<storeVars, controlVars, voiceVars>>
    BY <1>10 DEF vars, voiceVars
  <2>2. /\ UNCHANGED audioSees /\ UNCHANGED <<queue, tail, slots, audio>>
    BY <2>1 DEF voiceVars, audioSees, pipe
  <2>3. UNCHANGED <<voiceState, voiceGeneration, voiceAsset, voicePointer, owner, heap, aud,
                    applying>>
    BY <2>2 DEF slots, audio
  <2>4. StoreTypeOK' /\ StoreInv' /\ UNCHANGED ctl /\ UNCHANGED <<generation, asset, pins>>
    BY <2>2, AudioSees
  <2>5. TypeInv' /\ SlotInv'
    <3>1. SlotInv'
      BY <2>1, <2>4, SlotsUntouched DEF Inv
    <3>2. TypeInv'
      BY <2>1, <2>4 DEF Inv, TypeInv, TypeOK, voiceVars, reservations, creation, pipe, slots,
                        audio
    <3> QED
      BY <3>1, <3>2
  <2>6. PinInv'
    BY <2>1, <2>4, PinsUntouched
  <2> QED
    BY <2>4, <2>5, <2>6 DEF Inv
<1> QED
  BY <1>1, <1>2, <1>3, <1>4, <1>5, <1>6, <1>7, <1>8, <1>9, <1>10 DEF Next, Control, Audio

(* The invariant holds throughout. *)
LEMMA InvAlways == Spec => []Inv
BY InvInit, InvNext, PTL DEF Spec

-----------------------------------------------------------------------------
(* The properties. *)

(* StoreConsistent: the key table finds exactly the resident assets, and   *)
(* the budget is charged for exactly the bytes in memory, whatever is      *)
(* loaded, released, pinned and reclaimed.                                 *)
THEOREM StoreAgrees == Spec => []StoreConsistent
<1>1. Inv => StoreConsistent
  BY DEF Inv, StoreInv, TableInv, BudgetInv, StoreConsistent
<1> QED
  BY <1>1, InvAlways, PTL

(* VoiceHoldsAsset: whenever the audio thread renders, a voice with an     *)
(* asset points to the asset of its id, still in memory.                   *)
THEOREM VoicesKeepAssets == Spec => []VoiceHoldsAsset
<1>1. Inv => VoiceHoldsAsset
  <2> SUFFICES ASSUME Inv, aud = "idle", NEW v \in Voices, NEW id \in voiceAsset[v]
               PROVE  /\ voicePointer[v] # {} /\ voicePointer[v] = asset[id.index]
                      /\ generation[id.index] = id.generation
    BY DEF VoiceHoldsAsset
  <2>1. Held(id)
    BY DEF Held, Dropping
  <2>2. voicePointer[v] = asset[id.index]
    BY DEF Inv, PinInv, PointerInv
  <2> QED
    BY <2>1, <2>2 DEF Inv, PinInv, HoldInv, NotStale
<1> QED
  BY <1>1, InvAlways, PTL

(* PinsBalance: the pins of an asset are the voices that hold it, from the *)
(* creation to the destruction of each; none leaks and none is taken back  *)
(* twice.                                                                  *)
THEOREM PinsAreVoices == Spec => []PinsBalance
<1>1. Inv => PinsBalance
  <2> SUFFICES ASSUME Inv, NEW s \in Assets
               PROVE  pins[s] = PinnedBy(s) - Unpinned(s)
    BY DEF PinsBalance
  <2> USE DEF Inv
  <2> DEFINE voices == {v \in Voices : \E id \in voiceAsset[v] : id.index = s}
             dropped == {v \in voices : Dropping(v)}
  <2>1. PinnedBy(s) = Cardinality(CreatingPins(s)) + Cardinality(QueuedPins(s))
                        + Cardinality(ApplyingPins(s)) + Cardinality(voices)
    BY DEF PinnedBy, CreatingPins, QueuedPins, ApplyingPins, Pending
  <2>2. pins[s] = Cardinality(CreatingPins(s)) + Cardinality(QueuedPins(s))
                    + Cardinality(ApplyingPins(s)) + Cardinality(VoicePins(s))
    BY DEF PinInv, CountInv
  <2>3. /\ Cardinality(CreatingPins(s)) \in Nat /\ Cardinality(QueuedPins(s)) \in Nat
        /\ Cardinality(ApplyingPins(s)) \in Nat /\ Cardinality(VoicePins(s)) \in Nat
        /\ IsFiniteSet(VoicePins(s))
    BY PinSetsFinite, FS_CardinalityType DEF SlotInv
  <2>4. \A v \in Voices : VoicePins(s) = {u \in voices : ~Dropping(u)}
    BY DEF VoicePins
  <2>5. \A c \in applying : c.voice.index \in Voices
    BY DEF TypeInv, TypeOK, Command, VoiceId
  <2>6. Unpinned(s) = IF dropped # {} THEN 1 ELSE 0
    BY <2>5 DEF Unpinned, Dropping
  <2>7. CASE dropped = {}
    <3>1. VoicePins(s) = voices
      BY <2>7 DEF VoicePins
    <3> QED
      BY <2>1, <2>2, <2>3, <2>6, <2>7, <3>1
  <2>8. CASE dropped # {}
    <3>1. PICK u \in dropped : TRUE
      BY <2>8
    <3>2. \A v : Dropping(v) => v = u
      BY <3>1 DEF Dropping, SlotInv, ThreadsInv
    <3>3. voices = VoicePins(s) \cup {u} /\ u \notin VoicePins(s)
      BY <3>1, <3>2 DEF VoicePins
    <3> HIDE DEF voices, dropped
    <3>4. Cardinality(voices) = Cardinality(VoicePins(s)) + 1
      BY <2>3, <3>3, FS_AddElement
    <3> QED
      BY <2>1, <2>2, <2>3, <2>6, <2>8, <3>4
  <2> QED
    BY <2>7, <2>8
<1> QED
  BY <1>1, InvAlways, PTL

(* SlotsAgree: types; a creation finds its slot free; a slot in use has    *)
(* its voice or the creation on its way, and a slot not in use is inactive *)
(* or has the destruction on its way.                                      *)
THEOREM ThreadsAgree == Spec => []SlotsAgree
<1>1. Inv => SlotsAgree
  <2> SUFFICES ASSUME Inv
               PROVE  SlotsAgree
    OBVIOUS
  <2> USE DEF Inv, SlotInv, SequenceInv
  <2>1. ASSUME aud = "released", NEW c \in applying, c.type = "create"
        PROVE  voiceState[c.voice.index] = "inactive"
    <3>1. /\ c.voice.index \in Voices /\ c.voice.generation \in Nat
          /\ Comes("create", c.voice.index, c.voice.generation, tail)
      BY <2>1, Applied
    <3>2. ~Active(c.voice.index)
      BY <3>1, CreationFindsFree
    <3> QED
      BY <3>2 DEF Active
  <2>2. \A type, v, g, i : Comes(type, v, g, i) =>
          OnItsWay(type, v, g) \/ \E c \in creating : c.type = type /\ c.voice.index = v
    BY DEF Comes, UnappliedAt, OnItsWay
  <2>3. ASSUME NEW v \in Voices, inUse[v]
        PROVE  \/ \E c \in creating : c.voice.index = v
               \/ OnItsWay("create", v, nextGeneration[v])
               \/ voiceState[v] # "inactive" /\ voiceGeneration[v] = nextGeneration[v]
    BY <2>2, <2>3 DEF InUseInv, Active
  <2>4. ASSUME NEW v \in Voices, ~inUse[v], voiceState[v] # "inactive"
        PROVE  OnItsWay("destroy", v, voiceGeneration[v])
    <3>1. PICK d \in Nat : Comes("destroy", v, voiceGeneration[v], d)
      BY <2>4 DEF ReleaseInv, Holds, Active
    <3> QED
      BY <2>2, <3>1 DEF CommandsInv
  <2> QED
    BY <2>1, <2>3, <2>4 DEF SlotsAgree, TypeInv
<1> QED
  BY <1>1, InvAlways, PTL

(* OwnCommandsOnly: a start, a stop or a destruction changes the voice it  *)
(* was sent to and never the next one in its slot.                         *)
THEOREM OwnVoiceOnly == Spec => OwnCommandsOnly
<1> DEFINE Own == \A v \in Voices : \A command \in applying :
                    voiceState'[v] # voiceState[v] /\ command.type # "create" =>
                      owner[v] = command.voice.serial
<1>1. Inv /\ [Next]_vars => [Own]_vars
  <2> SUFFICES ASSUME Inv, Next, NEW v \in Voices, NEW c \in applying,
                      voiceState'[v] # voiceState[v], c.type # "create"
               PROVE  owner[v] = c.voice.serial
    OBVIOUS
  <2> USE DEF Inv, SlotInv
  <2>1. /\ applying = {c} /\ c.voice.index \in Voices /\ c.voice \in handles
        /\ voiceState \in [Voices -> {"inactive", "stopped", "playing"}]
    BY Applied DEF TypeInv, TypeOK
  <2>2. aud # "idle"
    BY <2>1 DEF ThreadsInv
  <2>3. ApplyStart \/ ApplyStop \/ ApplyDestroy
    <3>1. voiceState' # voiceState
      OBVIOUS
    <3>2. ~ApplyCreate
      BY <2>1 DEF ApplyCreate
    <3>3. ~\E u \in Voices : RenderEnds(u)
      BY <2>2 DEF RenderEnds
    <3>4. ~Control
      BY <3>1 DEF Control, CreateVoice, CreateVoiceOf, CreateBegins, CreateSubmits,
           CreateRollsBack, StartVoice, StopVoice, DestroyVoice, Submit, slots
    <3>5. ~(PopScheduled \/ PopImmediate \/ PopEvent \/ ApplyIgnored \/ ApplyReleases
              \/ ApplyUnpins \/ ApplyResolves)
      BY <3>1 DEF PopScheduled, PopImmediate, PopEvent, ApplyIgnored, ApplyReleases,
           ApplyUnpins, ApplyResolves, slots
    <3> QED
      BY <3>2, <3>3, <3>4, <3>5 DEF Next, Audio
  <2>4. v = c.voice.index
    BY <2>1, <2>3 DEF ApplyStart, ApplyStop, ApplyDestroy, SetState
  <2>5. IsValidTarget(c.voice)
    BY <2>1, <2>3 DEF ApplyStart, ApplyStop, ApplyDestroy, ThreadsInv
  <2>6. \E h \in handles : h.index = v /\ h.generation = c.voice.generation
                                       /\ h.serial = owner[v]
    BY <2>4, <2>5 DEF ActiveInv, Active, IsValidTarget
  <2> QED
    BY <2>1, <2>4, <2>6 DEF HandlesInv
<1> QED
  BY <1>1, InvAlways, PTL DEF Spec, OwnCommandsOnly
=============================================================================
