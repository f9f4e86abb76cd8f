--------------------------- MODULE ResourceStore ----------------------------
(***************************************************************************)
(* The store of decoded assets and the loader that fills it.  The control  *)
(* thread loads, pins, releases and reclaims; the audio thread resolves an *)
(* id to the asset and unpins.  VoicePool composes the store with the      *)
(* voices that hold its pins.                                              *)
(*                                                                         *)
(* A step is one access to a field the audio thread can see (generation,   *)
(* pins, published).  An asset is known by its key (canonical path and     *)
(* sample rate) and by the load that made it.  Decoding and resampling     *)
(* either succeed or fail.  Generations are 32 bits wide in the code; here *)
(* they only grow.                                                         *)
(***************************************************************************)
EXTENDS Integers, FiniteSets

CONSTANTS
  MaxAssets,      \* ResourceConfig::max_assets
  MaxTotalBytes,  \* ResourceConfig::max_total_bytes
  Keys,           \* path@rate of the files the application loads
  BytesOf,        \* the size of each, decoded
  MaxLoads        \* bound: assets inserted

(* A store without slots, which refuses every load, is left out. *)
ASSUME StoreAssumption ==
  /\ MaxAssets \in Nat \ {0} /\ MaxTotalBytes \in Nat /\ MaxLoads \in Nat
  /\ BytesOf \in [Keys -> Nat]

VARIABLES
  \* a slot's fields for the control thread
  slotState, key, bytes,
  asset,        \* the asset object in the slot, or {}
  \* a slot's fields that both threads see
  generation, pins,
  published,    \* the asset object the slot publishes, or {}
  \* the rest of the store
  keyToIndex,   \* the slot of each key, or {}
  totalBytes,
  loads,        \* history: assets inserted so far
  ids,          \* history: the asset ids the application was given
  \* control thread
  ctl,          \* where it is in its call
  scan, after,  \* ReclaimRetired's slot, and where it returns to
  loading       \* the key being loaded, or {}

slotVars == <<slotState, key, bytes, asset, generation, pins, published>>
storeVars == <<slotVars, keyToIndex, totalBytes, loads, ids>>
reclaimVars == <<scan, after>>
controlVars == <<ctl, reclaimVars, loading>>

Assets == 0..(MaxAssets - 1)
AssetId == [index: Assets, generation: Nat]
AssetObject == [key: Keys, load: Nat]

StoreInit ==
  /\ slotState = [s \in Assets |-> "free"] /\ key = [s \in Assets |-> {}]
  /\ bytes = [s \in Assets |-> 0] /\ asset = [s \in Assets |-> {}]
  /\ generation = [s \in Assets |-> 1] /\ pins = [s \in Assets |-> 0]
  /\ published = [s \in Assets |-> {}]
  /\ keyToIndex = [k \in Keys |-> {}] /\ totalBytes = 0
  /\ loads = 0 /\ ids = {}
  /\ ctl = "idle" /\ scan = 0 /\ after = "idle" /\ loading = {}

Lookup(id, expected) ==
  /\ id.index \in Assets
  /\ slotState[id.index] = expected
  /\ generation[id.index] = id.generation

IdOf(s) == [index |-> s, generation |-> generation[s]]

-----------------------------------------------------------------------------
(* ReclaimRetired: a loop over the slots that frees the retiring ones      *)
(* without pins.                                                           *)

Reclaim(returnTo) ==
  /\ ctl' = "reclaim" /\ scan' = 0 /\ after' = returnTo

(* The loop goes on, or the call returns. *)
NextSlot ==
  IF scan + 1 < MaxAssets
  THEN ctl' = "reclaim" /\ scan' = scan + 1 /\ after' = after
  ELSE ctl' = after /\ scan' = 0 /\ after' = "idle"

ReclaimablePinned(s) == slotState[s] = "retiring"

Reclaimable(s) == slotState[s] = "retiring" /\ pins[s] = 0

ReclaimScans ==
  /\ ctl = "reclaim"
  /\ IF Reclaimable(scan)
     THEN ctl' = "bump" /\ UNCHANGED reclaimVars
     ELSE NextSlot
  /\ UNCHANGED <<storeVars, loading>>

ReclaimBumps ==
  /\ ctl = "bump"
  /\ generation' = [generation EXCEPT ![scan] = @ + 1]
  /\ ctl' = "unpublish"
  /\ UNCHANGED <<slotState, key, bytes, asset, pins, published, keyToIndex, totalBytes, loads,
                 ids, reclaimVars, loading>>

ReclaimUnpublishes ==
  /\ ctl = "unpublish"
  /\ published' = [published EXCEPT ![scan] = {}]
  /\ ctl' = "destroy"
  /\ UNCHANGED <<slotState, key, bytes, asset, generation, pins, keyToIndex, totalBytes, loads,
                 ids, reclaimVars, loading>>

ReclaimDestroys ==
  /\ ctl = "destroy"
  /\ asset' = [asset EXCEPT ![scan] = {}]
  /\ totalBytes' = totalBytes - bytes[scan]
  /\ bytes' = [bytes EXCEPT ![scan] = 0]
  /\ slotState' = [slotState EXCEPT ![scan] = "free"]
  /\ NextSlot
  /\ UNCHANGED <<key, generation, pins, published, keyToIndex, loads, ids, loading>>

ReclaimStep == ReclaimScans \/ ReclaimBumps \/ ReclaimUnpublishes \/ ReclaimDestroys

-----------------------------------------------------------------------------
(* The runtime's calls. *)

ReclaimAssets ==
  /\ ctl = "idle"
  /\ Reclaim("idle")
  /\ UNCHANGED <<storeVars, loading>>

(* ReleaseAudioAsset: Release and its reclaim, then ReclaimAssets. *)
ReleaseKeepsKey(id) ==
  /\ ctl = "idle"
  /\ Lookup(id, "resident")
  /\ slotState' = [slotState EXCEPT ![id.index] = "retiring"]
  /\ Reclaim("released")
  /\ UNCHANGED <<key, keyToIndex, bytes, asset, generation, pins, published, totalBytes, loads,
                 ids, loading>>

ReleaseAudioAsset(id) ==
  /\ ctl = "idle"
  /\ Lookup(id, "resident")
  /\ slotState' = [slotState EXCEPT ![id.index] = "retiring"]
  /\ keyToIndex' = [k \in Keys |-> IF k \in key[id.index] THEN {} ELSE keyToIndex[k]]
  /\ key' = [key EXCEPT ![id.index] = {}]
  /\ Reclaim("released")
  /\ UNCHANGED <<bytes, asset, generation, pins, published, totalBytes, loads, ids, loading>>

ReleaseReclaims ==
  /\ ctl = "released"
  /\ Reclaim("idle")
  /\ UNCHANGED <<storeVars, loading>>

(* LoadAudioAsset: a key already loaded is found. *)
LoadFinds(k) ==
  /\ ctl = "idle"
  /\ \E s \in keyToIndex[k] : ids' = ids \cup {IdOf(s)}
  /\ UNCHANGED <<slotVars, keyToIndex, totalBytes, loads, controlVars>>

LoadBegins(k) ==
  /\ ctl = "idle"
  /\ loads < MaxLoads
  /\ keyToIndex[k] = {}
  /\ loading' = {k}
  /\ Reclaim("prepare")
  /\ UNCHANGED storeVars

(* No free slot, or the file cannot be prepared. *)
LoadFails ==
  /\ ctl = "prepare"
  /\ ctl' = "idle" /\ loading' = {}
  /\ UNCHANGED <<storeVars, reclaimVars>>

LoadPrepares ==
  /\ ctl = "prepare"
  /\ \E s \in Assets : slotState[s] = "free"
  /\ Reclaim("insert")
  /\ UNCHANGED <<storeVars, loading>>

(* Insert: the budget, then the first free slot. *)
WithinBudget(k) == BytesOf[k] <= MaxTotalBytes /\ totalBytes <= MaxTotalBytes - BytesOf[k]

FirstFree(s) ==
  /\ slotState[s] = "free"
  /\ \A t \in 0..(s - 1) : slotState[t] # "free"

InsertRefuses ==
  /\ ctl = "insert"
  /\ \E k \in loading : ~WithinBudget(k)
  /\ ctl' = "idle" /\ loading' = {}
  /\ UNCHANGED <<storeVars, reclaimVars>>

InsertFills ==
  /\ ctl = "insert"
  /\ \E k \in loading, s \in Assets :
       /\ WithinBudget(k)
       /\ FirstFree(s)
       /\ keyToIndex' = [keyToIndex EXCEPT ![k] = {s}]
       /\ asset' = [asset EXCEPT ![s] = {[key |-> k, load |-> loads + 1]}]
       /\ key' = [key EXCEPT ![s] = {k}]
       /\ bytes' = [bytes EXCEPT ![s] = BytesOf[k]]
       /\ pins' = [pins EXCEPT ![s] = 0]
       /\ slotState' = [slotState EXCEPT ![s] = "resident"]
       /\ totalBytes' = totalBytes + BytesOf[k]
       /\ scan' = s
  /\ loads' = loads + 1
  /\ ctl' = "publish"
  /\ UNCHANGED <<generation, published, ids, after, loading>>

InsertPublishes ==
  /\ ctl = "publish"
  /\ published' = [published EXCEPT ![scan] = asset[scan]]
  /\ ids' = ids \cup {IdOf(scan)}
  /\ ctl' = "idle" /\ scan' = 0 /\ loading' = {}
  /\ UNCHANGED <<slotState, key, bytes, asset, generation, pins, keyToIndex, totalBytes, loads,
                 after>>

StoreControl ==
  \/ ReclaimAssets \/ ReclaimStep
  \/ \E id \in ids : ReleaseAudioAsset(id)
  \/ ReleaseReclaims
  \/ \E k \in Keys : LoadFinds(k) \/ LoadBegins(k)
  \/ LoadFails \/ LoadPrepares \/ InsertRefuses \/ InsertFills \/ InsertPublishes

-----------------------------------------------------------------------------
(* What the users of the store do to a slot.                               *)

Pin(id) ==
  /\ pins' = [pins EXCEPT ![id.index] = @ + 1]
  /\ UNCHANGED <<slotState, key, bytes, asset, generation, published, keyToIndex, totalBytes,
                 loads, ids>>

(* The fetch_sub of Unpin; from zero it is taken back. *)
Unpin(id) ==
  /\ pins' = [pins EXCEPT ![id.index] = IF @ = 0 THEN 0 ELSE @ - 1]
  /\ UNCHANGED <<slotState, key, bytes, asset, generation, published, keyToIndex, totalBytes,
                 loads, ids>>

(* ResolveForAudio and Unpin go on only if the id is not stale. *)
NotStale(id) == generation[id.index] = id.generation

-----------------------------------------------------------------------------

(* Every variable of the store has its type: a loop over the slots never   *)
(* leaves them, and the budget is never exceeded.                          *)
StoreTypeOK ==
  /\ slotState \in [Assets -> {"free", "resident", "retiring"}]
  /\ key \in [Assets -> SUBSET Keys] /\ bytes \in [Assets -> Nat]
  /\ asset \in [Assets -> SUBSET AssetObject]
  /\ generation \in [Assets -> Nat] /\ pins \in [Assets -> Nat]
  /\ published \in [Assets -> SUBSET AssetObject]
  /\ keyToIndex \in [Keys -> SUBSET Assets]
  /\ totalBytes \in 0..MaxTotalBytes
  /\ loads \in Nat /\ ids \subseteq AssetId
  /\ scan \in Assets /\ loading \subseteq Keys

(* The bytes in memory, and those of the asset in slot s. *)
BytesIn(s) == UNION {{s} \X (1..BytesOf[object.key]) : object \in asset[s]}
BytesInMemory == UNION {BytesIn(s) : s \in Assets}

(* The key table finds exactly the resident assets, by their keys: never a *)
(* released one, never the next occupant of its slot; and the budget is    *)
(* charged for the assets that are in memory, the retiring ones included.  *)
StoreConsistent ==
  /\ \A k \in Keys, s \in Assets :
       s \in keyToIndex[k] <=>
         slotState[s] = "resident" /\ \E object \in asset[s] : object.key = k
  /\ totalBytes = Cardinality(BytesInMemory)
=============================================================================
