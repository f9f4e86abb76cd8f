----------------------------- MODULE PlanAssets -----------------------------
(***************************************************************************)
(* The graph plans and the assets their source nodes play.  Compiling a    *)
(* plan pins each of its assets and leaves the bare address of the asset   *)
(* in the plan's node; the audio thread plays from that address without    *)
(* looking at the store again.  The pins go with the plan, which the       *)
(* control thread destroys at a later call; only then can a released asset *)
(* be reclaimed.                                                           *)
(*                                                                         *)
(* GraphPlanStore and ResourceStore side by side, with the runtime's calls *)
(* that go through both.  The control thread is in one of the two at a     *)
(* time; the audio thread goes on meanwhile.  Voices, which pin assets as  *)
(* well, are VoicePool's.  A fault that a property catches stands before   *)
(* the definition it varies.                                               *)
(***************************************************************************)
EXTENDS GraphPlanStore, Sequences, FiniteSets

CONSTANTS
  MaxAssets, MaxTotalBytes, Keys, BytesOf, MaxLoads,  \* of the resource store
  SourceNodeCount                                     \* of the graph

ASSUME PlanAssetsAssumption ==
  /\ MaxAssets \in Nat \ {0} /\ MaxTotalBytes \in Nat /\ MaxLoads \in Nat
  /\ BytesOf \in [Keys -> Nat]
  /\ SourceNodeCount \in Nat

(* In the order of the plan. *)
SourceNodes == 1..SourceNodeCount

VARIABLES
  \* the resource store
  slotState, key, bytes, asset, assetGeneration, pins, published,
  keyToIndex, totalBytes, loads, ids,
  storeCtl, storeScan, after, loading,
  \* the rest of the control thread
  sources,   \* the asset id of each source node of the graph, or {}
  pinned,    \* AssetPins of the compile in progress, or of the plan it made
  bound,     \* AssetPins of the plan in each slot
  call,      \* the runtime's call that is in ReclaimRetiredPlans, or "none"
  due        \* history: the assets that the last call of ReclaimAssets must free

Store == INSTANCE ResourceStore WITH
  generation <- assetGeneration, ctl <- storeCtl, scan <- storeScan

resources == <<slotState, key, bytes, asset, assetGeneration, pins, published,
               keyToIndex, totalBytes, loads, ids, storeCtl, storeScan, after, loading>>
nodes == <<sources, pinned, bound>>
allVars == <<vars, resources, nodes, call, due>>

AllInit ==
  /\ Init /\ Store!StoreInit
  /\ sources = [node \in SourceNodes |-> {}]
  /\ pinned = <<>> /\ bound = [s \in Slots |-> <<>>]
  /\ call = "none" /\ due = {}

-----------------------------------------------------------------------------
(* What compiling does to the pins. *)

PinsIn(list, s) == Cardinality({i \in DOMAIN list : list[i].index = s})

(* ~AssetPins; the asset generations have not moved under the pins. *)
Dropped(list) ==
  [s \in Store!Assets |-> IF PinsIn(list, s) > pins[s] THEN 0 ELSE pins[s] - PinsIn(list, s)]

resourcesButPins == <<slotState, key, bytes, asset, assetGeneration, published, keyToIndex,
                      totalBytes, loads, ids, storeCtl, storeScan, after, loading>>

(* The id that is bound next, or {}: that of the node with as many source  *)
(* nodes in use before it as there are pins.                               *)
NextSource ==
  UNION {sources[node] : node \in {n \in SourceNodes :
    Cardinality({m \in 1..(n - 1) : sources[m] # {}}) = Len(pinned)}}

BindAsset ==
  /\ ctl = "compile"
  /\ \E id \in NextSource :
       /\ Store!Lookup(id, "resident")
       /\ Store!Pin(id)
       /\ pinned' = Append(pinned, id)
  /\ UNCHANGED <<vars, storeCtl, storeScan, after, loading, sources, bound, call, due>>

(* An asset that is not there, or does not match its node or the device,   *)
(* or another error of the graph: the pins taken so far are dropped.       *)
CompileFails ==
  /\ StageCompileFails
  /\ pins' = Dropped(pinned)
  /\ pinned' = <<>>
  /\ UNCHANGED <<resourcesButPins, sources, bound, call, due>>

Compiles ==
  /\ NextSource = {}
  /\ StageCompiles
  /\ UNCHANGED <<resources, nodes, call, due>>

(* The plan before it in the slot, if it was not reclaimed, is destroyed.  *)
Builds ==
  /\ StageBuilds
  /\ pins' = Dropped(bound[scan])
  /\ bound' = [bound EXCEPT ![scan] = pinned]
  /\ pinned' = <<>>
  /\ UNCHANGED <<resourcesButPins, sources, call, due>>

ReleaseStagedPlan(handle) ==
  /\ ReleaseResets(handle)
  /\ pins' = Dropped(bound[handle.slot])
  /\ bound' = [bound EXCEPT ![handle.slot] = <<>>]
  /\ UNCHANGED <<resourcesButPins, sources, pinned, call, due>>

ReclaimsPlan ==
  /\ ReclaimScans
  /\ IF Reclaimable(scan)
     THEN pins' = Dropped(bound[scan]) /\ bound' = [bound EXCEPT ![scan] = <<>>]
     ELSE UNCHANGED <<pins, bound>>
  /\ UNCHANGED <<resourcesButPins, sources, pinned, call, due>>

-----------------------------------------------------------------------------
(* The runtime's calls. *)

Idle == ctl = "idle" /\ storeCtl = "idle" /\ call = "none"

(* AddNode and RemoveNode of a source node, between two compiles. *)
EditGraph(node, id) ==
  /\ Idle
  /\ sources' = [sources EXCEPT ![node] = id]
  /\ UNCHANGED <<vars, resources, pinned, bound, call, due>>

(* The released assets that no plan holds but retired ones.                *)
Unused ==
  {id \in ids :
     /\ Store!Lookup(id, "retiring")
     /\ \A s \in Slots : PinsIn(bound[s], id.index) > 0 => Reclaimable(s)}

(* ReclaimAssets: the plans first, so that their pins are gone. *)
ReclaimPlansFor(caller) ==
  /\ ReclaimBegins
  /\ call' = caller
  /\ due' = Unused
  /\ UNCHANGED <<resources, nodes>>

ReclaimAssetsThen(caller) ==
  /\ call = caller /\ ctl = "idle"
  /\ IF caller = "release" THEN Store!ReleaseReclaims ELSE Store!ReclaimAssets
  /\ call' = IF caller = "compile" THEN "staging" ELSE "none"
  /\ UNCHANGED <<vars, nodes, due>>

ReclaimAssets == Idle /\ ReclaimPlansFor("reclaim")

CompileAndStageGraph == Idle /\ ReclaimPlansFor("compile")

Stages ==
  /\ call = "staging" /\ storeCtl = "idle"
  /\ StageBegins
  /\ call' = "none"
  /\ UNCHANGED <<resources, nodes, due>>

ReleaseAudioAsset(id) ==
  /\ Idle
  /\ Store!ReleaseAudioAsset(id)
  /\ UNCHANGED <<vars, nodes, call>>
  /\ due' = Unused'

(* Fault: once the store has released it, the plans are not reclaimed. *)
ReleasedReclaimsStoreOnly ==
  /\ storeCtl = "released" /\ call = "none"
  /\ Store!ReleaseReclaims
  /\ UNCHANGED <<vars, nodes, call, due>>

ReleasedReclaims ==
  /\ storeCtl = "released" /\ call = "none"
  /\ ReclaimPlansFor("release")

LoadAudioAsset ==
  /\ \/ Idle /\ \E k \in Keys : Store!LoadFinds(k) \/ Store!LoadBegins(k)
     \/ Store!LoadFails \/ Store!LoadPrepares \/ Store!InsertRefuses
     \/ Store!InsertFills \/ Store!InsertPublishes
  /\ UNCHANGED <<vars, nodes, call, due>>

StoreReclaims == Store!ReclaimStep /\ UNCHANGED <<vars, nodes, call, due>>

(* The calls that touch the plan store only. *)
PlanCalls ==
  /\ \/ StageSearches \/ StagePublishes \/ MarkActivationSubmitted \/ ReleaseFrees
     \/ Idle /\ \E handle \in handles : ActivateSubmits(handle)
  /\ UNCHANGED <<resources, nodes, call, due>>

ControlThread ==
  \/ \E node \in SourceNodes, id \in {{}} \cup {{known} : known \in ids} : EditGraph(node, id)
  \/ ReclaimAssets \/ CompileAndStageGraph \/ Stages
  \/ \E caller \in {"reclaim", "compile", "release"} : ReclaimAssetsThen(caller)
  \/ BindAsset \/ CompileFails \/ Compiles \/ Builds \/ ReclaimsPlan
  \/ \E handle \in handles : Idle /\ ReleaseStagedPlan(handle)
  \/ \E id \in ids : ReleaseAudioAsset(id)
  \/ ReleasedReclaims \/ LoadAudioAsset \/ StoreReclaims \/ PlanCalls

AudioThread == Audio /\ UNCHANGED <<resources, nodes, call, due>>

AllNext == ControlThread \/ AudioThread

AllSpec == AllInit /\ [][AllNext]_allVars

-----------------------------------------------------------------------------
(* Properties. *)

(* The address in a source node of a plan that exists is good: the asset   *)
(* it was bound to is in memory and in its slot still, so the plan being   *)
(* rendered plays nothing that was freed, released or not.                 *)
AddressesGood ==
  \A s \in Slots : \A i \in DOMAIN bound[s] :
    LET id == bound[s][i]
    IN  /\ assetGeneration[id.index] = id.generation
        /\ asset[id.index] # {}

(* The pins of an asset that the plan in slot s, and all plans, hold. *)
PinsOfPlan(s, a) == {s} \X {i \in DOMAIN bound[s] : bound[s][i].index = a}
PinsOfPlans(a) == UNION {PinsOfPlan(s, a) : s \in Slots}

(* The pins of an asset are those of the plans in memory and of the        *)
(* compile in progress, none lost, none kept after its plan.               *)
PinsCounted ==
  \A a \in Store!Assets :
    pins[a] = PinsIn(pinned, a) + Cardinality(PinsOfPlans(a))

(* What a plan plays it holds, and what it holds is counted. *)
PlansHoldAssets == AddressesGood /\ PinsCounted

(* When ReclaimAssets has returned - called for itself, by a compile or by *)
(* a release - it has freed every released asset that only plans retired   *)
(* before the call still pinned.                                           *)
FreesWhatIsUnused ==
  Idle => \A id \in due : assetGeneration[id.index] # id.generation
=============================================================================
