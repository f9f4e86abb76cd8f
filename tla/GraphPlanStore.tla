--------------------------- MODULE GraphPlanStore ---------------------------
(***************************************************************************)
(* The slots that carry compiled graph plans from the control thread to    *)
(* the audio thread and back.  The control thread stages a plan in a free  *)
(* slot, submits its activation through the command queue, releases staged *)
(* plans and destroys retired ones; the audio thread activates, retiring   *)
(* the plan before, and renders.  No lock: each slot has an atomic state.  *)
(*                                                                         *)
(* A step is one access to a slot's state (or one scan step of a loop over *)
(* them); the plan itself and activation_submitted are plain fields, and   *)
(* what keeps the two threads from using them at once is the point of the  *)
(* properties.  A plan is known by the generation it was built for.  A     *)
(* fault that a property catches stands before the definition it varies.   *)
(***************************************************************************)
EXTENDS Integers

CONSTANTS
  MaxGraphPlans,   \* RuntimeConfig::max_graph_plans, 0 included
  QueueCapacity,   \* RuntimeConfig::command_queue_capacity
  MaxStagings,     \* bound: plans staged in one slot
  MaxSubmissions   \* bound: activations submitted

ASSUME PlanStoreAssumption ==
  /\ MaxGraphPlans \in Nat
  /\ QueueCapacity \in Nat \ {0}
  /\ MaxStagings \in Nat
  /\ MaxSubmissions \in Nat

VARIABLES
  \* the slots
  state, generation,
  plan,        \* the generation of the plan in the slot, or {}
  submitted,   \* activation_submitted
  \* the activation commands in the command queue
  queue, head, tail,
  \* control thread
  ctl, scan,   \* where it is in its call; the slot its loop is at
  subject,     \* the handle or slot the call works on
  handles,     \* history: the handles BuildAndStage returned
  \* audio thread
  aud, drained,
  request,     \* the handle of the activation command being applied, or {}
  active       \* active_slot_index_, with the generation activated (history), or {}

slotVars == <<state, generation, plan, submitted>>
pipe == <<queue, head, tail>>
control == <<ctl, scan, subject, handles>>
audio == <<aud, drained, request, active>>
vars == <<slotVars, pipe, control, audio>>

(* The constructor makes at least one slot. *)
SlotCount == IF MaxGraphPlans = 0 THEN 1 ELSE MaxGraphPlans
Slots == 0..(SlotCount - 1)

Handle == [slot: 0..SlotCount, generation: Nat]

(* A handle no store issued: its slot index is out of range. *)
BadHandle == [slot |-> SlotCount, generation |-> 1]

Fifo == INSTANCE BoundedFifo WITH Capacity <- QueueCapacity, Commands <- Handle

Init ==
  /\ state = [s \in Slots |-> "free"] /\ generation = [s \in Slots |-> 0]
  /\ plan = [s \in Slots |-> {}] /\ submitted = [s \in Slots |-> FALSE]
  /\ queue = [i \in 1..0 |-> {}] /\ head = 0 /\ tail = 0
  /\ ctl = "idle" /\ scan = 0 /\ subject = {} /\ handles = {}
  /\ aud = "drain" /\ drained = 0 /\ request = {} /\ active = {}

-----------------------------------------------------------------------------
(* Control thread. *)

(* BuildAndStage looks for the first free slot, loading the states one by  *)
(* one.  Its caller has reclaimed before: PlanAssets has the two in turn.  *)
StageBegins ==
  /\ ctl = "idle"
  /\ ctl' = "search" /\ scan' = 0
  /\ UNCHANGED <<slotVars, pipe, subject, handles, audio>>

Usable(s) == state[s] = "free"

StageSearches ==
  /\ ctl = "search"
  /\ IF Usable(scan)
     THEN ctl' = "compile" /\ scan' = scan
     ELSE IF scan + 1 < SlotCount
          THEN ctl' = "search" /\ scan' = scan + 1
          ELSE ctl' = "idle" /\ scan' = 0
  /\ UNCHANGED <<slotVars, pipe, subject, handles, audio>>

StageCompileFails ==
  /\ ctl = "compile"
  /\ ctl' = "idle" /\ scan' = 0
  /\ UNCHANGED <<slotVars, pipe, subject, handles, audio>>

StageCompiles ==
  /\ ctl = "compile"
  /\ generation[scan] < MaxStagings
  /\ state' = [state EXCEPT ![scan] = "building"]
  /\ ctl' = "build"
  /\ UNCHANGED <<generation, plan, submitted, pipe, scan, subject, handles, audio>>

StageBuildsKeepsFlag ==
  /\ ctl = "build"
  /\ generation' = [generation EXCEPT ![scan] = @ + 1]
  /\ plan' = [plan EXCEPT ![scan] = {generation[scan] + 1}]
  /\ ctl' = "publish"
  /\ UNCHANGED <<state, submitted, pipe, scan, subject, handles, audio>>

StageBuildsSameGeneration ==
  /\ ctl = "build"
  /\ plan' = [plan EXCEPT ![scan] = {generation[scan] + 1}]
  /\ submitted' = [submitted EXCEPT ![scan] = FALSE]
  /\ ctl' = "publish"
  /\ UNCHANGED <<state, generation, pipe, scan, subject, handles, audio>>

(* The slot's old plan, if it has one, is destroyed here. *)
StageBuilds ==
  /\ ctl = "build"
  /\ generation' = [generation EXCEPT ![scan] = @ + 1]
  /\ plan' = [plan EXCEPT ![scan] = {generation[scan] + 1}]
  /\ submitted' = [submitted EXCEPT ![scan] = FALSE]
  /\ ctl' = "publish"
  /\ UNCHANGED <<state, pipe, scan, subject, handles, audio>>

StagePublishes ==
  /\ ctl = "publish"
  /\ state' = [state EXCEPT ![scan] = "pending"]
  /\ handles' = handles \cup {[slot |-> scan, generation |-> generation[scan]]}
  /\ ctl' = "idle" /\ scan' = 0
  /\ UNCHANGED <<generation, plan, submitted, pipe, subject, audio>>

(* ActivateGraphPlan: Submit, then MarkActivationSubmitted. *)
ActivateSubmits(handle) ==
  /\ ctl = "idle"
  /\ head < MaxSubmissions
  /\ Fifo!Push(handle)
  /\ subject' = {handle}
  /\ ctl' = "mark"
  /\ UNCHANGED <<slotVars, scan, handles, audio>>

ActivateQueueFull ==
  /\ ctl = "idle"
  /\ ~Fifo!HasRoom
  /\ UNCHANGED vars

MarkNothing ==
  /\ ctl = "mark"
  /\ subject' = {} /\ ctl' = "idle"
  /\ UNCHANGED <<slotVars, pipe, scan, handles, audio>>

MarkActivationSubmitted ==
  /\ ctl = "mark"
  /\ submitted' = [s \in Slots |->
       \/ submitted[s]
       \/ \E handle \in subject : handle.slot = s /\ handle.generation = generation[s]]
  /\ subject' = {} /\ ctl' = "idle"
  /\ UNCHANGED <<state, generation, plan, pipe, scan, handles, audio>>

(* ReleaseStagedPlan: the checks, ending with the load of the state, then  *)
(* plan.reset() and the store of kFree.                                    *)
Current(handle) ==
  /\ handle.slot \in Slots
  /\ generation[handle.slot] = handle.generation

ReleasableEvenSubmitted(handle) ==
  Current(handle) /\ state[handle.slot] = "pending"

Releasable(handle) ==
  Current(handle) /\ ~submitted[handle.slot] /\ state[handle.slot] = "pending"

ReleaseRefuses(handle) ==
  /\ ctl = "idle"
  /\ ~Releasable(handle)
  /\ UNCHANGED vars

ReleaseResets(handle) ==
  /\ ctl = "idle"
  /\ Releasable(handle)
  /\ plan' = [plan EXCEPT ![handle.slot] = {}]
  /\ scan' = handle.slot /\ ctl' = "release"
  /\ UNCHANGED <<state, generation, submitted, pipe, subject, handles, audio>>

ReleaseFrees ==
  /\ ctl = "release"
  /\ state' = [state EXCEPT ![scan] = "free"]
  /\ ctl' = "idle" /\ scan' = 0
  /\ UNCHANGED <<generation, plan, submitted, pipe, subject, handles, audio>>

(* ReclaimRetiredPlans destroys the plan of every slot it finds free. *)
ReclaimBegins ==
  /\ ctl = "idle"
  /\ ctl' = "reclaim" /\ scan' = 0
  /\ UNCHANGED <<slotVars, pipe, subject, handles, audio>>

Reclaimable(s) == state[s] = "free"

ReclaimScans ==
  /\ ctl = "reclaim"
  /\ plan' = IF Reclaimable(scan) THEN [plan EXCEPT ![scan] = {}] ELSE plan
  /\ IF scan + 1 < SlotCount
     THEN scan' = scan + 1 /\ ctl' = ctl
     ELSE scan' = 0 /\ ctl' = "idle"
  /\ UNCHANGED <<state, generation, submitted, pipe, subject, handles, audio>>

-----------------------------------------------------------------------------
(* Audio thread: DrainCommands applies at most QueueCapacity commands, an  *)
(* activation with TryActivate, and then the active plan is rendered.      *)

controlSide == <<generation, plan, submitted, head, control>>

PopActivation ==
  /\ aud = "drain"
  /\ drained < QueueCapacity
  /\ Fifo!Pop
  /\ request' = {queue[tail + 1]}
  /\ drained' = drained + 1
  /\ aud' = "check"
  /\ UNCHANGED <<slotVars, control, active>>

(* TryActivate: the state is loaded before the generation. *)
CheckState ==
  /\ aud = "check"
  /\ IF \E handle \in request : handle.slot \in Slots /\ state[handle.slot] = "pending"
     THEN aud' = "compare" /\ request' = request
     ELSE aud' = "drain" /\ request' = {}
  /\ UNCHANGED <<controlSide, state, queue, tail, drained, active>>

SameGeneration(handle) == generation[handle.slot] = handle.generation

CheckGeneration ==
  /\ aud = "compare"
  /\ IF \E handle \in request : SameGeneration(handle)
     THEN aud' = (IF active = {} THEN "activate" ELSE "retire") /\ request' = request
     ELSE aud' = "drain" /\ request' = {}
  /\ UNCHANGED <<controlSide, state, queue, tail, drained, active>>

(* The previous plan's slot is stored kRetired and then kFree. *)
RetirePrevious ==
  /\ aud = "retire"
  /\ \E previous \in active : state' = [state EXCEPT ![previous.slot] = "retired"]
  /\ aud' = "free"
  /\ UNCHANGED <<controlSide, queue, tail, drained, request, active>>

FreePrevious ==
  /\ aud = "free"
  /\ \E previous \in active : state' = [state EXCEPT ![previous.slot] = "free"]
  /\ aud' = "activate"
  /\ UNCHANGED <<controlSide, queue, tail, drained, request, active>>

Activate ==
  /\ aud = "activate"
  /\ \E handle \in request : state' = [state EXCEPT ![handle.slot] = "active"]
  /\ active' = request
  /\ request' = {}
  /\ aud' = "drain"
  /\ UNCHANGED <<controlSide, queue, tail, drained>>

(* RenderSegment uses ActivePlan() until the callback ends. *)
RenderBegins ==
  /\ aud = "drain"
  /\ tail = head \/ drained >= QueueCapacity
  /\ aud' = "render"
  /\ UNCHANGED <<controlSide, state, queue, tail, drained, request, active>>

(* The segment has been rendered; a callback ends with its last.           *)
RenderEnds ==
  /\ aud = "render"
  /\ drained' = 0
  /\ aud' = "drain"
  /\ UNCHANGED <<controlSide, state, queue, tail, request, active>>

-----------------------------------------------------------------------------

Control ==
  \/ StageBegins \/ StageSearches \/ StageCompileFails \/ StageCompiles \/ StageBuilds
  \/ StagePublishes
  \/ \E handle \in handles \cup {BadHandle} :
       ActivateSubmits(handle) \/ ReleaseResets(handle) \/ ReleaseRefuses(handle)
  \/ ActivateQueueFull \/ MarkActivationSubmitted \/ ReleaseFrees
  \/ ReclaimBegins \/ ReclaimScans

Audio ==
  \/ PopActivation \/ CheckState \/ CheckGeneration
  \/ RetirePrevious \/ FreePrevious \/ Activate
  \/ RenderBegins \/ RenderEnds

Next == Control \/ Audio

Spec == Init /\ [][Next]_vars

(* The device keeps calling back, and a call in progress is finished.      *)
FairSpec == Spec /\ WF_vars(Audio) /\ WF_vars(MarkActivationSubmitted)

-----------------------------------------------------------------------------
(* Properties. *)

(* Every variable has its type: a loop over the slots never leaves them,   *)
(* and every handle in flight names a slot or the index no slot has.       *)
TypeOK ==
  /\ state \in [Slots -> {"free", "building", "pending", "active", "retired"}]
  /\ generation \in [Slots -> Nat]
  /\ plan \in [Slots -> SUBSET Nat]
  /\ submitted \in [Slots -> BOOLEAN]
  /\ head \in Nat /\ tail \in Nat
  /\ queue \in [(tail + 1)..head -> Handle]
  /\ ctl \in {"idle", "search", "compile", "build", "publish", "mark", "release", "reclaim"}
  /\ scan \in Slots
  /\ subject \subseteq Handle /\ handles \subseteq Handle
  /\ aud \in {"drain", "check", "compare", "retire", "free", "activate", "render"}
  /\ drained \in 0..QueueCapacity
  /\ request \subseteq Handle /\ active \subseteq Handle

(* The plan the audio thread renders is the one it activated: in its slot, *)
(* whole, neither destroyed by a reclaim or a release nor replaced by a    *)
(* staging, and its slot is marked active.                                 *)
RenderedPlanIntact ==
  aud = "render" =>
    \A handle \in active :
      /\ plan[handle.slot] = {handle.generation}
      /\ generation[handle.slot] = handle.generation
      /\ state[handle.slot] = "active"

(* The activation of slot s is in the queue, or being applied. *)
OnItsWay(s) ==
  LET here == [slot |-> s, generation |-> generation[s]]
  IN  here \in request \/ \E i \in (tail + 1)..head : queue[i] = here

(* No slot is lost: every variable has its type, and a slot that is        *)
(* neither free nor the active one is being staged or released, or its     *)
(* plan can be released, or its activation is on its way.  And a retired   *)
(* slot is soon free.                                                      *)
NoSlotLost ==
  /\ TypeOK
  /\ \A s \in Slots :
       \/ state[s] = "free"
       \/ state[s] = "building" /\ ctl \in {"build", "publish"} /\ scan = s
       \/ state[s] = "pending" /\ (~submitted[s] \/ OnItsWay(s))
       \/ state[s] = "active" /\ \E handle \in active : handle.slot = s
       \/ state[s] = "retired" /\ aud = "free"

(* What PlanLifecycle promises the application about its handles. *)
Lifecycle == INSTANCE PlanLifecycle WITH
  Handles <- [slot: Slots, generation: 1..MaxStagings],
  issued <- handles,
  staged <- {handle \in handles : Current(handle) /\ state[handle.slot] = "pending"},
  current <- active

ImplementsLifecycle == Lifecycle!Spec

(* A submitted activation of a staged plan takes effect.                   *)
ActivationTakesEffect ==
  \A handle \in [slot: Slots, generation: 1..MaxStagings] :
    (handle \in handles /\ Current(handle) /\ state[handle.slot] = "pending"
       /\ OnItsWay(handle.slot))
      ~> handle \in active
=============================================================================
