-------------------------- MODULE PlanAssetsProofs --------------------------
(***************************************************************************)
(* That the plan being rendered is never touched and that no slot is lost, *)
(* for every number of slots, every queue and every bound. The two threads *)
(* share no lock: the argument is about what a handle on its way to the    *)
(* audio thread still guarantees. A current handle in the queue is marked, *)
(* or about to be, so that its plan cannot be released under it; a stale   *)
(* one matches no generation. From this also follows, step by step, that   *)
(* the store implements PlanLifecycle.                                     *)
(*                                                                         *)
(* Then, of the store with the assets of its plans: the plans keep the     *)
(* assets they play in memory, their pins are counted, and ReclaimAssets   *)
(* frees every released asset that nothing but retired plans still pinned. *)
(***************************************************************************)
EXTENDS PlanAssets, FiniteSetTheorems, SequenceTheorems, TLAPS

-----------------------------------------------------------------------------
(* The invariant. *)

Queued(handle) == \E i \in (tail + 1)..head : queue[i] = handle
InFlight(handle) == handle \in request \/ Queued(handle)

(* The threads hold one handle each, where they are busy with one.         *)
HandsInv ==
  /\ tail <= head
  /\ IF ctl = "mark" THEN \E handle \in Handle : subject = {handle} ELSE subject = {}
  /\ IF aud \in {"drain", "render"} THEN request = {}
     ELSE \E handle \in Handle : request = {handle}
  /\ active = {} \/ \E handle \in Handle : active = {handle}
  /\ aud \in {"retire", "free"} => active # {}

(* A handle on its way was issued, or names no slot; none is of a          *)
(* generation to come.                                                     *)
IssuedInv ==
  /\ \A handle \in handles :
       handle.slot \in Slots /\ handle.generation <= generation[handle.slot]
  /\ \A handle \in Handle :
       InFlight(handle) \/ handle \in subject => handle \in handles \cup {BadHandle}

(* A current handle on its way is marked, or is being marked.              *)
MarkedInv ==
  \A handle \in Handle :
    InFlight(handle) /\ Current(handle) =>
      \/ submitted[handle.slot]
      \/ ctl = "mark" /\ handle \in subject

(* What the control thread's place in a call says of the slot it is at.    *)
ScanInv ==
  /\ ctl = "compile" => state[scan] = "free"
  /\ ctl \in {"build", "publish"} => state[scan] = "building"
  /\ ctl = "publish" => ~submitted[scan] /\ plan[scan] = {generation[scan]}
  /\ ctl = "release" => ~submitted[scan] /\ state[scan] = "pending"

(* A slot is in each state for a reason, and a pending one has its plan.   *)
SlotInv ==
  \A s \in Slots :
    /\ state[s] = "building" => ctl \in {"build", "publish"} /\ scan = s
    /\ state[s] = "pending" => plan[s] = {generation[s]} \/ (ctl = "release" /\ scan = s)
    /\ state[s] = "active" =>
         aud \notin {"free", "activate"} /\ \E handle \in active : handle.slot = s
    /\ state[s] = "retired" => aud = "free" /\ \E handle \in active : handle.slot = s

(* A pending slot whose activation was submitted will hear of it.          *)
PendingInv ==
  /\ \A handle \in Handle :
       Current(handle) /\ state[handle.slot] = "pending"
           /\ (submitted[handle.slot] \/ handle \in subject) => InFlight(handle)

(* A request that was compared stays good until it is carried out.         *)
RequestInv ==
  \A handle \in request :
    /\ aud = "compare" =>
         handle.slot \in Slots /\ (Current(handle) => state[handle.slot] = "pending")
    /\ aud \in {"retire", "free", "activate"} =>
         Current(handle) /\ state[handle.slot] = "pending"

(* The active plan is whole until it is retired.                           *)
ActiveInv ==
  \A handle \in active :
    /\ handle.slot \in Slots
    /\ aud \notin {"free", "activate"} =>
         /\ state[handle.slot] = "active"
         /\ generation[handle.slot] = handle.generation
         /\ plan[handle.slot] = {handle.generation}
    /\ aud = "free" => state[handle.slot] = "retired"

PlanInv ==
  /\ HandsInv /\ IssuedInv /\ MarkedInv /\ ScanInv
  /\ SlotInv /\ PendingInv /\ RequestInv /\ ActiveInv

-----------------------------------------------------------------------------
(* The queue. *)

(* There is a slot, and one index that names none.                         *)
LEMMA SlotsAreNumbers == SlotCount \in Nat \ {0} /\ SlotCount \notin Slots
BY PlanStoreAssumption DEF SlotCount, Slots

(* A push adds its handle to what is queued.                               *)
LEMMA Pushed ==
  ASSUME TypeOK, HandsInv, NEW handle \in Handle, Fifo!Push(handle)
  PROVE  /\ head' \in Nat /\ tail' \in Nat /\ tail' <= head'
         /\ queue' \in [(tail' + 1)..head' -> Handle]
         /\ \A other : Queued(other)' <=> Queued(other) \/ other = handle
<1> USE DEF TypeOK, HandsInv, Fifo!Push, Fifo!Put
<1>1. head' = head + 1 /\ tail' = tail /\ tail <= head /\ head \in Nat /\ tail \in Nat
  OBVIOUS
<1>2. queue' \in [(tail' + 1)..head' -> Handle]
  BY <1>1
<1>3. queue'[head'] = handle /\ \A i \in (tail + 1)..head : queue'[i] = queue[i]
  BY <1>1
<1>4. ASSUME NEW other
      PROVE  Queued(other)' <=> Queued(other) \/ other = handle
  BY <1>1, <1>3 DEF Queued
<1> QED
  BY <1>1, <1>2, <1>4

(* A pop takes the oldest and leaves the others.                           *)
LEMMA Popped ==
  ASSUME TypeOK, HandsInv, Fifo!Pop
  PROVE  /\ head' \in Nat /\ tail' \in Nat /\ tail' <= head'
         /\ queue' \in [(tail' + 1)..head' -> Handle]
         /\ queue[tail + 1] \in Handle
         /\ Queued(queue[tail + 1])
         /\ \A other : Queued(other)' => Queued(other)
         /\ \A other : Queued(other) => Queued(other)' \/ other = queue[tail + 1]
<1> USE DEF TypeOK, HandsInv, Fifo!Pop, Fifo!Take
<1>1. head' = head /\ tail' = tail + 1 /\ tail < head /\ head \in Nat /\ tail \in Nat
  OBVIOUS
<1>2. queue' \in [(tail' + 1)..head' -> Handle] /\ queue[tail + 1] \in Handle
  BY <1>1
<1>3. \A i \in (tail' + 1)..head' : queue'[i] = queue[i]
  BY <1>1
<1>4. Queued(queue[tail + 1])
  BY <1>1 DEF Queued
<1>5. ASSUME NEW other
      PROVE  /\ Queued(other)' => Queued(other)
             /\ Queued(other) => Queued(other)' \/ other = queue[tail + 1]
  BY <1>1, <1>3 DEF Queued
<1> QED
  BY <1>1, <1>2, <1>4, <1>5

(* A step that leaves the queue alone leaves what is queued.               *)
LEMMA SameQueue ==
  ASSUME UNCHANGED pipe
  PROVE  \A handle : Queued(handle)' <=> Queued(handle)
BY DEF pipe, Queued

-----------------------------------------------------------------------------
(* Types. *)

(* The types hold before the first call.                                   *)
LEMMA TypesInitially == Init => TypeOK
BY SlotsAreNumbers, PlanStoreAssumption DEF Init, TypeOK, Slots

(* Every step keeps the types.                                             *)
LEMMA TypesStep ==
  ASSUME TypeOK, PlanInv, [Next]_vars
  PROVE  TypeOK'
<1> USE PlanStoreAssumption, SlotsAreNumbers
        DEF TypeOK, slotVars, pipe, control, audio, controlSide, Slots
<1>1. CASE StageBegins
  BY <1>1 DEF StageBegins
<1>2. CASE StageSearches
  BY <1>2 DEF StageSearches, Usable
<1>3. CASE StageCompileFails
  BY <1>3 DEF StageCompileFails
<1>4. CASE StageCompiles
  BY <1>4 DEF StageCompiles
<1>5. CASE StageBuilds
  BY <1>5 DEF StageBuilds
<1>6. CASE StagePublishes
  BY <1>6 DEF StagePublishes, Handle
<1>7. CASE ActivateQueueFull
  BY <1>7 DEF ActivateQueueFull, vars
<1>8. CASE MarkActivationSubmitted
  BY <1>8 DEF MarkActivationSubmitted, Handle
<1>9. CASE ReleaseFrees
  BY <1>9 DEF ReleaseFrees
<1>10. CASE ReclaimBegins
  BY <1>10 DEF ReclaimBegins
<1>11. CASE ReclaimScans
  BY <1>11 DEF ReclaimScans, Reclaimable
<1>12. CASE CheckState
  BY <1>12 DEF CheckState
<1>13. CASE CheckGeneration
  BY <1>13 DEF CheckGeneration
<1>14. CASE RetirePrevious
  BY <1>14 DEF RetirePrevious, Handle
<1>15. CASE FreePrevious
  BY <1>15 DEF FreePrevious
<1>16. CASE Activate
  BY <1>16 DEF Activate
<1>17. CASE RenderBegins
  BY <1>17 DEF RenderBegins
<1>18. CASE RenderEnds
  BY <1>18 DEF RenderEnds
<1>19. ASSUME NEW handle \in handles \cup {BadHandle}, ActivateSubmits(handle)
      PROVE  TypeOK'
  <2>1. handle \in Handle
    BY DEF BadHandle, Handle
  <2> QED
    BY <1>19, <2>1, Pushed DEF ActivateSubmits, PlanInv
<1>20. ASSUME NEW handle \in handles \cup {BadHandle}, ReleaseResets(handle)
      PROVE  TypeOK'
  BY <1>20 DEF ReleaseResets, Releasable, Current
<1>21. ASSUME NEW handle \in handles \cup {BadHandle}, ReleaseRefuses(handle)
      PROVE  TypeOK'
  BY <1>21 DEF ReleaseRefuses, vars
<1>22. CASE PopActivation
  <2>1. /\ head' \in Nat /\ tail' \in Nat
        /\ queue' \in [(tail' + 1)..head' -> Handle]
        /\ queue[tail + 1] \in Handle
    BY <1>22, Popped DEF PopActivation, PlanInv
  <2>2. request' \subseteq Handle /\ drained' \in 0..QueueCapacity /\ aud' = "check"
    BY <1>22, <2>1 DEF PopActivation
  <2>3. UNCHANGED <<slotVars, control, active>>
    BY <1>22 DEF PopActivation
  <2> QED
    BY <2>1, <2>2, <2>3
<1>23. CASE UNCHANGED vars
  BY <1>23 DEF vars
<1> QED
  BY <1>1, <1>2, <1>3, <1>4, <1>5, <1>6, <1>7, <1>8, <1>9, <1>10, <1>11, <1>12, <1>13,
     <1>14, <1>15, <1>16, <1>17, <1>18, <1>19, <1>20, <1>21, <1>22, <1>23
     DEF Next, Control, Audio

-----------------------------------------------------------------------------
(* The invariant. *)

(* Nothing is on its way at first, and every slot is free.                 *)
LEMMA PlanInitially == Init => PlanInv
<1> SUFFICES ASSUME Init
             PROVE  PlanInv
  OBVIOUS
<1>1. \A handle : ~InFlight(handle) /\ handle \notin subject
  BY DEF Init, InFlight, Queued
<1>2. HandsInv /\ ScanInv /\ RequestInv /\ ActiveInv
  BY DEF Init, HandsInv, ScanInv, RequestInv, ActiveInv
<1>3. IssuedInv /\ MarkedInv
  BY <1>1 DEF Init, IssuedInv, MarkedInv
<1>4. SlotInv
  BY DEF Init, SlotInv
<1>5. PendingInv
  <2>0. state = [s \in Slots |-> "free"]
    BY Zenon DEF Init
  <2>1. \A s \in Slots : state[s] = "free"
    BY <2>0, Zenon
  <2> QED
    BY <2>1 DEF PendingInv, Current
<1> QED
  BY <1>2, <1>3, <1>4, <1>5 DEF PlanInv

(* Every step of the two threads keeps the invariant.                      *)
LEMMA PlanStep ==
  ASSUME TypeOK, PlanInv, [Next]_vars
  PROVE  PlanInv'
<1> USE PlanStoreAssumption, SlotsAreNumbers, TypesStep
        DEF TypeOK, slotVars, pipe, control, audio, controlSide, Current, InFlight,
            PlanInv, HandsInv, IssuedInv, MarkedInv, ScanInv, SlotInv, PendingInv, RequestInv,
            ActiveInv
<1>0. UNCHANGED pipe => \A other : Queued(other)' <=> Queued(other)
  BY SameQueue
<1>1. CASE StageBegins
  <2>0. \A other : Queued(other)' <=> Queued(other)
    BY <1>0, <1>1 DEF StageBegins
  <2> QED
    BY <1>1, <2>0 DEF StageBegins
<1>2. CASE StageSearches
  <2>0. \A other : Queued(other)' <=> Queued(other)
    BY <1>0, <1>2 DEF StageSearches, Usable
  <2> QED
    BY <1>2, <2>0 DEF StageSearches, Usable
<1>3. CASE StageCompileFails
  <2>0. \A other : Queued(other)' <=> Queued(other)
    BY <1>0, <1>3 DEF StageCompileFails
  <2> QED
    BY <1>3, <2>0 DEF StageCompileFails
<1>4. CASE StageCompiles
  <2>0. \A other : Queued(other)' <=> Queued(other)
    BY <1>0, <1>4 DEF StageCompiles
  <2> QED
    BY <1>4, <2>0 DEF StageCompiles
<1>5. CASE StagePublishes
  <2>0. \A other : Queued(other)' <=> Queued(other)
    BY <1>0, <1>5 DEF StagePublishes
  <2> QED
    BY <1>5, <2>0, SMTT(30) DEF StagePublishes
<1>6. ASSUME NEW handle \in handles \cup {BadHandle}, ReleaseResets(handle)
      PROVE  PlanInv'
  <2>0. \A other : Queued(other)' <=> Queued(other)
    BY <1>0, <1>6 DEF ReleaseResets, Releasable
  <2> QED
    BY <1>6, <2>0 DEF ReleaseResets, Releasable
<1>7. ASSUME NEW handle \in handles \cup {BadHandle}, ReleaseRefuses(handle)
      PROVE  PlanInv'
  <2>0. \A other : Queued(other)' <=> Queued(other)
    BY <1>0, <1>7 DEF ReleaseRefuses, vars
  <2> QED
    BY <1>7, <2>0 DEF ReleaseRefuses, vars
<1>8. CASE ReleaseFrees
  <2>0. \A other : Queued(other)' <=> Queued(other)
    BY <1>0, <1>8 DEF ReleaseFrees
  <2> QED
    BY <1>8, <2>0 DEF ReleaseFrees
<1>9. CASE ReclaimBegins
  <2>0. \A other : Queued(other)' <=> Queued(other)
    BY <1>0, <1>9 DEF ReclaimBegins
  <2> QED
    BY <1>9, <2>0 DEF ReclaimBegins
<1>10. CASE ReclaimScans
  <2>0. \A other : Queued(other)' <=> Queued(other)
    BY <1>0, <1>10 DEF ReclaimScans, Reclaimable
  <2> QED
    BY <1>10, <2>0 DEF ReclaimScans, Reclaimable
<1>11. CASE ActivateQueueFull
  <2>0. \A other : Queued(other)' <=> Queued(other)
    BY <1>0, <1>11 DEF ActivateQueueFull, vars
  <2> QED
    BY <1>11, <2>0 DEF ActivateQueueFull, vars
<1>12. CASE Activate
  <2>0. \A other : Queued(other)' <=> Queued(other)
    BY <1>0, <1>12 DEF Activate
  <2> QED
    BY <1>12, <2>0 DEF Activate
<1>13. CASE RenderBegins
  <2>0. \A other : Queued(other)' <=> Queued(other)
    BY <1>0, <1>13 DEF RenderBegins
  <2> QED
    BY <1>13, <2>0 DEF RenderBegins
<1>14. CASE RenderEnds
  <2>0. \A other : Queued(other)' <=> Queued(other)
    BY <1>0, <1>14 DEF RenderEnds
  <2> QED
    BY <1>14, <2>0 DEF RenderEnds
<1>15. CASE StageBuilds
  <2>0. \A other : Queued(other)' <=> Queued(other)
    BY <1>0, <1>15 DEF StageBuilds
  <2>1. \A handle \in Handle : handle.slot \in Nat /\ handle.generation \in Nat
    BY DEF Handle, Slots
  <2>2. scan \in Slots /\ generation[scan] \in Nat
    OBVIOUS
  <2>3. \A s \in Slots :
          /\ generation'[s] = IF s = scan THEN generation[s] + 1 ELSE generation[s]
          /\ s # scan => (submitted'[s] <=> submitted[s]) /\ plan'[s] = plan[s]
    BY <1>15 DEF StageBuilds
  <2>4. ~submitted'[scan] /\ plan'[scan] = {generation'[scan]} /\ ctl' = "publish"
    BY <1>15 DEF StageBuilds
  <2>5. \A handle \in Handle :
          (InFlight(handle) \/ handle \in subject) /\ Current(handle)' =>
            handle.slot # scan /\ Current(handle)
    BY <2>1, <2>2, <2>3, <1>15 DEF StageBuilds, BadHandle
  <2>6. HandsInv'
    BY <1>15, <2>0, <2>1, <2>2, <2>3, <2>4, <2>5 DEF StageBuilds
  <2>7. IssuedInv'
    BY <1>15, <2>0, <2>1, <2>2, <2>3, <2>4, <2>5 DEF StageBuilds
  <2>8. MarkedInv'
    BY <1>15, <2>0, <2>1, <2>2, <2>3, <2>4, <2>5 DEF StageBuilds
  <2>9. ScanInv'
    BY <1>15, <2>0, <2>1, <2>2, <2>3, <2>4, <2>5 DEF StageBuilds
  <2>10. SlotInv'
    BY <1>15, <2>0, <2>1, <2>2, <2>3, <2>4, <2>5 DEF StageBuilds
  <2>11. PendingInv'
    BY <1>15, <2>0, <2>1, <2>2, <2>3, <2>4, <2>5 DEF StageBuilds
  <2>12. RequestInv'
    BY <1>15, <2>0, <2>1, <2>2, <2>3, <2>4, <2>5 DEF StageBuilds
  <2>13. ActiveInv'
    BY <1>15, <2>0, <2>1, <2>2, <2>3, <2>4, <2>5 DEF StageBuilds
  <2> QED
    BY <2>6, <2>7, <2>8, <2>9, <2>10, <2>11, <2>12, <2>13
<1>16. CASE MarkActivationSubmitted
  <2>0. \A other : Queued(other)' <=> Queued(other)
    BY <1>0, <1>16 DEF MarkActivationSubmitted
  <2>1. \A handle \in Handle : Current(handle) =>
          (submitted'[handle.slot] <=> submitted[handle.slot] \/ handle \in subject)
    BY <1>16, SMTT(30) DEF MarkActivationSubmitted, Handle
  <2>2. HandsInv'
    BY <1>16, <2>0, <2>1 DEF MarkActivationSubmitted
  <2>3. IssuedInv'
    BY <1>16, <2>0, <2>1 DEF MarkActivationSubmitted
  <2>4. MarkedInv'
    BY <1>16, <2>0, <2>1 DEF MarkActivationSubmitted
  <2>5. ScanInv'
    BY <1>16, <2>0, <2>1 DEF MarkActivationSubmitted
  <2>6. SlotInv'
    BY <1>16, <2>0, <2>1 DEF MarkActivationSubmitted
  <2>7. PendingInv'
    BY <1>16, <2>0, <2>1 DEF MarkActivationSubmitted
  <2>8. RequestInv'
    BY <1>16, <2>0, <2>1 DEF MarkActivationSubmitted
  <2>9. ActiveInv'
    BY <1>16, <2>0, <2>1 DEF MarkActivationSubmitted
  <2> QED
    BY <2>2, <2>3, <2>4, <2>5, <2>6, <2>7, <2>8, <2>9
<1>17. CASE CheckState
  <2>0. \A other : Queued(other)' <=> Queued(other)
    BY <1>0, <1>17 DEF CheckState
  <2>1. aud = "check" /\ UNCHANGED <<pipe, ctl, subject, active>>
    BY <1>17 DEF CheckState
  <2>2. \/ request' = request /\ aud' = "compare"
        \/ request' = {} /\ aud' = "drain"
    BY <1>17 DEF CheckState
  <2>3. /\ tail' <= head'
        /\ IF ctl' = "mark" THEN \E handle \in Handle : subject' = {handle}
           ELSE subject' = {}
        /\ active' = {} \/ \E handle \in Handle : active' = {handle}
    BY <2>1
  <2>4. IF aud' \in {"drain", "render"} THEN request' = {}
        ELSE \E handle \in Handle : request' = {handle}
    <3>1. \E handle \in Handle : request = {handle}
      BY <2>1
    <3> QED
      BY <2>2, <3>1
  <2>5. aud' \in {"retire", "free"} => active' # {}
    BY <2>1, <2>2
  <2>6. HandsInv'
    BY <2>3, <2>4, <2>5
  <2>7. IssuedInv'
    BY <1>17, <2>0 DEF CheckState
  <2>8. MarkedInv'
    BY <1>17, <2>0 DEF CheckState
  <2>9. ScanInv'
    BY <1>17, <2>0 DEF CheckState
  <2>10. SlotInv'
    BY <1>17, <2>0 DEF CheckState
  <2>11. PendingInv'
    BY <1>17, <2>0 DEF CheckState
  <2>12. RequestInv'
    BY <1>17, <2>0 DEF CheckState
  <2>13. ActiveInv'
    BY <1>17, <2>0 DEF CheckState
  <2> QED
    BY <2>6, <2>7, <2>8, <2>9, <2>10, <2>11, <2>12, <2>13
<1>18. CASE CheckGeneration
  <2>0. \A other : Queued(other)' <=> Queued(other)
    BY <1>0, <1>18 DEF CheckGeneration, SameGeneration
  <2>1. aud = "compare" /\ UNCHANGED <<pipe, ctl, subject, active>>
    BY <1>18 DEF CheckGeneration
  <2>2. \/ request' = request /\ aud' = "activate" /\ active = {}
        \/ request' = request /\ aud' = "retire" /\ active # {}
        \/ request' = {} /\ aud' = "drain"
    BY <1>18 DEF CheckGeneration
  <2>3. /\ tail' <= head'
        /\ IF ctl' = "mark" THEN \E handle \in Handle : subject' = {handle}
           ELSE subject' = {}
        /\ active' = {} \/ \E handle \in Handle : active' = {handle}
    BY <2>1
  <2>4. IF aud' \in {"drain", "render"} THEN request' = {}
        ELSE \E handle \in Handle : request' = {handle}
    <3>1. \E handle \in Handle : request = {handle}
      BY <2>1
    <3> QED
      BY <2>2, <3>1
  <2>5. aud' \in {"retire", "free"} => active' # {}
    BY <2>1, <2>2
  <2>6. HandsInv'
    BY <2>3, <2>4, <2>5
  <2>7. IssuedInv'
    BY <1>18, <2>0 DEF CheckGeneration, SameGeneration
  <2>8. MarkedInv'
    BY <1>18, <2>0 DEF CheckGeneration, SameGeneration
  <2>9. ScanInv'
    BY <1>18, <2>0 DEF CheckGeneration, SameGeneration
  <2>10. SlotInv'
    BY <1>18, <2>0 DEF CheckGeneration, SameGeneration
  <2>11. PendingInv'
    BY <1>18, <2>0 DEF CheckGeneration, SameGeneration
  <2>12. RequestInv'
    BY <1>18, <2>0 DEF CheckGeneration, SameGeneration
  <2>13. ActiveInv'
    BY <1>18, <2>0 DEF CheckGeneration, SameGeneration
  <2> QED
    BY <2>6, <2>7, <2>8, <2>9, <2>10, <2>11, <2>12, <2>13
<1>19. CASE RetirePrevious
  <2>0. \A other : Queued(other)' <=> Queued(other)
    BY <1>0, <1>19 DEF RetirePrevious

  <2>1. HandsInv'
    BY <1>19, <2>0 DEF RetirePrevious
  <2>2. IssuedInv'
    BY <1>19, <2>0 DEF RetirePrevious
  <2>3. MarkedInv'
    BY <1>19, <2>0 DEF RetirePrevious
  <2>4. ScanInv'
    BY <1>19, <2>0 DEF RetirePrevious
  <2>5. SlotInv'
    BY <1>19, <2>0 DEF RetirePrevious
  <2>6. PendingInv'
    BY <1>19, <2>0 DEF RetirePrevious
  <2>7. RequestInv'
    BY <1>19, <2>0 DEF RetirePrevious
  <2>8. ActiveInv'
    BY <1>19, <2>0 DEF RetirePrevious
  <2> QED
    BY <2>1, <2>2, <2>3, <2>4, <2>5, <2>6, <2>7, <2>8
<1>20. CASE FreePrevious
  <2>0. \A other : Queued(other)' <=> Queued(other)
    BY <1>0, <1>20 DEF FreePrevious

  <2>1. HandsInv'
    BY <1>20, <2>0 DEF FreePrevious
  <2>2. IssuedInv'
    BY <1>20, <2>0 DEF FreePrevious
  <2>3. MarkedInv'
    BY <1>20, <2>0 DEF FreePrevious
  <2>4. ScanInv'
    BY <1>20, <2>0 DEF FreePrevious
  <2>5. SlotInv'
    BY <1>20, <2>0 DEF FreePrevious
  <2>6. PendingInv'
    BY <1>20, <2>0 DEF FreePrevious
  <2>7. RequestInv'
    BY <1>20, <2>0 DEF FreePrevious
  <2>8. ActiveInv'
    BY <1>20, <2>0 DEF FreePrevious
  <2> QED
    BY <2>1, <2>2, <2>3, <2>4, <2>5, <2>6, <2>7, <2>8
<1>21. ASSUME NEW handle \in handles \cup {BadHandle}, ActivateSubmits(handle)
      PROVE  PlanInv'
  <2>1. handle \in Handle
    BY DEF BadHandle, Handle
  <2>2. Fifo!Push(handle)
    BY <1>21 DEF ActivateSubmits
  <2>3. tail' <= head' /\ \A other : Queued(other)' <=> Queued(other) \/ other = handle
    BY <2>1, <2>2, Pushed
  <2>4. HandsInv'
    BY <1>21, <2>1, <2>3 DEF ActivateSubmits
  <2>5. IssuedInv'
    BY <1>21, <2>1, <2>3 DEF ActivateSubmits
  <2>6. MarkedInv'
    BY <1>21, <2>1, <2>3 DEF ActivateSubmits
  <2>7. ScanInv'
    BY <1>21, <2>1, <2>3 DEF ActivateSubmits
  <2>8. SlotInv'
    BY <1>21, <2>1, <2>3 DEF ActivateSubmits
  <2>9. PendingInv'
    BY <1>21, <2>1, <2>3 DEF ActivateSubmits
  <2>10. RequestInv'
    BY <1>21, <2>1, <2>3 DEF ActivateSubmits
  <2>11. ActiveInv'
    BY <1>21, <2>1, <2>3 DEF ActivateSubmits
  <2> QED
    BY <2>4, <2>5, <2>6, <2>7, <2>8, <2>9, <2>10, <2>11
<1>22. CASE PopActivation
  <2>1. Fifo!Pop
    BY <1>22 DEF PopActivation
  <2>2. /\ tail' <= head'
        /\ queue[tail + 1] \in Handle /\ Queued(queue[tail + 1])
        /\ \A other : Queued(other)' => Queued(other)
        /\ \A other : Queued(other) => Queued(other)' \/ other = queue[tail + 1]
    BY <2>1, Popped
  <2>3. HandsInv'
    BY <1>22, <2>2 DEF PopActivation
  <2>4. IssuedInv'
    BY <1>22, <2>2 DEF PopActivation
  <2>5. MarkedInv'
    BY <1>22, <2>2 DEF PopActivation
  <2>6. ScanInv'
    BY <1>22, <2>2 DEF PopActivation
  <2>7. SlotInv'
    BY <1>22, <2>2 DEF PopActivation
  <2>8. PendingInv'
    BY <1>22, <2>2 DEF PopActivation
  <2>9. RequestInv'
    BY <1>22, <2>2 DEF PopActivation
  <2>10. ActiveInv'
    BY <1>22, <2>2 DEF PopActivation
  <2> QED
    BY <2>3, <2>4, <2>5, <2>6, <2>7, <2>8, <2>9, <2>10
<1>23. CASE UNCHANGED vars
  <2>0. \A other : Queued(other)' <=> Queued(other)
    BY <1>0, <1>23 DEF vars
  <2> QED
    BY <1>23, <2>0 DEF vars
<1> QED
  BY <1>1, <1>2, <1>3, <1>4, <1>5, <1>6, <1>7, <1>8, <1>9, <1>10, <1>11, <1>12, <1>13,
     <1>14, <1>15, <1>16, <1>17, <1>18, <1>19, <1>20, <1>21, <1>22, <1>23
     DEF Next, Control, Audio

(* Together with the types, it holds in every reachable state.             *)
LEMMA PlanInvariant == Spec => [](TypeOK /\ PlanInv)
<1>1. Init => TypeOK /\ PlanInv
  BY TypesInitially, PlanInitially
<1>2. TypeOK /\ PlanInv /\ [Next]_vars => TypeOK' /\ PlanInv'
  BY TypesStep, PlanStep
<1> QED
  BY <1>1, <1>2, PTL DEF Spec

-----------------------------------------------------------------------------
(* The theorems. *)

(* The plan that the audio thread renders is the one it activated, whole   *)
(* and in its slot, whatever the control thread does meanwhile.            *)
THEOREM RenderedPlanStaysIntact == Spec => []RenderedPlanIntact
<1>1. TypeOK /\ PlanInv => RenderedPlanIntact
  BY DEF PlanInv, ActiveInv, RenderedPlanIntact
<1> QED
  BY <1>1, PlanInvariant, PTL

(* Every slot is free, or in use for a reason that comes to an end.        *)
THEOREM SlotsNeverLost == Spec => []NoSlotLost
<1>1. ASSUME TypeOK, PlanInv
      PROVE  NoSlotLost
  <2>1. ASSUME NEW s \in Slots, state[s] = "pending", submitted[s]
        PROVE  OnItsWay(s)
    <3> DEFINE here == [slot |-> s, generation |-> generation[s]]
    <3>1. here \in Handle /\ Current(here)
      BY <1>1, <2>1, SlotsAreNumbers DEF Handle, Current, Slots, TypeOK
    <3>2. InFlight(here)
      BY <1>1, <2>1, <3>1 DEF PlanInv, PendingInv
    <3> QED
      BY <3>2 DEF OnItsWay, InFlight, Queued
  <2>2. ASSUME NEW s \in Slots
        PROVE  state[s] \in {"free", "building", "pending", "active", "retired"}
    BY <1>1 DEF TypeOK
  <2> QED
    BY <1>1, <2>1, <2>2 DEF NoSlotLost, PlanInv, SlotInv
<1> QED
  BY <1>1, PlanInvariant, PTL

-----------------------------------------------------------------------------
(* The refinement. *)

PlanHandle == [slot: Slots, generation: 1..MaxStagings]

(* The handles issued are the generations built, but for the one that is   *)
(* about to be; the handle of a pending slot has been issued.              *)
LifeInv ==
  /\ handles \subseteq PlanHandle
  /\ \A s \in Slots :
       /\ generation[s] <= MaxStagings
       /\ state[s] = "pending" => [slot |-> s, generation |-> generation[s]] \in handles
  /\ ctl = "build" => generation[scan] < MaxStagings
  /\ ctl = "publish" =>
       /\ generation[scan] >= 1
       /\ \A handle \in handles : handle.slot = scan => handle.generation < generation[scan]

(* No handle has been issued at first.                                     *)
LEMMA LifeInitially == Init => LifeInv
BY SlotsAreNumbers, PlanStoreAssumption DEF Init, LifeInv, Slots

(* Every step keeps what is said of the handles issued.                    *)
LEMMA LifeStep ==
  ASSUME TypeOK, PlanInv, LifeInv, [Next]_vars
  PROVE  LifeInv'
<1> USE PlanStoreAssumption, SlotsAreNumbers
        DEF TypeOK, PlanInv, ScanInv, SlotInv, RequestInv, LifeInv, PlanHandle, Slots,
            slotVars, pipe, control, audio, controlSide
<1>1. CASE StageBegins
  BY <1>1 DEF StageBegins
<1>2. CASE StageSearches
  BY <1>2 DEF StageSearches, Usable
<1>3. CASE StageCompileFails
  BY <1>3 DEF StageCompileFails
<1>4. CASE StageCompiles
  BY <1>4 DEF StageCompiles
<1>5. CASE StageBuilds
  BY <1>5 DEF StageBuilds, IssuedInv
<1>6. CASE StagePublishes
  BY <1>6 DEF StagePublishes
<1>7. CASE ActivateQueueFull
  BY <1>7 DEF ActivateQueueFull, vars
<1>8. CASE MarkActivationSubmitted
  BY <1>8 DEF MarkActivationSubmitted
<1>9. CASE ReleaseFrees
  BY <1>9 DEF ReleaseFrees
<1>10. CASE ReclaimBegins
  BY <1>10 DEF ReclaimBegins
<1>11. CASE ReclaimScans
  BY <1>11 DEF ReclaimScans, Reclaimable
<1>12. CASE PopActivation
  BY <1>12 DEF PopActivation
<1>13. CASE CheckState
  BY <1>13 DEF CheckState
<1>14. CASE CheckGeneration
  BY <1>14 DEF CheckGeneration, SameGeneration
<1>15. CASE RetirePrevious
  BY <1>15 DEF RetirePrevious
<1>16. CASE FreePrevious
  BY <1>16 DEF FreePrevious
<1>17. CASE Activate
  BY <1>17 DEF Activate, Handle
<1>18. CASE RenderBegins
  BY <1>18 DEF RenderBegins
<1>19. CASE RenderEnds
  BY <1>19 DEF RenderEnds
<1>20. ASSUME NEW handle \in handles \cup {BadHandle}, ActivateSubmits(handle)
      PROVE  LifeInv'
  BY <1>20 DEF ActivateSubmits
<1>21. ASSUME NEW handle \in handles \cup {BadHandle}, ReleaseResets(handle)
      PROVE  LifeInv'
  BY <1>21 DEF ReleaseResets, Releasable
<1>22. ASSUME NEW handle \in handles \cup {BadHandle}, ReleaseRefuses(handle)
      PROVE  LifeInv'
  BY <1>22 DEF ReleaseRefuses, vars
<1>23. CASE UNCHANGED vars
  BY <1>23 DEF vars
<1> QED
  BY <1>1, <1>2, <1>3, <1>4, <1>5, <1>6, <1>7, <1>8, <1>9, <1>10, <1>11, <1>12, <1>13,
     <1>14, <1>15, <1>16, <1>17, <1>18, <1>19, <1>20, <1>21, <1>22, <1>23
     DEF Next, Control, Audio

(* What is staged, as PlanLifecycle sees it.                               *)
Staged == {handle \in handles : Current(handle) /\ state[handle.slot] = "pending"}

(* Each action of PlanLifecycle is one of its steps.                       *)
LEMMA LifecycleActions ==
  ASSUME NEW handle \in PlanHandle,
         Lifecycle!Stage(handle) \/ Lifecycle!Release(handle) \/ Lifecycle!Activate(handle)
  PROVE  Lifecycle!Next
BY DEF PlanHandle, Lifecycle!Next

(* The handle about to be published is in range and new.                   *)
LEMMA NewHandle ==
  ASSUME TypeOK, LifeInv, ctl = "publish"
  PROVE  [slot |-> scan, generation |-> generation[scan]] \in PlanHandle \ handles
<1>1. scan \in Slots /\ generation[scan] \in Nat /\ MaxStagings \in Nat
  BY PlanStoreAssumption DEF TypeOK
<1>2. generation[scan] <= MaxStagings /\ generation[scan] >= 1
  BY <1>1 DEF LifeInv
<1>3. generation[scan] \in 1..MaxStagings
  BY <1>1, <1>2
<1>4. [slot |-> scan, generation |-> generation[scan]] \in PlanHandle
  BY <1>1, <1>3 DEF PlanHandle
<1>5. \A handle \in handles : handle.slot = scan => handle.generation < generation[scan]
  BY DEF LifeInv
<1>6. ASSUME [slot |-> scan, generation |-> generation[scan]] \in handles
      PROVE  FALSE
  BY <1>1, <1>5, <1>6
<1> QED
  BY <1>4, <1>6

(* The handle of a pending slot is staged.                                 *)
LEMMA PendingHandle ==
  ASSUME TypeOK, LifeInv, NEW s \in Slots, state[s] = "pending"
  PROVE  [slot |-> s, generation |-> generation[s]] \in Staged \cap PlanHandle
<1>1. [slot |-> s, generation |-> generation[s]] \in handles
  BY DEF LifeInv
<1> QED
  BY <1>1 DEF LifeInv, Staged, Current

(* Publishing, freeing a released slot and activating are the three steps  *)
(* of PlanLifecycle; to it all others are stutters.                        *)
LEMMA LifecycleStep ==
  ASSUME TypeOK, PlanInv, LifeInv, [Next]_vars
  PROVE  [Lifecycle!Next]_(Lifecycle!lifecycle)
<1> USE PlanStoreAssumption, SlotsAreNumbers
        DEF TypeOK, PlanInv, ScanInv, SlotInv, LifeInv, PlanHandle, Slots, Current, Staged,
            slotVars, pipe, control, audio, controlSide
<1>0. ASSUME handles' = handles, active' = active, Staged' = Staged
      PROVE  [Lifecycle!Next]_(Lifecycle!lifecycle)
  BY <1>0 DEF Lifecycle!lifecycle
<1>1. CASE StageBegins
  <2>1. handles' = handles /\ active' = active
    BY <1>1 DEF StageBegins
  <2>2. Staged' = Staged
    BY <1>1 DEF StageBegins
  <2> QED
    BY <1>0, <2>1, <2>2
<1>2. CASE StageSearches
  <2>1. handles' = handles /\ active' = active
    BY <1>2 DEF StageSearches, Usable
  <2>2. Staged' = Staged
    BY <1>2 DEF StageSearches, Usable
  <2> QED
    BY <1>0, <2>1, <2>2
<1>3. CASE StageCompileFails
  <2>1. handles' = handles /\ active' = active
    BY <1>3 DEF StageCompileFails
  <2>2. Staged' = Staged
    BY <1>3 DEF StageCompileFails
  <2> QED
    BY <1>0, <2>1, <2>2
<1>4. CASE StageCompiles
  <2>1. handles' = handles /\ active' = active
    BY <1>4 DEF StageCompiles
  <2>2. Staged' = Staged
    BY <1>4 DEF StageCompiles
  <2> QED
    BY <1>0, <2>1, <2>2
<1>5. CASE StageBuilds
  <2>1. handles' = handles /\ active' = active
    BY <1>5 DEF StageBuilds
  <2>2. Staged' = Staged
    BY <1>5 DEF StageBuilds
  <2> QED
    BY <1>0, <2>1, <2>2
<1>6. CASE StagePublishes
  <2>1. /\ ctl = "publish"
        /\ handles' = handles \cup {[slot |-> scan, generation |-> generation[scan]]}
    BY <1>6 DEF StagePublishes
  <2>2. PICK new \in PlanHandle : new = [slot |-> scan, generation |-> generation[scan]]
    BY <2>1, NewHandle
  <2>3. new \notin handles /\ handles' = handles \cup {new}
    BY <2>1, <2>2, NewHandle
  <2>4. Staged' = Staged \cup {new}
    BY <1>6, <2>2, <2>3 DEF StagePublishes
  <2>5. active' = active
    BY <1>6 DEF StagePublishes
  <2>6. Lifecycle!Stage(new)
    BY <2>3, <2>4, <2>5 DEF Lifecycle!Stage
  <2> QED
    BY <2>2, <2>6, LifecycleActions
<1>7. CASE ActivateQueueFull
  <2>1. handles' = handles /\ active' = active
    BY <1>7 DEF ActivateQueueFull, vars
  <2>2. Staged' = Staged
    BY <1>7 DEF ActivateQueueFull, vars
  <2> QED
    BY <1>0, <2>1, <2>2
<1>8. CASE MarkActivationSubmitted
  <2>1. handles' = handles /\ active' = active
    BY <1>8 DEF MarkActivationSubmitted
  <2>2. Staged' = Staged
    BY <1>8 DEF MarkActivationSubmitted
  <2> QED
    BY <1>0, <2>1, <2>2
<1>9. CASE ReleaseFrees
  <2>1. ctl = "release" /\ scan \in Slots /\ state[scan] = "pending"
    BY <1>9 DEF ReleaseFrees
  <2>2. PICK old \in Staged \cap PlanHandle :
          old = [slot |-> scan, generation |-> generation[scan]]
    BY <2>1, PendingHandle
  <2>3. Staged' = Staged \ {old}
    BY <1>9, <2>2 DEF ReleaseFrees
  <2>4. active' = active /\ handles' = handles
    BY <1>9 DEF ReleaseFrees
  <2>5. Lifecycle!Release(old)
    BY <2>2, <2>3, <2>4 DEF Lifecycle!Release
  <2> QED
    BY <2>2, <2>5, LifecycleActions
<1>10. CASE ReclaimBegins
  <2>1. handles' = handles /\ active' = active
    BY <1>10 DEF ReclaimBegins
  <2>2. Staged' = Staged
    BY <1>10 DEF ReclaimBegins
  <2> QED
    BY <1>0, <2>1, <2>2
<1>11. CASE ReclaimScans
  <2>1. handles' = handles /\ active' = active
    BY <1>11 DEF ReclaimScans, Reclaimable
  <2>2. Staged' = Staged
    BY <1>11 DEF ReclaimScans, Reclaimable
  <2> QED
    BY <1>0, <2>1, <2>2
<1>12. CASE PopActivation
  <2>1. handles' = handles /\ active' = active
    BY <1>12 DEF PopActivation
  <2>2. Staged' = Staged
    BY <1>12 DEF PopActivation
  <2> QED
    BY <1>0, <2>1, <2>2
<1>13. CASE CheckState
  <2>1. handles' = handles /\ active' = active
    BY <1>13 DEF CheckState
  <2>2. Staged' = Staged
    BY <1>13 DEF CheckState
  <2> QED
    BY <1>0, <2>1, <2>2
<1>14. CASE CheckGeneration
  <2>1. handles' = handles /\ active' = active
    BY <1>14 DEF CheckGeneration, SameGeneration
  <2>2. Staged' = Staged
    BY <1>14 DEF CheckGeneration, SameGeneration
  <2> QED
    BY <1>0, <2>1, <2>2
<1>15. CASE RetirePrevious
  <2>1. handles' = handles /\ active' = active
    BY <1>15 DEF RetirePrevious
  <2>2. Staged' = Staged
    BY <1>15 DEF RetirePrevious, ActiveInv, HandsInv
  <2> QED
    BY <1>0, <2>1, <2>2
<1>16. CASE FreePrevious
  <2>1. handles' = handles /\ active' = active
    BY <1>16 DEF FreePrevious
  <2>2. Staged' = Staged
    BY <1>16 DEF FreePrevious, ActiveInv, HandsInv
  <2> QED
    BY <1>0, <2>1, <2>2
<1>17. CASE Activate
  <2>1. PICK handle \in Handle : request = {handle}
    BY <1>17 DEF Activate, HandsInv
  <2>2. Current(handle) /\ state[handle.slot] = "pending"
    BY <1>17, <2>1 DEF Activate, RequestInv
  <2>3. handle \in handles
    BY <2>1, <2>2 DEF IssuedInv, InFlight, BadHandle
  <2>4. handle \in Staged /\ handle \in PlanHandle
    BY <2>2, <2>3
  <2>5. state' = [state EXCEPT ![handle.slot] = "active"] /\ handles' = handles
    BY <1>17, <2>1 DEF Activate
  <2>6. Staged' = Staged \ {handle}
    BY <1>17, <2>2, <2>3, <2>5 DEF Activate
  <2>7. active' = {handle}
    BY <1>17, <2>1 DEF Activate
  <2>8. Lifecycle!Activate(handle)
    BY <2>4, <2>5, <2>6, <2>7 DEF Lifecycle!Activate
  <2> QED
    BY <2>4, <2>8, LifecycleActions
<1>18. CASE RenderBegins
  <2>1. handles' = handles /\ active' = active
    BY <1>18 DEF RenderBegins
  <2>2. Staged' = Staged
    BY <1>18 DEF RenderBegins
  <2> QED
    BY <1>0, <2>1, <2>2
<1>19. CASE RenderEnds
  <2>1. handles' = handles /\ active' = active
    BY <1>19 DEF RenderEnds
  <2>2. Staged' = Staged
    BY <1>19 DEF RenderEnds
  <2> QED
    BY <1>0, <2>1, <2>2
<1>20. ASSUME NEW handle \in handles \cup {BadHandle}, ActivateSubmits(handle)
      PROVE  [Lifecycle!Next]_(Lifecycle!lifecycle)
  <2>1. handles' = handles /\ active' = active
    BY <1>20 DEF ActivateSubmits
  <2>2. Staged' = Staged
    BY <1>20 DEF ActivateSubmits
  <2> QED
    BY <1>0, <2>1, <2>2
<1>21. ASSUME NEW handle \in handles \cup {BadHandle}, ReleaseResets(handle)
      PROVE  [Lifecycle!Next]_(Lifecycle!lifecycle)
  <2>1. handles' = handles /\ active' = active
    BY <1>21 DEF ReleaseResets, Releasable
  <2>2. Staged' = Staged
    BY <1>21 DEF ReleaseResets, Releasable
  <2> QED
    BY <1>0, <2>1, <2>2
<1>22. ASSUME NEW handle \in handles \cup {BadHandle}, ReleaseRefuses(handle)
      PROVE  [Lifecycle!Next]_(Lifecycle!lifecycle)
  <2>1. handles' = handles /\ active' = active
    BY <1>22 DEF ReleaseRefuses, vars
  <2>2. Staged' = Staged
    BY <1>22 DEF ReleaseRefuses, vars
  <2> QED
    BY <1>0, <2>1, <2>2
<1>23. CASE UNCHANGED vars
  BY <1>0, <1>23 DEF vars
<1> QED
  BY <1>1, <1>2, <1>3, <1>4, <1>5, <1>6, <1>7, <1>8, <1>9, <1>10, <1>11, <1>12, <1>13,
     <1>14, <1>15, <1>16, <1>17, <1>18, <1>19, <1>20, <1>21, <1>22, <1>23
     DEF Next, Control, Audio

(* A handle is issued once, then released or activated once; what was      *)
(* released or replaced never comes back.                                  *)
THEOREM PlansImplementLifecycle == Spec => ImplementsLifecycle
<1>1. Init => Lifecycle!Init
  BY DEF Init, Lifecycle!Init
<1>2. Init => LifeInv
  BY LifeInitially
<1>3. TypeOK /\ PlanInv /\ LifeInv /\ [Next]_vars => LifeInv'
  BY LifeStep
<1>4. TypeOK /\ PlanInv /\ LifeInv /\ [Next]_vars
        => [Lifecycle!Next]_(Lifecycle!lifecycle)
  BY LifecycleStep
<1> QED
  BY <1>1, <1>2, <1>3, <1>4, PlanInvariant, PTL
     DEF Spec, ImplementsLifecycle, Lifecycle!Spec

-----------------------------------------------------------------------------
(* The assets of the plans.                                                *)

(* The variables the proofs need typed. *)
AssetTypes ==
  /\ slotState \in [Store!Assets -> {"free", "resident", "retiring"}]
  /\ asset \in [Store!Assets -> SUBSET Store!AssetObject]
  /\ assetGeneration \in [Store!Assets -> Nat] /\ pins \in [Store!Assets -> Nat]
  /\ key \in [Store!Assets -> SUBSET Keys] /\ keyToIndex \in [Keys -> SUBSET Store!Assets]
  /\ loads \in Nat /\ ids \subseteq Store!AssetId
  /\ storeScan \in Store!Assets /\ loading \subseteq Keys
  /\ sources \in [SourceNodes -> SUBSET Store!AssetId]
  /\ pinned \in Seq(Store!AssetId) /\ bound \in [Slots -> Seq(Store!AssetId)]

(* A slot of the store is free just when it has no asset, and one that is  *)
(* being freed has no pins.                                                *)
StoreInv ==
  /\ \A a \in Store!Assets : slotState[a] = "free" <=> asset[a] = {}
  /\ storeCtl \in {"bump", "unpublish", "destroy"} =>
       slotState[storeScan] = "retiring" /\ pins[storeScan] = 0

(* The assets in a list of pins are where they were. *)
InMemory(list) ==
  \A i \in DOMAIN list :
    assetGeneration[list[i].index] = list[i].generation /\ asset[list[i].index] # {}

HeldInv ==
  /\ InMemory(pinned) /\ \A s \in Slots : InMemory(bound[s])
  /\ ctl \notin {"compile", "build"} => pinned = <<>>

CountInv ==
  \A a \in Store!Assets :
    /\ IsFiniteSet(PinsOfPlans(a))
    /\ pins[a] = PinsIn(pinned, a) + Cardinality(PinsOfPlans(a))

-----------------------------------------------------------------------------

Reclaiming == storeCtl \in {"reclaim", "bump", "unpublish", "destroy"}

Reclaims == {"reclaim", "compile", "release"}

(* The control thread is in one of the two stores. *)
PhaseInv ==
  /\ call \in {"none", "staging"} \cup Reclaims
  /\ after \in {"idle", "released", "prepare", "insert"}
  /\ storeCtl # "idle" /\ ctl # "idle" => ctl = "reclaim" /\ call = "release"
  /\ ctl = "reclaim" => call \in Reclaims
  /\ call \in Reclaims => /\ ctl \in {"idle", "reclaim"}
                          /\ storeCtl = IF call = "release" THEN "released" ELSE "idle"
  /\ call = "staging" => ctl = "idle" /\ (storeCtl # "idle" => Reclaiming /\ after = "idle")

Freed(id) ==
  /\ id.index \in Store!Assets /\ id.generation \in Nat
  /\ id.generation < assetGeneration[id.index]

(* ReleaseAudioAsset is in the store's own reclaim, before the plans'.     *)
Releasing == storeCtl = "released" \/ (Reclaiming /\ after = "released")

(* What is due is being freed: once its plans are gone nothing pins it,    *)
(* and the loop over the store has not passed it.                          *)
DueInv ==
  /\ ctl = "reclaim" => \A id \in due :
       /\ Store!Lookup(id, "retiring")
       /\ \A s \in Slots : PinsIn(bound[s], id.index) > 0 => Reclaimable(s) /\ scan <= s
  /\ ctl # "reclaim" /\ call \in Reclaims => \A id \in due :
       Store!Lookup(id, "retiring") /\ pins[id.index] = 0
  /\ call \notin Reclaims /\ ~Releasing => \A id \in due :
       \/ Freed(id)
       \/ /\ Reclaiming /\ after = "idle"
          /\ Store!Lookup(id, "retiring") /\ pins[id.index] = 0
          /\ storeScan <= id.index
          /\ storeCtl \in {"unpublish", "destroy"} => storeScan < id.index

Inv == AssetTypes /\ StoreInv /\ HeldInv /\ CountInv /\ PhaseInv /\ DueInv

-----------------------------------------------------------------------------
(* PlanAssets goes through the plan store by the plan store's own steps, so *)
(* what is proved of GraphPlanStore holds here. *)
THEOREM PlanStoreUnderneath == AllSpec => Spec
<1>1. AllInit => Init
  BY DEF AllInit
<1>2. [AllNext]_allVars => [Next]_vars
  <2> SUFFICES ASSUME AllNext
               PROVE  Next \/ UNCHANGED vars
    BY DEF allVars
  <2> USE DEF Next, Control
  <2>1. ASSUME NEW node, NEW id, EditGraph(node, id)
        PROVE  UNCHANGED vars
    BY <2>1 DEF EditGraph
  <2>2. CASE ReclaimAssets \/ CompileAndStageGraph \/ ReleasedReclaims
    BY <2>2 DEF ReclaimAssets, CompileAndStageGraph, ReleasedReclaims, ReclaimPlansFor
  <2>3. CASE Stages
    BY <2>3 DEF Stages
  <2>4. ASSUME NEW caller, ReclaimAssetsThen(caller)
        PROVE  UNCHANGED vars
    BY <2>4 DEF ReclaimAssetsThen
  <2>5. CASE BindAsset
    BY <2>5 DEF BindAsset
  <2>6. CASE CompileFails \/ Compiles \/ Builds \/ ReclaimsPlan
    BY <2>6 DEF CompileFails, Compiles, Builds, ReclaimsPlan
  <2>7. ASSUME NEW handle \in handles, Idle /\ ReleaseStagedPlan(handle)
        PROVE  Next
    BY <2>7 DEF ReleaseStagedPlan
  <2>8. ASSUME NEW id, ReleaseAudioAsset(id)
        PROVE  UNCHANGED vars
    BY <2>8 DEF ReleaseAudioAsset
  <2>9. CASE LoadAudioAsset \/ StoreReclaims
    BY <2>9 DEF LoadAudioAsset, StoreReclaims
  <2>10. CASE PlanCalls
    BY <2>10 DEF PlanCalls
  <2>11. CASE AudioThread
    BY <2>11 DEF AudioThread
  <2> QED
    BY <2>1, <2>2, <2>3, <2>4, <2>5, <2>6, <2>7, <2>8, <2>9, <2>10, <2>11
       DEF AllNext, ControlThread
<1> QED
  BY <1>1, <1>2, PTL DEF AllSpec, Spec

-----------------------------------------------------------------------------
(* The pins counted. *)

(* The assets, of which there is at least one. *)
LEMMA AssetsAreNumbers == Store!Assets \subseteq Nat /\ 0 \in Store!Assets
BY PlanAssetsAssumption DEF Store!Assets

(* A list of pins has so many of an asset. *)
LEMMA PinsAreFinite ==
  ASSUME NEW list \in Seq(Store!AssetId), NEW a
  PROVE  /\ IsFiniteSet({i \in DOMAIN list : list[i].index = a})
         /\ PinsIn(list, a) \in Nat
<1>1. DOMAIN list = 1..Len(list) /\ Len(list) \in Nat
  OBVIOUS
<1>2. IsFiniteSet(DOMAIN list)
  BY <1>1, FS_Interval
<1>3. IsFiniteSet({i \in DOMAIN list : list[i].index = a})
  BY <1>2, FS_Subset
<1> QED
  BY <1>3, FS_CardinalityType DEF PinsIn

(* What a pin in a list is of is a slot of the store.                      *)
LEMMA PinsAreOfSlots ==
  ASSUME NEW list \in Seq(Store!AssetId), NEW i \in DOMAIN list
  PROVE  list[i] \in Store!AssetId /\ list[i].index \in Store!Assets
<1>1. list[i] \in Store!AssetId
  OBVIOUS
<1> QED
  BY <1>1 DEF Store!AssetId

(* A list of pins without an asset has none of it. *)
LEMMA NoPins ==
  ASSUME NEW list \in Seq(Store!AssetId), NEW a
  PROVE  PinsIn(list, a) = 0 <=> \A i \in DOMAIN list : list[i].index # a
<1>1. IsFiniteSet({i \in DOMAIN list : list[i].index = a})
  BY PinsAreFinite
<1>2. PinsIn(list, a) = 0 <=> {i \in DOMAIN list : list[i].index = a} = {}
  BY <1>1, FS_EmptySet DEF PinsIn
<1> QED
  BY <1>2

(* An empty list holds nothing. *)
LEMMA EmptyList ==
  /\ <<>> \in Seq(Store!AssetId) /\ InMemory(<<>>)
  /\ \A a : PinsIn(<<>>, a) = 0
<1>1. <<>> \in Seq(Store!AssetId) /\ DOMAIN <<>> = {}
  OBVIOUS
<1>2. \A a : PinsIn(<<>>, a) = 0
  BY <1>1, NoPins
<1> QED
  BY <1>1, <1>2 DEF InMemory

(* One more pin is one more of that asset. *)
LEMMA OneMorePin ==
  ASSUME NEW list \in Seq(Store!AssetId), NEW id \in Store!AssetId, NEW a
  PROVE  PinsIn(Append(list, id), a) =
           IF a = id.index THEN PinsIn(list, a) + 1 ELSE PinsIn(list, a)
<1> DEFINE longer == Append(list, id)
<1> DEFINE before == {i \in DOMAIN list : list[i].index = a}
<1> DEFINE now == {i \in DOMAIN longer : longer[i].index = a}
<1>1. Len(list) \in Nat /\ DOMAIN list = 1..Len(list)
  OBVIOUS
<1>2. /\ DOMAIN longer = 1..(Len(list) + 1) /\ longer[Len(list) + 1] = id
      /\ \A i \in 1..Len(list) : longer[i] = list[i]
  OBVIOUS
<1>3. IsFiniteSet(before) /\ Len(list) + 1 \notin before
  <2>1. IsFiniteSet({i \in DOMAIN list : list[i].index = a})
    BY PinsAreFinite
  <2>2. Len(list) + 1 \notin 1..Len(list)
    BY <1>1
  <2> QED
    BY <1>1, <2>1, <2>2
<1>4. now = IF a = id.index THEN before \cup {Len(list) + 1} ELSE before
  <2> HIDE DEF longer
  <2> QED
    BY <1>1, <1>2
<1>5. Cardinality(before \cup {Len(list) + 1}) = Cardinality(before) + 1
  <2> HIDE DEF before
  <2> QED
    BY <1>3, FS_AddElement
<1>6. PinsIn(list, a) = Cardinality(before) /\ PinsIn(longer, a) = Cardinality(now)
  BY DEF PinsIn
<1> HIDE DEF longer, before, now
<1>7. PinsIn(longer, a) = IF a = id.index THEN PinsIn(list, a) + 1 ELSE PinsIn(list, a)
  BY <1>4, <1>5, <1>6
<1> QED
  BY <1>7 DEF longer

(* The pins of a list in a slot are as many as the list has. *)
LEMMA PinsOfList ==
  ASSUME NEW list \in Seq(Store!AssetId), NEW a, NEW s
  PROVE  /\ IsFiniteSet({s} \X {i \in DOMAIN list : list[i].index = a})
         /\ Cardinality({s} \X {i \in DOMAIN list : list[i].index = a}) = PinsIn(list, a)
<1> DEFINE places == {i \in DOMAIN list : list[i].index = a}
<1>1. IsFiniteSet(places) /\ PinsIn(list, a) \in Nat /\ Cardinality(places) = PinsIn(list, a)
  BY PinsAreFinite DEF PinsIn
<1> HIDE DEF places
<1>2. IsFiniteSet({s}) /\ Cardinality({s}) = 1
  BY FS_Singleton
<1>3. /\ IsFiniteSet({s} \X places)
      /\ Cardinality({s} \X places) = Cardinality({s}) * Cardinality(places)
  BY <1>1, <1>2, FS_Product
<1>4. 1 * PinsIn(list, a) = PinsIn(list, a)
  BY <1>1
<1>5. Cardinality({s} \X places) = PinsIn(list, a)
  BY <1>1, <1>2, <1>3, <1>4
<1> QED
  BY <1>3, <1>5 DEF places

(* Pins of different plans are different. *)
LEMMA PinsApart ==
  ASSUME NEW p, NEW s, NEW a, p \in PinsOfPlan(s, a)
  PROVE  p[1] = s
BY DEF PinsOfPlan

(* A plan in the place of another: its pins are counted in the other's.    *)
LEMMA Rebound ==
  ASSUME bound \in [Slots -> Seq(Store!AssetId)], NEW s \in Slots,
         NEW list \in Seq(Store!AssetId), bound' = [bound EXCEPT ![s] = list],
         NEW a, IsFiniteSet(PinsOfPlans(a))
  PROVE  /\ IsFiniteSet(PinsOfPlans(a)')
         /\ PinsIn(bound[s], a) <= Cardinality(PinsOfPlans(a))
         /\ Cardinality(PinsOfPlans(a)')
              = Cardinality(PinsOfPlans(a)) - PinsIn(bound[s], a) + PinsIn(list, a)
<1> DEFINE old == {s} \X {i \in DOMAIN bound[s] : bound[s][i].index = a}
<1> DEFINE new == {s} \X {i \in DOMAIN list : list[i].index = a}
<1> DEFINE all == PinsOfPlans(a)
<1>1. bound[s] \in Seq(Store!AssetId)
  OBVIOUS
<1>2. IsFiniteSet(old) /\ Cardinality(old) = PinsIn(bound[s], a)
  BY <1>1, PinsOfList
<1>3. IsFiniteSet(new) /\ Cardinality(new) = PinsIn(list, a)
  BY PinsOfList
<1>4. PinsIn(bound[s], a) \in Nat /\ PinsIn(list, a) \in Nat
  BY <1>1, PinsAreFinite
<1>5. \A p : p \in all <=> \E t \in Slots : p \in PinsOfPlan(t, a)
  BY DEF PinsOfPlans
<1>6. \A p : p \in PinsOfPlans(a)' <=> \E t \in Slots : p \in PinsOfPlan(t, a)'
  BY DEF PinsOfPlans
<1>7. /\ PinsOfPlan(s, a) = old /\ PinsOfPlan(s, a)' = new
      /\ \A t \in Slots : t # s => PinsOfPlan(t, a)' = PinsOfPlan(t, a)
  BY DEF PinsOfPlan
<1>8. \A t \in Slots : \A p \in PinsOfPlan(t, a) : p[1] = t
  BY PinsApart
<1>9. \A p \in old : p[1] = s
  BY <1>7, <1>8
<1>10. \A p \in new : p[1] = s
  OBVIOUS
<1> HIDE DEF old, new, all
<1>11. old \subseteq all /\ all \cap old = old
  BY <1>5, <1>7
<1>12. PinsOfPlans(a)' = (all \ old) \cup new
  <2>1. \A p : p \in PinsOfPlans(a)' => p \in (all \ old) \cup new
    <3> SUFFICES ASSUME NEW p, p \in PinsOfPlans(a)', p \notin new
                 PROVE  p \in all /\ p \notin old
      OBVIOUS
    <3>1. PICK t \in Slots : p \in PinsOfPlan(t, a)'
      BY <1>6
    <3>2. t # s /\ p \in PinsOfPlan(t, a)
      BY <1>7, <3>1
    <3> QED
      BY <1>5, <1>8, <1>9, <3>2
  <2>2. \A p : p \in all \ old => p \in PinsOfPlans(a)'
    BY <1>5, <1>6, <1>7
  <2>3. \A p : p \in new => p \in PinsOfPlans(a)'
    BY <1>6, <1>7
  <2> QED
    BY <2>1, <2>2, <2>3
<1>13. (all \ old) \cap new = {}
  BY <1>5, <1>7, <1>8, <1>10
<1>14. IsFiniteSet(all)
  BY DEF all
<1>15. /\ IsFiniteSet(all \ old)
       /\ Cardinality(all \ old) = Cardinality(all) - Cardinality(all \cap old)
  BY <1>14, FS_Difference
<1>16. /\ IsFiniteSet((all \ old) \cup new)
       /\ Cardinality((all \ old) \cup new)
            = Cardinality(all \ old) + Cardinality(new) - Cardinality((all \ old) \cap new)
  BY <1>3, <1>15, FS_Union
<1>17. Cardinality((all \ old) \cap new) = 0
  BY <1>13, FS_EmptySet
<1>18. Cardinality(old) <= Cardinality(all)
  BY <1>11, <1>14, FS_Subset
<1>19. Cardinality(all) \in Nat
  BY <1>14, FS_CardinalityType
<1>20. Cardinality((all \ old) \cup new) = Cardinality(all) - PinsIn(bound[s], a)
                                             + PinsIn(list, a)
  <2>1. Cardinality(all \ old) = Cardinality(all) - PinsIn(bound[s], a)
    BY <1>2, <1>11, <1>15
  <2> QED
    BY <1>3, <1>4, <1>16, <1>17, <1>19, <2>1
<1> QED
  BY <1>2, <1>12, <1>16, <1>18, <1>20 DEF all

(* No plan plays an asset without pins, and the compile has not bound it.  *)
LEMMA UnpinnedIsUnheld ==
  ASSUME AssetTypes, CountInv, NEW a \in Store!Assets, pins[a] = 0
  PROVE  /\ \A i \in DOMAIN pinned : pinned[i].index # a
         /\ \A s \in Slots : \A i \in DOMAIN bound[s] : bound[s][i].index # a
<1>1. PinsIn(pinned, a) \in Nat /\ Cardinality(PinsOfPlans(a)) \in Nat
  BY PinsAreFinite, FS_CardinalityType DEF AssetTypes, CountInv
<1>2. PinsIn(pinned, a) = 0 /\ Cardinality(PinsOfPlans(a)) = 0
  BY <1>1 DEF CountInv
<1>3. PinsOfPlans(a) = {}
  BY <1>2, FS_EmptySet DEF CountInv
<1>4. ASSUME NEW s \in Slots, NEW i \in DOMAIN bound[s], bound[s][i].index = a
      PROVE  FALSE
  <2>1. <<s, i>> \in PinsOfPlan(s, a)
    BY <1>4 DEF PinsOfPlan
  <2>2. <<s, i>> \in PinsOfPlans(a)
    BY <2>1 DEF PinsOfPlans
  <2> QED
    BY <1>3, <2>2
<1> QED
  BY <1>2, <1>4, NoPins DEF AssetTypes

(* An asset that neither the plans nor the compile hold has no pins.       *)
LEMMA UnheldIsUnpinned ==
  ASSUME AssetTypes, CountInv, NEW a \in Store!Assets,
         \A i \in DOMAIN pinned : pinned[i].index # a,
         \A s \in Slots : \A i \in DOMAIN bound[s] : bound[s][i].index # a
  PROVE  pins[a] = 0
<1>1. PinsIn(pinned, a) = 0
  BY NoPins DEF AssetTypes
<1>2. \A s \in Slots : PinsOfPlan(s, a) = {}
  BY DEF PinsOfPlan
<1>3. PinsOfPlans(a) = {}
  BY <1>2 DEF PinsOfPlans
<1>4. Cardinality(PinsOfPlans(a)) = 0
  BY <1>3, FS_EmptySet
<1> QED
  BY <1>1, <1>4 DEF CountInv

(* So neither has a free slot of the store. *)
LEMMA FreeIsUnpinned ==
  ASSUME AssetTypes, HeldInv, CountInv, NEW a \in Store!Assets, asset[a] = {}
  PROVE  pins[a] = 0
BY UnheldIsUnpinned DEF HeldInv, InMemory

(* The pins of a plan are dropped with it, and those that are bound in its *)
(* place are taken over from the compile.                                  *)
LEMMA PlanGoes ==
  ASSUME AssetTypes, CountInv, NEW s \in Slots, NEW list \in Seq(Store!AssetId),
         pins' = Dropped(bound[s]), bound' = [bound EXCEPT ![s] = list],
         pinned' \in Seq(Store!AssetId),
         \A a : PinsIn(pinned', a) + PinsIn(list, a) = PinsIn(pinned, a)
  PROVE  /\ CountInv' /\ pins' \in [Store!Assets -> Nat]
         /\ bound' \in [Slots -> Seq(Store!AssetId)]
<1>1. bound' \in [Slots -> Seq(Store!AssetId)]
  BY DEF AssetTypes
<1>2. ASSUME NEW a \in Store!Assets
      PROVE  /\ IsFiniteSet(PinsOfPlans(a)') /\ pins'[a] \in Nat
             /\ pins'[a] = PinsIn(pinned', a) + Cardinality(PinsOfPlans(a)')
  <2>1. /\ IsFiniteSet(PinsOfPlans(a)')
        /\ PinsIn(bound[s], a) <= Cardinality(PinsOfPlans(a))
        /\ Cardinality(PinsOfPlans(a)')
             = Cardinality(PinsOfPlans(a)) - PinsIn(bound[s], a) + PinsIn(list, a)
    BY Rebound DEF AssetTypes, CountInv
  <2>2. /\ PinsIn(pinned, a) \in Nat /\ PinsIn(list, a) \in Nat /\ PinsIn(pinned', a) \in Nat
        /\ PinsIn(bound[s], a) \in Nat
    BY PinsAreFinite DEF AssetTypes
  <2>3. Cardinality(PinsOfPlans(a)) \in Nat
    BY FS_CardinalityType DEF CountInv
  <2>4. pins[a] = PinsIn(pinned, a) + Cardinality(PinsOfPlans(a))
    BY DEF CountInv
  <2>5. pins'[a] = pins[a] - PinsIn(bound[s], a)
    BY <2>1, <2>2, <2>3, <2>4 DEF Dropped
  <2> QED
    BY <2>1, <2>2, <2>3, <2>4, <2>5
<1>3. pins' = [a \in Store!Assets |-> pins'[a]]
  BY DEF Dropped
<1>4. CountInv'
  BY <1>2 DEF CountInv
<1> QED
  BY <1>1, <1>2, <1>3, <1>4

(* The pins of a compile are dropped when it fails. *)
LEMMA CompileGoes ==
  ASSUME AssetTypes, CountInv, pins' = Dropped(pinned), pinned' = <<>>, bound' = bound
  PROVE  CountInv' /\ pins' \in [Store!Assets -> Nat]
<1>1. ASSUME NEW a \in Store!Assets
      PROVE  /\ IsFiniteSet(PinsOfPlans(a)') /\ pins'[a] \in Nat
             /\ pins'[a] = PinsIn(pinned', a) + Cardinality(PinsOfPlans(a)')
  <2>1. PinsOfPlans(a)' = PinsOfPlans(a)
    BY DEF PinsOfPlans, PinsOfPlan
  <2>2. PinsIn(pinned, a) \in Nat /\ PinsIn(pinned', a) = 0
    BY PinsAreFinite, EmptyList DEF AssetTypes
  <2>3. IsFiniteSet(PinsOfPlans(a)) /\ Cardinality(PinsOfPlans(a)) \in Nat
    BY FS_CardinalityType DEF CountInv
  <2>4. pins[a] = PinsIn(pinned, a) + Cardinality(PinsOfPlans(a))
    BY DEF CountInv
  <2>5. pins'[a] = pins[a] - PinsIn(pinned, a)
    BY <2>2, <2>3, <2>4 DEF Dropped
  <2> QED
    BY <2>1, <2>2, <2>3, <2>4, <2>5
<1>2. pins' = [a \in Store!Assets |-> pins'[a]]
  BY DEF Dropped
<1>3. CountInv'
  BY <1>1 DEF CountInv
<1> QED
  BY <1>1, <1>2, <1>3

(* A pin is bound by the compile. *)
LEMMA PinIsBound ==
  ASSUME AssetTypes, CountInv, NEW id \in Store!AssetId,
         pins' = [pins EXCEPT ![id.index] = @ + 1], pinned' = Append(pinned, id), bound' = bound
  PROVE  /\ CountInv' /\ pins' \in [Store!Assets -> Nat] /\ pinned' \in Seq(Store!AssetId)
<1>1. id.index \in Store!Assets
  BY DEF Store!AssetId
<1>2. pins' \in [Store!Assets -> Nat] /\ pinned' \in Seq(Store!AssetId)
  BY <1>1 DEF AssetTypes
<1>3. ASSUME NEW a \in Store!Assets
      PROVE  /\ IsFiniteSet(PinsOfPlans(a)')
             /\ pins'[a] = PinsIn(pinned', a) + Cardinality(PinsOfPlans(a)')
  <2>1. PinsOfPlans(a)' = PinsOfPlans(a)
    BY DEF PinsOfPlans, PinsOfPlan
  <2>2. PinsIn(pinned', a) = IF a = id.index THEN PinsIn(pinned, a) + 1 ELSE PinsIn(pinned, a)
    BY OneMorePin DEF AssetTypes
  <2>3. PinsIn(pinned, a) \in Nat
    BY PinsAreFinite DEF AssetTypes
  <2>4. IsFiniteSet(PinsOfPlans(a)) /\ Cardinality(PinsOfPlans(a)) \in Nat
    BY FS_CardinalityType DEF CountInv
  <2>5. pins[a] = PinsIn(pinned, a) + Cardinality(PinsOfPlans(a))
    BY DEF CountInv
  <2>6. pins'[a] = IF a = id.index THEN pins[a] + 1 ELSE pins[a]
    BY <1>1 DEF AssetTypes
  <2> QED
    BY <2>1, <2>2, <2>3, <2>4, <2>5, <2>6
<1>4. CountInv'
  BY <1>3 DEF CountInv
<1> QED
  BY <1>2, <1>4

(* Pins that no step touches count what they counted. *)
LEMMA PinsStay ==
  ASSUME CountInv, UNCHANGED <<pins, pinned, bound>>
  PROVE  CountInv'
<1>1. \A a \in Store!Assets : PinsOfPlans(a)' = PinsOfPlans(a)
  BY DEF PinsOfPlans, PinsOfPlan
<1> QED
  BY <1>1 DEF CountInv

-----------------------------------------------------------------------------
(* The invariant. *)

(* Nothing is loaded at first and nothing is due. *)
LEMMA AssetsInitially == AllInit => Inv
<1> SUFFICES ASSUME AllInit
             PROVE  Inv
  OBVIOUS
<1> USE DEF AllInit, Init, Store!StoreInit
<1>1. AssetTypes
  BY AssetsAreNumbers, EmptyList DEF AssetTypes
<1>2. StoreInv /\ PhaseInv
  BY DEF StoreInv, PhaseInv, Reclaims
<1>3. HeldInv
  BY EmptyList DEF HeldInv
<1>4. CountInv
  <2> SUFFICES ASSUME NEW a \in Store!Assets
               PROVE  /\ IsFiniteSet(PinsOfPlans(a))
                      /\ pins[a] = PinsIn(pinned, a) + Cardinality(PinsOfPlans(a))
    BY DEF CountInv
  <2>1. PinsOfPlans(a) = {}
    BY DEF PinsOfPlans, PinsOfPlan
  <2>2. IsFiniteSet(PinsOfPlans(a)) /\ Cardinality(PinsOfPlans(a)) = 0
    BY <2>1, FS_EmptySet
  <2> QED
    BY <2>2, EmptyList
<1>5. DueInv
  BY DEF DueInv, Reclaims
<1> QED
  BY <1>1, <1>2, <1>3, <1>4, <1>5 DEF Inv

(* A step that leaves the store and the nodes alone.                       *)
LEMMA ResourcesKept ==
  ASSUME Inv, UNCHANGED <<resources, nodes>>,
         pinned = <<>> \/ ctl \notin {"compile", "build"} \/ ctl' \in {"compile", "build"}
  PROVE  AssetTypes' /\ StoreInv' /\ HeldInv' /\ CountInv'
<1> USE DEF Inv, resources, nodes
<1>1. AssetTypes' /\ StoreInv'
  BY DEF AssetTypes, StoreInv
<1>2. HeldInv'
  BY DEF HeldInv, InMemory
<1>3. CountInv'
  BY PinsStay
<1> QED
  BY <1>1, <1>2, <1>3

(* Nothing is due in a call that is in the plan store but not reclaiming:  *)
(* what was is freed.                                                      *)
LEMMA AllFreed ==
  ASSUME Inv, storeCtl = "idle", call \notin Reclaims, ctl # "reclaim"
  PROVE  \A id \in due : Freed(id)
BY DEF Inv, DueInv, Releasing, Reclaiming

(* And as long as nothing is due again, that is the invariant.             *)
LEMMA StaysFreed ==
  ASSUME ctl' # "reclaim", call' \notin Reclaims, \A id \in due : Freed(id), due' = due,
         assetGeneration' = assetGeneration
  PROVE  DueInv'
BY DEF DueInv, Freed

(* The audio thread takes no free slot of the plan store. *)
LEMMA FreeStays ==
  ASSUME TypeOK, PlanInv, Audio, NEW s \in Slots, Reclaimable(s)
  PROVE  Reclaimable(s)'
<1> USE DEF TypeOK, PlanInv, Reclaimable, controlSide, slotVars
<1>1. CASE PopActivation
  BY <1>1 DEF PopActivation
<1>2. CASE CheckState \/ CheckGeneration \/ RenderBegins \/ RenderEnds
  BY <1>2 DEF CheckState, CheckGeneration, RenderBegins, RenderEnds
<1>3. CASE RetirePrevious
  <2>1. PICK previous \in active : state' = [state EXCEPT ![previous.slot] = "retired"]
    BY <1>3 DEF RetirePrevious
  <2>2. state[previous.slot] = "active"
    BY <1>3 DEF RetirePrevious, ActiveInv
  <2> QED
    BY <2>1, <2>2
<1>4. CASE FreePrevious
  BY <1>4 DEF FreePrevious
<1>5. CASE Activate
  <2>1. PICK handle \in request : state' = [state EXCEPT ![handle.slot] = "active"]
    BY <1>5 DEF Activate
  <2>2. state[handle.slot] = "pending"
    BY <1>5 DEF Activate, RequestInv
  <2> QED
    BY <2>1, <2>2
<1> QED
  BY <1>1, <1>2, <1>3, <1>4, <1>5 DEF Audio

(* The audio thread renders while the control thread is anywhere.          *)
LEMMA Renders ==
  ASSUME Inv, TypeOK, PlanInv, AudioThread
  PROVE  Inv'
<1>1. Audio /\ UNCHANGED <<resources, nodes, call, due>>
  BY DEF AudioThread
<1>2. UNCHANGED <<ctl, scan>>
  BY <1>1 DEF Audio, PopActivation, CheckState, CheckGeneration, RetirePrevious, FreePrevious,
     Activate, RenderBegins, RenderEnds, controlSide, control
<1>3. AssetTypes' /\ StoreInv' /\ HeldInv' /\ CountInv'
  BY <1>1, <1>2, ResourcesKept DEF Inv, HeldInv
<1>4. UNCHANGED <<slotState, assetGeneration, pins, bound, storeCtl, storeScan, after>>
  BY <1>1 DEF resources, nodes
<1>5. PhaseInv'
  BY <1>1, <1>2, <1>4 DEF Inv, PhaseInv, Reclaiming
<1>6. \A s \in Slots : Reclaimable(s) => Reclaimable(s)'
  BY <1>1, FreeStays
<1>7. DueInv'
  <2>1. ASSUME NEW id
        PROVE  /\ Store!Lookup(id, "retiring")' <=> Store!Lookup(id, "retiring")
               /\ Freed(id)' <=> Freed(id)
    BY <1>4 DEF Store!Lookup, Freed
  <2> QED
    BY <1>1, <1>2, <1>4, <1>6, <2>1 DEF Inv, DueInv, Releasing, Reclaiming
<1> QED
  BY <1>3, <1>5, <1>7 DEF Inv

(* A source node is added or removed. *)
LEMMA Edits ==
  ASSUME Inv, NEW node, NEW id \in {{}} \cup {{known} : known \in ids}, EditGraph(node, id)
  PROVE  Inv'
<1>1. /\ Idle /\ sources' = [sources EXCEPT ![node] = id]
      /\ UNCHANGED <<vars, resources, pinned, bound, call, due>>
  BY DEF EditGraph
<1>2. AssetTypes'
  <2>1. id \subseteq Store!AssetId
    BY DEF Inv, AssetTypes
  <2>2. sources' \in [SourceNodes -> SUBSET Store!AssetId]
    BY <1>1, <2>1 DEF Inv, AssetTypes
  <2> QED
    BY <1>1, <2>2 DEF Inv, AssetTypes, resources
<1>3. StoreInv' /\ HeldInv' /\ PhaseInv'
  BY <1>1 DEF Inv, StoreInv, HeldInv, InMemory, PhaseInv, Reclaiming, resources, vars, control
<1>4. CountInv'
  BY <1>1, PinsStay DEF Inv, resources
<1>5. DueInv'
  BY <1>1, AllFreed, StaysFreed DEF Idle, Reclaims, resources, vars, control
<1> QED
  BY <1>2, <1>3, <1>4, <1>5 DEF Inv

(* A call that goes through the plan store only. *)
LEMMA CallsPlanStore ==
  ASSUME Inv, PlanCalls
  PROVE  Inv'
<1>1. UNCHANGED <<resources, nodes, call, due>>
  BY DEF PlanCalls
<1>2. /\ ctl \in {"search", "publish", "mark", "release"} \/ Idle
      /\ ctl' \in {"idle", "search", "compile", "mark"}
  BY DEF PlanCalls, StageSearches, StagePublishes, MarkActivationSubmitted, ReleaseFrees,
     ActivateSubmits
<1>3. storeCtl = "idle" /\ call = "none" /\ ctl # "reclaim" /\ pinned = <<>>
  BY <1>2 DEF Idle, Inv, PhaseInv, HeldInv
<1>4. AssetTypes' /\ StoreInv' /\ HeldInv' /\ CountInv'
  BY <1>1, <1>3, ResourcesKept
<1>5. PhaseInv'
  BY <1>1, <1>2, <1>3 DEF Inv, PhaseInv, Reclaims, resources
<1>6. DueInv'
  BY <1>1, <1>2, <1>3, AllFreed, StaysFreed DEF Reclaims, resources
<1> QED
  BY <1>4, <1>5, <1>6 DEF Inv

(* A compile begins, or has bound every node.                              *)
LEMMA CompilesPlan ==
  ASSUME Inv, Stages \/ Compiles
  PROVE  Inv'
<1>1. UNCHANGED <<resources, nodes, due>>
  BY DEF Stages, Compiles
<1>2. /\ ctl = "compile" \/ (ctl = "idle" /\ call = "staging" /\ storeCtl = "idle")
      /\ ctl' = IF ctl = "compile" THEN "build" ELSE "search"
      /\ call' = IF ctl = "compile" THEN call ELSE "none"
  BY DEF Stages, StageBegins, Compiles, StageCompiles
<1>3. storeCtl = "idle" /\ call \notin Reclaims /\ call' = "none"
  BY <1>2 DEF Inv, PhaseInv, Reclaims
<1>4. AssetTypes' /\ StoreInv' /\ HeldInv' /\ CountInv'
  BY <1>1, <1>2, ResourcesKept
<1>5. PhaseInv'
  BY <1>1, <1>2, <1>3 DEF Inv, PhaseInv, Reclaims, resources
<1>6. DueInv'
  BY <1>1, <1>2, <1>3, AllFreed, StaysFreed DEF Reclaims, resources
<1> QED
  BY <1>4, <1>5, <1>6 DEF Inv

(* A node is bound to its asset, which is resident. *)
LEMMA Binds ==
  ASSUME Inv, BindAsset
  PROVE  Inv'
<1>1. PICK id \in NextSource :
        /\ Store!Lookup(id, "resident") /\ Store!Pin(id) /\ pinned' = Append(pinned, id)
  BY DEF BindAsset
<1>2. /\ ctl = "compile"
      /\ UNCHANGED <<vars, storeCtl, storeScan, after, loading, sources, bound, call, due>>
  BY DEF BindAsset
<1>3. /\ pins' = [pins EXCEPT ![id.index] = @ + 1]
      /\ UNCHANGED <<slotState, key, asset, assetGeneration, keyToIndex, loads, ids>>
  BY <1>1 DEF Store!Pin
<1>4. /\ id.index \in Store!Assets /\ slotState[id.index] = "resident"
      /\ assetGeneration[id.index] = id.generation
  BY <1>1 DEF Store!Lookup
<1>5. id \in Store!AssetId
  BY DEF NextSource, Inv, AssetTypes
<1>6. storeCtl = "idle" /\ call = "none"
  BY <1>2 DEF Inv, PhaseInv, Reclaims
<1>7. CountInv' /\ pins' \in [Store!Assets -> Nat] /\ pinned' \in Seq(Store!AssetId)
  BY <1>1, <1>2, <1>3, <1>5, PinIsBound DEF Inv
<1>8. AssetTypes'
  BY <1>2, <1>3, <1>7 DEF Inv, AssetTypes
<1>9. StoreInv'
  BY <1>2, <1>3, <1>6 DEF Inv, StoreInv
<1>10. HeldInv'
  <2>1. asset[id.index] # {}
    BY <1>4 DEF Inv, StoreInv
  <2>2. InMemory(pinned) /\ \A s \in Slots : InMemory(bound[s])
    BY DEF Inv, HeldInv
  <2>3. /\ DOMAIN pinned' = 1..(Len(pinned) + 1) /\ pinned'[Len(pinned) + 1] = id
        /\ DOMAIN pinned = 1..Len(pinned) /\ Len(pinned) \in Nat
        /\ \A i \in DOMAIN pinned : pinned'[i] = pinned[i]
    BY <1>1, <1>5 DEF Inv, AssetTypes
  <2>4. InMemory(pinned)'
    BY <1>3, <1>4, <2>1, <2>2, <2>3 DEF InMemory
  <2>5. \A s \in Slots : InMemory(bound[s])'
    BY <1>2, <1>3, <2>2 DEF InMemory
  <2> QED
    BY <1>2, <2>4, <2>5 DEF HeldInv, vars, control
<1>11. PhaseInv'
  BY <1>2 DEF Inv, PhaseInv, Reclaiming, vars, control
<1>12. DueInv'
  BY <1>2, <1>3, <1>6, AllFreed, StaysFreed DEF Reclaims, vars, control
<1> QED
  BY <1>7, <1>8, <1>9, <1>10, <1>11, <1>12 DEF Inv

(* A plan that goes, or one that takes its place, moves pins only; what is *)
(* being freed has none to move.                                           *)
LEMMA PinsDropped ==
  ASSUME Inv, NEW s \in Slots, NEW list \in Seq(Store!AssetId),
         pins' = Dropped(bound[s]), bound' = [bound EXCEPT ![s] = list],
         pinned' \in Seq(Store!AssetId),
         \A a : PinsIn(pinned', a) + PinsIn(list, a) = PinsIn(pinned, a),
         InMemory(list), InMemory(pinned'), storeCtl \in {"idle", "released"},
         UNCHANGED <<resourcesButPins, sources>>
  PROVE  /\ AssetTypes' /\ StoreInv' /\ CountInv'
         /\ InMemory(pinned)' /\ \A t \in Slots : InMemory(bound[t])'
<1> USE DEF resourcesButPins
<1>1. /\ CountInv' /\ pins' \in [Store!Assets -> Nat]
      /\ bound' \in [Slots -> Seq(Store!AssetId)]
  BY PlanGoes DEF Inv
<1>2. AssetTypes'
  BY <1>1 DEF Inv, AssetTypes
<1>3. StoreInv'
  BY DEF Inv, StoreInv
<1>4. InMemory(pinned)'
  BY DEF InMemory
<1>5. \A t \in Slots : bound'[t] = IF t = s THEN list ELSE bound[t]
  BY DEF Inv, AssetTypes
<1>6. \A t \in Slots : InMemory(bound[t])'
  BY <1>5 DEF Inv, HeldInv, InMemory
<1> QED
  BY <1>1, <1>2, <1>3, <1>4, <1>6

(* The compile fails and its pins go. *)
LEMMA FailsCompile ==
  ASSUME Inv, CompileFails
  PROVE  Inv'
<1>1. /\ ctl = "compile" /\ ctl' = "idle" /\ pins' = Dropped(pinned) /\ pinned' = <<>>
      /\ UNCHANGED <<resourcesButPins, sources, bound, call, due>>
  BY DEF CompileFails, StageCompileFails
<1> USE DEF resourcesButPins
<1>2. storeCtl = "idle" /\ call = "none"
  BY <1>1 DEF Inv, PhaseInv, Reclaims
<1>3. CountInv' /\ pins' \in [Store!Assets -> Nat]
  BY <1>1, CompileGoes DEF Inv
<1>4. AssetTypes'
  BY <1>1, <1>3, EmptyList DEF Inv, AssetTypes
<1>5. StoreInv'
  BY <1>1, <1>2 DEF Inv, StoreInv
<1>6. HeldInv'
  BY <1>1 DEF Inv, HeldInv, InMemory
<1>7. PhaseInv'
  BY <1>1, <1>2 DEF Inv, PhaseInv, Reclaims
<1>8. DueInv'
  BY <1>1, <1>2, AllFreed, StaysFreed DEF Reclaims
<1> QED
  BY <1>3, <1>4, <1>5, <1>6, <1>7, <1>8 DEF Inv

(* The plan is built in its slot, with the pins of its compile.            *)
LEMMA BuildsPlan ==
  ASSUME Inv, TypeOK, Builds
  PROVE  Inv'
<1>1. /\ ctl = "build" /\ ctl' = "publish" /\ scan \in Slots
      /\ pins' = Dropped(bound[scan]) /\ bound' = [bound EXCEPT ![scan] = pinned]
      /\ pinned' = <<>>
      /\ UNCHANGED <<resourcesButPins, sources, call, due>>
  BY DEF Builds, StageBuilds, TypeOK
<1>2. storeCtl = "idle" /\ call = "none"
  BY <1>1 DEF Inv, PhaseInv, Reclaims
<1>3. \A a : PinsIn(pinned, a) \in Nat /\ PinsIn(pinned', a) = 0
  BY <1>1, PinsAreFinite, EmptyList DEF Inv, AssetTypes
<1>4. \A a : PinsIn(pinned', a) + PinsIn(pinned, a) = PinsIn(pinned, a)
  BY <1>3
<1>5. /\ InMemory(pinned) /\ pinned \in Seq(Store!AssetId) /\ pinned' \in Seq(Store!AssetId)
      /\ InMemory(pinned')
  BY <1>1, EmptyList DEF Inv, HeldInv, AssetTypes
<1>6. /\ AssetTypes' /\ StoreInv' /\ CountInv'
      /\ InMemory(pinned)' /\ \A t \in Slots : InMemory(bound[t])'
  BY <1>1, <1>2, <1>4, <1>5, PinsDropped
<1>7. HeldInv'
  BY <1>1, <1>6 DEF HeldInv
<1>8. PhaseInv'
  BY <1>1, <1>2 DEF Inv, PhaseInv, Reclaims, resourcesButPins
<1>9. DueInv'
  BY <1>1, <1>2, AllFreed, StaysFreed DEF Reclaims, resourcesButPins
<1> QED
  BY <1>6, <1>7, <1>8, <1>9 DEF Inv

(* A staged plan is released. *)
LEMMA ReleasesPlan ==
  ASSUME Inv, NEW handle \in handles, Idle, ReleaseStagedPlan(handle)
  PROVE  Inv'
<1>1. /\ ctl' = "release" /\ handle.slot \in Slots
      /\ pins' = Dropped(bound[handle.slot]) /\ bound' = [bound EXCEPT ![handle.slot] = <<>>]
      /\ UNCHANGED <<resourcesButPins, sources, pinned, call, due>>
  BY DEF ReleaseStagedPlan, ReleaseResets, Releasable, Current
<1>2. storeCtl = "idle" /\ call = "none" /\ ctl = "idle" /\ pinned = <<>>
  BY DEF Idle, Inv, HeldInv
<1>3. \A a : PinsIn(pinned', a) + PinsIn(<<>>, a) = PinsIn(pinned, a)
  BY <1>1, <1>2, EmptyList
<1>4. InMemory(<<>>) /\ InMemory(pinned') /\ pinned' \in Seq(Store!AssetId)
  BY <1>1, <1>2, EmptyList
<1>5. /\ AssetTypes' /\ StoreInv' /\ CountInv'
      /\ InMemory(pinned)' /\ \A t \in Slots : InMemory(bound[t])'
  BY <1>1, <1>2, <1>3, <1>4, EmptyList, PinsDropped
<1>6. HeldInv'
  BY <1>1, <1>2, <1>5 DEF HeldInv
<1>7. PhaseInv'
  BY <1>1, <1>2 DEF Inv, PhaseInv, Reclaims, resourcesButPins
<1>8. DueInv'
  BY <1>1, <1>2, AllFreed, StaysFreed DEF Reclaims, resourcesButPins
<1> QED
  BY <1>5, <1>6, <1>7, <1>8 DEF Inv

(* ReclaimAssets begins with the plans, and what is due is what only       *)
(* retired plans pin.                                                      *)
LEMMA BeginsReclaim ==
  ASSUME Inv, TypeOK, NEW caller \in Reclaims, ReclaimPlansFor(caller), call = "none",
         storeCtl = IF caller = "release" THEN "released" ELSE "idle"
  PROVE  Inv'
<1>1. /\ ctl = "idle" /\ ctl' = "reclaim" /\ scan' = 0 /\ UNCHANGED slotVars
      /\ call' = caller /\ due' = Unused
      /\ UNCHANGED <<resources, nodes>>
  BY DEF ReclaimPlansFor, ReclaimBegins
<1>2. AssetTypes' /\ StoreInv' /\ HeldInv' /\ CountInv'
  BY <1>1, ResourcesKept DEF Inv, HeldInv
<1>3. PhaseInv'
  BY <1>1 DEF Inv, PhaseInv, Reclaims, resources
<1>4. DueInv'
  <2>1. \A id \in Unused : \A s \in Slots :
          PinsIn(bound[s], id.index) > 0 => Reclaimable(s) /\ 0 <= s
    BY SlotsAreNumbers DEF Unused, Slots
  <2>2. \A id \in Unused : Store!Lookup(id, "retiring")
    BY DEF Unused
  <2>3. UNCHANGED <<state, bound, slotState, assetGeneration>>
    BY <1>1 DEF slotVars, resources, nodes
  <2>4. ASSUME NEW id \in due'
        PROVE  /\ Store!Lookup(id, "retiring")'
               /\ \A s \in Slots :
                    PinsIn(bound[s], id.index)' > 0 => Reclaimable(s)' /\ scan' <= s
    BY <1>1, <2>1, <2>2, <2>3 DEF Store!Lookup, Reclaimable
  <2> QED
    BY <1>1, <2>4 DEF DueInv
<1> QED
  BY <1>2, <1>3, <1>4 DEF Inv

(* When the plans are done, the store is reclaimed.                        *)
LEMMA GoesOnToStore ==
  ASSUME Inv, NEW caller \in Reclaims, ReclaimAssetsThen(caller)
  PROVE  Inv'
<1>1. /\ call = caller /\ ctl = "idle" /\ UNCHANGED <<vars, nodes, due>>
      /\ call' = IF caller = "compile" THEN "staging" ELSE "none"
      /\ storeCtl' = "reclaim" /\ storeScan' = 0 /\ after' = "idle"
      /\ UNCHANGED <<slotState, key, bytes, asset, assetGeneration, pins, published,
                     keyToIndex, totalBytes, loads, ids, loading>>
  BY DEF ReclaimAssetsThen, Store!ReleaseReclaims, Store!ReclaimAssets, Store!Reclaim,
     Store!storeVars, Store!slotVars
<1>2. UNCHANGED <<ctl, scan, state>>
  BY <1>1 DEF vars, slotVars, control
<1>3. AssetTypes'
  BY <1>1, AssetsAreNumbers DEF Inv, AssetTypes, nodes
<1>4. StoreInv' /\ HeldInv'
  BY <1>1, <1>2 DEF Inv, StoreInv, HeldInv, InMemory, nodes
<1>5. CountInv'
  BY <1>1, PinsStay DEF Inv, nodes
<1>6. PhaseInv'
  BY <1>1, <1>2 DEF Inv, PhaseInv, Reclaims, Reclaiming
<1>7. DueInv'
  <2>1. \A id \in due : Store!Lookup(id, "retiring") /\ pins[id.index] = 0
    BY <1>1 DEF Inv, DueInv
  <2>2. \A id \in due : 0 <= id.index
    <3>1. \A id \in due : id.index \in Store!Assets
      BY <2>1 DEF Store!Lookup
    <3>2. \A a \in Store!Assets : 0 <= a
      BY DEF Store!Assets
    <3> QED
      BY <3>1, <3>2
  <2>3. \A id \in due : Store!Lookup(id, "retiring")'
    BY <1>1, <2>1 DEF Store!Lookup
  <2> QED
    BY <1>1, <1>2, <2>1, <2>2, <2>3 DEF DueInv, Reclaims, Reclaiming
<1> QED
  BY <1>3, <1>4, <1>5, <1>6, <1>7 DEF Inv

(* A slot of the plan store is reclaimed, or passed over.                  *)
LEMMA ReclaimsOne ==
  ASSUME Inv, TypeOK, ReclaimsPlan
  PROVE  Inv'
<1>1. /\ ctl = "reclaim" /\ scan \in Slots
      /\ IF scan + 1 < SlotCount THEN scan' = scan + 1 /\ ctl' = "reclaim"
                                 ELSE scan' = 0 /\ ctl' = "idle"
      /\ state' = state
      /\ UNCHANGED <<resourcesButPins, sources, pinned, call, due>>
  BY DEF ReclaimsPlan, ReclaimScans, TypeOK
<1>2. \/ Reclaimable(scan) /\ pins' = Dropped(bound[scan])
           /\ bound' = [bound EXCEPT ![scan] = <<>>]
      \/ ~Reclaimable(scan) /\ UNCHANGED <<pins, bound>>
  BY DEF ReclaimsPlan
<1>3. pinned = <<>> /\ call \in Reclaims /\ storeCtl \in {"idle", "released"}
  BY <1>1 DEF Inv, HeldInv, PhaseInv
<1>4. AssetTypes' /\ StoreInv' /\ HeldInv' /\ CountInv'
  <2>1. CASE Reclaimable(scan)
    <3>1. \A a : PinsIn(pinned', a) + PinsIn(<<>>, a) = PinsIn(pinned, a)
      BY <1>1, <1>3, EmptyList
    <3>2. InMemory(<<>>) /\ InMemory(pinned') /\ pinned' \in Seq(Store!AssetId)
      BY <1>1, <1>3, EmptyList
    <3>3. /\ AssetTypes' /\ StoreInv' /\ CountInv'
          /\ InMemory(pinned)' /\ \A t \in Slots : InMemory(bound[t])'
      BY <1>1, <1>2, <1>3, <2>1, <3>1, <3>2, EmptyList, PinsDropped
    <3> QED
      BY <1>1, <1>3, <3>3 DEF HeldInv
  <2>2. CASE ~Reclaimable(scan)
    BY <1>1, <1>2, <1>3, <2>2, ResourcesKept DEF resources, resourcesButPins, nodes
  <2> QED
    BY <2>1, <2>2
<1>5. PhaseInv'
  BY <1>1, <1>3 DEF Inv, PhaseInv, resourcesButPins, Reclaims
<1>6. \A id \in due : Store!Lookup(id, "retiring")'
  BY <1>1 DEF Inv, DueInv, Store!Lookup, resourcesButPins
<1>7. bound' \in [Slots -> Seq(Store!AssetId)]
  BY <1>4 DEF AssetTypes
<1>8. ASSUME NEW id \in due, NEW s \in Slots, PinsIn(bound'[s], id.index) > 0
      PROVE  Reclaimable(s)' /\ scan + 1 <= s
  <2>1. s # scan \/ ~Reclaimable(scan)
    BY <1>2, <1>8, EmptyList DEF Inv, AssetTypes
  <2>2. bound'[s] = bound[s]
    BY <1>2, <2>1 DEF Inv, AssetTypes
  <2>3. Reclaimable(s) /\ scan <= s
    BY <1>1, <1>8, <2>2 DEF Inv, DueInv
  <2>4. scan \in Nat /\ s \in Nat
    BY <1>1, SlotsAreNumbers DEF Slots
  <2> QED
    BY <1>1, <2>1, <2>3, <2>4 DEF Reclaimable
<1>9. DueInv'
  <2>1. CASE scan + 1 < SlotCount
    BY <1>1, <1>3, <1>6, <1>8, <2>1 DEF DueInv
  <2>2. CASE ~(scan + 1 < SlotCount)
    <3>1. ASSUME NEW id \in due
          PROVE  pins'[id.index] = 0
      <4> DEFINE a == id.index
      <4>1. a \in Store!Assets
        BY <1>6 DEF Store!Lookup
      <4>2. \A s \in Slots : ~(scan + 1 <= s)
        BY <1>1, <2>2, SlotsAreNumbers DEF Slots
      <4>3. \A s \in Slots : PinsIn(bound'[s], a) \in Nat
        BY <1>7, PinsAreFinite
      <4>4. \A s \in Slots : PinsIn(bound'[s], a) = 0
        BY <1>8, <3>1, <4>2, <4>3
      <4> HIDE DEF a
      <4>5. \A s \in Slots : \A i \in DOMAIN bound'[s] : bound'[s][i].index # a
        BY <1>7, <4>4, NoPins
      <4>6. \A s \in Slots : PinsOfPlan(s, a)' = {}
        BY <4>5 DEF PinsOfPlan
      <4>7. PinsOfPlans(a)' = {}
        BY <4>6 DEF PinsOfPlans
      <4>8. Cardinality(PinsOfPlans(a)') = 0 /\ PinsIn(pinned', a) = 0
        BY <1>1, <1>3, <4>7, FS_EmptySet, EmptyList
      <4>9. pins'[a] = 0
        BY <1>4, <4>1, <4>8 DEF CountInv
      <4> QED
        BY <4>9 DEF a
    <3> QED
      BY <1>1, <1>3, <1>6, <2>2, <3>1 DEF DueInv
  <2> QED
    BY <2>1, <2>2
<1> QED
  BY <1>4, <1>5, <1>9 DEF Inv

(* An asset is released and the store's own reclaim begins.                *)
LEMMA ReleasesAsset ==
  ASSUME Inv, NEW id \in ids, ReleaseAudioAsset(id)
  PROVE  Inv'
<1>1. /\ Idle /\ Store!Lookup(id, "resident")
      /\ slotState' = [slotState EXCEPT ![id.index] = "retiring"]
      /\ keyToIndex' = [k \in Keys |-> IF k \in key[id.index] THEN {} ELSE keyToIndex[k]]
      /\ key' = [key EXCEPT ![id.index] = {}]
      /\ storeCtl' = "reclaim" /\ storeScan' = 0 /\ after' = "released"
      /\ UNCHANGED <<bytes, asset, assetGeneration, pins, published, totalBytes, loads, ids,
                     loading>>
      /\ UNCHANGED <<vars, nodes, call>>
  BY DEF ReleaseAudioAsset, Store!ReleaseAudioAsset, Store!Reclaim
<1>2. UNCHANGED <<ctl, scan, sources, pinned, bound>>
  BY <1>1 DEF vars, control, nodes
<1>3. AssetTypes'
  <2>1. /\ slotState' \in [Store!Assets -> {"free", "resident", "retiring"}]
        /\ key' \in [Store!Assets -> SUBSET Keys]
        /\ keyToIndex' \in [Keys -> SUBSET Store!Assets]
    BY <1>1 DEF Inv, AssetTypes
  <2> QED
    BY <1>1, <1>2, <2>1, AssetsAreNumbers DEF Inv, AssetTypes
<1>4. StoreInv'
  <2>1. slotState[id.index] = "resident"
    BY <1>1 DEF Store!Lookup
  <2>2. \A a \in Store!Assets : slotState'[a] = "free" <=> slotState[a] = "free"
    BY <1>1, <2>1 DEF Inv, AssetTypes
  <2> QED
    BY <1>1, <2>2 DEF Inv, StoreInv
<1>5. HeldInv'
  BY <1>1, <1>2 DEF Inv, HeldInv, InMemory
<1>6. CountInv'
  BY <1>1, <1>2, PinsStay DEF Inv
<1>7. PhaseInv'
  BY <1>1, <1>2 DEF Inv, PhaseInv, Reclaims, Idle
<1>8. DueInv'
  BY <1>1, <1>2 DEF DueInv, Releasing, Reclaiming, Reclaims, Idle
<1> QED
  BY <1>3, <1>4, <1>5, <1>6, <1>7, <1>8 DEF Inv

-----------------------------------------------------------------------------
(* The store's own steps. *)

(* The store's loop goes on, or its call returns.                          *)
LEMMA StoreGoesOn ==
  ASSUME Inv, Store!NextSlot
  PROVE  /\ storeScan' \in Store!Assets
         /\ \/ /\ storeScan + 1 < MaxAssets /\ storeCtl' = "reclaim"
               /\ storeScan' = storeScan + 1 /\ after' = after
            \/ /\ storeScan + 1 >= MaxAssets /\ storeCtl' = after /\ storeScan' = 0
               /\ after' = "idle"
<1>1. storeScan \in Nat /\ MaxAssets \in Nat
  BY PlanAssetsAssumption, AssetsAreNumbers DEF Inv, AssetTypes
<1> QED
  BY <1>1, AssetsAreNumbers DEF Store!NextSlot, Store!Assets

(* A step of the store that touches no asset that is held.                 *)
LEMMA HeldStay ==
  ASSUME Inv, NEW a \in Store!Assets, pins[a] = 0, UNCHANGED <<nodes, ctl, pins>>,
         \A t \in Store!Assets : t # a =>
           assetGeneration'[t] = assetGeneration[t] /\ asset'[t] = asset[t]
  PROVE  HeldInv' /\ CountInv'
<1>1. /\ \A i \in DOMAIN pinned : pinned[i].index # a
      /\ \A s \in Slots : \A i \in DOMAIN bound[s] : bound[s][i].index # a
  BY UnpinnedIsUnheld DEF Inv
<1>2. \A i \in DOMAIN pinned : pinned[i].index \in Store!Assets
  BY PinsAreOfSlots DEF Inv, AssetTypes
<1>3. \A s \in Slots : \A i \in DOMAIN bound[s] : bound[s][i].index \in Store!Assets
  BY PinsAreOfSlots DEF Inv, AssetTypes
<1>4. UNCHANGED <<sources, pinned, bound>>
  BY DEF nodes
<1>5. InMemory(pinned)'
  BY <1>1, <1>2, <1>4 DEF Inv, HeldInv, InMemory
<1>6. \A s \in Slots : InMemory(bound[s])'
  BY <1>1, <1>3, <1>4 DEF Inv, HeldInv, InMemory
<1>7. CountInv'
  BY <1>4, PinsStay DEF Inv
<1> QED
  BY <1>4, <1>5, <1>6, <1>7 DEF Inv, HeldInv

(* The loop over the store looks at a slot. *)
LEMMA ScansStore ==
  ASSUME Inv, UNCHANGED <<vars, nodes, call, due>>, Store!ReclaimScans
  PROVE  Inv'
<1>1. /\ storeCtl = "reclaim"
      /\ IF Store!Reclaimable(storeScan)
         THEN storeCtl' = "bump" /\ UNCHANGED <<storeScan, after>>
         ELSE Store!NextSlot
      /\ UNCHANGED <<slotState, key, bytes, asset, assetGeneration, pins, published,
                     keyToIndex, totalBytes, loads, ids, loading>>
  BY DEF Store!ReclaimScans, Store!reclaimVars, Store!storeVars, Store!slotVars
<1>2. UNCHANGED <<ctl, scan, state, sources, pinned, bound>>
  BY DEF vars, slotVars, control, nodes
<1>3. /\ storeScan' \in Store!Assets /\ storeScan \in Store!Assets
      /\ after \in {"idle", "released", "prepare", "insert"}
  BY <1>1, StoreGoesOn DEF Inv, AssetTypes, PhaseInv
<1>4. \/ /\ Store!Reclaimable(storeScan)
         /\ storeCtl' = "bump" /\ storeScan' = storeScan /\ after' = after
      \/ /\ ~Store!Reclaimable(storeScan)
         /\ storeCtl' = "reclaim" /\ storeScan' = storeScan + 1 /\ after' = after
      \/ /\ ~Store!Reclaimable(storeScan) /\ storeScan + 1 >= MaxAssets
         /\ storeCtl' = after /\ after' = "idle"
  BY <1>1, StoreGoesOn
<1>5. AssetTypes'
  BY <1>1, <1>2, <1>3 DEF Inv, AssetTypes
<1>6. StoreInv'
  <2>1. storeCtl' = "bump" => slotState[storeScan] = "retiring" /\ pins[storeScan] = 0
    BY <1>1, <1>3, <1>4 DEF Store!Reclaimable
  <2> QED
    BY <1>1, <1>3, <1>4, <2>1 DEF Inv, StoreInv
<1>7. HeldInv'
  BY <1>1, <1>2 DEF Inv, HeldInv, InMemory
<1>8. CountInv'
  BY <1>1, <1>2, PinsStay DEF Inv
<1>9. PhaseInv'
  BY <1>1, <1>2, <1>3, <1>4 DEF Inv, PhaseInv, Reclaiming, Reclaims
<1>10. DueInv'
  <2>1. ctl # "reclaim" /\ call \notin Reclaims
    BY <1>1 DEF Inv, PhaseInv, Reclaims
  <2>2. Releasing' <=> Releasing
    BY <1>1, <1>3, <1>4 DEF Releasing, Reclaiming
  <2>3. ASSUME ~Releasing, NEW id \in due, ~Freed(id)
        PROVE  /\ Reclaiming' /\ after' = "idle"
               /\ Store!Lookup(id, "retiring")' /\ pins'[id.index] = 0
               /\ storeScan' <= id.index /\ storeCtl' \notin {"unpublish", "destroy"}
    <3>1. /\ after = "idle" /\ Store!Lookup(id, "retiring") /\ pins[id.index] = 0
          /\ storeScan <= id.index
      BY <1>1, <2>1, <2>3 DEF Inv, DueInv
    <3>2. /\ id.index \in Store!Assets /\ slotState[id.index] = "retiring"
          /\ Store!Lookup(id, "retiring")'
      BY <1>1, <3>1 DEF Store!Lookup
    <3>3. id.index \in Nat /\ storeScan \in Nat /\ id.index < MaxAssets
      BY <1>3, <3>2, AssetsAreNumbers, PlanAssetsAssumption DEF Store!Assets
    <3>4. ~Store!Reclaimable(storeScan) => storeScan # id.index
      BY <3>1, <3>2 DEF Store!Reclaimable
    <3>5. MaxAssets \in Nat
      BY PlanAssetsAssumption
    <3>6. \/ storeCtl' = "bump" /\ storeScan' <= id.index /\ after' = after
          \/ storeCtl' = "reclaim" /\ storeScan' <= id.index /\ after' = after
      BY <1>4, <3>1, <3>3, <3>4, <3>5
    <3> QED
      BY <1>1, <3>1, <3>2, <3>6 DEF Reclaiming
  <2>4. \A id : Freed(id)' <=> Freed(id)
    BY <1>1 DEF Freed
  <2> QED
    BY <1>2, <2>1, <2>2, <2>3, <2>4 DEF DueInv
<1> QED
  BY <1>5, <1>6, <1>7, <1>8, <1>9, <1>10 DEF Inv

(* The generation of the slot being freed goes up. *)
LEMMA BumpsStore ==
  ASSUME Inv, UNCHANGED <<vars, nodes, call, due>>, Store!ReclaimBumps
  PROVE  Inv'
<1>1. /\ storeCtl = "bump" /\ storeCtl' = "unpublish"
      /\ assetGeneration' = [assetGeneration EXCEPT ![storeScan] = @ + 1]
      /\ UNCHANGED <<slotState, key, bytes, asset, pins, published, keyToIndex, totalBytes,
                     loads, ids, storeScan, after, loading>>
  BY DEF Store!ReclaimBumps, Store!reclaimVars
<1>2. UNCHANGED <<ctl, scan, state, sources, pinned, bound>>
  BY DEF vars, slotVars, control, nodes
<1>3. storeScan \in Store!Assets /\ slotState[storeScan] = "retiring" /\ pins[storeScan] = 0
  BY <1>1 DEF Inv, AssetTypes, StoreInv
<1>4. \A a \in Store!Assets :
        assetGeneration'[a] = IF a = storeScan THEN assetGeneration[a] + 1
                              ELSE assetGeneration[a]
  BY <1>1, <1>3 DEF Inv, AssetTypes
<1>5. AssetTypes'
  BY <1>1, <1>2, <1>3, <1>4 DEF Inv, AssetTypes
<1>6. StoreInv'
  BY <1>1, <1>3 DEF Inv, StoreInv
<1>7. HeldInv' /\ CountInv'
  BY <1>1, <1>2, <1>3, <1>4, HeldStay
<1>8. PhaseInv'
  BY <1>1, <1>2 DEF Inv, PhaseInv, Reclaiming, Reclaims
<1>9. DueInv'
  <2>1. ctl # "reclaim" /\ call \notin Reclaims
    BY <1>1 DEF Inv, PhaseInv, Reclaims
  <2>2. Releasing' <=> Releasing
    BY <1>1 DEF Releasing, Reclaiming
  <2>3. ASSUME NEW id, Freed(id)
        PROVE  Freed(id)'
    <3>1. id.index \in Store!Assets /\ assetGeneration[id.index] \in Nat
      BY <2>3 DEF Freed, Inv, AssetTypes
    <3> QED
      BY <1>4, <2>3, <3>1 DEF Freed
  <2>4. ASSUME ~Releasing, NEW id \in due, ~Freed(id)
        PROVE  \/ Freed(id)'
               \/ /\ Reclaiming' /\ after' = "idle"
                  /\ Store!Lookup(id, "retiring")' /\ pins'[id.index] = 0
                  /\ storeScan' <= id.index /\ storeScan' < id.index
    <3>1. /\ after = "idle" /\ Store!Lookup(id, "retiring") /\ pins[id.index] = 0
          /\ storeScan <= id.index
      BY <1>1, <2>1, <2>4 DEF Inv, DueInv
    <3>2. /\ id.index \in Store!Assets /\ assetGeneration[id.index] = id.generation
          /\ assetGeneration[id.index] \in Nat
      BY <3>1 DEF Store!Lookup, Inv, AssetTypes
    <3>3. CASE id.index = storeScan
      BY <1>4, <3>2, <3>3 DEF Freed
    <3>4. CASE id.index # storeScan
      <4>1. storeScan \in Nat /\ id.index \in Nat
        BY <1>3, <3>2, AssetsAreNumbers
      <4>2. storeScan < id.index
        BY <3>1, <3>4, <4>1
      <4>3. Store!Lookup(id, "retiring")'
        BY <1>1, <1>4, <3>1, <3>4 DEF Store!Lookup
      <4> QED
        BY <1>1, <3>1, <4>2, <4>3 DEF Reclaiming
    <3> QED
      BY <3>3, <3>4
  <2> QED
    BY <1>2, <2>1, <2>2, <2>3, <2>4 DEF DueInv
<1> QED
  BY <1>5, <1>6, <1>7, <1>8, <1>9 DEF Inv

(* The slot being freed publishes nothing any more. *)
LEMMA UnpublishesStore ==
  ASSUME Inv, UNCHANGED <<vars, nodes, call, due>>, Store!ReclaimUnpublishes
  PROVE  Inv'
<1>1. /\ storeCtl = "unpublish" /\ storeCtl' = "destroy"
      /\ UNCHANGED <<slotState, key, bytes, asset, assetGeneration, pins, keyToIndex,
                     totalBytes, loads, ids, storeScan, after, loading>>
  BY DEF Store!ReclaimUnpublishes, Store!reclaimVars
<1>2. UNCHANGED <<ctl, scan, state, sources, pinned, bound>>
  BY DEF vars, slotVars, control, nodes
<1>3. AssetTypes'
  BY <1>1, <1>2 DEF Inv, AssetTypes
<1>4. StoreInv' /\ HeldInv'
  BY <1>1, <1>2 DEF Inv, StoreInv, HeldInv, InMemory
<1>5. CountInv'
  BY <1>1, <1>2, PinsStay DEF Inv
<1>6. PhaseInv'
  BY <1>1, <1>2 DEF Inv, PhaseInv, Reclaiming, Reclaims
<1>7. DueInv'
  <2>1. \A id : Store!Lookup(id, "retiring")' <=> Store!Lookup(id, "retiring")
    BY <1>1 DEF Store!Lookup
  <2> QED
    BY <1>1, <1>2, <2>1 DEF Inv, DueInv, PhaseInv, Reclaims, Freed, Releasing, Reclaiming
<1> QED
  BY <1>3, <1>4, <1>5, <1>6, <1>7 DEF Inv

(* The asset is destroyed, which nothing holds.                            *)
LEMMA DestroysStore ==
  ASSUME Inv, UNCHANGED <<vars, nodes, call, due>>, Store!ReclaimDestroys
  PROVE  Inv'
<1>1. /\ storeCtl = "destroy"
      /\ asset' = [asset EXCEPT ![storeScan] = {}]
      /\ slotState' = [slotState EXCEPT ![storeScan] = "free"]
      /\ Store!NextSlot
      /\ UNCHANGED <<key, assetGeneration, pins, published, keyToIndex, loads, ids, loading>>
  BY DEF Store!ReclaimDestroys
<1>2. UNCHANGED <<ctl, scan, state, sources, pinned, bound>>
  BY DEF vars, slotVars, control, nodes
<1>3. /\ storeScan \in Store!Assets /\ slotState[storeScan] = "retiring"
      /\ pins[storeScan] = 0 /\ after \in {"idle", "released", "prepare", "insert"}
  BY <1>1 DEF Inv, AssetTypes, StoreInv, PhaseInv
<1>4. /\ storeScan' \in Store!Assets
      /\ \/ /\ storeScan + 1 < MaxAssets /\ storeCtl' = "reclaim"
            /\ storeScan' = storeScan + 1 /\ after' = after
         \/ /\ storeScan + 1 >= MaxAssets /\ storeCtl' = after /\ storeScan' = 0
            /\ after' = "idle"
  BY <1>1, StoreGoesOn
<1>5. AssetTypes'
  BY <1>1, <1>2, <1>3, <1>4 DEF Inv, AssetTypes
<1>6. StoreInv'
  <2>1. \A a \in Store!Assets : slotState'[a] = "free" <=> asset'[a] = {}
    BY <1>1, <1>3 DEF Inv, AssetTypes, StoreInv
  <2> QED
    BY <1>3, <1>4, <2>1 DEF StoreInv
<1>7. HeldInv' /\ CountInv'
  <2>1. \A t \in Store!Assets : t # storeScan => asset'[t] = asset[t]
    BY <1>1 DEF Inv, AssetTypes
  <2> QED
    BY <1>1, <1>2, <1>3, <2>1, HeldStay
<1>8. PhaseInv'
  BY <1>1, <1>2, <1>3, <1>4 DEF Inv, PhaseInv, Reclaiming, Reclaims
<1>9. DueInv'
  <2>1. ctl # "reclaim" /\ call \notin Reclaims
    BY <1>1 DEF Inv, PhaseInv, Reclaims
  <2>2. Releasing' <=> Releasing
    BY <1>1, <1>3, <1>4 DEF Releasing, Reclaiming
  <2>3. \A id : Freed(id)' <=> Freed(id)
    BY <1>1 DEF Freed
  <2>4. ASSUME ~Releasing, NEW id \in due, ~Freed(id)
        PROVE  /\ Reclaiming' /\ after' = "idle"
               /\ Store!Lookup(id, "retiring")' /\ pins'[id.index] = 0
               /\ storeScan' <= id.index /\ storeCtl' = "reclaim"
    <3>1. /\ after = "idle" /\ Store!Lookup(id, "retiring") /\ pins[id.index] = 0
          /\ storeScan < id.index
      BY <1>1, <2>1, <2>4 DEF Inv, DueInv
    <3>2. /\ id.index \in Store!Assets /\ slotState[id.index] = "retiring"
          /\ assetGeneration[id.index] = id.generation
      BY <3>1 DEF Store!Lookup
    <3>3. id.index \in Nat /\ storeScan \in Nat /\ MaxAssets \in Nat /\ id.index < MaxAssets
      BY <1>3, <3>2, AssetsAreNumbers, PlanAssetsAssumption DEF Store!Assets
    <3>4. storeCtl' = "reclaim" /\ storeScan' <= id.index /\ after' = after
      BY <1>4, <3>1, <3>3
    <3>5. slotState'[id.index] = "retiring"
      BY <1>1, <3>1, <3>2, <3>3 DEF Inv, AssetTypes
    <3>6. Store!Lookup(id, "retiring")'
      BY <1>1, <3>2, <3>5 DEF Store!Lookup
    <3> QED
      BY <1>1, <3>1, <3>4, <3>6 DEF Reclaiming
  <2> QED
    BY <1>2, <2>1, <2>2, <2>3, <2>4 DEF DueInv
<1> QED
  BY <1>5, <1>6, <1>7, <1>8, <1>9 DEF Inv

(* A step of a load that changes no asset. *)
LEMMA LoadGoesOn ==
  ASSUME Inv, ctl = "idle", call = "none", storeCtl \in {"idle", "prepare", "insert", "publish"},
         UNCHANGED <<vars, nodes, call, due, slotState, key, asset, assetGeneration, pins,
                     keyToIndex, loads>>,
         ids' \subseteq Store!AssetId, loading' \subseteq Keys, storeScan' \in Store!Assets,
         after' \in {"idle", "released", "prepare", "insert"}, storeCtl' \in {"idle", "reclaim"}
  PROVE  Inv'
<1>1. UNCHANGED <<ctl, scan, state, sources, pinned, bound>>
  BY DEF vars, slotVars, control, nodes
<1>2. AssetTypes'
  BY <1>1 DEF Inv, AssetTypes
<1>3. StoreInv' /\ HeldInv'
  BY <1>1 DEF Inv, StoreInv, HeldInv, InMemory
<1>4. CountInv'
  BY <1>1, PinsStay DEF Inv
<1>5. PhaseInv'
  BY <1>1 DEF Inv, PhaseInv, Reclaims
<1>6. \A id \in due : Freed(id)
  BY DEF Inv, DueInv, Releasing, Reclaiming, Reclaims
<1>7. DueInv'
  BY <1>1, <1>6, StaysFreed DEF Reclaims
<1> QED
  BY <1>2, <1>3, <1>4, <1>5, <1>7 DEF Inv

(* A load is in no other call. *)
LEMMA LoadsAlone ==
  ASSUME Inv, storeCtl \in {"prepare", "insert", "publish"}
  PROVE  ctl = "idle" /\ call = "none"
BY DEF Inv, PhaseInv, Reclaims, Reclaiming

(* The id of a slot of the store is an id. *)
LEMMA SlotHasId ==
  ASSUME AssetTypes, NEW a \in Store!Assets
  PROVE  Store!IdOf(a) \in Store!AssetId
BY DEF AssetTypes, Store!IdOf, Store!AssetId

(* The asset is put in a free slot, which nothing holds.                   *)
LEMMA FillsStore ==
  ASSUME Inv, UNCHANGED <<vars, nodes, call, due>>, Store!InsertFills
  PROVE  Inv'
<1>1. PICK k \in loading, a \in Store!Assets :
        /\ Store!FirstFree(a)
        /\ keyToIndex' = [keyToIndex EXCEPT ![k] = {a}]
        /\ asset' = [asset EXCEPT ![a] = {[key |-> k, load |-> loads + 1]}]
        /\ key' = [key EXCEPT ![a] = {k}]
        /\ pins' = [pins EXCEPT ![a] = 0]
        /\ slotState' = [slotState EXCEPT ![a] = "resident"]
        /\ storeScan' = a
  BY DEF Store!InsertFills
<1>2. /\ storeCtl = "insert" /\ storeCtl' = "publish" /\ loads' = loads + 1
      /\ UNCHANGED <<assetGeneration, published, ids, after, loading>>
  BY DEF Store!InsertFills
<1>3. UNCHANGED <<ctl, scan, state, sources, pinned, bound>>
  BY DEF vars, slotVars, control, nodes
<1>4. ctl = "idle" /\ call = "none"
  BY <1>2, LoadsAlone
<1>5. slotState[a] = "free" /\ asset[a] = {}
  BY <1>1 DEF Store!FirstFree, Inv, StoreInv
<1>6. pins[a] = 0 /\ pins' = pins
  <2>1. pins[a] = 0
    BY <1>5, FreeIsUnpinned DEF Inv
  <2> QED
    BY <1>1, <2>1 DEF Inv, AssetTypes
<1>7. AssetTypes'
  <2>1. k \in Keys /\ [key |-> k, load |-> loads + 1] \in Store!AssetObject
    BY DEF Inv, AssetTypes, Store!AssetObject
  <2>2. /\ slotState' \in [Store!Assets -> {"free", "resident", "retiring"}]
        /\ asset' \in [Store!Assets -> SUBSET Store!AssetObject]
        /\ key' \in [Store!Assets -> SUBSET Keys]
        /\ keyToIndex' \in [Keys -> SUBSET Store!Assets]
    BY <1>1, <2>1 DEF Inv, AssetTypes
  <2>3. loads' \in Nat
    BY <1>2 DEF Inv, AssetTypes
  <2> QED
    BY <1>1, <1>2, <1>3, <1>6, <2>2, <2>3 DEF Inv, AssetTypes
<1>8. StoreInv'
  <2>1. \A t \in Store!Assets : slotState'[t] = "free" <=> asset'[t] = {}
    BY <1>1 DEF Inv, AssetTypes, StoreInv
  <2> QED
    BY <1>2, <2>1 DEF StoreInv
<1>9. HeldInv' /\ CountInv'
  <2>1. \A t \in Store!Assets : t # a => asset'[t] = asset[t]
    BY <1>1 DEF Inv, AssetTypes
  <2> QED
    BY <1>2, <1>3, <1>6, <2>1, HeldStay
<1>10. PhaseInv'
  BY <1>2, <1>3, <1>4 DEF Inv, PhaseInv, Reclaims
<1>11. \A id \in due : Freed(id)
  BY <1>2, <1>4 DEF Inv, DueInv, Releasing, Reclaiming, Reclaims
<1>12. DueInv'
  BY <1>2, <1>3, <1>4, <1>11, StaysFreed DEF Reclaims
<1> QED
  BY <1>7, <1>8, <1>9, <1>10, <1>12 DEF Inv

(* A load, from the first look at the key table to the published asset.    *)
LEMMA LoadsAsset ==
  ASSUME Inv, LoadAudioAsset
  PROVE  Inv'
<1> USE DEF Store!storeVars, Store!slotVars, Store!reclaimVars, Store!controlVars
<1>0. UNCHANGED <<vars, nodes, call, due>>
  BY DEF LoadAudioAsset
<1>1. ASSUME NEW k \in Keys, Idle, Store!LoadFinds(k)
      PROVE  Inv'
  <2>1. PICK a \in keyToIndex[k] : ids' = ids \cup {Store!IdOf(a)}
    BY <1>1 DEF Store!LoadFinds
  <2>2. UNCHANGED <<slotState, key, asset, assetGeneration, pins, keyToIndex, loads, storeCtl,
                    storeScan, after, loading>>
    BY <1>1 DEF Store!LoadFinds
  <2>3. ids' \subseteq Store!AssetId
    BY <2>1, SlotHasId DEF Inv, AssetTypes
  <2> QED
    BY <1>0, <1>1, <2>2, <2>3, LoadGoesOn DEF Idle, Inv, AssetTypes, PhaseInv
<1>2. ASSUME NEW k \in Keys, Idle, Store!LoadBegins(k)
      PROVE  Inv'
  <2>1. /\ loading' = {k} /\ storeCtl' = "reclaim" /\ storeScan' = 0 /\ after' = "prepare"
        /\ UNCHANGED <<slotState, key, asset, assetGeneration, pins, keyToIndex, loads, ids>>
    BY <1>2 DEF Store!LoadBegins, Store!Reclaim
  <2> QED
    BY <1>0, <1>2, <2>1, AssetsAreNumbers, LoadGoesOn DEF Idle, Inv, AssetTypes
<1>3. CASE Store!LoadFails \/ Store!InsertRefuses
  <2>1. /\ storeCtl \in {"prepare", "insert"} /\ storeCtl' = "idle" /\ loading' = {}
        /\ UNCHANGED <<slotState, key, asset, assetGeneration, pins, keyToIndex, loads, ids,
                       storeScan, after>>
    BY <1>3 DEF Store!LoadFails, Store!InsertRefuses
  <2> QED
    BY <1>0, <2>1, LoadsAlone, LoadGoesOn DEF Inv, AssetTypes, PhaseInv
<1>4. CASE Store!LoadPrepares
  <2>1. /\ storeCtl = "prepare" /\ storeCtl' = "reclaim" /\ storeScan' = 0 /\ after' = "insert"
        /\ UNCHANGED <<slotState, key, asset, assetGeneration, pins, keyToIndex, loads, ids,
                       loading>>
    BY <1>4 DEF Store!LoadPrepares, Store!Reclaim
  <2> QED
    BY <1>0, <2>1, AssetsAreNumbers, LoadsAlone, LoadGoesOn DEF Inv, AssetTypes
<1>5. CASE Store!InsertFills
  BY <1>0, <1>5, FillsStore
<1>6. CASE Store!InsertPublishes
  <2>1. /\ storeCtl = "publish" /\ storeCtl' = "idle" /\ storeScan' = 0 /\ loading' = {}
        /\ ids' = ids \cup {Store!IdOf(storeScan)}
        /\ UNCHANGED <<slotState, key, asset, assetGeneration, pins, keyToIndex, loads, after>>
    BY <1>6 DEF Store!InsertPublishes
  <2>2. ids' \subseteq Store!AssetId
    BY <2>1, SlotHasId DEF Inv, AssetTypes
  <2> QED
    BY <1>0, <2>1, <2>2, AssetsAreNumbers, LoadsAlone, LoadGoesOn DEF Inv, AssetTypes, PhaseInv
<1> QED
  BY <1>1, <1>2, <1>3, <1>4, <1>5, <1>6 DEF LoadAudioAsset

-----------------------------------------------------------------------------
(* The theorems. *)

(* Every step of the two threads keeps the invariant.                      *)
LEMMA AssetsStep ==
  ASSUME Inv, TypeOK, PlanInv, [AllNext]_allVars
  PROVE  Inv'
<1>1. CASE AudioThread
  BY <1>1, Renders
<1>2. ASSUME NEW node \in SourceNodes, NEW id \in {{}} \cup {{known} : known \in ids},
             EditGraph(node, id)
      PROVE  Inv'
  BY <1>2, Edits
<1>3. CASE ReclaimAssets
  BY <1>3, BeginsReclaim DEF ReclaimAssets, Idle, Reclaims
<1>4. CASE CompileAndStageGraph
  BY <1>4, BeginsReclaim DEF CompileAndStageGraph, Idle, Reclaims
<1>5. CASE ReleasedReclaims
  BY <1>5, BeginsReclaim DEF ReleasedReclaims, Reclaims
<1>6. CASE Stages \/ Compiles
  BY <1>6, CompilesPlan
<1>7. ASSUME NEW caller \in {"reclaim", "compile", "release"}, ReclaimAssetsThen(caller)
      PROVE  Inv'
  BY <1>7, GoesOnToStore DEF Reclaims
<1>8. CASE BindAsset
  BY <1>8, Binds
<1>9. CASE CompileFails
  BY <1>9, FailsCompile
<1>10. CASE Builds
  BY <1>10, BuildsPlan
<1>11. CASE ReclaimsPlan
  BY <1>11, ReclaimsOne
<1>12. ASSUME NEW handle \in handles, Idle /\ ReleaseStagedPlan(handle)
       PROVE  Inv'
  BY <1>12, ReleasesPlan
<1>13. ASSUME NEW id \in ids, ReleaseAudioAsset(id)
       PROVE  Inv'
  BY <1>13, ReleasesAsset
<1>14. CASE LoadAudioAsset
  BY <1>14, LoadsAsset
<1>15. CASE StoreReclaims
  BY <1>15, ScansStore, BumpsStore, UnpublishesStore, DestroysStore
     DEF StoreReclaims, Store!ReclaimStep
<1>16. CASE PlanCalls
  BY <1>16, CallsPlanStore
<1>17. CASE UNCHANGED allVars
  <2>1. UNCHANGED <<vars, resources, nodes, call, due>>
    BY <1>17 DEF allVars
  <2>2. AssetTypes' /\ StoreInv' /\ HeldInv' /\ CountInv'
    BY <2>1, ResourcesKept DEF Inv, HeldInv, vars, control
  <2>3. PhaseInv'
    BY <2>1 DEF Inv, PhaseInv, Reclaiming, resources, vars, control
  <2>4. DueInv'
    BY <2>1 DEF Inv, DueInv, Reclaimable, Store!Lookup, Freed, Releasing, Reclaiming,
       resources, nodes, vars, slotVars, control
  <2> QED
    BY <2>2, <2>3, <2>4 DEF Inv
<1> QED
  BY <1>1, <1>2, <1>3, <1>4, <1>5, <1>6, <1>7, <1>8, <1>9, <1>10, <1>11, <1>12, <1>13, <1>14,
     <1>15, <1>16, <1>17 DEF AllNext, ControlThread

(* The invariant holds of every behaviour. *)
LEMMA AssetsAlways == AllSpec => []Inv
<1>1. AllInit => Inv
  BY AssetsInitially
<1>2. TypeOK /\ PlanInv /\ Inv /\ [AllNext]_allVars => Inv'
  BY AssetsStep
<1>3. AllSpec => [](TypeOK /\ PlanInv)
  BY PlanStoreUnderneath, PlanInvariant, PTL
<1> QED
  BY <1>1, <1>2, <1>3, PTL DEF AllSpec

(* PlansHoldAssets: the bare address in a node of a plan - one rendered,   *)
(* staged, retired or being built - is that of the asset it was bound to,  *)
(* which is in memory, whatever the application releases and reclaims      *)
(* meanwhile; and the pins of an asset are those of the plans that exist   *)
(* and of the compile in progress, after failures, releases and reclaims   *)
(* alike.                                                                  *)
THEOREM PlansKeepAssets == AllSpec => []PlansHoldAssets
<1>1. Inv => PlansHoldAssets
  BY DEF Inv, HeldInv, CountInv, InMemory, PlansHoldAssets, AddressesGood, PinsCounted
<1> QED
  BY <1>1, AssetsAlways, PTL

(* FreesWhatIsUnused: a call of ReclaimAssets, by itself, for a compile or *)
(* for a release, leaves no released asset in memory that only plans       *)
(* retired before the call still pinned: the plans go before the store is  *)
(* looked through, and the store's loop meets every such slot.             *)
THEOREM ReclaimFreesAll == AllSpec => []FreesWhatIsUnused
<1>1. Inv => FreesWhatIsUnused
  <2> SUFFICES ASSUME Inv, Idle, NEW id \in due
               PROVE  assetGeneration[id.index] # id.generation
    BY DEF FreesWhatIsUnused
  <2>1. Freed(id)
    BY AllFreed DEF Idle, Reclaims
  <2>2. assetGeneration[id.index] \in Nat
    BY <2>1 DEF Freed, Inv, AssetTypes
  <2> QED
    BY <2>1, <2>2 DEF Freed
<1> QED
  BY <1>1, AssetsAlways, PTL
=============================================================================
