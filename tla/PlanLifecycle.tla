---------------------------- MODULE PlanLifecycle ---------------------------
(***************************************************************************)
(* What the graph plan store promises: a handle is issued once, for a plan *)
(* that is then staged; a staged plan is released, or activated once, and  *)
(* is rendered until another one is activated.  A plan that was released   *)
(* or replaced never comes back, whatever handle the application keeps.    *)
(***************************************************************************)
CONSTANT Handles

VARIABLES issued, staged, current

lifecycle == <<issued, staged, current>>

Init == issued = {} /\ staged = {} /\ current = {}

Stage(handle) ==
  /\ handle \notin issued
  /\ issued' = issued \cup {handle}
  /\ staged' = staged \cup {handle}
  /\ current' = current

Release(handle) ==
  /\ handle \in staged
  /\ staged' = staged \ {handle}
  /\ UNCHANGED <<issued, current>>

Activate(handle) ==
  /\ handle \in staged
  /\ staged' = staged \ {handle}
  /\ current' = {handle}
  /\ issued' = issued

Next == \E handle \in Handles : Stage(handle) \/ Release(handle) \/ Activate(handle)

Spec == Init /\ [][Next]_lifecycle
=============================================================================
