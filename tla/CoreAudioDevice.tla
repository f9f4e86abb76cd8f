-------------------------- MODULE CoreAudioDevice ---------------------------
(***************************************************************************)
(* The output device on Core Audio.  Opening it is a chain of calls to the *)
(* system, each of which can fail, with a cleanup for each; the render     *)
(* callback comes on a thread of the system's.                             *)
(*                                                                         *)
(* Of the system it is assumed that a unit calls back only while it runs,  *)
(* and that AudioOutputUnitStop, when it succeeds, and                     *)
(* AudioComponentInstanceDispose return once no callback is in progress.   *)
(* AudioTimeline covers a Stop that returns earlier.  A sample rate stands *)
(* for a format.  A fault that a property catches stands before the        *)
(* definition it varies.                                                   *)
(***************************************************************************)
EXTENDS Naturals

CONSTANT DeviceRates   \* the rates the system may settle on

ASSUME DeviceRatesAssumption == DeviceRates \subseteq Nat \ {0}

VARIABLES
  \* the system
  instances,     \* units created and not disposed of
  unitRuns,
  \* CoreAudioDevice
  outputUnit,    \* whether output_unit_ is one
  callback,      \* whether render_callback_ is set
  negotiated,    \* the rate of negotiated_format_, 0 if it has no channels
  isOpen, isRunning,
  \* the threads
  ctl,           \* where the control thread is in its call
  rendering      \* where the callback is, or "no"

deviceVars == <<instances, unitRuns, outputUnit, callback, negotiated, isOpen, isRunning,
                ctl, rendering>>
system == <<instances, unitRuns, outputUnit>>
flags == <<isOpen, isRunning>>

DeviceInit ==
  /\ instances = 0 /\ unitRuns = FALSE /\ outputUnit = FALSE
  /\ callback = FALSE /\ negotiated = 0 /\ isOpen = FALSE /\ isRunning = FALSE
  /\ ctl = "idle" /\ rendering = "no"

-----------------------------------------------------------------------------
(* Open: a step for each call to the system.                               *)

Goes(from, to) == ctl = from /\ ctl' = to

OpenCreates ==
  /\ ~isOpen
  /\ Goes("idle", "format")
  /\ instances' = instances + 1 /\ outputUnit' = TRUE
  /\ UNCHANGED <<unitRuns, callback, negotiated, flags, rendering>>

OpenSetsFormat ==
  /\ Goes("format", "install")
  /\ callback' = TRUE
  /\ UNCHANGED <<system, negotiated, flags, rendering>>

OpenInstalls ==
  /\ Goes("install", "initialize")
  /\ UNCHANGED <<system, callback, negotiated, flags, rendering>>

OpenInitializes ==
  /\ Goes("initialize", "negotiate")
  /\ UNCHANGED <<system, callback, negotiated, flags, rendering>>

OpenNegotiates(rate) ==
  /\ Goes("negotiate", "idle")
  /\ negotiated' = rate
  /\ isOpen' = TRUE
  /\ UNCHANGED <<system, callback, isRunning, rendering>>

(* Any of the four fails: the callback is forgotten, the unit disposed of. *)
(* No unit, or none that can be created, changes nothing.                  *)
OpenFailsLeaving(dispose) ==
  /\ ctl \in {"format", "install", "initialize", "negotiate"}
  /\ ctl' = "idle"
  /\ instances' = IF ctl \in dispose THEN instances - 1 ELSE instances
  /\ outputUnit' = FALSE
  /\ callback' = FALSE
  /\ UNCHANGED <<unitRuns, negotiated, flags, rendering>>

(* Fault: a unit that was initialized is not disposed of. *)
OpenFailsInitialized == OpenFailsLeaving({"format", "install", "initialize"})

OpenFails == OpenFailsLeaving({"format", "install", "initialize", "negotiate"})

-----------------------------------------------------------------------------
(* Start, Stop and Close; a call that has nothing to do changes nothing.   *)

Start(succeeds) ==
  /\ ctl = "idle" /\ isOpen /\ ~isRunning
  /\ unitRuns' = (unitRuns \/ succeeds)
  /\ isRunning' = succeeds
  /\ UNCHANGED <<instances, outputUnit, callback, negotiated, isOpen, ctl, rendering>>

(* The unit may go on when AudioOutputUnitStop fails; the flag does not.   *)
StopUnit(succeeds) ==
  /\ succeeds => rendering = "no"
  /\ unitRuns' = (unitRuns /\ ~succeeds)
  /\ isRunning' = FALSE

Stop(succeeds) ==
  /\ ctl = "idle" /\ isOpen /\ isRunning
  /\ StopUnit(succeeds)
  /\ UNCHANGED <<instances, outputUnit, callback, negotiated, isOpen, ctl, rendering>>

CloseStops(succeeds) ==
  /\ isOpen
  /\ Goes("idle", "dispose")
  /\ IF isRunning THEN StopUnit(succeeds) ELSE UNCHANGED <<unitRuns, isRunning>>
  /\ UNCHANGED <<instances, outputUnit, callback, negotiated, isOpen, rendering>>

(* AudioUnitUninitialize, whose failure is ignored, and Dispose. *)
CloseDisposes ==
  /\ Goes("dispose", "clear")
  /\ rendering = "no"
  /\ instances' = instances - 1 /\ unitRuns' = FALSE
  /\ UNCHANGED <<outputUnit, callback, negotiated, flags, rendering>>

CloseClears ==
  /\ Goes("clear", "idle")
  /\ outputUnit' = FALSE /\ callback' = FALSE /\ negotiated' = 0
  /\ isOpen' = FALSE
  /\ UNCHANGED <<instances, unitRuns, isRunning, rendering>>

-----------------------------------------------------------------------------
(* Render: a view with the channels of the format, then the callback.      *)

deviceButThread == <<system, callback, negotiated, flags, ctl>>

RenderViews ==
  /\ unitRuns /\ rendering = "no"
  /\ rendering' = IF negotiated = 0 THEN "nothing" ELSE "call"
  /\ UNCHANGED deviceButThread

RenderCalls ==
  /\ rendering = "call"
  /\ rendering' = IF callback THEN "runtime" ELSE "nothing"
  /\ UNCHANGED deviceButThread

RenderReturns ==
  /\ rendering \in {"runtime", "nothing"}
  /\ rendering' = "no"
  /\ UNCHANGED deviceButThread

-----------------------------------------------------------------------------

DeviceCalls ==
  \/ OpenCreates \/ OpenSetsFormat \/ OpenInstalls \/ OpenInitializes
  \/ \E rate \in DeviceRates : OpenNegotiates(rate)
  \/ OpenFails
  \/ \E succeeds \in BOOLEAN : Start(succeeds) \/ Stop(succeeds) \/ CloseStops(succeeds)
  \/ CloseDisposes \/ CloseClears

SystemThread == RenderViews \/ RenderCalls \/ RenderReturns

(* The device by itself, with whoever calls it. *)
DeviceSpec == DeviceInit /\ [][DeviceCalls \/ SystemThread]_deviceVars

-----------------------------------------------------------------------------
(* Properties. *)

(* Between calls there is a unit, with its callback and its format, exactly *)
(* when the device is open: wherever Open failed, nothing is left behind    *)
(* and nothing dangles.                                                     *)
NothingLeaked ==
  ctl = "idle" =>
    /\ instances = (IF isOpen THEN 1 ELSE 0)
    /\ isOpen = outputUnit /\ isOpen = callback /\ isOpen = (negotiated # 0)

(* As long as a callback is in progress the unit that makes it exists, and *)
(* the format and the function that it reads without a lock are set.  This *)
(* holds even when the unit did not stop and the flag says that it has.    *)
CallbackSafe ==
  rendering # "no" => instances = 1 /\ outputUnit /\ callback /\ negotiated # 0

(* A device that failed to open, or was closed with a callback coming in,  *)
(* has lost nothing, and no callback finds it half taken apart.            *)
DeviceIntact == NothingLeaked /\ CallbackSafe
=============================================================================
