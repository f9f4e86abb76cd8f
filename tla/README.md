# Lavanda in TLA+

Lavanda is a C++ audio engine: one control thread drives a runtime whose render
callback runs on a device's audio thread, without locks and without allocation.
These modules specify the parts where the two threads meet, TLC checks them on
small instances, and TLAPS proves the central facts for every value of the
constants. Paths below are relative to the repository (`src/lavanda/...`,
`include/lavanda/...`).

## 1. The system

Two threads share one process.

* The **control thread** (the application) calls `AudioRuntime`: it starts and
  stops the device, submits commands (immediate) or schedules them at a frame,
  creates voices and buses, edits and stages graphs, loads and releases assets.
* The **audio thread** (the device) calls `AudioRuntime::Impl::Render` for each
  block: it drains the command queue, keeps a heap of scheduled events, applies
  commands, and renders the block in segments that end where an event is due.

| Component | State | Operations | Shared through | What makes it correct |
| --- | --- | --- | --- | --- |
| Command queue (`runtime/command_queue.*`) | ring, `head_`, `tail_` | `TryPush`, `TryPop` | two atomic indices | bounded FIFO; no slot used by both threads |
| Event scheduler, reservations (`runtime/event_scheduler.*`) | heap, sequence, count of reservations | `Push`, `PeekNextTarget`, `PopDue`; `TryReserve`, `Release` | the count | reservations conserved, order of events, no drop |
| Runtime (`runtime/audio_runtime.cc`) | `is_active_`, session epoch, clock, all the others | `Start`, `Stop`, `Shutdown`, `Submit`, `ScheduleAtFrame`, `Render` | atomics and the queue | events exact in time, of their session, all accounted for |
| Clock, diagnostics (`audio_clock.*`, `render_diagnostics.*`) | counters | record, read | atomics | the books balance at rest |
| Voices (`voice_pool.*`, `mixing.cc`) | control slots, audio slots, published word | reserve, release; create, start, stop, destroy, parameters; render | queue, `published_` | generations keep stale commands out; the two views agree |
| Buses (`bus_system.*`) | the same two-sided slots, accumulators | create, destroy, gain, route | queue | a destroyed bus routes to the master |
| Graph model, compiler (`graph/graph.cc`, `graph_compiler.cc`) | nodes, edges | edit, compile | control thread only | order respects edges, buffers not aliased |
| Plan store (`graph/graph_plan_store.*`) | slots with state, generation, plan, flag | stage, activate, release, reclaim | atomic state, queue | the rendered plan is never touched; no slot leaks |
| Executor, nodes (`graph_executor.cc`, `nodes/`) | buffers, filter and delay state, position | process | the active plan | a block cut in two renders the same |
| Asset pins (`asset_pins.cc`) | the ids pinned for a plan | bind, drop | the plan, the store's pin counts | a plan's assets outlive it, and only it |
| Resource store, loader (`resources/resource_store.*`, `resource_loader.*`) | slots with generation, pins, published pointer; key table; budget | load, pin, release, reclaim; resolve, unpin | three atomics a slot | pinned assets stay in memory; the key table and the budget are right |
| Decoder, resampler (`decoders/wav_decoder.cc`, `resampler.cc`) | none | decode, resample | - | no read outside the file; what is decoded is what was written; every frame from its time |
| Spatial audio, mixer arithmetic (`spatial/`, `mixer_math.*`, `gain_ramp.h`) | ramps, cursor | pure or per voice | - | segmentation does not change the result, nothing jumps |
| Device, Core Audio (`device/`, `platform/coreaudio/`) | the unit, the callback, the format, two flags | open, start, stop, close, callback | callback | a failed open leaves nothing behind; no callback on a device half taken apart |

Hard behaviour is concentrated in six places: the split of an operation over
the two threads (reserve / push / count / drain / release), sessions ended by
`Shutdown` while a callback runs, capacity limits of the queue, heap and pools,
handles that outlive what they name, plans and assets retired while the audio
thread still uses them, and unsigned frame arithmetic at its ends.
`PROJECT.json` lists them as hazards, each at its line with the properties that
cover it; those no property covers yet carry a note.

## 2. Modules

| Module | Models | Composes |
| --- | --- | --- |
| `BoundedFifo` | what the queue promises: atomic push and pop | - |
| `CommandQueue` | the ring, one index load, slot copy or index store a step | implements `BoundedFifo` |
| `ScheduledTimeline` | what the runtime promises of scheduled events: accept, execute on time and in order, discard at the end of a session | - |
| `AudioTimeline` | submission, lifecycle, drain, dispatch, segments, accounting | `BoundedFifo`; implements `ScheduledTimeline` |
| `PlanLifecycle` | what a plan handle goes through: staged, then released or activated, once | - |
| `GraphPlanStore` | the plan slots, activations in flight | `BoundedFifo`; implements `PlanLifecycle` |
| `ResourceStore` | the asset store and its loader | - |
| `VoicePool` | voices on both threads, with the pins they hold | `ResourceStore`, `BoundedFifo` |
| `PlanAssets` | the plans and the assets they pin, and the calls that go through both stores | `GraphPlanStore`, `ResourceStore` |
| `AudioGraph` | the graph an application edits: nodes, connections, output | - |
| `GraphCompiler` | compilation to steps and buffers, and rendering the result, as operators | `AudioGraph` |
| `BusSystem` | buses on both threads, routing of voices, the mix | `BoundedFifo` |
| `GainRamp`, `DelayNode` | a ramp and a delay line, as operators | - |
| `VoiceRendering` | what a segment renders of a voice, its bus and two nodes, under commands between segments | `GainRamp`, `DelayNode` |
| `CoreAudioDevice` | opening, starting, stopping and closing the device, with the system's thread | - |
| `WavDecoder` | the walk over the chunks of a file, and its verdict | - |
| `Resampler` | the frames of a resampled asset, as operators | - |
| `AssetLoading` | an asset from the file to the device's rate | `CoreAudioDevice`, `WavDecoder`, `Resampler` |
| `MCAudioTimeline`, `MCCommandQueue`, `MCGraphPlanStore`, `MCVoicePool`, `MCGraphCompiler`, `MCVoiceRendering`, `MCPlanAssets`, `MCAssetLoading` | the instances TLC checks (`BusSystem` is checked as it is) | - |
| `AudioTimelineProofs` | theorems about `AudioTimeline`: reservations and the account of events; time, order, sessions and the refinement | `AudioTimeline` |
| `CommandQueueProofs`, `BusSystemProofs` | theorems about the module of that name | it |
| `AssetLoadingProofs` | theorems about `CoreAudioDevice`, the decoder, the resampler and `AssetLoading` | `AssetLoading` |
| `VoicePoolProofs` | theorems about `VoicePool` and the `ResourceStore` under it | `VoicePool` |
| `PlanAssetsProofs` | theorems about `GraphPlanStore`, and about `PlanAssets` on top of them | `PlanAssets` |
| `RenderingProofs` | theorems about what is rendered: `AudioGraph`, `GraphCompiler` and the plans; `VoiceRendering` | `GraphCompiler`, `VoiceRendering` |
| `Recursion` | induction over the natural numbers, and that functions defined by recursion exist and are unique; for the proofs above | - |

In each detailed module a step is one access to state the other thread can see,
together with what the thread does to its own state until the next. A pair of
program counters (`ctl` and `aud`, in the ring `producer` and `consumer`) keeps
the order of the code. Values only a property needs are marked *history*: the
position of a command, the clock when it was pushed, the voice a handle was
made for. A definition no action uses that stands before the one it varies
(`StopVoiceInPlace` before `StopVoice`) is a fault the properties are shown
to catch; `PROJECT.json` pairs each property with one.

**`AudioTimeline` and the code.** `ScheduleAtFrame` is `ScheduleReserve`,
`SchedulePush` and `ScheduleRecordAccepted`, with `ScheduleExhausted` and
`ScheduleQueueFull`/`ScheduleRollback` for its error paths. `Start` is `Start`
and `DeviceStart` or `DeviceStartFails`; `Stop` and `Shutdown` clear
`is_active_`, wait for the device in `DeviceStop`, and `EndSession` moves the
epoch. `Render` is `BeginCallback`, `LoadEpoch`, `AdoptEpoch`'s flush
(`NewerEpoch`, `FlushEvent`, `AdoptEpochReturns`), the bounded drain
(`ApplyImmediate`, `PopScheduled`, `DiscardStale`, `AdmitScheduled`,
`DrainEnds`), `DispatchEvent`/`DispatchEnds`, `RenderSegment` and
`AdvanceClock`. Releasing a reservation and counting an outcome are two
accesses to shared atomics and therefore two steps. The heap is a set: what
`push_heap` and `pop_heap` do is to return a least element of `Later`.

**`CommandQueue` and the code.** The producer may load an old `tail_` and the
consumer an old `head_`, as acquire loads allow, and a slot that is being
written holds garbage. The pushed command becomes part of the abstract queue at
the store of `head_`. A push can be refused on a stale index when the queue is no
longer full: to `BoundedFifo` this is a stutter. `AudioTimeline` refuses only
when the queue is full.

**`GraphPlanStore` and the code.** The plan and `activation_submitted` are plain
fields; that the two threads never use them at once is what the properties
show. The steps are those of the store's own functions; that `CompileAndStageGraph`
reclaims before it calls `BuildAndStage` is `PlanAssets`'s. Steps interleave sequentially: the code publishes with release stores of
the state and reads with acquire loads, or passes through the queue.
Activations are those of `ActivateGraphPlan`. (`Submit` is public: an
application that submits a raw `kActivateGraphPlan` skips
`MarkActivationSubmitted` and is outside the model.)

**`ResourceStore`, `VoicePool` and the code.** `ReclaimRetired` is a loop of
`ReclaimScans`, `ReclaimBumps`, `ReclaimUnpublishes` and `ReclaimDestroys`, one
atomic access each, entered from `ReclaimAssets`, `Release`, `Load` and
`Insert`. `ResolveForAudio` and `Unpin` load the generation in one step
(`ApplyCreate`, `ApplyReleases`) and act in the next (`ApplyResolves`,
`ApplyUnpins`). `CreateVoice` reserves and pins, then submits or rolls back.
Scheduled `Start` and `Stop` commands wait in `heap` and are applied at any
later time or never, which covers every timing `AudioTimeline` allows. Any copy
of a `Voice` may be used again, after its destruction too. Two error paths of
the code cannot be reached and have no action: `Pin` and `GetInfo` failing right after
`ValidateAssetForVoice` succeeded on the same thread, and `Insert` finding a
key its caller just did not find.

**`AudioGraph`, `GraphCompiler` and the code.** Both run on the control thread
alone. The states are the graphs that edits can reach, with slots used again
after a removal (`Without` is the `erase_if` over the connections); `Compile` is a chain of operators over such a graph, one per
phase of the function (`Reachable`, `RequiredInputsConnected`, `Order`,
`PlanOf` with `Allocate` and `ReleaseInputs` in the order of the code). `Render` walks
the plan with terms for samples: a node yields the term of itself applied to what its
input buffers hold. A buffer starts with leftovers of an earlier block, an
output is cleared before its inputs are read (as `MixerNode` and `PanNode` do),
and a node of another width than its buffer leaves rubbish, so that a wrong
order, an early release and a wrong buffer all show in the result. It
is compared with `Meaning`, read off the graph without order or buffers;
`Sound` likewise restates by sets what the compiler finds by counting.

**`BusSystem` and the code.** A call of the control thread shares only its push
with the audio thread, so that a call is one step: `CreateBus` reserves, pushes
and, when the queue is full, gives the slot back (`CreateBusRollsBack`);
`DestroyBus` releases its slot only when the push succeeded. `PopImmediate` and
`PopEvent` are `ApplyCommand` for each kind of command, `Ignored` its early
returns. `RenderVoicesAndBuses` is one segment: clear, add the voices, add the buses.
A sound is the voice it comes from and the bus it came through, a gain is the
bus it was meant for. The voices play all the time; how a voice starts, stops
and loses its slot is `VoicePool`'s, and the value of a gain over time
`VoiceRendering`'s. The early returns for an output that is not stereo or a
block that is too large are left out.

**`VoiceRendering` and the code.** One action per command the drain or the
dispatch applies to a voice, to its bus or to the delay node, and one per
segment. `RenderSegment` is `RenderVoicesAndBuses` together with the executor's
turn of the two nodes that have a memory of time: each of `RenderAssetSource`,
`RenderAssetSourceSpatial`, `RenderTone`, `UpdateSpatial`, `RenderDelay` and
`RenderAssetNode` maps a state and a range of frames to the state after it and
what is heard at each frame. A sound is the place in the source it comes from,
so that a frame skipped, repeated or moved shows. Where the cuts of a block are
is `AudioTimeline`'s; here they can be anywhere, and a segment larger than the
scratch buffers is skipped (`SkipSegment`). The two paths of the mixer, for
constant gains and for ramps, are both there: `GainsOf` and `BusGainOf` choose
as `IsConstantFrom` does. `AssetFrames - position` is the code's unsigned
difference. Numbers stand for floats: values of a ramp are rounded to whole parts, so that
a path that computes another value than the one beside it differs in the model
by as little as it would in the code.

**`PlanAssets` and the code.** Both stores keep their own steps; what is added
is what goes through both: `CompileAndStageGraph` and `ReclaimAssets` reclaim the
plans, then the store; `ReleaseAudioAsset` marks the asset and reclaims
likewise; binding a source node pins its asset and
keeps its address (`BindAsset`), a compile that fails later drops what it took
(`CompileFails`), and the pins go with the plan wherever that is destroyed
(`Builds`, `ReleaseStagedPlan`, `ReclaimsPlan`). The audio thread never looks at
the store for these assets, so that its address is good only as long as the pin
is. `NextSource` is the node the compiler binds next: the one with as many source
nodes in use before it as pins were taken.

**`CoreAudioDevice` and the code.** `Open` is a step for each call to the system
(`OpenCreates` to `OpenNegotiates`), any of which can fail (`OpenFails`); so is
`Close`. The callback reads the format, then the function, then calls it, with
the control thread going on in between. Assumed of the system, because nothing in the repository
says so: a unit calls back only while it runs; `AudioOutputUnitStop`, if it
succeeds, and `AudioComponentInstanceDispose` return when no callback is in
progress. A Stop that returns earlier is what `TimelineAsyncStop` is about.

**`WavDecoder`, `Resampler`, `AssetLoading` and the code.** A file is what its
writer laid out, with a size that may fall short and a header that may lie; a
header read where no chunk begins may say anything. `WalkChunk` is a turn of the
loop of `DecodeWav`, `Verdict` the checks on format and data in their order.
A load fails before that when there is no rate (`NoRate`), or a file is too large
(`FileTooLarge`) or cannot be opened or read (`FileUnreadable`).
`Prepares` decodes to the device's rate, resamples when the rates differ and
applies the limit on frames to the result. A source frame stands for its own
number, so that the value of a resampled frame is the place it was taken from;
arithmetic is exact where the code's is in doubles. An asset keeps the rate it was prepared for when the device is
opened again at another one (`docs/architecture/resources_and_assets.md:366`).

## 3. Runs

| Run | Instance | Shows |
| --- | --- | --- |
| `Timeline` | queue 2, events 2, blocks of 0, 2, 3 frames with a maximum of 2, targets at 0, 1, 3 and never, 3 commands, 1 shutdown | the safety properties and the refinement of `ScheduledTimeline`, with a `Stop` that waits |
| `TimelineAsyncStop` | `SyncStop = FALSE`, 2 shutdowns | events of an ended session are discarded and not run; only those are discarded; an event submitted a block ahead is executed at exactly its frame |
| `TimelineLiveness` | queue 1, 2 commands | accepted events settle, callbacks and calls return |
| `TimelineSubmissionOrder` | 2 commands | violated: see section 6 |
| `Ring` | 3 slots, 7 pushes of 3 commands | the ring's safety, refinement of the FIFO, delivery |
| `PlanStore` | 2 slots, 2 stagings each, queue 1, 3 activations | the rendered plan is whole, no slot lost, refinement, activations take effect |
| `Voices` | 2 voice slots and 3 creations, 2 asset slots and 2 loads of 2 files with a budget of either, queue 2 | voices hold their assets, pins balance, slots agree, stale commands reach no one |
| `Graph` | 4 slots, 4 connections, at most an oscillator, a gain, a mixer of two and a pan at once, 4 additions | graphs stay well formed, compile exactly when they make sense, render what they mean and waste no buffer |
| `Rendering` | an asset of 3 frames or a tone, blocks of up to 3 frames and one larger, a ring of 2 for the delay, gains, pans and ramps of 0 and 3 frames, 3 places of the emitter, 4 commands, 6 frames | cuts of a block are not heard, frames come in order, what should glide does not jump |
| `PlanAssets` | 2 plan slots staged twice, an asset slot loaded twice, 2 source nodes, 2 activations | a plan's assets stay in memory as long as the plan, pins balance, and a reclaim frees what it can |
| `Loading` | device rates 1, 2, 3; about 2,250 files of up to 3 chunks and 70 bytes, cut off or mislabelled; limits of 3 and 4 frames | nothing is read outside a file, what is decoded is what was written, frames keep their time, the device is whole or closed |
| `Buses` | 2 user buses, 3 creations, 2 voices, queue 2, 6 commands | the two views of a bus agree, stale gains and routes reach no other bus, every voice is heard once |

The properties are stated above their definitions. In short:

* `ReservationConservation`, `NeverDropped`, `QuiescentAccounting`: each
  reservation belongs to one event; the heap never refuses an accepted event;
  between calls and callbacks accepted = executed + discarded + dropped + pending.
* `SubmissionGuarantee`, `ScheduledOrder`, `NothingPassedOver`,
  `PunctualWithLead`: when and in which order events run.
* `EventsSettle`, `EverythingReturns`: accepted events end, calls and callbacks
  return.
* `NoStaleExecution`, `DiscardsAreStale`: sessions.
* `SlotsNotShared`, `OldestCopied`, `Delivered`: the ring.
* `RenderedPlanIntact`, `NoSlotLost`, `ActivationTakesEffect`: plans.
* `VoiceHoldsAsset`, `PinsBalance`, `SlotsAgree`, `OwnCommandsOnly`,
  `StoreConsistent`: voices and assets.
* `CompilesExactlySound`, `RendersMeaning`, `BuffersReused`: graphs and plans.
* `BusSlotsAgree`, `OwnGain`, `HeardOnce`: buses.
* `SplitIndependent`, `FramesInOrder`, `Seamless`: what is rendered over time.
  `FramesInOrder` states the delay as it is: set to its greatest, it yields its
  input at once, since the ring has no position more than that
  (`docs/architecture/scheduling_and_timeline.md:431-434` gives this as a known
  limit).
* `PlansHoldAssets`, `FreesWhatIsUnused`: plans and their assets.
* `ReadsInside`, `DecodesWhatWasWritten`, `PreparedForDevice`: loading.
* `DeviceIntact`: the device.

Type invariants are part of a property where types say something of the code
(`NoSlotLost`, `SlotsAgree`, `CompilesExactlySound`: loops that never leave
their slots, counts that never go below zero); those of `AudioTimeline` and
`CommandQueue` are theorems.

**Why the bounds suffice.** Every capacity is reached and exceeded: more
commands than the queue holds, more events than the heap holds, more creations
than slots, a load beyond the budget. Every slot is used again after it was
freed (the ring goes round twice; each plan slot is staged twice; voice and
asset slots are reused), which is when a stale handle or index can do harm.
Blocks are empty, split, full and oversized; targets are late, inside the first
block, inside a later one and beyond every block, the greatest frame included.
Frame positions wrap at 16 with at most 6 frames rendered, so that a negative
difference wraps as it does at 2^64. In `Rendering` a voice can be started,
moved, spatialized and stopped within an asset that two blocks play to its end;
a ramp lasts longer than a segment, is replaced on its way, and meets the
greatest frame (7); the delay's ring goes round three times; the emitter moves
at half, the same and twice the speed. In `PlanAssets` the only asset slot
is loaded again after its asset went, so that an address kept too long is one
of another asset. In `Loading` the device's rates cover no change,
doubling, halving and ratios that do not divide; the files include every length
of a cut within the headers and every shift of the stated size. The graphs include cycles
inside and outside the part compiled, diamonds, a mixer fed twice by one node,
readers out of reach of the output, and reuse of a mono buffer before a stereo
one is needed. The bounds named in the modules (`Max...`)
limit history: commands, frames, shutdowns, failures, stagings, loads.

**Fairness.** `AudioTimeline!Fairness`: a call in progress goes on and a
callback in progress goes on (both threads are scheduled), and a device that can
call back again and again does so (strong fairness: the control thread may stop
and start it in between). This is what a device promises, the only external
assumption. `GraphPlanStore!FairSpec`: the device keeps calling back, and
`ActivateGraphPlan` returns. `CommandQueue!Fairness`: a push or a pop that was
begun is finished, and among the consumer's loads of `head_` there are again and
again fresh ones. No application call is assumed to happen. `EventsSettle` speaks
only of runs in which the runtime stays started from some time on, because
events of a stopped runtime wait by design.

## 4. Theorems

TLAPS proves, from the named assumptions on the constants alone
(`ConfigAssumption`, `BoundsAssumption`, `QueueAssumption`,
`PlanStoreAssumption`, `DeviceRatesAssumption`, `BusAssumption`,
`StoreAssumption`, `VoicePoolAssumption`, `PlanAssetsAssumption`,
`WavDecoderAssumption`, `LoadingAssumption`, `GraphAssumption`,
`WidthsAssumption`, `RenderingAssumption`), for every capacity, block size,
target, rate, file, graph, length of an asset, number of slots and bound:

| Module | Theorems | Properties of the runs they state |
| --- | --- | --- |
| `AudioTimelineProofs` | `TypeCorrect`, `ReservationsConserved`, `AcceptedNeverDropped`, `AccountingBalances`; `NeverTooEarly`, `ExecutedInOrder`, `NoEventPassedOver`, `OldSessionsStaySilent`, `LeadMakesPunctual`, `OnlyStaleDiscarded`, `TimelineImplemented` | `ReservationConservation`, `NeverDropped`, `QuiescentAccounting`; `SubmissionGuarantee`, `ScheduledOrder`, `NothingPassedOver`, `NoStaleExecution`, `PunctualWithLead`, `DiscardsAreStale`, `ImplementsTimeline` |
| `CommandQueueProofs` | `RingTypeCorrect`, `NoSlotShared`, `OldestReturned`, `RingImplementsFifo` | `SlotsNotShared`, `OldestCopied`, `ImplementsFifo` |
| `PlanAssetsProofs` | `RenderedPlanStaysIntact`, `SlotsNeverLost`, `PlansImplementLifecycle`, of `GraphPlanStore`; `PlanStoreUnderneath`, `PlansKeepAssets`, `ReclaimFreesAll` | `RenderedPlanIntact`, `NoSlotLost`, `ImplementsLifecycle`; `PlansHoldAssets`, `FreesWhatIsUnused` |
| `VoicePoolProofs` | `StoreAgrees`, `VoicesKeepAssets`, `PinsAreVoices`, `ThreadsAgree`, `OwnVoiceOnly` | `StoreConsistent`, `VoiceHoldsAsset`, `PinsBalance`, `SlotsAgree`, `OwnCommandsOnly` |
| `BusSystemProofs` | `SlotsAreAgreed`, `GainsAreOwn`, `HeardOnceAlways` | `BusSlotsAgree`, `OwnGain`, `HeardOnce` |
| `AssetLoadingProofs` | `DecoderReadsInside`, `DecodedAsWritten`, `AssetsPreparedForDevice`; `DeviceStaysIntact`, of `DeviceSpec`, the device with any caller, and `DeviceIntactWhileLoading` | `ReadsInside`, `DecodesWhatWasWritten`, `PreparedForDevice`, `DeviceIntact` |
| `RenderingProofs` | of `GraphSpec`, any edits of a graph: `GraphWellFormed`, `CompilesExactlySoundAlways`, `RendersMeaningAlways`, `BuffersReusedAlways`; of a voice: `RenderInvariant`, `SplitIndependentAlways`, `FramesInOrderAlways`, `SeamlessAlways` | `CompilesExactlySound`, `RendersMeaning`, `BuffersReused`; `SplitIndependent`, `FramesInOrder`, `Seamless` |

Three assumptions say more than that a constant is a number. `WidthsAssumption`: a
node that has inputs gives out as many channels as it takes, or takes one and
gives two, as `PanNode` does alone in the library; the compiler's one
list of free buffers for all widths above one relies on it (section 6).
`RenderingAssumption`: an asset is no longer than the greatest frame and
rendering ends before that, that is, before 2^64 frames. `WavDecoderAssumption`: a
file is a sequence of chunks and no longer than they are; their number, kinds and
sizes and the sizes the headers state may be anything.

One theorem has a hypothesis. `TimelineImplemented` is `SyncStop => (Spec =>
ImplementsTimeline)`: with a device whose `Stop` returns while a callback still
runs, that callback can execute an event after the session ended, which
`ScheduledTimeline` does not allow. Core Audio's `AudioOutputUnitStop` waits, and run
`Timeline` has `SyncStop = TRUE`. Everything else about the timeline is proved for
both kinds of device.

*The timeline's invariant.* `NeverDropped` is not inductive: that the heap has
room follows from the number of reservations, and this from where each event
is. `IInv` is the conjunction of `ReservationConservation`, the capacity of the
reservations (`CapacityInv`), the account of every accepted event in every
control state of both threads (`Accounting`, of which `QuiescentAccounting` is
the case where both are idle), and small facts about the item in the callback's
hands (`HandInv`), the heap's finiteness and distinct sequence numbers
(`HeapInv`) and the outcome being settled (`SettleInv`). The lemmas
`EnqueueCount`, `DequeueCount` and `HandCount` say how each action changes the
number of waiting events. The heap then has room when an item is admitted: the
item itself holds one of at most `MaxScheduledEvents` reservations.

*The order of events.* None of the properties about time is inductive: what is
executed in a segment follows from what the drain left behind, and that from
when it was pushed. `OrderInv` follows an event through the callback. `PlaceInv`
says that positions grow from the heap over the hand to the queue, and that the
heap's sequence numbers repeat them, so that `Later` breaks ties by submission.
`EpochInv` orders the three epochs the callback knows and makes the heap one of a
single session, which is why `FlushEvent` may discard all of it. `DrainInv` says that
the bounded drain reaches everything that was pushed before the callback began: a
command that is older than the block is at most as far back as there are turns
left. `AheadInv` is the loop invariant of the segments, `LeadInv` keeps an event
that was submitted a block ahead in front of the clock, and `LastInv`
is what the properties ask of the event executed last. `Where` is the place in
the code, whether or not the callback is just settling an event. In the
refinement the steps that settle, drain and render are stutters, and so are most
calls (`QuietCall`); an event is accepted when it is pushed and leaves when
it is popped from the heap or discarded.

*The ring's invariant.* `RingInv` says what a stale index still guarantees: a
producer past its check has `head - tail < Capacity` because `tail` only grows;
a consumer past its check has `tail < head`. With `SlotsDistinct` (positions
less than a capacity apart have different slots) this gives `NoSlotShared`, and
the refinement follows step by step: only the two index stores change the
abstract queue.

*The plan store's invariant.* That the rendered plan is whole depends on what
happens before it is activated: between the load of a slot's state and the
comparison of generations, the control thread goes on. `PlanInv` says what a
handle on its way guarantees. None is of a generation to come (`IssuedInv`). If
it is current, its slot is marked, or the call that pushed it is about to mark
it (`MarkedInv`), so that `ReleaseStagedPlan` refuses, and conversely a marked
pending slot has its handle on the way (`PendingInv`, which gives `NoSlotLost`).
A slot that is being staged, released, retired or rendered is in the one state
that keeps the other thread off it (`ScanInv`, `SlotInv`, `ActiveInv`), and
a request that passed both checks stays good while the plan before it is
retired (`RequestInv`). For the refinement, `LifeInv` adds that the handles
issued are the generations built, less the one not yet published.

*The device's invariant.* `DeviceIntact` speaks of the device between calls and
of callbacks; `DeviceInv` says what holds inside a call as well: while `Open`
is under way there is a unit but no callbacks (`OpeningInv`), until the end of
`Close` format and function are set (`OpenInv`), and a callback in progress means a
unit that still runs, also one that `Stop` failed to stop (`RunningInv`).

*Loading.* `ReadInv` holds what the walk may rely on: the end that the RIFF header
states is inside the file, what has been read ends before it, and so does the
chunk of samples that was found, so that reading the samples at last stays inside
as well. `FormatInv` says that from the verdict on there is one
format and one data chunk that passed it, from which `DecodedAsset` shows that the
asset `Decoded` chooses exists. `OutputLasts` and `TakenFromItsPlace` are the
arithmetic of the resampler for all rates and lengths, each from the bounds of one
division (in exact numbers; the code computes in `double`). For
`DecodesWhatWasWritten`, `WalkInv` says after how many chunks of the file the
walk stands: at the place where the next one begins, with the first format and
the first data chunk of those before it (`FirstBefore`, `Found`). Where a chunk
begins is a sum over the ones before (`Starts`, `StartsApart`); that a turn of the
loop goes to the next place, and never finds a header where none was written, is
`WalkGoesOn`, and what is left when the file ends `AllThereIs`.

*The plans and their assets.* Every step of `PlanAssets` is a step of
`GraphPlanStore` or leaves it alone (`PlanStoreUnderneath`), so `PlanInv` is
at hand; of it only one fact is needed, that the audio thread takes no free slot
(`FreeStays`). `CountInv` is `PinsCounted` with the pins of the plans a finite set,
one element for each entry of each list, so that taking a list away takes away as
many as it has (`Rebound`) and the guard of `Dropped` against an
underflow is never used. An asset without pins is in no list
(`UnpinnedIsUnheld`), which is why the store may free it, and one in a free slot has
none, which is why `Insert` may set the pins to zero. `PhaseInv` says that
the control thread is in one store at a time, but for a release. `DueInv`
follows what a reclaim must free through its two loops: the slots that still pin
it are free and ahead of the first loop; then nothing pins it, and it is ahead
of the second; then its generation is past.

*The voices, their assets and the store.* `Inv` has three parts. `StoreInv`: a slot
has an asset just when it is not free, the key table and the keys of the slots
say the same, what is published is what is there but for the slot the control
thread works on, and the slot it frees has no pins. `SlotInv`: the commands under
way are laid out in one line, the one being applied first, then the queue, then the one
being created (`UnappliedAt`, `Comes`). Before a creation comes the
destruction of whatever its slot holds (`CreationInv`), between two creations of a slot
comes the destruction of the first (`OrderInv`), and a slot given back has its
destruction on the line (`ReleaseInv`); these are inductive only together. That
`SlotsAgree` holds, and that a generation tells two voices of a slot apart, follows.
`PinInv`: an asset is held by the creation in someone's hands or on the line or by the
voice in a slot until its pin is dropped (`Held`), the pins are the number of
these, and what is held is in memory.

*The buses' invariant* is that of the voices without pins, since a call is one
step: the same five parts over the places of the queue. For `HeardOnce`, `MixInv` adds
that serial numbers differ and that what a voice is routed to is the master or a
handle that was issued, so that where a voice resolves to is a bus that is active and the
one it names or the master (`Resolved`). The mix is then computed by induction over the
voices and over the buses: after so many voices each accumulator carries just
those that resolve to it (`VoicesCarried`), after so many buses the master has
those of the buses summed, each through its bus (`MasterSum`), whatever was left
in the accumulators before.

*Loops.* What the code computes in a loop the models define as a recursive
function (`f[n \in 0..N] == IF n = 0 THEN ... ELSE ... f[n - 1] ...`), which is
a `CHOOSE` of a function that satisfies its equation. `Recursion` has what the
proofs need of it: that there is such a function (`RecursionTo`, from `Runs`: it
can be continued from every number), that there is only one (`Agree`), and
induction up to a bound (`InductionTo`). The library has induction for an operator;
here it is stated for the set of the numbers at which something holds, and
follows from the order of the numbers being well founded (`LeastMember`).

*The graph.* `GraphInv` is what edits preserve: a connection joins two nodes that
are there, of the widths it needs, and an input has at most one
(`WithoutThose` says what removing connections leaves). On it rests the rest.
*Compiling*: the walk from the output finds the least set closed under sources
(`ReachableNeeded`: as long as it is not closed it grows, and it cannot grow past
the number of slots). In Kahn's algorithm the degree of a node is the number of its
inputs still waiting and the ready nodes are those with none (`SortInv`), every
node comes after its sources (`Sorted`), and if a node is never taken, the ones
left over have sources among themselves: that is a cycle (`DoneCount`,
`OrderSorted`). *Buffers*: `PlanInv`, after any number of steps, says that the free
lists hold buffers of their width, each once (`FreeOK`), that the buffer of a node
has its width (`BuffersOK`), that the buffer of a node some later step still reads
is neither free nor another's (`HeldOK`), that the counters are the reads to come
(`CountOK`) and that no buffer is lost: it is free, held or the output's (`UsedOK`). It holds
through `Allocate`, `AddStep` and `ReleaseInputs`, connection by connection
(`AllocateKeeps`, `ReleaseInputsKeeps`, `PlanStates`). *Rendering*: in an acyclic
graph the term of a node is settled after as many rounds as its place in the
order (`TermsSettle`), and after so many steps each held buffer has the term
of its node (`HoldsAt`); so the output has what it means. *Reuse*: a buffer is
only made when every one of its width is held (`NoneFree`), and then as many are
needed at once (`BuffersNeeded`); as the buffers of what is needed at once differ,
there are never fewer (`LiveFits`).

*What is rendered.* `SplitIndependent` is about a segment and its two parts, each of
which computes its cursor, its phases or its ring frame by frame: the second part
starts from where the first ended and therefore goes through the same states as
the rest of the whole (`Agree`), ramps take the same value at the same frame, and
the choice between the constant path and the ramp makes no difference
(`ConstantPath`). `RenderInv` is the invariant for this: the state has its types,
a voice that is not playing is rewound (`Rewound`), one that plays is as far as
the frames since its start (`InPlace`). `FramesInOrder` needs the past as well:
`Rendered` says that the ring holds, backwards from where it is written, the
latest inputs there were (`Holds`, one frame at a time in `FedHolds`), and how much of
the asset the source node has played.

For these proofs two properties count by sets: `StoreConsistent` equates the
budget with the number of bytes in memory (`BytesInMemory`), `PinsCounted` the pins
with the number of entries in the plans' lists. `TLAPS` has no theory of sums over a
set.

*Model-checked only.* Liveness under fairness (`EventsSettle`,
`EverythingReturns`, `Delivered`, `ActivationTakesEffect`) is out of the
prover's reach, as is `ENABLED`; no module has a recursive operator, which would
be as well. Every other property of a passing run, be it an invariant, an action
property or a refinement, is stated by a theorem. `SubmissionOrderKept` is not a property
of the code at all (section 6).

## 5. Not modelled

* Arithmetic of samples: the sum of the mix, pan laws, filters, oscillators, the
  vectors behind a spatial gain and its Doppler ratio. It is floating point and
  carries no control; where it decides something (a ramp that has arrived, the
  place a frame is taken from, the number of resampled frames) exact numbers
  stand for it.
* Wrap of 64-bit indices and sequence numbers and of 32-bit generations and
  epochs. (If the ring's indices did wrap, a capacity that is not a power of
  two would skip slots.)
* Calls that are refused before anything changes: a null device, the fields of
  a command that `ValidateScheduledCommand` checks, a device whose width is not
  the graph's; and callbacks that find the runtime inactive.
* What Core Audio does beyond what `CoreAudioDevice` assumes. A callback may
  arrive before its `Start` has set `is_running_`; nothing in the runtime can
  tell.
* The frequency of a tone, and the channels a voice records for the check of
  `SetSpatialized`.
* The test tone (three assignments and a sine) and the node handles (a check of
  a number, then one immediate command, which `AudioTimeline` has).
* Peak levels, timing and the counters of voices, buses and assets: they feed no
  decision.
* Examples, benchmarks and tests, which use the library.

## 6. Where code and documents differ

`TimelineSubmissionOrder` finds a run that contradicts
`docs/architecture/scheduling_and_timeline.md:59-61` ("relative order between
the two kinds is the order in which the control thread submitted them"): an
event due at the block start that was submitted first waits in the heap while
the drain applies a later immediate command. The document's own ordering rules
(lines 187-190) describe the code.

Smaller differences met on the way, for which there is no run: the sequence number is not
the queue position (line 191) but counts admitted events;
`dsp_graph.md:299` has `Shutdown` destroy plans, the code destroys none there;
`dsp_graph.md:257-261` keeps a retired plan until a later `BuildAndStage`, but
`ReclaimRetiredPlans` destroys it as well; `dsp_graph.md` names a state
`kStaged` where the code has `kBuilding`, `kPending` and `kRetired`;
`dsp_graph.md:213` keys the free buffers by channel count, but the compiler
keeps one list for all widths above one: this is safe for the nodes of the library,
of which only `PanNode` changes the width (from one channel to two), so that the
part of a graph that is compiled never has two widths above one;
`resources_and_assets.md:224-228` gives the order of destruction as that of
declaration, which C++ reverses.

## 7. Plan

Done: every component with a state of its own, alone and composed where two
meet, and the theorems of section 4: every safety property, every action
property and every refinement that a run checks. Left:

1. The abstract specification of a two-sided slot pool, implemented by
   `VoicePool` and by `BusSystem` alike; their invariants already have the same
   five parts.
