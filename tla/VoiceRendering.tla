--------------------------- MODULE VoiceRendering ---------------------------
(***************************************************************************)
(* What the audio thread renders of a voice, its bus and two nodes of a    *)
(* graph, segment by segment.  A block is cut into segments wherever an    *)
(* event is due; commands are applied between segments and everything that *)
(* moves - the place in the asset, the ramps, the delay - is carried from  *)
(* one segment to the next.  AudioTimeline says where the cuts are; here   *)
(* they can be anywhere.                                                   *)
(*                                                                         *)
(* A sample is known by its place in the source, in parts of a frame, and  *)
(* a rendered frame by that place and the gains it is multiplied by.       *)
(* Left and right have the same control: one gain stands for both.  A      *)
(* position of listener and emitter is known by the gain and the ratio     *)
(* that ComputeSpatialTarget finds for it.  A fault that a property        *)
(* catches stands before the definition it varies.                         *)
(***************************************************************************)
EXTENDS Integers, Sequences

CONSTANTS
  kMaxFrame,          \* the greatest 64-bit frame
  Unit,               \* 1.0: the parts of a frame and of a gain
  MaxFramesPerBlock,  \* RuntimeConfig::max_frames_per_block
  AssetFrames,        \* the frames of the asset
  MaxDelayFrames,     \* of the delay node
  SmoothingFrames,    \* of SpatialConfig, at the device's rate
  Gains, Pans,        \* gains that are set, and those a pan amounts to
  Durations,          \* of ramps
  Places,             \* where the emitter can be: a gain and a ratio
  MaxFrame,           \* bound: frames rendered
  MaxCommands         \* bound: commands applied

ASSUME RenderingAssumption ==
  /\ {kMaxFrame, MaxFrame, MaxCommands, SmoothingFrames} \subseteq Nat
  /\ {Unit, MaxFramesPerBlock, AssetFrames, MaxDelayFrames} \subseteq Nat \ {0}
  /\ MaxFrame < kMaxFrame /\ AssetFrames <= kMaxFrame
  /\ Gains \subseteq Nat /\ Pans \subseteq Nat /\ Durations \subseteq Nat
  /\ Places \subseteq [gain: Nat, ratio: Nat \ {0}]
  /\ [gain |-> Unit, ratio |-> Unit] \in Places

VARIABLES
  clock,     \* the frame the next segment begins at
  voice,     \* VoicePool's AudioSlot
  bus,       \* the gain of the voice's bus
  line,      \* the delay node of the active plan
  played,    \* the position of its asset source node
  since,     \* history: frames played since the start, -1 once spatialized
  fed,       \* history: the inputs of the delay node
  commands   \* history: commands applied

nodes == <<line, played>>
vars == <<clock, voice, bus, nodes, since, fed, commands>>

INSTANCE GainRamp
INSTANCE DelayNode

Kinds == {"tone", "mono", "stereo"}

(* An AudioSlot after kCreateVoice. *)
NewVoice(kind) ==
  [kind |-> kind, playing |-> FALSE, gain |-> Constant(Unit), pan |-> Unit,
   phase |-> 0, position |-> 0, cursor |-> 0,
   spatialized |-> FALSE, snap |-> TRUE, place |-> [gain |-> Unit, ratio |-> Unit],
   spatialGain |-> Constant(Unit), spatialRatio |-> Constant(Unit)]

Init ==
  /\ \E kind \in Kinds : voice = NewVoice(kind)
  /\ clock = 0 /\ bus = Constant(Unit) /\ line = EmptyLine /\ played = 0
  /\ since = 0 /\ fed = <<>> /\ commands = 0

-----------------------------------------------------------------------------
(* The commands, applied at clock. *)

MayApply == commands < MaxCommands /\ commands' = commands + 1

StartVoice ==
  /\ MayApply
  /\ voice' = [voice EXCEPT !.playing = TRUE, !.snap = @ \/ ~voice.playing]
  /\ since' = IF voice.playing THEN since ELSE IF voice.spatialized THEN -1 ELSE 0
  /\ UNCHANGED <<clock, bus, nodes, fed>>

(* Fault: the cursor is rewound, the position is not. *)
StopVoiceInPlace ==
  /\ MayApply
  /\ voice' = [voice EXCEPT !.playing = FALSE, !.cursor = 0]
  /\ UNCHANGED <<clock, bus, nodes, since, fed>>

StopVoice ==
  /\ MayApply
  /\ voice' = [voice EXCEPT !.playing = FALSE, !.position = 0, !.cursor = 0]
  /\ UNCHANGED <<clock, bus, nodes, since, fed>>

(* SetGain is a ramp without duration. *)
RampVoiceGain(gain, duration) ==
  /\ MayApply
  /\ voice' = [voice EXCEPT !.gain = Start(@, clock, gain, duration)]
  /\ UNCHANGED <<clock, bus, nodes, since, fed>>

RampBusGain(gain, duration) ==
  /\ MayApply
  /\ bus' = Start(bus, clock, gain, duration)
  /\ UNCHANGED <<clock, voice, nodes, since, fed>>

SetVoicePan(pan) ==
  /\ MayApply
  /\ voice' = [voice EXCEPT !.pan = pan]
  /\ UNCHANGED <<clock, bus, nodes, since, fed>>

(* kSetVoiceEmitterState, and kSetListenerState. *)
SetPlace(place) ==
  /\ MayApply
  /\ voice' = [voice EXCEPT !.place = place]
  /\ UNCHANGED <<clock, bus, nodes, since, fed>>

IsAsset(v) == v.kind # "tone"

End == AssetFrames * Unit

Least(a, b) == IF a < b THEN a ELSE b

(* To go on where the cursor was, in whole frames. *)
Despatialized(v) ==
  [v EXCEPT !.spatialized = FALSE,
            !.position = IF IsAsset(v) THEN Least(v.cursor \div Unit, AssetFrames) ELSE @]

(* To go on where the voice was: a voice that plays moves from its pan to  *)
(* where it is heard, one that does not begins there.                      *)
Spatialized(v) ==
  IF v.playing
  THEN [v EXCEPT !.spatialized = TRUE, !.cursor = v.position * Unit, !.snap = FALSE,
                 !.spatialGain = Constant(v.pan), !.spatialRatio = Constant(Unit)]
  ELSE [v EXCEPT !.spatialized = TRUE, !.cursor = v.position * Unit, !.snap = TRUE]

SetVoiceSpatialization(enable) ==
  /\ MayApply
  /\ voice' = CASE enable = voice.spatialized -> voice
                [] ~enable /\ voice.spatialized -> Despatialized(voice)
                [] enable /\ ~voice.spatialized ->
                     IF voice.kind = "stereo" THEN voice ELSE Spatialized(voice)
  /\ since' = IF voice'.spatialized THEN -1 ELSE since
  /\ UNCHANGED <<clock, bus, nodes, fed>>

SetNodeDelayFrames(frames) ==
  /\ MayApply
  /\ line' = SetDelayFrames(line, frames)
  /\ UNCHANGED <<clock, voice, bus, played, since, fed>>

-----------------------------------------------------------------------------
(* RenderSegment.  Each of these is a source's voice after the segment     *)
(* and the place its sound has at each frame.                              *)

Frames(first, n) == first..(first + n - 1)

Width == kMaxFrame + 1

(* The difference is unsigned. *)
RenderAssetSource(v, first, n) ==
  LET remaining == (AssetFrames - v.position) % Width
      copied == Least(n, remaining)
      ended == v.position + copied >= AssetFrames
  IN  [voice |-> IF ended THEN [v EXCEPT !.position = 0, !.playing = FALSE]
                 ELSE [v EXCEPT !.position = @ + copied],
       sound |-> [f \in Frames(first, n) |->
                    IF f - first < copied THEN (v.position + f - first) * Unit ELSE Silence]]

(* The cursor before each frame of the segment and after the last.         *)
CursorOver(v, first, n) ==
  LET cursor[i \in 0..n] ==
        IF i = 0 THEN v.cursor
        ELSE IF cursor[i - 1] < End
             THEN cursor[i - 1] + ValueAt(v.spatialRatio, first + i - 1)
             ELSE cursor[i - 1]
  IN  cursor

RenderAssetSourceSpatial(v, first, n) ==
  LET cursor == CursorOver(v, first, n)
  IN  [voice |-> IF cursor[n] >= End
                 THEN [v EXCEPT !.cursor = 0, !.position = 0, !.playing = FALSE]
                 ELSE [v EXCEPT !.cursor = cursor[n]],
       sound |-> [f \in Frames(first, n) |->
                    IF cursor[f - first] < End THEN cursor[f - first] ELSE Silence]]

(* RenderDopplerSine, and the sine of RenderVoiceSource. *)
PhaseOver(v, first, n) ==
  LET phase[i \in 0..n] ==
        IF i = 0 THEN v.phase
        ELSE phase[i - 1]
               + (IF v.spatialized THEN ValueAt(v.spatialRatio, first + i - 1) ELSE Unit)
  IN  phase

RenderTone(v, first, n) ==
  LET phase == PhaseOver(v, first, n)
  IN  [voice |-> [v EXCEPT !.phase = phase[n]],
       sound |-> [f \in Frames(first, n) |-> phase[f - first]]]

RenderVoiceSource(v, first, n) ==
  IF ~IsAsset(v) THEN RenderTone(v, first, n)
  ELSE IF v.spatialized THEN RenderAssetSourceSpatial(v, first, n)
  ELSE RenderAssetSource(v, first, n)

(* Fault: a ramp that has not arrived is taken for one to another target. *)
UpdateSpatialRestarts(v, now) ==
  CASE ~v.spatialized -> v
    [] v.spatialized /\ v.snap ->
         [v EXCEPT !.snap = FALSE, !.spatialGain = Constant(v.place.gain),
                   !.spatialRatio = Constant(v.place.ratio)]
    [] v.spatialized /\ ~v.snap ->
         IF /\ ValueAt(v.spatialGain, now) = v.place.gain
            /\ ValueAt(v.spatialRatio, now) = v.place.ratio
         THEN v
         ELSE [v EXCEPT !.spatialGain = Start(@, now, v.place.gain, SmoothingFrames),
                        !.spatialRatio = Start(@, now, v.place.ratio, SmoothingFrames)]

UpdateSpatial(v, now) ==
  CASE ~v.spatialized -> v
    [] v.spatialized /\ v.snap ->
         [v EXCEPT !.snap = FALSE, !.spatialGain = Constant(v.place.gain),
                   !.spatialRatio = Constant(v.place.ratio)]
    [] v.spatialized /\ ~v.snap ->
         IF v.spatialGain.to = v.place.gain /\ v.spatialRatio.to = v.place.ratio
         THEN v
         ELSE [v EXCEPT !.spatialGain = Start(@, now, v.place.gain, SmoothingFrames),
                        !.spatialRatio = Start(@, now, v.place.ratio, SmoothingFrames)]

(* The gains of a segment, by the path for constant ones where all are.    *)
GainsOf(v, first, n) ==
  LET ramps == IF v.spatialized THEN {v.gain, v.spatialGain} ELSE {v.gain}
      constant == \A ramp \in ramps : IsConstantFrom(ramp, first)
      At(ramp, f) == IF constant THEN ramp.to ELSE ValueAt(ramp, f)
  IN  [f \in Frames(first, n) |->
         [gain |-> At(v.gain, f),
          space |-> IF v.spatialized THEN At(v.spatialGain, f) ELSE v.pan]]

BusGainOf(ramp, first, n) ==
  [f \in Frames(first, n) |->
     IF IsConstantFrom(ramp, first) THEN ramp.to ELSE ValueAt(ramp, f)]

Nothing == [sound |-> Silence, gain |-> 0, space |-> 0]

(* RenderVoicesAndBuses: the voice after the segment, and each frame.      *)
RenderVoice(v, first, n) ==
  IF v.playing
  THEN LET updated == UpdateSpatial(v, first)
           source == RenderVoiceSource(updated, first, n)
           gains == GainsOf(updated, first, n)
       IN  [voice |-> source.voice,
            out |-> [f \in Frames(first, n) |->
                       IF source.sound[f] = Silence THEN Nothing
                       ELSE [sound |-> source.sound[f], gain |-> gains[f].gain,
                             space |-> gains[f].space]]]
  ELSE [voice |-> v, out |-> [f \in Frames(first, n) |-> Nothing]]

(* GraphExecutor::Render: the delay is fed the number of each frame. *)
LineOver(l, first, n) ==
  LET at[i \in 0..n] == IF i = 0 THEN l ELSE Fed(at[i - 1], first + i - 1)
  IN  at

RenderDelay(l, first, n) ==
  LET at == LineOver(l, first, n)
  IN  [line |-> at[n],
       out |-> [f \in Frames(first, n) |-> Delayed(at[f - first], f)]]

(* AudioAssetSourceNode::Process, of an asset as long as the voice's. *)
RenderAssetNode(position, first, n) ==
  LET start == Least(position, AssetFrames)
      copied == Least(n, AssetFrames - start)
  IN  [position |-> start + copied,
       out |-> [f \in Frames(first, n) |->
                  IF f - first < copied THEN start + f - first ELSE Silence]]

Segment(v, l, p, first, n) ==
  LET mixed == RenderVoice(v, first, n)
      node == RenderAssetNode(p, first, n)
      delayed == RenderDelay(l, first, n)
  IN  [voice |-> mixed.voice, line |-> delayed.line, played |-> node.position,
       out |-> [f \in Frames(first, n) |->
                  [heard |-> mixed.out[f], bus |-> BusGainOf(bus, first, n)[f],
                   delayed |-> delayed.out[f], node |-> node.out[f]]]]

RenderSegment(n) ==
  /\ clock + n <= MaxFrame
  /\ n <= MaxFramesPerBlock
  /\ LET rendered == Segment(voice, line, played, clock, n)
     IN  voice' = rendered.voice /\ line' = rendered.line /\ played' = rendered.played
  /\ clock' = clock + n
  /\ since' = IF ~voice.playing \/ since = -1 THEN since ELSE since + n
  /\ fed' = fed \o [i \in 1..n |-> clock + i - 1]
  /\ UNCHANGED <<bus, commands>>

(* Voices, buses and the graph stand still in a segment that is too large. *)
SkipSegment(n) ==
  /\ clock + n <= MaxFrame
  /\ n > MaxFramesPerBlock
  /\ clock' = clock + n
  /\ UNCHANGED <<voice, bus, nodes, since, fed, commands>>

-----------------------------------------------------------------------------

SetSpatialization == \E enable \in BOOLEAN : SetVoiceSpatialization(enable)

Next ==
  \/ StartVoice \/ StopVoice \/ SetSpatialization
  \/ \E gain \in Gains, duration \in Durations :
       RampVoiceGain(gain, duration) \/ RampBusGain(gain, duration)
  \/ \E pan \in Pans : SetVoicePan(pan)
  \/ \E place \in Places : SetPlace(place)
  \/ \E frames \in 0..(MaxDelayFrames + 1) : SetNodeDelayFrames(frames)
  \/ \E n \in 1..(MaxFramesPerBlock + 1) : RenderSegment(n) \/ SkipSegment(n)

Spec == Init /\ [][Next]_vars

-----------------------------------------------------------------------------
(* Properties. *)

(* What is heard does not depend on where a block is cut: a segment        *)
(* renders the same frames and leaves the same state as its two parts, one *)
(* after the other.                                                        *)
SplitIndependent ==
  \A n \in 2..MaxFramesPerBlock : \A k \in 1..(n - 1) :
    LET whole == Segment(voice, line, played, clock, n)
        left == Segment(voice, line, played, clock, k)
        right == Segment(left.voice, left.line, left.played, clock + k, n - k)
    IN  /\ whole.voice = right.voice /\ whole.line = right.line
        /\ whole.played = right.played
        /\ \A f \in Frames(clock, n) :
             whole.out[f] = IF f < clock + k THEN left.out[f] ELSE right.out[f]

(* What is rendered next, were no command applied before. *)
NextFrame == Segment(voice, line, played, clock, 1).out[clock]

(* An asset that was not spatialized since its start plays its frames one  *)
(* by one from the first, and no others, and stops after the last.         *)
AssetInOrder ==
  IsAsset(voice) /\ voice.playing /\ since >= 0 =>
    since < AssetFrames /\ NextFrame.heard.sound = since * Unit

(* The delay yields the input of as many rendered frames ago as it is set  *)
(* to, whatever it was set to before, except that it yields the input      *)
(* itself when it is set to its greatest or beyond.                        *)
DelayExact ==
  LET ago == line.delay % MaxDelayFrames
      heard == Append(fed, clock)
  IN  NextFrame.delayed = IF ago < Len(heard) THEN heard[Len(heard) - ago] ELSE Silence

(* The source node plays its asset once, a frame for each rendered.        *)
NodeInOrder ==
  NextFrame.node = IF Len(fed) < AssetFrames THEN Len(fed) ELSE Silence

(* Every frame is heard when it should be: those a voice or a node plays   *)
(* of an asset, and those a delay holds back.                              *)
FramesInOrder == AssetInOrder /\ NodeInOrder /\ DelayExact

Level(v) == IF v.spatialized THEN ValueAt(v.spatialGain, clock) ELSE v.pan
Spot(v) == IF v.spatialized THEN v.cursor ELSE v.position * Unit

(* Nothing jumps that is meant to glide.  A ramp that replaces another     *)
(* starts from the value that one has reached; a voice that plays is       *)
(* spatialized at its level, and gets to another place from the level it   *)
(* has; and spatialized or not, it goes on at the same frame of the asset. *)
Seamless ==
  [][/\ \A gain \in Gains, duration \in Durations \ {0} :
          /\ RampVoiceGain(gain, duration) =>
               ValueAt(voice'.gain, clock) = ValueAt(voice.gain, clock)
          /\ RampBusGain(gain, duration) => ValueAt(bus', clock) = ValueAt(bus, clock)
     /\ voice.playing /\ SetVoiceSpatialization(TRUE) => Level(voice') = Level(voice)
     /\ IsAsset(voice) /\ SetSpatialization =>
          Spot(voice') <= Spot(voice) /\ Spot(voice) - Spot(voice') < Unit
     /\ SmoothingFrames > 0 /\ voice.playing /\ voice.spatialized /\ ~voice.snap =>
          NextFrame.heard.space = Level(voice)]_vars
=============================================================================
