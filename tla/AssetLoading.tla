---------------------------- MODULE AssetLoading ----------------------------
(***************************************************************************)
(* Loading an asset, from the file to the frames that a voice plays: the   *)
(* file is decoded and resampled to the rate that the device settled on,   *)
(* so the device has to be open; its callbacks go on meanwhile.            *)
(* ResourceStore says what becomes of the asset then, and takes what is    *)
(* here for a success or a failure.  A fault that a property catches       *)
(* stands before the definition it varies.                                 *)
(***************************************************************************)
EXTENDS CoreAudioDevice, WavDecoder, FiniteSets

CONSTANTS
  MaxFileBytes,        \* ResourceConfig::max_file_bytes
  MaxFramesPerAsset    \* ResourceConfig::max_frames_per_asset

ASSUME LoadingAssumption ==
  /\ {MaxFileBytes, MaxFramesPerAsset, MaxFrames} \subseteq Nat
  /\ kMaxAssetSampleRateHz \in Nat \ {0}

VARIABLES
  target,   \* the rate to load for
  asset     \* what the last load made, or {}

vars == <<deviceVars, decoderVars, target, asset>>

Resampler == INSTANCE Resampler

Init == DeviceInit /\ DecoderInit /\ target = 0 /\ asset = {}

-----------------------------------------------------------------------------

(* DeviceSampleRateHz. *)
DeviceRateUsable == isOpen /\ negotiated <= kMaxAssetSampleRateHz

(* LoadAudioAsset; without a device there is no rate to load for.          *)
LoadBegins(f) ==
  /\ ctl = "idle" /\ step = "idle"
  /\ DeviceRateUsable
  /\ f.size <= MaxFileBytes
  /\ DecodeBegins(f)
  /\ target' = negotiated
  /\ asset' = {}
  /\ UNCHANGED deviceVars

(* A load that fails before anything is decoded. *)
LoadFails ==
  /\ ctl = "idle" /\ step = "idle"
  /\ asset' = {}
  /\ UNCHANGED <<deviceVars, decoderVars, target>>

NoRate == ~DeviceRateUsable /\ LoadFails

(* Opening a file, asking for its size or reading it may fail. *)
FileUnreadable == DeviceRateUsable /\ LoadFails

FileTooLarge(f) == DeviceRateUsable /\ f.size > MaxFileBytes /\ LoadFails

Decodes == DecodeStep /\ UNCHANGED <<deviceVars, target, asset>>

(* Native frames are their own places. *)
Frames(native) ==
  IF native.rate # target
  THEN Resampler!Resampled(native.frames, native.rate, target)
  ELSE [i \in 0..(native.frames - 1) |-> i * target]

WithinLimit(native) ==
  (IF native.rate # target
   THEN Resampler!OutFrames(native.frames, native.rate, target)
   ELSE native.frames) <= MaxFramesPerAsset

(* What Prepare returns; the decoder's memory is gone with it. *)
Prepares ==
  /\ step = "done"
  /\ asset' = IF outcome = "asset" /\ WithinLimit(Decoded)
              THEN {[native |-> Decoded, rate |-> target, frames |-> Frames(Decoded)]} ELSE {}
  /\ step' = "idle" /\ file' = {} /\ pos' = 0 /\ format' = {} /\ data' = {}
  /\ outcome' = "none" /\ read' = 0
  /\ UNCHANGED <<deviceVars, target>>

Device ==
  /\ (step = "idle" /\ DeviceCalls) \/ SystemThread
  /\ UNCHANGED <<decoderVars, target, asset>>

Next ==
  \/ \E f \in Files : LoadBegins(f) \/ FileTooLarge(f)
  \/ NoRate \/ FileUnreadable \/ Decodes \/ Prepares \/ Device

Spec == Init /\ [][Next]_vars

-----------------------------------------------------------------------------

(* An asset has the rate of the device it was loaded for and no more       *)
(* frames than the limit, whatever the file has.  Its frames last as long  *)
(* as the file's, to half a frame of theirs, and each is taken from where  *)
(* its time is in the file; the tail is the last frame, never what would   *)
(* be after it.                                                            *)
PreparedForDevice ==
  \A a \in asset :
    LET last == a.native.frames - 1
        count == Cardinality(DOMAIN a.frames)
    IN  /\ a.rate = target
        /\ count \in 1..MaxFramesPerAsset
        /\ \/ 2 * count * a.native.rate \in
                (2 * a.native.frames * a.rate - a.native.rate)
                  ..(2 * a.native.frames * a.rate + a.native.rate)
           \/ count = 1
        /\ \A i \in DOMAIN a.frames :
             a.frames[i] = IF i * a.native.rate <= last * a.rate
                           THEN i * a.native.rate ELSE last * a.rate
=============================================================================
