------------------------- MODULE AssetLoadingProofs -------------------------
(***************************************************************************)
(* Loading an asset and the device under it, for every file, every rate    *)
(* the system may settle on and every limit.                               *)
(*                                                                         *)
(* The device stays whole wherever Open fails and whether or not the unit  *)
(* stops: the invariant says where the unit is at each step of a call, and *)
(* that a callback in progress keeps its unit running, which nothing but a *)
(* Stop that has waited for it or a Dispose puts an end to.                *)
(*                                                                         *)
(* The decoder reads inside the file: a header has been found to fit       *)
(* before it is read, and a chunk of samples to end before the end.  What  *)
(* passes its checks is a whole number of frames, so that the asset there  *)
(* is to make exists; what the resampler makes of it follows from the      *)
(* bounds of its two divisions.                                            *)
(*                                                                         *)
(* And it decodes what was written: the walk is at the start of a chunk    *)
(* whenever it reads a header, by induction over the chunks, and has the   *)
(* first format and the first data of those it has passed.                 *)
(***************************************************************************)
EXTENDS AssetLoading, Recursion, FiniteSetTheorems

-----------------------------------------------------------------------------
(* The device. *)

Opening == {"format", "install", "initialize", "negotiate"}
Closing == {"dispose", "clear"}

DeviceTypeOK ==
  /\ instances \in Nat /\ negotiated \in Nat
  /\ unitRuns \in BOOLEAN /\ outputUnit \in BOOLEAN /\ callback \in BOOLEAN
  /\ isOpen \in BOOLEAN /\ isRunning \in BOOLEAN
  /\ ctl \in {"idle"} \cup Opening \cup Closing
  /\ rendering \in {"no", "call", "runtime", "nothing"}

(* While Open is under way there is a unit and the device is not open yet. *)
OpeningInv ==
  /\ ctl \in Opening => ~isOpen /\ instances = 1 /\ outputUnit
  /\ ctl \in Opening \ {"format"} => callback
  /\ ~isOpen => negotiated = 0 /\ ~unitRuns
  /\ ctl = "idle" /\ ~isOpen => instances = 0 /\ ~outputUnit /\ ~callback

(* The device stays open to the end of Close, which disposes of the unit.  *)
OpenInv ==
  /\ ctl \in Closing => isOpen
  /\ isOpen => outputUnit /\ callback /\ negotiated # 0
  /\ isOpen => instances = IF ctl = "clear" THEN 0 ELSE 1

RunningInv ==
  /\ unitRuns => ctl # "clear"
  /\ rendering # "no" => unitRuns

DeviceInv == DeviceTypeOK /\ OpeningInv /\ OpenInv /\ RunningInv

(* A closed device has nothing to lose.                                    *)
LEMMA DeviceInitially == DeviceInit => DeviceInv
<1> SUFFICES ASSUME DeviceInit PROVE DeviceInv
  OBVIOUS
<1> USE DEF DeviceInit, Opening, Closing
<1>1. DeviceTypeOK
  BY DEF DeviceTypeOK
<1>2. OpeningInv
  BY Zenon DEF OpeningInv
<1>3. OpenInv
  BY Zenon DEF OpenInv
<1>4. RunningInv
  BY Zenon DEF RunningInv
<1> QED
  BY <1>1, <1>2, <1>3, <1>4 DEF DeviceInv

(* Each step of a call, and each of the system's thread, keeps it. *)
LEMMA DeviceStep ==
  ASSUME DeviceInv, [DeviceCalls \/ SystemThread]_deviceVars
  PROVE  DeviceInv'
<1> USE DeviceRatesAssumption
        DEF DeviceInv, DeviceTypeOK, OpeningInv, OpenInv, RunningInv, Opening, Closing,
            system, flags, Goes
<1>1. CASE OpenCreates
  BY <1>1 DEF OpenCreates
<1>2. CASE OpenSetsFormat
  BY <1>2 DEF OpenSetsFormat
<1>3. CASE OpenInstalls
  BY <1>3 DEF OpenInstalls
<1>4. CASE OpenInitializes
  BY <1>4 DEF OpenInitializes
<1>5. ASSUME NEW rate \in DeviceRates, OpenNegotiates(rate)
      PROVE  DeviceInv'
  <2>1. rate \in Nat /\ rate # 0
    BY DEF DeviceRatesAssumption
  <2>2. isOpen' /\ ctl' = "idle" /\ negotiated' # 0
    BY <1>5, <2>1, Zenon DEF OpenNegotiates
  <2> QED
    <3>1. DeviceTypeOK'
      BY <1>5, <2>1 DEF OpenNegotiates
    <3>2. OpeningInv' /\ OpenInv' /\ RunningInv'
      BY <1>5, <2>1, <2>2 DEF OpenNegotiates
    <3> QED
      BY <3>1, <3>2
<1>6. CASE OpenFails
  <2>1. ~outputUnit' /\ ~callback' /\ ctl' = "idle"
    BY <1>6, Zenon DEF OpenFails, OpenFailsLeaving
  <2>2. ~isOpen /\ instances' = 0
    BY <1>6 DEF OpenFails, OpenFailsLeaving
  <2> QED
    BY <1>6, <2>1, <2>2 DEF OpenFails, OpenFailsLeaving
<1>7. ASSUME NEW succeeds \in BOOLEAN, Start(succeeds)
      PROVE  DeviceInv'
  BY <1>7 DEF Start
<1>8. ASSUME NEW succeeds \in BOOLEAN, Stop(succeeds)
      PROVE  DeviceInv'
  BY <1>8 DEF Stop, StopUnit
<1>9. ASSUME NEW succeeds \in BOOLEAN, CloseStops(succeeds)
      PROVE  DeviceInv'
  BY <1>9 DEF CloseStops, StopUnit
<1>10. CASE CloseDisposes
  <2>1. ~unitRuns' /\ unitRuns' \in BOOLEAN
    BY <1>10, Zenon DEF CloseDisposes
  <2>2. isOpen /\ instances' = 0
    BY <1>10 DEF CloseDisposes
  <2>3. DeviceTypeOK'
    BY <1>10, <2>1, <2>2 DEF CloseDisposes
  <2>4. OpeningInv'
    BY <1>10, <2>1, <2>2 DEF CloseDisposes
  <2>5. OpenInv'
    BY <1>10, <2>1, <2>2 DEF CloseDisposes
  <2>6. RunningInv'
    BY <1>10, <2>1 DEF CloseDisposes
  <2> QED
    BY <2>3, <2>4, <2>5, <2>6
<1>11. CASE CloseClears
  BY <1>11 DEF CloseClears
<1>12. CASE SystemThread
  BY <1>12 DEF SystemThread, RenderViews, RenderCalls, RenderReturns, deviceButThread
<1>13. CASE UNCHANGED deviceVars
  BY <1>13 DEF deviceVars
<1> QED
  BY <1>1, <1>2, <1>3, <1>4, <1>5, <1>6, <1>7, <1>8, <1>9, <1>10, <1>11, <1>12, <1>13
     DEF DeviceCalls

(* What holds inside a call gives what is promised between calls.          *)
LEMMA DeviceInvSuffices == DeviceInv => DeviceIntact
<1> SUFFICES ASSUME DeviceInv PROVE DeviceIntact
  OBVIOUS
<1> USE DEF DeviceInv, DeviceTypeOK, OpeningInv, OpenInv, RunningInv, Opening, Closing
<1>1. NothingLeaked
  <2>1. CASE isOpen
    BY <2>1 DEF NothingLeaked
  <2>2. CASE ~isOpen
    BY <2>2 DEF NothingLeaked
  <2> QED
    BY <2>1, <2>2
<1>2. CallbackSafe
  BY DEF CallbackSafe
<1> QED
  BY <1>1, <1>2 DEF DeviceIntact

(* Wherever Open failed nothing is left behind, and no callback finds the  *)
(* device half taken apart, not even when the unit refused to stop.        *)
THEOREM DeviceStaysIntact == DeviceSpec => []DeviceIntact
<1>1. DeviceInit => DeviceInv
  BY DeviceInitially
<1>2. DeviceInv /\ [DeviceCalls \/ SystemThread]_deviceVars => DeviceInv'
  BY DeviceStep
<1> QED
  BY <1>1, <1>2, DeviceInvSuffices, PTL DEF DeviceSpec

-----------------------------------------------------------------------------
(* The arithmetic of frames and of the resampler.                          *)

(* A frame of a supported format has bytes. *)
LEMMA FrameHasBytes ==
  ASSUME NEW wav \in Formats, wav.channels \in 1..kMaxAssetChannels, Supported(wav)
  PROVE  FrameBytes(wav) \in Nat \ {0}
<1>1. wav.bits \div 8 \in 1..4
  BY DEF Supported
<1>2. wav.channels \in {1, 2}
  BY DEF kMaxAssetChannels
<1> QED
  BY <1>1, <1>2 DEF FrameBytes

(* Bytes that are a multiple of a frame's are so many frames. *)
LEMMA WholeFrames ==
  ASSUME NEW bytes \in Nat \ {0}, NEW frame \in Nat \ {0}, bytes % frame = 0
  PROVE  /\ bytes \div frame \in Nat \ {0}
         /\ (bytes \div frame) * frame = bytes
<1>1. bytes = frame * (bytes \div frame) + (bytes % frame) /\ bytes \div frame \in Nat
  OBVIOUS
<1>2. bytes = frame * (bytes \div frame)
  BY <1>1
<1> QED
  BY <1>1, <1>2

(* The output is at least a frame, and else as long as the input to half   *)
(* a frame of the output.                                                  *)
LEMMA OutputLasts ==
  ASSUME NEW frames \in Nat \ {0}, NEW source \in Nat \ {0}, NEW rate \in Nat \ {0}
  PROVE  LET count == Resampler!OutFrames(frames, source, rate)
         IN  /\ count \in Nat \ {0}
             /\ \/ 2 * count * source \in (2 * frames * rate - source)..(2 * frames * rate + source)
                \/ count = 1
<1> DEFINE quotient == (2 * frames * rate + source) \div (2 * source)
<1>1. /\ quotient \in Nat
      /\ (2 * source) * quotient <= 2 * frames * rate + source
      /\ 2 * frames * rate + source < (2 * source) * quotient + 2 * source
  OBVIOUS
<1>2. Resampler!OutFrames(frames, source, rate) = IF 1 < quotient THEN quotient ELSE 1
  BY DEF Resampler!OutFrames, Resampler!Greater
<1>3. CASE 1 < quotient
  <2>1. Resampler!OutFrames(frames, source, rate) = quotient
    BY <1>2, <1>3
  <2>2. 2 * quotient * source \in (2 * frames * rate - source)..(2 * frames * rate + source)
    BY <1>1
  <2> HIDE DEF quotient
  <2> QED
    BY <1>1, <1>3, <2>1, <2>2
<1>4. CASE ~(1 < quotient)
  BY <1>2, <1>4
<1> QED
  BY <1>3, <1>4

(* An output frame is taken from its own place, or is the last.            *)
LEMMA TakenFromItsPlace ==
  ASSUME NEW last \in Nat, NEW source \in Nat \ {0}, NEW rate \in Nat \ {0}, NEW i \in Nat,
         NEW index, index = Resampler!Index(i, last, source, rate)
  PROVE  index * rate
           + (Resampler!Next(index, last) - index) * (i * source - index * rate)
         = IF i * source <= last * rate THEN i * source ELSE last * rate
<1> DEFINE place == i * source
           quotient == place \div rate
           next == Resampler!Next(index, last)
<1>1. place \in Nat
  OBVIOUS
<1> HIDE DEF place
<1>2. /\ quotient \in Nat
      /\ rate * quotient <= place
      /\ place < rate * quotient + rate
  BY <1>1
<1>3. index = (IF quotient < last THEN quotient ELSE last)
  BY DEF Resampler!Index, Resampler!Lesser, place
<1>4. next = (IF index + 1 < last THEN index + 1 ELSE last)
  BY DEF Resampler!Next, Resampler!Lesser
<1> HIDE DEF quotient, next
<1>5. CASE quotient < last
  <2>1. index = quotient /\ next = quotient + 1
    BY <1>2, <1>3, <1>4, <1>5
  <2>2. place <= last * rate
    <3>1. quotient + 1 <= last
      BY <1>2, <1>5
    <3>2. (quotient + 1) * rate <= last * rate
      BY <1>2, <3>1
    <3> QED
      BY <1>1, <1>2, <3>2
  <2>3. index * rate + (next - index) * (place - index * rate) = place
    <3>1. next - index = 1
      BY <1>2, <2>1
    <3>2. index * rate \in Int
      BY <1>2, <2>1
    <3> QED
      BY <1>1, <3>1, <3>2
  <2> QED
    BY <2>2, <2>3 DEF place, next
<1>6. CASE ~(quotient < last)
  <2>1. index = last /\ next = last
    BY <1>2, <1>3, <1>4, <1>6
  <2>2. last * rate <= place
    <3>1. last * rate <= quotient * rate
      BY <1>2, <1>6
    <3> QED
      BY <1>1, <1>2, <3>1
  <2>3. index * rate + (next - index) * (place - index * rate) = last * rate
    <3>1. next - index = 0
      BY <2>1
    <3>2. index * rate = last * rate /\ index * rate \in Int
      BY <2>1
    <3> QED
      BY <1>1, <3>1, <3>2
  <2>4. place <= last * rate => place = last * rate
    BY <1>1, <2>2
  <2> QED
    BY <2>3, <2>4 DEF place, next
<1> QED
  BY <1>5, <1>6

-----------------------------------------------------------------------------
(* What the decoder passes on and what is prepared of it.                  *)

(* The checks of the format and the samples, all of which have been passed. *)
LEMMA Passed ==
  ASSUME NEW wav \in Formats, NEW bytes \in Nat, Verdict(wav, bytes) = "ok"
  PROVE  /\ wav.channels \in 1..kMaxAssetChannels
         /\ wav.rate \in 1..kMaxAssetSampleRateHz
         /\ Supported(wav)
         /\ bytes # 0 /\ bytes % FrameBytes(wav) = 0
         /\ bytes \div FrameBytes(wav) <= MaxFrames
<1>1. wav.channels \in Nat /\ wav.rate \in Nat
  BY WavDecoderAssumption DEF WavDecoderAssumption
<1>2. wav.channels # 0
  BY DEF Verdict
<1>3. ~(wav.channels > kMaxAssetChannels)
  BY <1>1 DEF Verdict, kMaxAssetChannels
<1>4. wav.channels \in 1..kMaxAssetChannels
  BY <1>1, <1>2, <1>3 DEF kMaxAssetChannels
<1>5. wav.rate \in 1..kMaxAssetSampleRateHz
  BY <1>1, <1>2, <1>4 DEF Verdict, kMaxAssetChannels
<1> DEFINE rest == IF ~Supported(wav) THEN "kUnsupportedFormat"
                   ELSE IF wav.align # FrameBytes(wav) THEN "kInvalidArgument"
                   ELSE IF bytes % FrameBytes(wav) # 0 \/ bytes = 0 THEN "kInvalidArgument"
                   ELSE IF bytes \div FrameBytes(wav) > MaxFrames THEN "kResourceExhausted"
                   ELSE "ok"
<1>6. Verdict(wav, bytes) = rest
  BY <1>2, <1>3, <1>5, Zenon DEF Verdict
<1>7. Supported(wav) /\ bytes # 0 /\ bytes % FrameBytes(wav) = 0
  BY <1>6
<1>8. ~(bytes \div FrameBytes(wav) > MaxFrames)
  BY <1>6
<1>9. bytes \div FrameBytes(wav) \in Int /\ MaxFrames \in Int
  BY <1>4, <1>7, FrameHasBytes, LoadingAssumption DEF LoadingAssumption
<1> QED
  BY <1>4, <1>5, <1>7, <1>8, <1>9

(* So there is an asset of that many frames, and it is what is created.    *)
LEMMA DecodedAsset ==
  ASSUME NEW wav \in Formats, NEW chunk, format = {wav}, data = {chunk},
         chunk.size \in Nat, Verdict(wav, chunk.size) = "ok"
  PROVE  Decoded \in [frames: 1..MaxFrames, channels: 1..kMaxAssetChannels,
                      rate: 1..kMaxAssetSampleRateHz]
<1> DEFINE frames == chunk.size \div FrameBytes(wav)
           made == [frames |-> frames, channels |-> wav.channels, rate |-> wav.rate]
           Assets == [frames: 1..MaxFrames, channels: 1..kMaxAssetChannels,
                      rate: 1..kMaxAssetSampleRateHz]
<1>1. /\ wav.channels \in 1..kMaxAssetChannels
      /\ wav.rate \in 1..kMaxAssetSampleRateHz
      /\ Supported(wav)
      /\ chunk.size # 0 /\ chunk.size % FrameBytes(wav) = 0
      /\ frames <= MaxFrames
  BY Passed
<1>2. FrameBytes(wav) \in Nat \ {0}
  BY <1>1, FrameHasBytes
<1>3. frames \in Nat \ {0} /\ frames * FrameBytes(wav) = chunk.size
  BY <1>1, <1>2, WholeFrames
<1> HIDE DEF frames
<1>4. frames \in 1..MaxFrames
  BY <1>1, <1>3, LoadingAssumption DEF LoadingAssumption
<1>5. made \in Assets
  BY <1>1, <1>4
<1>6. /\ made.frames * FrameBytes(wav) = chunk.size
      /\ made.channels = wav.channels /\ made.rate = wav.rate
  BY <1>3
<1> HIDE DEF made
<1>7. \E asset_ \in Assets :
        \E w \in format, c \in data :
          /\ asset_.frames * FrameBytes(w) = c.size
          /\ asset_.channels = w.channels /\ asset_.rate = w.rate
  BY <1>5, <1>6
<1> QED
  BY <1>7 DEF Decoded

(* What PreparedForDevice says of one asset. *)
Ready(a, rate) ==
  LET last == a.native.frames - 1
      count == Cardinality(DOMAIN a.frames)
  IN  /\ a.rate = rate
      /\ count \in 1..MaxFramesPerAsset
      /\ \/ 2 * count * a.native.rate \in
              (2 * a.native.frames * a.rate - a.native.rate)
                ..(2 * a.native.frames * a.rate + a.native.rate)
         \/ count = 1
      /\ \A i \in DOMAIN a.frames :
           a.frames[i] = IF i * a.native.rate <= last * a.rate
                         THEN i * a.native.rate ELSE last * a.rate

(* What Prepare makes within the limit is fit for the device. *)
LEMMA PreparedIsReady ==
  ASSUME NEW native, native.frames \in Nat \ {0}, native.rate \in Nat \ {0},
         target \in Nat \ {0}, WithinLimit(native)
  PROVE  Ready([native |-> native, rate |-> target, frames |-> Frames(native)], target)
<1> DEFINE n == native.frames
           source == native.rate
           count == IF source # target THEN Resampler!OutFrames(n, source, target) ELSE n
<1>1. /\ count \in Nat \ {0}
      /\ \/ 2 * count * source \in (2 * n * target - source)..(2 * n * target + source)
         \/ count = 1
  <2>1. CASE source # target
    BY <2>1, OutputLasts
  <2>2. CASE source = target
    <3>1. count = n
      BY <2>2
    <3>2. 2 * n * source \in (2 * n * source - source)..(2 * n * source + source)
      <4> DEFINE whole == 2 * n * source
      <4>1. whole \in Int
        OBVIOUS
      <4> HIDE DEF whole
      <4>2. whole \in (whole - source)..(whole + source)
        BY <4>1
      <4> QED
        BY <4>2 DEF whole
    <3> QED
      BY <2>2, <3>1, <3>2
  <2> QED
    BY <2>1, <2>2
<1>2. count <= MaxFramesPerAsset
  BY DEF WithinLimit
<1>3. DOMAIN Frames(native) = 0..(count - 1)
  BY DEF Frames, Resampler!Resampled
<1> HIDE DEF count
<1>4. Cardinality(DOMAIN Frames(native)) = count
  <2>1. 0 \in Int /\ count - 1 \in Int
    BY <1>1
  <2>2. Cardinality(0..(count - 1)) = IF 0 > count - 1 THEN 0 ELSE (count - 1) - 0 + 1
    BY <2>1, FS_Interval
  <2> QED
    BY <1>1, <1>3, <2>2
<1>5. ASSUME NEW i \in 0..(count - 1)
      PROVE  Frames(native)[i] = IF i * source <= (n - 1) * target
                                 THEN i * source ELSE (n - 1) * target
  <2>1. i \in Nat /\ n - 1 \in Nat
    BY <1>1, <1>5
  <2>2. CASE source # target
    <3>1. count = Resampler!OutFrames(n, source, target)
      BY <2>2 DEF count
    <3> DEFINE last == n - 1
               index == Resampler!Index(i, last, source, target)
               value == index * target
                          + (Resampler!Next(index, last) - index) * (i * source - index * target)
    <3>2. Frames(native)[i] = value
      BY <2>2, <3>1, <1>5 DEF Frames, Resampler!Resampled
    <3>3. value = IF i * source <= last * target THEN i * source ELSE last * target
      <4>1. index = Resampler!Index(i, last, source, target)
        OBVIOUS
      <4>2. last \in Nat /\ source \in Nat \ {0} /\ target \in Nat \ {0} /\ i \in Nat
        BY <2>1
      <4> HIDE DEF index, last, source
      <4> QED
        BY <4>1, <4>2, TakenFromItsPlace
    <3> QED
      BY <3>2, <3>3
  <2>3. CASE source = target
    <3>1. count = n /\ Frames(native)[i] = i * target
      BY <2>3, <1>5 DEF count, Frames
    <3>2. i * target <= (n - 1) * target
      <4>1. i <= n - 1
        BY <2>1, <3>1
      <4> QED
        BY <2>1, <4>1
    <3> QED
      BY <2>3, <3>1, <3>2
  <2> QED
    BY <2>2, <2>3
<1> DEFINE made == [native |-> native, rate |-> target, frames |-> Frames(native)]
<1>6. made.native = native /\ made.rate = target /\ made.frames = Frames(native)
  OBVIOUS
<1> HIDE DEF made
<1>7. Cardinality(DOMAIN made.frames) = count
  BY <1>4, <1>6
<1>8. count \in 1..MaxFramesPerAsset
  BY <1>1, <1>2, LoadingAssumption DEF LoadingAssumption
<1>9. \A i \in DOMAIN made.frames :
        made.frames[i] = IF i * made.native.rate <= (made.native.frames - 1) * made.rate
                         THEN i * made.native.rate ELSE (made.native.frames - 1) * made.rate
  BY <1>3, <1>5, <1>6
<1>10. Ready(made, target)
  BY <1>1, <1>6, <1>7, <1>8, <1>9 DEF Ready
<1> QED
  BY <1>10 DEF made

-----------------------------------------------------------------------------
(* The inductive invariant of loading.                                     *)

(* There is a file exactly while it is loaded, for a rate that a device    *)
(* has; an outcome is not to be had before the end.                        *)
FileInv ==
  /\ step \in {"idle", "walk", "samples", "done"}
  /\ step = "idle" => file = {}
  /\ step # "idle" => target \in Nat \ {0} /\ \E f \in Files : file = {f}
  /\ outcome = "asset" => step = "done"

(* On the walk what has been read, and the chunk of samples that has been  *)
(* found, end before the end, which is inside the file.                    *)
ReadInv ==
  /\ ReadsInside
  /\ step \in {"walk", "samples"} =>
       /\ pos \in Nat /\ read \in Nat
       /\ End <= TheFile.size /\ read <= End
       /\ \A chunk \in data : chunk.at + chunk.size <= End

(* There is at most one format and one data chunk; once the checks are     *)
(* passed there are both, and they have passed them.                       *)
FormatInv ==
  /\ format # {} => \E wav \in Formats : format = {wav}
  /\ data # {} => \E at \in Nat, size \in Nat : data = {[at |-> at, size |-> size]}
  /\ step = "samples" \/ outcome = "asset" =>
       \E wav \in Formats, at \in Nat, size \in Nat :
         /\ format = {wav} /\ data = {[at |-> at, size |-> size]}
         /\ Verdict(wav, size) = "ok"

DecoderInv == FileInv /\ ReadInv /\ FormatInv

LoadingInv == DeviceInv /\ DecoderInv /\ PreparedForDevice

(* The file, when there is one, is the one that is loaded. *)
LEMMA FileLoaded ==
  ASSUME NEW f \in Files, file = {f}
  PROVE  /\ TheFile = f /\ End = f.riffSize + 8
         /\ f.size \in Nat /\ f.riffSize \in Nat
<1>1. TheFile = f
  BY DEF TheFile
<1> QED
  BY <1>1, WavDecoderAssumption DEF WavDecoderAssumption, End

(* Whatever stands where a header is read, its numbers are unsigned.       *)
LEMMA HeaderTyped ==
  ASSUME NEW f \in Files, NEW p, NEW header \in HeadersAt(f, p)
  PROVE  header.size \in Nat /\ header.wav \in Formats
<1>1. CASE header \in Anything
  BY <1>1 DEF Anything, kExtensibleFmtSize
<1>2. ASSUME NEW i \in DOMAIN f.chunks, header = f.chunks[i]
      PROVE  header.size \in Nat /\ header.wav \in Formats
  <2>1. f.chunks \in Seq(Chunk)
    BY WavDecoderAssumption DEF WavDecoderAssumption
  <2>2. header \in Chunk
    BY <1>2, <2>1
  <2> QED
    BY <2>2 DEF Chunk
<1> QED
  BY <1>1, <1>2 DEF HeadersAt

(* Nothing of the decoder's changes. *)
LEMMA DecoderStutters ==
  ASSUME DecoderInv, UNCHANGED decoderVars, target' = target
  PROVE  DecoderInv'
BY DEF DecoderInv, FileInv, ReadInv, FormatInv, decoderVars, ReadsInside, End, TheFile

LEMMA LoadingInitially == Init => LoadingInv
<1> SUFFICES ASSUME Init PROVE LoadingInv
  OBVIOUS
<1>1. DeviceInv
  BY DeviceInitially DEF Init
<1>2. DecoderInv
  BY DEF Init, DecoderInit, DecoderInv, FileInv, ReadInv, FormatInv, ReadsInside
<1>3. PreparedForDevice
  BY DEF Init, PreparedForDevice
<1> QED
  BY <1>1, <1>2, <1>3 DEF LoadingInv

(* The header of the file is read only if the file has one.                *)
LEMMA Begins ==
  ASSUME LoadingInv, NEW f \in Files, LoadBegins(f)
  PROVE  DecoderInv'
<1> USE DEF LoadBegins, DecodeBegins, Fails
<1>1. negotiated \in Nat \ {0}
  BY DEF LoadingInv, DeviceInv, DeviceTypeOK, OpenInv, DeviceRateUsable
<1>2. /\ file' = {f} /\ target' = negotiated /\ format' = {} /\ data' = {}
      /\ step' \in {"walk", "done"} /\ outcome' # "asset" /\ pos' \in Nat /\ read' \in Nat
  BY DEF kRiffHeaderSize
<1>3. f.size \in Nat /\ f.riffSize \in Nat
  BY WavDecoderAssumption DEF WavDecoderAssumption
<1>4. FileInv' /\ FormatInv'
  BY <1>1, <1>2 DEF FileInv, FormatInv
<1>5. TheFile' = f /\ End' = f.riffSize + 8
  BY <1>2 DEF TheFile, End
<1>6. read' <= f.size /\ (f.size >= kRiffHeaderSize => read' = kRiffHeaderSize)
  BY <1>3 DEF kRiffHeaderSize
<1>7. ReadsInside'
  <2>1. outcome' # "kUnsupportedFormat" => f.size >= kRiffHeaderSize
    BY <1>3 DEF kRiffHeaderSize
  <2>2. f.riffSize >= 4 /\ f.size >= kRiffHeaderSize => read' <= f.riffSize + 8
    BY <1>3, <1>6 DEF kRiffHeaderSize
  <2> QED
    BY <1>2, <1>6, <2>1, <2>2 DEF ReadsInside
<1>8. step' = "walk" => f.riffSize + 8 <= f.size /\ read' <= f.riffSize + 8
  BY <1>3, <1>6 DEF kRiffHeaderSize
<1>9. ReadInv'
  BY <1>2, <1>5, <1>7, <1>8 DEF ReadInv
<1> QED
  BY <1>4, <1>9 DEF DecoderInv

(* A header fits before it is read, and of a format only what it has is    *)
(* looked at; a chunk that does not end before the end ends the walk.      *)
LEMMA Walks ==
  ASSUME DecoderInv, WalkChunk, target' = target
  PROVE  DecoderInv'
<1> USE DEF kChunkHeaderSize
<1>1. PICK f \in Files : file = {f}
  BY DEF WalkChunk, DecoderInv, FileInv
<1>2. /\ TheFile = f /\ End = f.riffSize + 8
      /\ f.size \in Nat /\ f.riffSize \in Nat
  BY <1>1, FileLoaded
<1>3. /\ step = "walk" /\ pos \in Nat /\ pos + 8 <= End /\ End <= f.size
      /\ \A chunk \in data : chunk.at + chunk.size <= End
  BY <1>2 DEF WalkChunk, HasHeader, DecoderInv, ReadInv
<1> DEFINE body == pos + kChunkHeaderSize
           fits(h) == h.size <= End - body
           isFormat(h) == fits(h) /\ h.tag = "fmt" /\ format = {}
           isData(h) == fits(h) /\ h.tag = "data" /\ data = {}
           bad(h) == ~fits(h) \/ (isFormat(h) /\ ~ParsesFmt(h))
<1>4. PICK header \in HeadersAt(f, pos) :
        /\ read' = body + (IF isFormat(header) THEN FmtBytes(header) ELSE 0)
        /\ format' = IF isFormat(header) /\ ~bad(header) THEN {header.wav} ELSE format
        /\ data' = IF isData(header) THEN {[at |-> body, size |-> header.size]} ELSE data
        /\ IF bad(header)
           THEN Fails("kInvalidArgument") /\ pos' = pos
           ELSE pos' = After(body, header.size) /\ UNCHANGED <<step, outcome>>
  BY <1>2 DEF WalkChunk
<1>5. header.size \in Nat /\ header.wav \in Formats
  BY HeaderTyped
<1>6. file' = file /\ TheFile' = f /\ End' = End
  BY <1>2 DEF WalkChunk, TheFile, End
<1>7. read' \in Nat /\ read' <= End
  <2>1. FmtBytes(header) \in Nat /\ FmtBytes(header) <= header.size
    BY <1>5 DEF FmtBytes, ParsesFmt, kMinFmtSize, kExtensibleFmtSize
  <2>2. CASE isFormat(header)
    BY <1>2, <1>3, <1>4, <1>5, <2>1, <2>2
  <2>3. CASE ~isFormat(header)
    BY <1>2, <1>3, <1>4, <2>3
  <2> QED
    BY <2>2, <2>3
<1>8. step' \in {"walk", "done"} /\ outcome' # "asset"
  BY <1>3, <1>4 DEF Fails, DecoderInv, FileInv
<1>9. FileInv'
  BY <1>1, <1>3, <1>6, <1>8 DEF FileInv, DecoderInv
<1>10. FormatInv'
  <2>1. format' # {} => \E wav \in Formats : format' = {wav}
    BY <1>4, <1>5 DEF DecoderInv, FormatInv
  <2>2. data' # {} => \E at \in Nat, size \in Nat : data' = {[at |-> at, size |-> size]}
    <3>1. body \in Nat
      BY <1>3
    <3> QED
      BY <1>4, <1>5, <3>1 DEF DecoderInv, FormatInv
  <2> QED
    BY <1>8, <2>1, <2>2 DEF FormatInv
<1>11. ReadInv'
  <2>1. ReadsInside'
    BY <1>1, <1>2, <1>3, <1>6, <1>7 DEF ReadsInside
  <2>2. \A chunk \in data' : chunk.at + chunk.size <= End
    BY <1>2, <1>3, <1>4, <1>5
  <2>3. step' = "walk" => pos' \in Nat
    <3>1. header.size % 2 \in Nat
      BY <1>5
    <3>2. After(body, header.size) \in Nat
      BY <1>3, <1>5, <3>1 DEF After, Padded
    <3> QED
      BY <1>3, <1>4, <3>2
  <2> QED
    BY <1>3, <1>6, <1>7, <1>8, <2>1, <2>2, <2>3 DEF ReadInv
<1> QED
  BY <1>9, <1>10, <1>11 DEF DecoderInv

(* The end of the walk: the format and the samples pass, or it is an error. *)
LEMMA Ends ==
  ASSUME DecoderInv, WalkEnds, target' = target
  PROVE  DecoderInv'
<1>1. PICK f \in Files : file = {f}
  BY DEF WalkEnds, DecoderInv, FileInv
<1>2. TheFile' = TheFile /\ End' = End /\ read' = read /\ pos' = pos /\ file' = file
  BY DEF WalkEnds, TheFile, End
<1>3. \/ step' = "done" /\ outcome' # "asset"
      \/ /\ step' = "samples" /\ outcome' # "asset"
         /\ \E wav \in format, chunk \in data : Verdict(wav, chunk.size) = "ok"
  <2>1. CASE format = {} \/ data = {}
    BY <2>1 DEF WalkEnds, Fails
  <2>2. CASE ~(format = {} \/ data = {})
    <3>1. PICK wav \in format, chunk \in data :
            IF Verdict(wav, chunk.size) = "ok" THEN step' = "samples" /\ UNCHANGED outcome
            ELSE Fails(Verdict(wav, chunk.size))
      BY <2>2 DEF WalkEnds
    <3>2. outcome # "asset"
      BY DEF WalkEnds, DecoderInv, FileInv
    <3>3. Verdict(wav, chunk.size) # "asset"
      BY <3>1 DEF Verdict
    <3> QED
      BY <3>1, <3>2, <3>3 DEF Fails
  <2> QED
    BY <2>1, <2>2
<1>4. FileInv'
  BY <1>1, <1>2, <1>3 DEF FileInv, DecoderInv, WalkEnds
<1>5. format' = format /\ data' = data
  BY DEF WalkEnds
<1>6. FormatInv'
  <2>1. step' = "samples" =>
          \E wav \in Formats, at \in Nat, size \in Nat :
            /\ format = {wav} /\ data = {[at |-> at, size |-> size]}
            /\ Verdict(wav, size) = "ok"
    <3> SUFFICES ASSUME step' = "samples"
                 PROVE  \E wav \in Formats, at \in Nat, size \in Nat :
                          /\ format = {wav} /\ data = {[at |-> at, size |-> size]}
                          /\ Verdict(wav, size) = "ok"
      OBVIOUS
    <3>1. PICK wav \in format, chunk \in data : Verdict(wav, chunk.size) = "ok"
      BY <1>3
    <3>2. PICK w \in Formats : format = {w}
      BY <3>1 DEF DecoderInv, FormatInv
    <3>3. PICK at \in Nat, size \in Nat : data = {[at |-> at, size |-> size]}
      BY <3>1 DEF DecoderInv, FormatInv
    <3>4. wav = w /\ chunk.size = size
      BY <3>1, <3>2, <3>3
    <3> QED
      BY <3>1, <3>2, <3>3, <3>4
  <2> QED
    BY <1>3, <1>5, <2>1 DEF FormatInv, DecoderInv
<1>7. ReadInv'
  <2>1. TheFile = f /\ End = f.riffSize + 8 /\ f.size \in Nat /\ f.riffSize \in Nat
    BY <1>1, FileLoaded
  <2>2. step = "walk" /\ read \in Nat /\ read <= End /\ End <= f.size
    BY <2>1 DEF WalkEnds, DecoderInv, ReadInv
  <2>3. ReadsInside'
    BY <1>1, <1>2, <2>1, <2>2 DEF ReadsInside
  <2> QED
    BY <1>2, <1>3, <1>5, <2>2, <2>3 DEF ReadInv, DecoderInv
<1> QED
  BY <1>4, <1>6, <1>7 DEF DecoderInv

(* The samples end where their chunk does, before the end. *)
LEMMA Reads ==
  ASSUME DecoderInv, ReadSamples, target' = target
  PROVE  DecoderInv'
<1>1. PICK f \in Files : file = {f}
  BY DEF ReadSamples, DecoderInv, FileInv
<1>2. TheFile = f /\ End = f.riffSize + 8 /\ f.size \in Nat /\ f.riffSize \in Nat
  BY <1>1, FileLoaded
<1>3. PICK wav \in Formats, at \in Nat, size \in Nat :
        /\ format = {wav} /\ data = {[at |-> at, size |-> size]}
        /\ Verdict(wav, size) = "ok"
  BY DEF ReadSamples, DecoderInv, FormatInv
<1>4. read' = at + size
  BY <1>3 DEF ReadSamples
<1>5. at + size <= End /\ End <= f.size
  BY <1>2, <1>3 DEF ReadSamples, DecoderInv, ReadInv
<1>6. file' = file /\ format' = format /\ data' = data /\ step' = "done"
  BY DEF ReadSamples
<1>7. FileInv'
  BY <1>1, <1>6 DEF FileInv, DecoderInv, ReadSamples
<1>8. FormatInv'
  BY <1>3, <1>6 DEF FormatInv
<1>9. ReadsInside'
  BY <1>1, <1>2, <1>4, <1>5, <1>6 DEF ReadsInside
<1>10. ReadInv'
  BY <1>6, <1>9 DEF ReadInv
<1> QED
  BY <1>7, <1>8, <1>10 DEF DecoderInv

(* What was decoded is an asset, and what is prepared of it is fit for the *)
(* device; the decoder is ready for the next file.                         *)
LEMMA Prepared ==
  ASSUME LoadingInv, Prepares
  PROVE  DecoderInv' /\ PreparedForDevice'
<1> USE DEF Prepares
<1>1. DecoderInv'
  BY DEF DecoderInv, FileInv, ReadInv, FormatInv, ReadsInside
<1>2. PreparedForDevice'
  <2>1. CASE outcome = "asset" /\ WithinLimit(Decoded)
    <3> DEFINE made == [native |-> Decoded, rate |-> target, frames |-> Frames(Decoded)]
    <3>1. PICK wav \in Formats, at \in Nat, size \in Nat :
            /\ format = {wav} /\ data = {[at |-> at, size |-> size]}
            /\ Verdict(wav, size) = "ok"
      BY <2>1 DEF LoadingInv, DecoderInv, FormatInv
    <3>2. Decoded \in [frames: 1..MaxFrames, channels: 1..kMaxAssetChannels,
                       rate: 1..kMaxAssetSampleRateHz]
      <4> DEFINE chunk == [at |-> at, size |-> size]
      <4>1. chunk.size = size
        OBVIOUS
      <4> HIDE DEF chunk
      <4>2. data = {chunk} /\ chunk.size \in Nat /\ Verdict(wav, chunk.size) = "ok"
        BY <3>1, <4>1 DEF chunk
      <4> QED
        BY <3>1, <4>2, DecodedAsset
    <3>3. Decoded.frames \in Nat \ {0} /\ Decoded.rate \in Nat \ {0}
      BY <3>2, LoadingAssumption DEF LoadingAssumption
    <3>4. target \in Nat \ {0}
      BY DEF LoadingInv, DecoderInv, FileInv
    <3>5. Ready(made, target)
      BY <2>1, <3>3, <3>4, PreparedIsReady
    <3>6. asset' = {made} /\ target' = target
      BY <2>1
    <3> HIDE DEF made
    <3> QED
      BY <3>5, <3>6 DEF PreparedForDevice, Ready
  <2>2. CASE ~(outcome = "asset" /\ WithinLimit(Decoded))
    <3>1. asset' = {}
      BY <2>2
    <3> QED
      BY <3>1 DEF PreparedForDevice
  <2> QED
    BY <2>1, <2>2
<1> QED
  BY <1>1, <1>2

LEMMA LoadingStep ==
  ASSUME LoadingInv, [Next]_vars
  PROVE  LoadingInv'
<1>1. ASSUME UNCHANGED deviceVars PROVE DeviceInv'
  BY <1>1, DeviceStep DEF LoadingInv
<1>2. ASSUME UNCHANGED <<asset, target>> PROVE PreparedForDevice'
  BY <1>2 DEF LoadingInv, PreparedForDevice
<1>3. ASSUME asset' = {} PROVE PreparedForDevice'
  BY <1>3 DEF PreparedForDevice
<1>4. ASSUME NEW f \in Files, LoadBegins(f)
      PROVE  LoadingInv'
  <2>1. asset' = {} /\ UNCHANGED deviceVars
    BY <1>4 DEF LoadBegins
  <2>2. DecoderInv'
    BY <1>4, Begins
  <2> QED
    BY <1>1, <1>3, <2>1, <2>2 DEF LoadingInv
<1>5. CASE LoadFails
  <2>1. asset' = {} /\ UNCHANGED <<deviceVars, decoderVars, target>>
    BY <1>5 DEF LoadFails
  <2> QED
    BY <1>1, <1>3, <2>1, DecoderStutters DEF LoadingInv
<1>6. CASE Decodes
  <2>1. DecodeStep /\ UNCHANGED deviceVars /\ UNCHANGED <<asset, target>>
    BY <1>6 DEF Decodes
  <2>2. DecoderInv'
    BY <2>1, Walks, Ends, Reads DEF DecodeStep, LoadingInv
  <2> QED
    BY <1>1, <1>2, <2>1, <2>2 DEF LoadingInv
<1>7. CASE Prepares
  <2>1. UNCHANGED deviceVars
    BY <1>7 DEF Prepares
  <2> QED
    BY <1>1, <1>7, <2>1, Prepared DEF LoadingInv
<1>8. CASE Device
  <2>1. DeviceCalls \/ SystemThread
    BY <1>8 DEF Device
  <2>2. UNCHANGED decoderVars /\ UNCHANGED <<asset, target>>
    BY <1>8 DEF Device
  <2>3. DeviceInv'
    BY <2>1, DeviceStep DEF LoadingInv
  <2> QED
    BY <1>2, <2>2, <2>3, DecoderStutters DEF LoadingInv
<1>9. CASE UNCHANGED vars
  <2>1. UNCHANGED deviceVars /\ UNCHANGED decoderVars /\ UNCHANGED <<asset, target>>
    BY <1>9 DEF vars
  <2> QED
    BY <1>1, <1>2, <2>1, DecoderStutters DEF LoadingInv
<1> QED
  BY <1>4, <1>5, <1>6, <1>7, <1>8, <1>9 DEF Next, NoRate, FileUnreadable, FileTooLarge

LEMMA LoadingInvariant == Spec => []LoadingInv
<1>1. Init => LoadingInv
  BY LoadingInitially
<1>2. LoadingInv /\ [Next]_vars => LoadingInv'
  BY LoadingStep
<1> QED
  BY <1>1, <1>2, PTL DEF Spec

-----------------------------------------------------------------------------
(* What is decoded is what was written.                                    *)

(* The chunks lie one after the other. *)
LEMMA Starts ==
  ASSUME NEW f \in Files
  PROVE  /\ Len(f.chunks) \in Nat /\ DOMAIN f.chunks = 1..Len(f.chunks)
         /\ \A i \in 1..Len(f.chunks) : f.chunks[i] \in Chunk
         /\ StartOf(f, 1) = kRiffHeaderSize
         /\ \A i \in 1..(Len(f.chunks) + 1) : StartOf(f, i) \in Nat
         /\ \A i \in 1..Len(f.chunks) :
              StartOf(f, i + 1) = StartOf(f, i) + kChunkHeaderSize + Padded(f.chunks[i].size)
<1> DEFINE N == Len(f.chunks)
           size(n) == kChunkHeaderSize + Padded(f.chunks[n].size)
           Is(e) == e = [n \in 0..N |->
                           IF n = 0 THEN kRiffHeaderSize
                           ELSE e[n - 1] + kChunkHeaderSize + Padded(f.chunks[n].size)]
           next == [p \in Nat \X Nat |->
                      IF p[1] + 1 \in 1..N THEN p[2] + size(p[1] + 1) ELSE 0]
<1>1. /\ N \in Nat /\ DOMAIN f.chunks = 1..N
      /\ \A i \in 1..N : f.chunks[i] \in Chunk
  BY WavDecoderAssumption DEF WavDecoderAssumption
<1>2. \A n \in 1..N : Padded(f.chunks[n].size) \in Nat
  <2>1. ASSUME NEW m \in Nat PROVE Padded(m) \in Nat
    BY DEF Padded
  <2>2. \A n \in 1..N : f.chunks[n].size \in Nat
    BY <1>1 DEF Chunk
  <2> QED
    BY <2>1, <2>2
<1>3. \A n \in 1..N : size(n) \in Nat
  BY <1>2 DEF kChunkHeaderSize
<1> HIDE DEF N, size
<1>4. next \in [Nat \X Nat -> Nat]
  BY <1>3
<1>5. kRiffHeaderSize \in Nat
  BY DEF kRiffHeaderSize
<1>6. \A n \in 0..(N - 1), m \in Nat : next[<<n, m>>] = m + size(n + 1)
  BY <1>1
<1> HIDE DEF next
<1>7. PICK e \in [0..N -> Nat] : Runs(e, N, kRiffHeaderSize, next)
  BY <1>1, <1>4, <1>5, RecursionTo
<1>8. e[0] = kRiffHeaderSize /\ \A n \in 0..(N - 1) : e[n + 1] = e[n] + size(n + 1)
  <2>1. \A n \in 0..(N - 1) : e[n] \in Nat
    BY <1>1
  <2> QED
    BY <1>6, <1>7, <2>1 DEF Runs
<1>9. ASSUME NEW m \in Nat, NEW n \in 1..N
      PROVE  m + size(n) = m + kChunkHeaderSize + Padded(f.chunks[n].size)
  BY <1>2 DEF size, kChunkHeaderSize
<1>10. ASSUME NEW n \in 1..N
       PROVE  e[n] = e[n - 1] + kChunkHeaderSize + Padded(f.chunks[n].size)
  <2>1. n - 1 \in 0..(N - 1) /\ (n - 1) + 1 = n /\ n - 1 \in 0..N
    BY <1>1
  <2> QED
    BY <1>8, <1>9, <2>1
<1>11. Is(e)
  <2>1. \A n \in 0..N : n = 0 \/ n \in 1..N
    BY <1>1
  <2> QED
    BY <1>7, <1>8, <1>10, <2>1
<1> DEFINE end == CHOOSE d : Is(d)
<1>12. \A i : StartOf(f, i) = end[i - 1]
  BY DEF StartOf, N
<1> HIDE DEF Is
<1>13. Is(end)
  BY <1>11
<1> HIDE DEF end
<1>14. end = [n \in 0..N |->
                IF n = 0 THEN kRiffHeaderSize
                ELSE end[n - 1] + kChunkHeaderSize + Padded(f.chunks[n].size)]
  BY <1>13 DEF Is
<1>15. \A n \in 0..N : end[n] = e[n]
  <2>1. end[0] = e[0]
    BY <1>1, <1>8, <1>14
  <2>2. ASSUME NEW n \in 0..(N - 1), end[n] = e[n] PROVE end[n + 1] = e[n + 1]
    <3>1. n + 1 \in 0..N /\ n + 1 # 0 /\ (n + 1) - 1 = n /\ n + 1 \in 1..N
      BY <1>1
    <3>2. end[n + 1] = end[n] + kChunkHeaderSize + Padded(f.chunks[n + 1].size)
      BY <1>14, <3>1
    <3>3. e[n + 1] = e[n] + kChunkHeaderSize + Padded(f.chunks[n + 1].size)
      BY <1>10, <3>1
    <3> QED
      BY <2>2, <3>2, <3>3
  <2>3. Alike(end, e, N)
    BY <1>1, <2>1, <2>2 DEF Alike
  <2> QED
    BY <1>1, <2>3, Agree
<1>16. StartOf(f, 1) = kRiffHeaderSize
  BY <1>1, <1>8, <1>12, <1>15
<1>17. ASSUME NEW i \in 1..(N + 1) PROVE StartOf(f, i) = e[i - 1] /\ i - 1 \in 0..N
  BY <1>1, <1>12, <1>15
<1>18. \A i \in 1..(N + 1) : StartOf(f, i) \in Nat
  BY <1>7, <1>17
<1>19. ASSUME NEW i \in 1..N
       PROVE  StartOf(f, i + 1) = StartOf(f, i) + kChunkHeaderSize + Padded(f.chunks[i].size)
  <2>1. i \in 1..(N + 1) /\ i + 1 \in 1..(N + 1) /\ (i + 1) - 1 = i
    BY <1>1
  <2> QED
    BY <1>10, <1>17, <2>1
<1> QED
  BY <1>1, <1>16, <1>18, <1>19 DEF N

(* A chunk begins after the one before it has ended. *)
LEMMA StartsApart ==
  ASSUME NEW f \in Files, NEW i \in 1..Len(f.chunks), NEW j \in 1..(Len(f.chunks) + 1), i < j
  PROVE  StartOf(f, i) + kChunkHeaderSize + f.chunks[i].size <= StartOf(f, j)
<1> DEFINE N == Len(f.chunks)
           start(n) == StartOf(f, n)
           S == {n \in 0..(N - i) : start(i) + kChunkHeaderSize + f.chunks[i].size
                                     <= start(i + 1 + n)}
<1>1. /\ N \in Nat
      /\ \A n \in 1..N : f.chunks[n].size \in Nat
      /\ \A n \in 1..(N + 1) : start(n) \in Nat
      /\ \A n \in 1..N : start(n + 1) = start(n) + kChunkHeaderSize + Padded(f.chunks[n].size)
  BY Starts DEF Chunk
<1>2. ASSUME NEW m \in Nat PROVE Padded(m) \in Nat /\ m <= Padded(m)
  BY DEF Padded
<1> HIDE DEF N, start
<1>3. i \in 1..N /\ j \in 1..(N + 1)
  BY DEF N
<1>4. 0 \in S
  <2>1. f.chunks[i].size \in Nat /\ start(i) \in Nat
    BY <1>1, <1>3
  <2>2. start(i + 1) = start(i) + kChunkHeaderSize + Padded(f.chunks[i].size)
    BY <1>1, <1>3
  <2>3. i + 1 + 0 = i + 1 /\ 0 \in 0..(N - i)
    BY <1>1, <1>3
  <2>4. start(i) + kChunkHeaderSize + f.chunks[i].size <= start(i + 1)
    <3>1. Padded(f.chunks[i].size) \in Nat /\ f.chunks[i].size <= Padded(f.chunks[i].size)
      BY <1>2, <2>1
    <3> QED
      BY <2>1, <2>2, <3>1 DEF kChunkHeaderSize
  <2> QED
    BY <2>3, <2>4
<1>5. ASSUME NEW n \in 0..(N - i - 1), n \in S PROVE n + 1 \in S
  <2>1. i + 1 + n \in 1..N /\ i + 1 + (n + 1) = (i + 1 + n) + 1 /\ n + 1 \in 0..(N - i)
    BY <1>1, <1>3
  <2> DEFINE m == i + 1 + n
  <2>2. start(m + 1) = start(m) + kChunkHeaderSize + Padded(f.chunks[m].size)
        /\ start(m) \in Nat /\ f.chunks[m].size \in Nat /\ start(i) \in Nat
        /\ f.chunks[i].size \in Nat
    BY <1>1, <1>3, <2>1
  <2>3. start(i) + kChunkHeaderSize + f.chunks[i].size <= start(m)
    BY <1>5
  <2> HIDE DEF m
  <2>4. start(i) + kChunkHeaderSize + f.chunks[i].size <= start(m + 1)
    <3>1. Padded(f.chunks[m].size) \in Nat
      BY <1>2, <2>2
    <3>2. start(i) + kChunkHeaderSize + f.chunks[i].size \in Int
      <4>1. \A a, b \in Nat : a + kChunkHeaderSize + b \in Int
        BY DEF kChunkHeaderSize
      <4> QED
        BY <2>2, <4>1, Zenon
    <3>3. \A a, b \in Int, c \in Nat : a <= b => a <= b + kChunkHeaderSize + c
      BY DEF kChunkHeaderSize
    <3>4. start(m) \in Int
      BY <2>2
    <3>5. start(i) + kChunkHeaderSize + f.chunks[i].size
            <= start(m) + kChunkHeaderSize + Padded(f.chunks[m].size)
      BY <2>3, <3>1, <3>2, <3>3, <3>4, Zenon
    <3> QED
      BY <2>2, <3>5, Zenon
  <2> QED
    BY <2>1, <2>4 DEF m
<1> HIDE DEF S
<1>6. N - i \in Nat
  BY <1>1, <1>3
<1>7. \A n \in 0..(N - i) : n \in S
  BY <1>4, <1>5, <1>6, InductionTo
<1>8. j - i - 1 \in 0..(N - i) /\ i + 1 + (j - i - 1) = j
  BY <1>1, <1>3
<1>9. j - i - 1 \in S
  BY <1>7, <1>8
<1> QED
  BY <1>8, <1>9 DEF S, start

(* Where there is room for a header, the header of a chunk is what is read. *)
LEMMA HeaderIs ==
  ASSUME NEW f \in Files, NEW k \in 1..(Len(f.chunks) + 1),
         StartOf(f, k) + kChunkHeaderSize <= f.size, NEW header \in HeadersAt(f, StartOf(f, k))
  PROVE  k \in 1..Len(f.chunks) /\ header = f.chunks[k]
<1>1. /\ Len(f.chunks) \in Nat /\ DOMAIN f.chunks = 1..Len(f.chunks)
      /\ \A i \in 1..Len(f.chunks) : f.chunks[i].size \in Nat
      /\ \A i \in 1..(Len(f.chunks) + 1) : StartOf(f, i) \in Nat
  BY Starts DEF Chunk
<1>2. f.size \in Nat /\ f.size <= StartOf(f, Len(f.chunks) + 1)
  BY WavDecoderAssumption DEF WavDecoderAssumption
<1>3. k # Len(f.chunks) + 1
  BY <1>1, <1>2 DEF kChunkHeaderSize
<1>4. k \in 1..Len(f.chunks)
  BY <1>1, <1>3
<1>5. ASSUME NEW i \in 1..Len(f.chunks), StartOf(f, i) = StartOf(f, k) PROVE i = k
  <2>1. i \in 1..(Len(f.chunks) + 1)
    BY <1>1
  <2>2. /\ StartOf(f, k) \in Nat /\ StartOf(f, i) \in Nat
        /\ f.chunks[k].size \in Nat /\ f.chunks[i].size \in Nat
    BY <1>1, <1>4, <2>1
  <2>3. ~(i < k)
    <3>1. i < k => StartOf(f, i) + kChunkHeaderSize + f.chunks[i].size <= StartOf(f, k)
      BY StartsApart
    <3> QED
      BY <1>5, <2>2, <3>1 DEF kChunkHeaderSize
  <2>4. ~(k < i)
    <3>1. k < i => StartOf(f, k) + kChunkHeaderSize + f.chunks[k].size <= StartOf(f, i)
      BY <1>4, <2>1, StartsApart
    <3> QED
      BY <1>5, <2>2, <3>1 DEF kChunkHeaderSize
  <2> QED
    BY <1>1, <1>4, <2>3, <2>4
<1>6. {i \in DOMAIN f.chunks : StartOf(f, i) = StartOf(f, k)} = {k}
  BY <1>1, <1>4, <1>5
<1> QED
  BY <1>4, <1>6 DEF HeadersAt

(* Among the chunks before k, chunk i is the first with the tag. *)
FirstBefore(f, k, tag, i) ==
  /\ i \in 1..(k - 1) /\ f.chunks[i].tag = tag
  /\ \A j \in 1..(k - 1) : f.chunks[j].tag = tag => i <= j

(* What the decoder keeps of a chunk, *)
Kept(f, tag, i) ==
  IF tag = "fmt" THEN f.chunks[i].wav
  ELSE [at |-> StartOf(f, i) + kChunkHeaderSize, size |-> f.chunks[i].size]

(* and has of the first with the tag before k, or nothing if there is none. *)
Found(f, k, tag, what) ==
  IF what = {} THEN \A i \in 1..(k - 1) : f.chunks[i].tag # tag
  ELSE \E i \in 1..(k - 1) : FirstBefore(f, k, tag, i) /\ what = {Kept(f, tag, i)}

LEMMA FoundNext ==
  ASSUME NEW f, NEW k \in Nat \ {0}, NEW tag, NEW what, Found(f, k, tag, what),
         NEW next,
         next = IF f.chunks[k].tag = tag /\ what = {} THEN {Kept(f, tag, k)} ELSE what
  PROVE  Found(f, k + 1, tag, next)
<1>1. \A i : i \in 1..((k + 1) - 1) <=> i \in 1..(k - 1) \/ i = k
  OBVIOUS
<1>2. CASE f.chunks[k].tag = tag /\ what = {}
  <2>1. FirstBefore(f, k + 1, tag, k)
    BY <1>1, <1>2 DEF FirstBefore, Found
  <2> QED
    BY <1>1, <1>2, <2>1 DEF Found
<1>3. CASE f.chunks[k].tag # tag /\ what = {}
  BY <1>1, <1>3 DEF Found
<1>4. CASE what # {}
  <2>1. PICK i \in 1..(k - 1) : FirstBefore(f, k, tag, i) /\ what = {Kept(f, tag, i)}
    BY <1>4 DEF Found
  <2>2. FirstBefore(f, k + 1, tag, i)
    BY <1>1, <2>1 DEF FirstBefore
  <2> QED
    BY <1>1, <1>4, <2>1, <2>2 DEF Found
<1> QED
  BY <1>2, <1>3, <1>4

(* The walk is at chunk k of the file: the ones before are whole, and the  *)
(* first format and the first data of them have been found.                *)
Reached(f, k) ==
  /\ k \in 1..(Len(f.chunks) + 1) /\ pos = StartOf(f, k)
  /\ f.isWave /\ f.riffSize >= 4 /\ f.riffSize + 8 <= f.size
  /\ \A i \in 1..(k - 1) :
       StartOf(f, i) + kChunkHeaderSize + f.chunks[i].size <= f.riffSize + 8
  /\ Found(f, k, "fmt", format) /\ Found(f, k, "data", data)
  /\ \A i : FirstBefore(f, k, "fmt", i) => ParsesFmt(f.chunks[i])

(* It is at the end. *)
Walked(f, k) == Reached(f, k) /\ ~(pos + kChunkHeaderSize <= f.riffSize + 8)

WalkInv ==
  /\ step = "walk" => \E f \in Files, k \in Nat : file = {f} /\ Reached(f, k)
  /\ step = "samples" =>
       /\ \E f \in Files, k \in Nat : file = {f} /\ Walked(f, k)
       /\ \E wav \in format, chunk \in data : Verdict(wav, chunk.size) = "ok"
  /\ DecodesWhatWasWritten

(* At the end the first of the chunks before are the first of the file.    *)
LEMMA AtTheEnd ==
  ASSUME NEW f \in Files, NEW k \in Nat, Walked(f, k)
  PROVE  /\ Whole(f)
         /\ \A tag, i : i \in FirstOf(f, tag) <=> FirstBefore(f, k, tag, i)
<1>1. /\ Len(f.chunks) \in Nat /\ DOMAIN f.chunks = 1..Len(f.chunks)
      /\ \A i \in 1..Len(f.chunks) : f.chunks[i].size \in Nat
      /\ \A i \in 1..(Len(f.chunks) + 1) : StartOf(f, i) \in Nat
  BY Starts DEF Chunk
<1>2. f.riffSize \in Nat
  BY WavDecoderAssumption DEF WavDecoderAssumption
<1>3. /\ k \in 1..(Len(f.chunks) + 1)
      /\ ~(StartOf(f, k) + kChunkHeaderSize <= f.riffSize + 8)
      /\ f.isWave /\ f.riffSize >= 4 /\ f.riffSize + 8 <= f.size
      /\ \A i \in 1..(k - 1) :
           StartOf(f, i) + kChunkHeaderSize + f.chunks[i].size <= f.riffSize + 8
  BY DEF Walked, Reached
<1>4. ASSUME NEW i \in 1..(k - 1) PROVE i \in Visible(f)
  <2>1. i \in 1..Len(f.chunks) /\ i \in 1..(Len(f.chunks) + 1)
    BY <1>1, <1>3
  <2>2. StartOf(f, i) + kChunkHeaderSize <= f.riffSize + 8
    <3>1. StartOf(f, i) \in Nat /\ f.chunks[i].size \in Nat
      BY <1>1, <2>1
    <3>2. StartOf(f, i) + kChunkHeaderSize + f.chunks[i].size <= f.riffSize + 8
      BY <1>3
    <3>3. \A a, b, c \in Nat : a + kChunkHeaderSize + b <= c => a + kChunkHeaderSize <= c
      BY DEF kChunkHeaderSize
    <3>4. f.riffSize + 8 \in Nat
      BY <1>2
    <3> QED
      BY <3>1, <3>2, <3>3, <3>4, Zenon
  <2> QED
    BY <1>1, <2>1, <2>2 DEF Visible
<1>5. ASSUME NEW i \in Visible(f) PROVE i \in 1..(k - 1)
  <2>1. i \in 1..Len(f.chunks) /\ StartOf(f, i) + kChunkHeaderSize <= f.riffSize + 8
    BY <1>1 DEF Visible
  <2>2. i \in 1..(Len(f.chunks) + 1) /\ StartOf(f, i) \in Nat /\ StartOf(f, k) \in Nat
    BY <1>1, <1>3, <2>1
  <2>3. i # k
    BY <1>3, <2>1
  <2>4. ~(k < i)
    <3>1. ASSUME k < i PROVE FALSE
      <4>1. k \in 1..Len(f.chunks)
        BY <1>1, <1>3, <2>1, <3>1
      <4>2. StartOf(f, k) + kChunkHeaderSize + f.chunks[k].size <= StartOf(f, i)
        BY <2>2, <3>1, <4>1, StartsApart
      <4>3. f.chunks[k].size \in Nat
        BY <1>1, <4>1
      <4>4. \A a, b, c, d \in Nat :
              a + kChunkHeaderSize + b <= c /\ c + kChunkHeaderSize <= d
                => a + kChunkHeaderSize <= d
        BY DEF kChunkHeaderSize
      <4>5. f.riffSize + 8 \in Nat
        BY <1>2
      <4> QED
        BY <1>3, <2>1, <2>2, <4>2, <4>3, <4>4, <4>5, Zenon
    <3> QED
      BY <3>1
  <2> QED
    BY <1>1, <1>3, <2>1, <2>3, <2>4
<1>6. Visible(f) = 1..(k - 1)
  BY <1>4, <1>5
<1>7. Whole(f)
  BY <1>3, <1>6 DEF Whole
<1>8. \A tag, i : i \in FirstOf(f, tag) <=> FirstBefore(f, k, tag, i)
  BY <1>6 DEF FirstOf, FirstBefore
<1> QED
  BY <1>7, <1>8

(* The file makes an asset. *)
Makes(f) ==
  Whole(f) /\ \E i \in FirstOf(f, "fmt"), j \in FirstOf(f, "data") : MakeAsset(f, i, j)

(* What the decoder has at the end is all there is to decide it. *)
LEMMA AllThereIs ==
  ASSUME NEW f \in Files, NEW k \in Nat, Walked(f, k)
  PROVE  /\ Makes(f) =>
              /\ format # {} /\ data # {}
              /\ \A wav \in format, chunk \in data :
                   /\ Verdict(wav, chunk.size) = "ok"
                   /\ f.finite \/ Encoding(wav) # "float"
         /\ \A i \in FirstOf(f, "fmt") : format = {f.chunks[i].wav}
         /\ \A j \in FirstOf(f, "data") :
              data = {[at |-> StartOf(f, j) + kChunkHeaderSize, size |-> f.chunks[j].size]}
         /\ (\E wav \in format, chunk \in data :
               /\ Verdict(wav, chunk.size) = "ok"
               /\ f.finite \/ Encoding(wav) # "float") => Makes(f)
<1>1. Whole(f) /\ \A tag, i : i \in FirstOf(f, tag) <=> FirstBefore(f, k, tag, i)
  BY AtTheEnd
<1>2. /\ Found(f, k, "fmt", format) /\ Found(f, k, "data", data)
      /\ \A i : FirstBefore(f, k, "fmt", i) => ParsesFmt(f.chunks[i])
      /\ k \in 1..(Len(f.chunks) + 1)
  BY DEF Walked, Reached
<1>3. ASSUME NEW tag, NEW what, Found(f, k, tag, what), NEW i \in FirstOf(f, tag)
      PROVE  what = {Kept(f, tag, i)}
  <2>1. FirstBefore(f, k, tag, i)
    BY <1>1
  <2>2. what # {}
    BY <1>3, <2>1 DEF Found, FirstBefore
  <2>3. PICK j \in 1..(k - 1) : FirstBefore(f, k, tag, j) /\ what = {Kept(f, tag, j)}
    BY <1>3, <2>2 DEF Found
  <2>4. i = j
    BY <1>2, <2>1, <2>3 DEF FirstBefore
  <2> QED
    BY <2>3, <2>4
<1>5. \A i \in FirstOf(f, "fmt") : format = {f.chunks[i].wav}
  BY <1>2, <1>3 DEF Kept
<1>6. \A j \in FirstOf(f, "data") :
        data = {[at |-> StartOf(f, j) + kChunkHeaderSize, size |-> f.chunks[j].size]}
  <2>1. "data" # "fmt"
    OBVIOUS
  <2> QED
    BY <1>2, <1>3, <2>1 DEF Kept
<1>7. ASSUME Makes(f)
      PROVE  /\ format # {} /\ data # {}
             /\ \A wav \in format, chunk \in data :
                  /\ Verdict(wav, chunk.size) = "ok"
                  /\ f.finite \/ Encoding(wav) # "float"
  <2>1. PICK i \in FirstOf(f, "fmt"), j \in FirstOf(f, "data") : MakeAsset(f, i, j)
    BY <1>7 DEF Makes
  <2> DEFINE d == [at |-> StartOf(f, j) + kChunkHeaderSize, size |-> f.chunks[j].size]
  <2>2. format = {f.chunks[i].wav} /\ data = {d} /\ d.size = f.chunks[j].size
    BY <1>5, <1>6
  <2> HIDE DEF d
  <2> QED
    BY <2>1, <2>2 DEF MakeAsset
<1>8. ASSUME NEW wav \in format, NEW chunk \in data, Verdict(wav, chunk.size) = "ok",
             f.finite \/ Encoding(wav) # "float"
      PROVE  Makes(f)
  <2>1. PICK i \in 1..(k - 1) : FirstBefore(f, k, "fmt", i)
    BY <1>2 DEF Found
  <2>2. PICK j \in 1..(k - 1) : FirstBefore(f, k, "data", j)
    BY <1>2 DEF Found
  <2>3. i \in FirstOf(f, "fmt") /\ j \in FirstOf(f, "data") /\ ParsesFmt(f.chunks[i])
    BY <1>1, <1>2, <2>1, <2>2
  <2> DEFINE d == [at |-> StartOf(f, j) + kChunkHeaderSize, size |-> f.chunks[j].size]
  <2>4. format = {f.chunks[i].wav} /\ data = {d} /\ d.size = f.chunks[j].size
    BY <1>5, <1>6, <2>3
  <2> HIDE DEF d
  <2>5. wav = f.chunks[i].wav /\ chunk.size = f.chunks[j].size
    BY <2>4
  <2>6. MakeAsset(f, i, j)
    BY <1>8, <2>3, <2>5 DEF MakeAsset
  <2> QED
    BY <1>1, <2>3, <2>6 DEF Makes
<1> QED
  BY <1>5, <1>6, <1>7, <1>8

(* DecodesWhatWasWritten of a step that ends the decoding without an asset, *)
LEMMA Refused ==
  ASSUME NEW f \in Files, file' = {f}, outcome' # "asset", ~Makes(f)
  PROVE  DecodesWhatWasWritten'
BY DEF DecodesWhatWasWritten, Makes

(* and of one that does not end it. *)
LEMMA NotYet ==
  ASSUME step' # "done" PROVE DecodesWhatWasWritten'
BY DEF DecodesWhatWasWritten

(* The RIFF header is refused if there is no file for it; or the walk is   *)
(* at the first chunk.                                                     *)
LEMMA WalkBegins ==
  ASSUME NEW f \in Files, LoadBegins(f)
  PROVE  WalkInv'
<1> USE DEF LoadBegins, DecodeBegins, Fails
<1>1. f.size \in Nat /\ f.riffSize \in Nat
  BY WavDecoderAssumption DEF WavDecoderAssumption
<1>2. file' = {f} /\ step' \in {"walk", "done"}
  OBVIOUS
<1>3. CASE step' = "done"
  <2>1. outcome' # "asset"
    BY <1>3
  <2>2. ~Whole(f)
    BY <1>1, <1>3 DEF Whole, kRiffHeaderSize
  <2>3. DecodesWhatWasWritten'
    BY <1>2, <2>1, <2>2, Refused DEF Makes
  <2> QED
    BY <1>3, <2>3 DEF WalkInv
<1>4. CASE step' = "walk"
  <2>1. /\ pos' = kRiffHeaderSize /\ format' = {} /\ data' = {} /\ f.isWave
        /\ f.riffSize >= 4 /\ f.riffSize + 8 <= f.size
    BY <1>1, <1>4
  <2>2. Len(f.chunks) \in Nat /\ StartOf(f, 1) = kRiffHeaderSize
    BY Starts
  <2>3. 1..(1 - 1) = {} /\ 1 \in Nat /\ 1 \in 1..(Len(f.chunks) + 1)
    BY <2>2
  <2>4. Reached(f, 1)'
    BY <2>1, <2>2, <2>3 DEF Reached, Found, FirstBefore
  <2> QED
    BY <1>2, <1>4, <2>3, <2>4, NotYet DEF WalkInv
<1> QED
  BY <1>2, <1>3, <1>4

(* The walk goes from one chunk to the next, or ends at one that is cut or *)
(* a first format that is too short.                                       *)
LEMMA WalkGoesOn ==
  ASSUME DecoderInv, WalkInv, WalkChunk
  PROVE  WalkInv'
<1>1. PICK f \in Files, k \in Nat : file = {f} /\ Reached(f, k)
  BY DEF WalkChunk, WalkInv
<1>2. TheFile = f /\ End = f.riffSize + 8 /\ f.size \in Nat /\ f.riffSize \in Nat
  BY <1>1, FileLoaded
<1>3. /\ k \in 1..(Len(f.chunks) + 1) /\ pos = StartOf(f, k)
      /\ f.isWave /\ f.riffSize >= 4 /\ f.riffSize + 8 <= f.size
      /\ \A i \in 1..(k - 1) :
           StartOf(f, i) + kChunkHeaderSize + f.chunks[i].size <= f.riffSize + 8
      /\ Found(f, k, "fmt", format) /\ Found(f, k, "data", data)
      /\ \A i : FirstBefore(f, k, "fmt", i) => ParsesFmt(f.chunks[i])
  BY <1>1 DEF Reached
<1>4. pos + kChunkHeaderSize <= f.riffSize + 8 /\ file' = file
  BY <1>2 DEF WalkChunk, HasHeader
<1> DEFINE body == pos + kChunkHeaderSize
           fits(h) == h.size <= End - body
           isFormat(h) == fits(h) /\ h.tag = "fmt" /\ format = {}
           isData(h) == fits(h) /\ h.tag = "data" /\ data = {}
           bad(h) == ~fits(h) \/ (isFormat(h) /\ ~ParsesFmt(h))
<1>5. PICK header \in HeadersAt(f, pos) :
        /\ format' = IF isFormat(header) /\ ~bad(header) THEN {header.wav} ELSE format
        /\ data' = IF isData(header) THEN {[at |-> body, size |-> header.size]} ELSE data
        /\ IF bad(header)
           THEN Fails("kInvalidArgument") /\ pos' = pos
           ELSE pos' = After(body, header.size) /\ UNCHANGED <<step, outcome>>
  BY <1>2 DEF WalkChunk
<1>6. pos \in Nat /\ pos + kChunkHeaderSize <= f.size
  <2>1. StartOf(f, k) \in Nat
    BY <1>3, Starts
  <2> QED
    BY <1>2, <1>3, <1>4, <2>1 DEF kChunkHeaderSize
<1>7. k \in 1..Len(f.chunks) /\ header = f.chunks[k]
  BY <1>3, <1>6, HeaderIs
<1>8. /\ Len(f.chunks) \in Nat /\ DOMAIN f.chunks = 1..Len(f.chunks)
      /\ header \in Chunk /\ header.size \in Nat
      /\ StartOf(f, k + 1) = StartOf(f, k) + kChunkHeaderSize + Padded(header.size)
  BY <1>7, Starts DEF Chunk
<1>9. k \in Visible(f)
  BY <1>3, <1>4, <1>7, <1>8 DEF Visible
<1>10. fits(header) <=> pos + kChunkHeaderSize + header.size <= f.riffSize + 8
  BY <1>2, <1>6, <1>8 DEF kChunkHeaderSize
<1>11. CASE bad(header)
  <2>1. step' = "done" /\ outcome' # "asset"
    BY <1>5, <1>11 DEF Fails
  <2>2. ~Makes(f)
    <3>1. CASE ~fits(header)
      BY <1>3, <1>7, <1>9, <1>10, <3>1 DEF Makes, Whole
    <3>2. CASE isFormat(header) /\ ~ParsesFmt(header)
      <4>1. \A i \in 1..(k - 1) : f.chunks[i].tag # "fmt"
        BY <1>3, <3>2 DEF Found
      <4>2. ASSUME NEW i \in FirstOf(f, "fmt") PROVE i = k
        <5>1. i \in 1..Len(f.chunks) /\ f.chunks[i].tag = "fmt" /\ i <= k
          BY <1>7, <1>8, <1>9, <3>2 DEF FirstOf, Visible
        <5> QED
          BY <1>7, <1>8, <4>1, <5>1
      <4> QED
        BY <1>7, <3>2, <4>2 DEF Makes, MakeAsset
    <3> QED
      BY <1>11, <3>1, <3>2
  <2>3. DecodesWhatWasWritten'
    BY <1>1, <1>4, <2>1, <2>2, Refused
  <2> QED
    BY <2>1, <2>3 DEF WalkInv
<1>12. CASE ~bad(header)
  <2>1. /\ fits(header) /\ step' = "walk"
        /\ format' = IF header.tag = "fmt" /\ format = {} THEN {header.wav} ELSE format
        /\ data' = IF header.tag = "data" /\ data = {}
                   THEN {[at |-> body, size |-> header.size]} ELSE data
        /\ pos' = After(body, header.size)
        /\ header.tag = "fmt" /\ format = {} => ParsesFmt(header)
    BY <1>5, <1>12 DEF WalkChunk
  <2>2. k \in Nat \ {0} /\ k + 1 \in 1..(Len(f.chunks) + 1) /\ (k + 1) - 1 = k
        /\ \A i : i \in 1..k <=> i \in 1..(k - 1) \/ i = k
    BY <1>7, <1>8
  <2>3. pos' = StartOf(f, k + 1)
    BY <1>3, <1>8, <2>1 DEF After
  <2>4. \A i \in 1..k :
          StartOf(f, i) + kChunkHeaderSize + f.chunks[i].size <= f.riffSize + 8
    BY <1>3, <1>7, <1>10, <2>1, <2>2
  <2>5. Kept(f, "fmt", k) = header.wav
        /\ Kept(f, "data", k) = [at |-> body, size |-> header.size]
    BY <1>3, <1>7 DEF Kept
  <2>6. Found(f, k + 1, "fmt", format')
    BY <1>3, <1>7, <2>1, <2>2, <2>5, FoundNext
  <2>7. Found(f, k + 1, "data", data')
    BY <1>3, <1>7, <2>1, <2>2, <2>5, FoundNext
  <2>8. ASSUME NEW i, FirstBefore(f, k + 1, "fmt", i) PROVE ParsesFmt(f.chunks[i])
    <3>1. i \in 1..k /\ f.chunks[i].tag = "fmt"
          /\ \A j \in 1..k : f.chunks[j].tag = "fmt" => i <= j
      BY <2>2, <2>8 DEF FirstBefore
    <3>2. CASE i \in 1..(k - 1)
      <4>1. FirstBefore(f, k, "fmt", i)
        BY <2>2, <3>1, <3>2 DEF FirstBefore
      <4> QED
        BY <1>3, <4>1
    <3>3. CASE i = k
      <4>1. \A j \in 1..(k - 1) : f.chunks[j].tag # "fmt"
        BY <2>2, <3>1, <3>3
      <4>2. format = {}
        BY <1>3, <4>1 DEF Found, FirstBefore
      <4> QED
        BY <1>7, <2>1, <3>1, <3>3, <4>2
    <3> QED
      BY <2>2, <3>1, <3>2, <3>3
  <2>9. Reached(f, k + 1)'
    BY <1>3, <2>2, <2>3, <2>4, <2>6, <2>7, <2>8 DEF Reached
  <2>10. k + 1 \in Nat
    BY <2>2
  <2> QED
    BY <1>1, <1>4, <2>1, <2>9, <2>10, NotYet DEF WalkInv
<1> QED
  BY <1>11, <1>12

(* At the end of the walk there is no format, or no data, or they do not   *)
(* pass: no asset can be made.                                             *)
LEMMA WalkIsOver ==
  ASSUME DecoderInv, WalkInv, WalkEnds
  PROVE  WalkInv'
<1>1. PICK f \in Files, k \in Nat : file = {f} /\ Reached(f, k)
  BY DEF WalkEnds, WalkInv
<1>2. TheFile = f /\ End = f.riffSize + 8
  BY <1>1, FileLoaded
<1>3. Walked(f, k)
  BY <1>1, <1>2 DEF WalkEnds, HasHeader, Walked
<1>4. UNCHANGED <<file, pos, format, data>>
  BY DEF WalkEnds
<1>5. Makes(f) => /\ format # {} /\ data # {}
                  /\ \A wav \in format, chunk \in data : Verdict(wav, chunk.size) = "ok"
  BY <1>3, AllThereIs
<1>6. outcome # "asset"
  BY DEF WalkEnds, DecoderInv, FileInv
<1>7. CASE format = {} \/ data = {}
  <2>1. step' = "done" /\ outcome' # "asset" /\ ~Makes(f)
    BY <1>5, <1>7 DEF WalkEnds, Fails
  <2>2. DecodesWhatWasWritten'
    BY <1>1, <1>4, <2>1, Refused
  <2> QED
    BY <2>1, <2>2 DEF WalkInv
<1>8. CASE ~(format = {} \/ data = {})
  <2>1. PICK wav \in format, chunk \in data :
          IF Verdict(wav, chunk.size) = "ok" THEN step' = "samples" /\ UNCHANGED outcome
          ELSE Fails(Verdict(wav, chunk.size))
    BY <1>8 DEF WalkEnds
  <2>2. CASE Verdict(wav, chunk.size) = "ok"
    <3>1. step' = "samples"
      BY <2>1, <2>2
    <3>2. Walked(f, k)'
      BY <1>3, <1>4 DEF Walked, Reached
    <3>3. \E w \in format', c \in data' : Verdict(w, c.size) = "ok"
      BY <1>4, <2>2
    <3> QED
      BY <1>1, <1>4, <3>1, <3>2, <3>3, NotYet DEF WalkInv
  <2>3. CASE Verdict(wav, chunk.size) # "ok"
    <3>1. Verdict(wav, chunk.size) # "asset"
      BY DEF Verdict
    <3>2. step' = "done" /\ outcome' # "asset" /\ ~Makes(f)
      BY <1>5, <2>1, <2>3, <3>1 DEF Fails
    <3>3. DecodesWhatWasWritten'
      BY <1>1, <1>4, <3>2, Refused
    <3> QED
      BY <3>2, <3>3 DEF WalkInv
  <2> QED
    BY <2>2, <2>3
<1> QED
  BY <1>7, <1>8

(* The samples make the asset, unless one of them is not finite. *)
LEMMA SamplesRead ==
  ASSUME DecoderInv, WalkInv, ReadSamples
  PROVE  WalkInv'
<1>1. PICK f \in Files, k \in Nat : file = {f} /\ Walked(f, k)
  BY DEF ReadSamples, WalkInv
<1>2. TheFile = f
  BY <1>1, FileLoaded
<1>3. step' = "done" /\ UNCHANGED <<file, pos, format, data>>
  BY DEF ReadSamples
<1>4. PICK wav \in format, chunk \in data : Verdict(wav, chunk.size) = "ok"
  BY DEF ReadSamples, WalkInv
<1>5. /\ Makes(f) => \A w \in format : f.finite \/ Encoding(w) # "float"
      /\ (f.finite \/ Encoding(wav) # "float") => Makes(f)
  <2>1. Makes(f) => \A w \in format, c \in data : f.finite \/ Encoding(w) # "float"
    BY <1>1, AllThereIs
  <2>2. (f.finite \/ Encoding(wav) # "float") => Makes(f)
    BY <1>1, <1>4, AllThereIs
  <2> QED
    BY <1>4, <2>1, <2>2
<1>6. /\ outcome' = "asset" => \A w \in format : f.finite \/ Encoding(w) # "float"
      /\ (\A w \in format : f.finite \/ Encoding(w) # "float") => outcome' = "asset"
  BY <1>2 DEF ReadSamples
<1>7. outcome' = "asset" <=> Makes(f)
  BY <1>4, <1>5, <1>6
<1>8. /\ \A i \in FirstOf(f, "fmt") : format' = {f.chunks[i].wav}
      /\ \A j \in FirstOf(f, "data") :
           data' = {[at |-> StartOf(f, j) + kChunkHeaderSize, size |-> f.chunks[j].size]}
  BY <1>1, <1>3, AllThereIs
<1>9. DecodesWhatWasWritten'
  BY <1>1, <1>3, <1>7, <1>8 DEF DecodesWhatWasWritten, Makes
<1> QED
  BY <1>3, <1>9 DEF WalkInv

LEMMA WalkStep ==
  ASSUME LoadingInv, WalkInv, [Next]_vars
  PROVE  WalkInv'
<1>1. ASSUME UNCHANGED decoderVars PROVE WalkInv'
  BY <1>1 DEF WalkInv, decoderVars, DecodesWhatWasWritten, Walked, Reached
<1>2. ASSUME NEW f \in Files, LoadBegins(f) PROVE WalkInv'
  BY <1>2, WalkBegins
<1>3. CASE LoadFails
  BY <1>1, <1>3 DEF LoadFails
<1>4. CASE Decodes
  BY <1>4, WalkGoesOn, WalkIsOver, SamplesRead DEF Decodes, DecodeStep, LoadingInv
<1>5. CASE Prepares
  BY <1>5 DEF Prepares, WalkInv, DecodesWhatWasWritten
<1>6. CASE Device \/ UNCHANGED vars
  BY <1>1, <1>6 DEF Device, vars
<1> QED
  BY <1>2, <1>3, <1>4, <1>5, <1>6 DEF Next, NoRate, FileUnreadable, FileTooLarge

-----------------------------------------------------------------------------
(* The theorems about loading.                                             *)

(* Whatever the sizes in a file are and wherever it is cut off, the decoder *)
(* reads nothing beyond its end, or the end that its RIFF header states.   *)
THEOREM DecoderReadsInside == Spec => []ReadsInside
<1>1. LoadingInv => ReadsInside
  BY DEF LoadingInv, DecoderInv, ReadInv
<1> QED
  BY <1>1, LoadingInvariant, PTL

(* An asset is prepared for the rate of the device, as long as the file to *)
(* half a frame, and every frame of it is where its time is.               *)
THEOREM AssetsPreparedForDevice == Spec => []PreparedForDevice
<1>1. LoadingInv => PreparedForDevice
  BY DEF LoadingInv
<1> QED
  BY <1>1, LoadingInvariant, PTL

(* Loading between its calls leaves the device as whole as any caller does. *)
THEOREM DeviceIntactWhileLoading == Spec => []DeviceIntact
<1>1. LoadingInv => DeviceIntact
  BY DeviceInvSuffices DEF LoadingInv
<1> QED
  BY <1>1, LoadingInvariant, PTL

(* A file is decoded exactly if it is whole and its first format and its   *)
(* first data make an asset, and it is they that are decoded: the walk is  *)
(* never out of step with the chunks.                                      *)
THEOREM DecodedAsWritten == Spec => []DecodesWhatWasWritten
<1>1. Init => LoadingInv /\ WalkInv
  BY LoadingInitially DEF Init, DecoderInit, WalkInv, DecodesWhatWasWritten
<1>2. LoadingInv /\ WalkInv /\ [Next]_vars => LoadingInv' /\ WalkInv'
  BY LoadingStep, WalkStep
<1>3. WalkInv => DecodesWhatWasWritten
  BY DEF WalkInv
<1> QED
  BY <1>1, <1>2, <1>3, PTL DEF Spec
=============================================================================
