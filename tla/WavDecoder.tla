----------------------------- MODULE WavDecoder -----------------------------
(***************************************************************************)
(* Decoding a WAV file.  A file is what its writer laid out: chunks one    *)
(* after the other, each with a header of a tag and a size and, if the     *)
(* size is odd, a byte of padding; the size the RIFF header states; and    *)
(* the size the file has, which may be less.  A place that is not the      *)
(* start of a chunk, if the decoder were to read a header there, could     *)
(* hold anything.                                                          *)
(*                                                                         *)
(* A step is one turn of the walk over the chunks.  A fault that a         *)
(* property catches stands before the definition it varies.                *)
(***************************************************************************)
EXTENDS Integers, Sequences

CONSTANTS
  Formats,                \* what a 'fmt ' chunk can say
  Files,                  \* the files that are decoded
  kMaxAssetSampleRateHz,
  MaxFrames               \* max_frames of the decoder

kRiffHeaderSize == 12
kChunkHeaderSize == 8
kMinFmtSize == 16
kExtensibleFmtSize == 40
kMaxAssetChannels == 2

Padded(size) == size + (size % 2)

(* Where chunk i begins; one more than the last is where the chunks end.   *)
StartOf(f, i) ==
  LET end[n \in 0..Len(f.chunks)] ==
        IF n = 0 THEN kRiffHeaderSize
        ELSE end[n - 1] + kChunkHeaderSize + Padded(f.chunks[n].size)
  IN  end[i - 1]

Chunk == [tag: {"fmt", "data", "other"}, size: Nat, wav: Formats]

(* The numbers in a file are unsigned, and what is in it are its chunks:   *)
(* whatever bytes there are after some, they are more chunks, the last of  *)
(* them cut off.                                                           *)
ASSUME WavDecoderAssumption ==
  /\ \A wav \in Formats : {wav.channels, wav.rate, wav.align, wav.bits} \subseteq Nat
  /\ \A f \in Files :
       /\ {f.size, f.riffSize} \subseteq Nat
       /\ f.chunks \in Seq(Chunk)
       /\ f.size <= StartOf(f, Len(f.chunks) + 1)

VARIABLES
  step,      \* where the decoder is, or "idle"
  file,      \* the file, or {}
  pos,       \* the place of the next header
  format,    \* the format found, or {}
  data,      \* the data chunk found, or {}
  outcome,   \* what DecodeWav returned: an asset or an error
  read       \* history: the last byte read, and one more

decoderVars == <<step, file, pos, format, data, outcome, read>>

DecoderInit ==
  /\ step = "idle" /\ file = {} /\ pos = 0 /\ format = {} /\ data = {}
  /\ outcome = "none" /\ read = 0

-----------------------------------------------------------------------------
(* The file. *)

Anything == [tag: {"fmt", "data", "other"}, size: {0, kExtensibleFmtSize}, wav: Formats]

HeadersAt(f, p) ==
  LET here == {i \in DOMAIN f.chunks : StartOf(f, i) = p}
  IN  IF here = {} THEN Anything ELSE {f.chunks[i] : i \in here}

-----------------------------------------------------------------------------
(* DecodeWav. *)

Fails(code) == outcome' = code /\ step' = "done"

DecodeBegins(f) ==
  /\ file' = {f}
  /\ pos' = kRiffHeaderSize /\ format' = {} /\ data' = {}
  /\ read' = IF f.size < kRiffHeaderSize THEN 0 ELSE kRiffHeaderSize
  /\ \/ /\ f.size < kRiffHeaderSize \/ ~f.isWave
        /\ Fails("kUnsupportedFormat")
     \/ /\ f.size >= kRiffHeaderSize /\ f.isWave
        /\ f.riffSize > f.size - 8 \/ f.riffSize < 4
        /\ Fails("kInvalidArgument")
     \/ /\ f.size >= kRiffHeaderSize /\ f.isWave
        /\ f.riffSize <= f.size - 8 /\ f.riffSize >= 4
        /\ step' = "walk" /\ outcome' = "none"

TheFile == CHOOSE f \in file : TRUE

End == TheFile.riffSize + 8

HasHeaderAtAll == pos < End

HasHeader == pos + kChunkHeaderSize <= End

(* ParseFmt: whether the chunk is large enough, and the bytes it looks at. *)
ParsesFmt(chunk) ==
  chunk.size >= IF chunk.wav.tag = "extensible" THEN kExtensibleFmtSize ELSE kMinFmtSize

FmtBytes(chunk) ==
  IF chunk.size < kMinFmtSize THEN 0
  ELSE IF chunk.wav.tag = "extensible" /\ ParsesFmt(chunk) THEN 26
  ELSE kMinFmtSize

AfterUnpadded(body, size) == body + size

(* The next header: odd chunks are padded. *)
After(body, size) == body + Padded(size)

WalkChunk ==
  /\ step = "walk" /\ HasHeader
  /\ \E header \in HeadersAt(TheFile, pos) :
       LET body == pos + kChunkHeaderSize
           fits == header.size <= End - body
           isFormat == fits /\ header.tag = "fmt" /\ format = {}
           isData == fits /\ header.tag = "data" /\ data = {}
           bad == ~fits \/ (isFormat /\ ~ParsesFmt(header))
       IN  /\ read' = body + (IF isFormat THEN FmtBytes(header) ELSE 0)
           /\ format' = IF isFormat /\ ~bad THEN {header.wav} ELSE format
           /\ data' = IF isData THEN {[at |-> body, size |-> header.size]} ELSE data
           /\ IF bad
              THEN Fails("kInvalidArgument") /\ pos' = pos
              ELSE pos' = After(body, header.size) /\ UNCHANGED <<step, outcome>>
  /\ UNCHANGED file

FrameBytes(wav) == wav.channels * (wav.bits \div 8)

Encoding(wav) == IF wav.tag = "extensible" THEN wav.subTag ELSE wav.tag

Supported(wav) ==
  \/ Encoding(wav) = "pcm" /\ wav.bits \in {8, 16, 24, 32}
  \/ Encoding(wav) = "float" /\ wav.bits = 32

(* The checks in their order; what the first that fails returns. *)
Verdict(wav, bytes) ==
  CASE wav.channels = 0 -> "kInvalidArgument"
    [] wav.channels > kMaxAssetChannels -> "kUnsupportedFormat"
    [] wav.channels \in 1..kMaxAssetChannels /\ wav.rate \notin 1..kMaxAssetSampleRateHz ->
         "kInvalidArgument"
    [] OTHER ->
         IF ~Supported(wav) THEN "kUnsupportedFormat"
         ELSE IF wav.align # FrameBytes(wav) THEN "kInvalidArgument"
         ELSE IF bytes % FrameBytes(wav) # 0 \/ bytes = 0 THEN "kInvalidArgument"
         ELSE IF bytes \div FrameBytes(wav) > MaxFrames THEN "kResourceExhausted"
         ELSE "ok"

WalkEnds ==
  /\ step = "walk" /\ ~HasHeader
  /\ IF format = {} \/ data = {}
     THEN Fails("kInvalidArgument")
     ELSE \E wav \in format, chunk \in data :
            LET verdict == Verdict(wav, chunk.size)
            IN  IF verdict = "ok" THEN step' = "samples" /\ UNCHANGED outcome
                ELSE Fails(verdict)
  /\ UNCHANGED <<file, pos, format, data, read>>

(* A float that is not finite ends it. *)
ReadSamples ==
  /\ step = "samples"
  /\ \E chunk \in data : read' = chunk.at + chunk.size
  /\ outcome' = IF ~TheFile.finite /\ \E wav \in format : Encoding(wav) = "float"
                THEN "kInvalidArgument" ELSE "asset"
  /\ step' = "done"
  /\ UNCHANGED <<file, pos, format, data>>

DecodeStep == WalkChunk \/ WalkEnds \/ ReadSamples

(* AudioAsset::Create, with what was decoded; its checks were made above.  *)
Decoded ==
  CHOOSE asset \in [frames: 1..MaxFrames, channels: 1..kMaxAssetChannels,
                    rate: 1..kMaxAssetSampleRateHz] :
    \E wav \in format, chunk \in data :
      /\ asset.frames * FrameBytes(wav) = chunk.size
      /\ asset.channels = wav.channels /\ asset.rate = wav.rate

-----------------------------------------------------------------------------
(* Properties. *)

(* The decoder reads inside the file, and inside the part of it that the   *)
(* RIFF header states: no header, format or sample beyond the end, however *)
(* the sizes in the file are made up and wherever it is cut off.           *)
ReadsInside ==
  \A f \in file :
    read <= f.size /\ (step # "idle" /\ outcome # "kUnsupportedFormat"
                       /\ f.riffSize <= f.size - 8 /\ f.riffSize >= 4 => read <= f.riffSize + 8)

(* What the writer laid out: the chunks whose headers are within the end,  *)
(* none of them cut, and of those with a tag the first.                    *)
Visible(f) == {i \in DOMAIN f.chunks : StartOf(f, i) + kChunkHeaderSize <= f.riffSize + 8}

FirstOf(f, tag) ==
  {i \in Visible(f) :
     /\ f.chunks[i].tag = tag
     /\ \A j \in Visible(f) : f.chunks[j].tag = tag => i <= j}

Whole(f) ==
  /\ f.isWave /\ f.riffSize >= 4 /\ f.riffSize + 8 <= f.size
  /\ \A i \in Visible(f) : StartOf(f, i) + kChunkHeaderSize + f.chunks[i].size <= f.riffSize + 8

(* The first format and the first data make an asset. *)
MakeAsset(f, i, j) ==
  /\ ParsesFmt(f.chunks[i])
  /\ Verdict(f.chunks[i].wav, f.chunks[j].size) = "ok"
  /\ f.finite \/ Encoding(f.chunks[i].wav) # "float"

(* A file is decoded exactly if it is whole and has a format and samples   *)
(* to it, and what comes of it is the first format and the first data:     *)
(* what is cut off, mislabelled or not a whole number of frames is         *)
(* refused, and the walk is never out of step with the chunks.             *)
DecodesWhatWasWritten ==
  \A f \in file : step = "done" =>
    /\ outcome = "asset" <=>
         Whole(f) /\ \E i \in FirstOf(f, "fmt"), j \in FirstOf(f, "data") : MakeAsset(f, i, j)
    /\ outcome = "asset" =>
         \A i \in FirstOf(f, "fmt"), j \in FirstOf(f, "data") :
           /\ format = {f.chunks[i].wav}
           /\ data = {[at |-> StartOf(f, j) + kChunkHeaderSize, size |-> f.chunks[j].size]}
=============================================================================
