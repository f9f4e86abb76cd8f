--------------------------- MODULE MCAssetLoading ---------------------------
(***************************************************************************)
(* The instance of AssetLoading that TLC checks: files of up to three      *)
(* chunks, small ones, some of them odd, cut off or with a RIFF size that  *)
(* is not theirs.                                                          *)
(***************************************************************************)
EXTENDS AssetLoading

Mono8 == [tag |-> "pcm", subTag |-> "pcm", channels |-> 1, rate |-> 2, align |-> 1, bits |-> 8]
Stereo8 == [Mono8 EXCEPT !.channels = 2, !.align = 2]
Misaligned == [Mono8 EXCEPT !.align = 2]
Extensible == [Mono8 EXCEPT !.tag = "extensible", !.bits = 32, !.align = 4, !.subTag = "float"]
Bad == {[Mono8 EXCEPT !.channels = 0], [Mono8 EXCEPT !.channels = 3],
        [Mono8 EXCEPT !.rate = 0], [Mono8 EXCEPT !.bits = 12], Misaligned}

SomeFormats == {Mono8, Stereo8, Extensible} \cup Bad

Fmt(wav, size) == [tag |-> "fmt", size |-> size, wav |-> wav]
Data(size) == [tag |-> "data", size |-> size, wav |-> Mono8]
Other(size) == [tag |-> "other", size |-> size, wav |-> Mono8]

FmtChunks ==
  {Fmt(wav, 16) : wav \in SomeFormats} \cup {Fmt(Mono8, 15), Fmt(Mono8, 17), Fmt(Extensible, 40)}
DataChunks == {Data(n) : n \in {0, 1, 3, 4}}
OtherChunks == {Other(0), Other(1)}
Chunks == FmtChunks \cup DataChunks \cup OtherChunks

(* A format, data and one more chunk in any order; or fewer. *)
Layouts ==
  {<<>>} \cup {<<c>> : c \in Chunks} \cup (Chunks \X Chunks)
  \cup {<<a, b, c>> : a \in {Fmt(Mono8, 16), Other(1), Fmt(Mono8, 17)},
                      b \in {Data(3), Other(1), Fmt(Stereo8, 16)}, c \in {Data(4), Data(1)}}

(* Intact, cut off or mislabelled by a few bytes. *)
FileOf(chunks, cut, off, finite, isWave) ==
  LET end == StartOf([chunks |-> chunks], Len(chunks) + 1)
  IN  [chunks |-> chunks, size |-> end - cut, riffSize |-> IF off <= end - 8 THEN end - 8 - off ELSE 0,
       finite |-> finite, isWave |-> isWave]

SomeFiles ==
  {FileOf(chunks, 0, off, TRUE, TRUE) : chunks \in Layouts, off \in {0, 1, 2, 9}}
  \cup {FileOf(<<Fmt(Mono8, 16), Data(3)>>, cut, off, TRUE, TRUE) : cut \in 0..30, off \in 0..30}
  \cup {FileOf(<<Fmt(Extensible, 40), Data(4)>>, 0, 0, FALSE, TRUE),
        FileOf(<<Fmt(Mono8, 16), Data(4)>>, 0, 0, FALSE, TRUE),
        FileOf(<<Fmt(Mono8, 16), Data(4)>>, 0, 0, TRUE, FALSE)}
=============================================================================
