----------------------------- MODULE Resampler ------------------------------
(***************************************************************************)
(* Linear resampling of an asset.  A source frame stands for the value it  *)
(* has: its number, so that the place an output frame is taken from can be *)
(* read off its value.  Values are in parts: target parts to a frame.      *)
(***************************************************************************)
EXTENDS Integers

Lesser(a, b) == IF a < b THEN a ELSE b
Greater(a, b) == IF a < b THEN b ELSE a

(* llround, halves away from zero, and at least one frame. *)
OutFrames(frames, source, target) ==
  Greater(1, (2 * frames * target + source) \div (2 * source))

Index(i, last, source, target) == Lesser((i * source) \div target, last)

(* Fault: the frame after the last one is taken for a frame. *)
NextUnclamped(index, last) == index + 1

Next(index, last) == Lesser(index + 1, last)

(* a + (b - a) * fraction *)
Resampled(frames, source, target) ==
  LET last == frames - 1
  IN  [i \in 0..(OutFrames(frames, source, target) - 1) |->
         LET index == Index(i, last, source, target)
         IN  index * target
               + (Next(index, last) - index) * (i * source - index * target)]
=============================================================================
