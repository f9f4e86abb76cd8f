-------------------------- MODULE MCAudioTimeline --------------------------
(***************************************************************************)
(* The instances of AudioTimeline that TLC checks.  max_frames_per_block   *)
(* is 2 in all of them and frame positions wrap at 16, so that 15 is       *)
(* kMaxFramePosition: an event no callback reaches and only a flush pops.  *)
(***************************************************************************)
EXTENDS AudioTimeline

(* Empty blocks, blocks that are split, and (3) blocks too large for it.   *)
SplitBlocks == {0, 1, 2}
OversizedToo == {0, 2, 3}
EmptyOrFull == {0, 2}

(* A target at once late, one inside the first block, one inside the       *)
(* second, one never reached.                                              *)
MixedTargets == {0, 1, 3, 15}
NearTargets == {0, 1}
ReachableAndNever == {1, 3, 15}
=============================================================================
