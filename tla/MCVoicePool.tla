---------------------------- MODULE MCVoicePool -----------------------------
(***************************************************************************)
(* The instance of VoicePool that TLC checks.  The budget holds either of  *)
(* the two assets and not both, so that a load can be refused because a    *)
(* released asset is still played.                                         *)
(***************************************************************************)
EXTENDS VoicePool

CONSTANTS small, large

TwoFiles == {small, large}
TwoSizes == [k \in TwoFiles |-> IF k = small THEN 1 ELSE 2]
=============================================================================
