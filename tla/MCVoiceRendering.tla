-------------------------- MODULE MCVoiceRendering --------------------------
(***************************************************************************)
(* The instance of VoiceRendering that TLC checks.  1.0 is 4: the emitter  *)
(* stands still, goes away (half the speed) or comes near (twice).         *)
(***************************************************************************)
EXTENDS VoiceRendering

Still == [gain |-> 4, ratio |-> 4]
Leaving == [gain |-> 2, ratio |-> 2]
Coming == [gain |-> 6, ratio |-> 8]
ThreePlaces == {Still, Leaving, Coming}
=============================================================================
