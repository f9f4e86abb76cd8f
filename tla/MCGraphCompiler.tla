--------------------------- MODULE MCGraphCompiler ---------------------------
(***************************************************************************)
(* The nodes TLC builds graphs of: an oscillator, gains, a mixer of two    *)
(* and a pan, which is the only node that changes the number of channels.  *)
(***************************************************************************)
EXTENDS GraphCompiler

Types == {"oscillator", "gain", "mixer", "pan"}

InputsOf == [oscillator |-> 0, gain |-> 1, mixer |-> 2, pan |-> 1]
ChannelsIn == [oscillator |-> 0, gain |-> 1, mixer |-> 1, pan |-> 1]
ChannelsOut == [oscillator |-> 1, gain |-> 1, mixer |-> 1, pan |-> 2]

OneOfEach == [t \in Types |-> 1]
=============================================================================
