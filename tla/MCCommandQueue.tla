--------------------------- MODULE MCCommandQueue ---------------------------
(***************************************************************************)
(* Instances of CommandQueue: more pushes than slots, so that every slot   *)
(* is used again while the other thread still holds an old index.          *)
(***************************************************************************)
EXTENDS CommandQueue

CONSTANTS c1, c2, c3
=============================================================================
