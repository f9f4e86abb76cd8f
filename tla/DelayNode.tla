----------------------------- MODULE DelayNode ------------------------------
(***************************************************************************)
(* The delay of a graph: a ring with one position for each frame of the    *)
(* greatest delay, written at write and read delay positions behind it.    *)
(* One channel; the channels share the index.                              *)
(***************************************************************************)
EXTENDS Integers

CONSTANT MaxDelayFrames   \* the constructor makes it at least 1

Silence == -1

EmptyLine ==
  [buffer |-> [i \in 0..(MaxDelayFrames - 1) |-> Silence], write |-> 0, delay |-> 0]

SetDelayFrames(line, frames) ==
  [line EXCEPT !.delay = IF frames < MaxDelayFrames THEN frames ELSE MaxDelayFrames]

(* One turn of Process's loop: the sample is written before one is read,   *)
(* so that the greatest delay reads what was just written.                 *)
Fed(line, input) ==
  [line EXCEPT !.buffer[line.write] = input, !.write = (@ + 1) % MaxDelayFrames]

ReadIndex(line) == (line.write + MaxDelayFrames - line.delay) % MaxDelayFrames

Delayed(line, input) == Fed(line, input).buffer[ReadIndex(line)]
=============================================================================
