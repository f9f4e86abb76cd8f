------------------------------ MODULE GainRamp ------------------------------
(***************************************************************************)
(* A value that moves linearly from one frame to another and depends on    *)
(* nothing but the frame it is asked at: the gain of a voice or a bus, the *)
(* gains and the playback ratio of a spatialized voice.  Values are whole  *)
(* numbers, so that a value between two of them is rounded, as it is when  *)
(* it is stored as a float.                                                *)
(***************************************************************************)
EXTENDS Integers

CONSTANT kMaxFrame   \* the greatest 64-bit frame

(* What Set leaves, and the constructor. *)
Constant(value) == [from |-> value, to |-> value, begin |-> 0, end |-> 0]

IsConstantFrom(ramp, frame) == frame >= ramp.end

ValueAt(ramp, frame) ==
  CASE frame >= ramp.end   -> ramp.to
    [] frame < ramp.end /\ frame <= ramp.begin -> ramp.from
    [] OTHER -> ramp.from + ((ramp.to - ramp.from) * (frame - ramp.begin))
                               \div (ramp.end - ramp.begin)

(* Fault: a ramp replaced on its way starts from where that one would have ended. *)
StartFromTarget(ramp, now, target, duration) ==
  IF duration = 0 THEN Constant(target)
  ELSE [from |-> ramp.to, to |-> target, begin |-> now,
        end |-> IF kMaxFrame - now < duration THEN kMaxFrame ELSE now + duration]

Start(ramp, now, target, duration) ==
  IF duration = 0 THEN Constant(target)
  ELSE [from |-> ValueAt(ramp, now), to |-> target, begin |-> now,
        end |-> IF kMaxFrame - now < duration THEN kMaxFrame ELSE now + duration]
=============================================================================
