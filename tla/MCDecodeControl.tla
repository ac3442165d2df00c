---------------------------- MODULE MCDecodeControl ----------------------------
(* Two requests and the serial queue of iOS; beside them, in behaviours of  *)
(* its own, the control of one decode: whichever moves first has the        *)
(* behaviour for itself, so that each is checked from its initial state and *)
(* neither multiplies the states of the other.                              *)
EXTENDS NativeDecode, DecodeControl

CONSTANTS r1, r2, w1, t1, t2

RequestsMove == Next /\ ControlInit /\ UNCHANGED controlVars
ControlMoves == ControlNext /\ Init /\ UNCHANGED vars

DecodeSpec ==
  /\ Init /\ ControlInit
  /\ [][RequestsMove \/ ControlMoves]_<<vars, controlVars>>
  /\ Fairness
=============================================================================
