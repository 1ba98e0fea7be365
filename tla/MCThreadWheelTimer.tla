------------------------- MODULE MCThreadWheelTimer -------------------------
(***************************************************************************)
(* The instance of ThreadWheelTimer for TLC.  Wheels of 3 slots of 2 ms:   *)
(* one turn of the fast wheel is 6 ms, of the slow one 18 ms.  The delays  *)
(* are all that two wheels can hold, from below a unit over the edge       *)
(* between the wheels to the longest.                                      *)
(***************************************************************************)
EXTENDS ThreadWheelTimer

MCDelays == 1 .. 13
=============================================================================
