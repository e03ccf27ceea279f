--------------------------- MODULE MCPaymentsSerial ---------------------------
(* PaymentsSerial instantiated for TLC, with no symmetry: the run checks a   *)
(* refinement.                                                               *)
EXTENDS PaymentsSerial

CONSTANTS b1, b2, o1, o2, w1, k1, c1
===============================================================================
