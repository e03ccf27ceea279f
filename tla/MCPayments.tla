------------------------------ MODULE MCPayments ------------------------------
(***************************************************************************)
(* Payments instantiated for TLC.  Orders, and workers, are                *)
(* interchangeable: no definition tells one from another, so runs that     *)
(* check no liveness take every permutation of them as a symmetry.         *)
(***************************************************************************)
EXTENDS Payments, TLC

CONSTANTS b1, b2, o1, o2, o3, w1, w2, k1, c1

Symmetry == Permutations(Orders) \cup Permutations(Workers)
===============================================================================
