----------------------------- MODULE MCEnrollment -----------------------------
(***************************************************************************)
(* Enrollment instantiated for TLC.  Learners, and workers, are            *)
(* interchangeable: no definition tells one from another, so runs that     *)
(* check no liveness take every permutation of them as a symmetry.         *)
(***************************************************************************)
EXTENDS Enrollment, TLC

CONSTANTS u1, u2, u3, u4, w1, w2, i1

Symmetry == Permutations(Users) \cup Permutations(Workers)

\* Patches that set one column and omit the other two.
OneColumn == {Columns \ {c} : c \in Columns}
===============================================================================
