----------------------------- MODULE MCAssessment -----------------------------
(***************************************************************************)
(* Assessment instantiated for TLC.  Workers are interchangeable: no       *)
(* definition tells one from another.                                      *)
(***************************************************************************)
EXTENDS Assessment, TLC

CONSTANTS w1, w2, q1, q2, x, y, b1, b2

Symmetry == Permutations(Workers)

NoKeyButX   == {{x}}
SeveralKeys == {{x}, {x, y}}
OnlyX       == {<<x>>}
SeveralSent == {<<x>>, <<x, x>>}

QuizOrAssignment == {{"quiz"}, {"assignment"}}
===============================================================================
