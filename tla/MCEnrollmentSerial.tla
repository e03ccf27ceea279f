-------------------------- MODULE MCEnrollmentSerial --------------------------
(* EnrollmentSerial instantiated for TLC, with no symmetry: the runs check   *)
(* a refinement and a liveness property.                                     *)
EXTENDS EnrollmentSerial

CONSTANTS u1, u2, u3, u4, w1, i1
===============================================================================
