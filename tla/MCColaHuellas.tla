---------------------------- MODULE MCColaHuellas -----------------------------
(***************************************************************************)
(* Instances of ColaHuellas for TLC: up to two kiosks (the screen and the  *)
(* socket it leaves open, or the login page), up to two enrolment clients. *)
(***************************************************************************)
EXTENDS ColaHuellas

CONSTANTS k1, k2, c1, c2, u1, u2, r1, r2

===============================================================================
