------------------------------- MODULE MCKiosco -------------------------------
(***************************************************************************)
(* The instance of Kiosco for TLC.                                         *)
(***************************************************************************)
EXTENDS Kiosco

===============================================================================
