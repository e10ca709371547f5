------------------------------- MODULE MCPadron -------------------------------
(***************************************************************************)
(* Instances of Padron for TLC: two persons and an administration panel.   *)
(* Nothing tells the persons apart; the properties are of safety.          *)
(***************************************************************************)
EXTENDS Padron, TLC

CONSTANTS ana, beto, p1

Simetria == Permutations({ana, beto})

===============================================================================
