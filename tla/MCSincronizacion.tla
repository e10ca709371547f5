--------------------------- MODULE MCSincronizacion ---------------------------
(* Two totems with a panel open on each, one student.                      *)
EXTENDS Sincronizacion

CONSTANTS ta, tb, r1, n1, n2, f1
===============================================================================
