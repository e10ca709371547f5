----------------------------- MODULE MCAsistencia -----------------------------
(***************************************************************************)
(* Instances of Asistencia for TLC: the event loop and one thread of the   *)
(* server's pool, students a1 and a2 and possibly an administrator.        *)
(***************************************************************************)
EXTENDS Asistencia

CONSTANTS bucle, api, a1, a2

(* The tickets of today seen as rations served.  One more ordinal than the *)
(* largest limit with its margin, so that a ration too many is visible.    *)
Servidas ==
  {s \in (1..(2 + Cardinality(Hilos))) \X Alumnos \X Tipos :
     s[1] <= Cardinality(DeHoyDe(s[2], s[3]))}

C == INSTANCE Comedor WITH
       Margen <- Cardinality(Hilos) - 1,
       beneficiarios <- pae, cupo <- total, servidas <- Servidas

(* While nobody changes the students or the rations, every ticket is a     *)
(* ration the service may give: the student belongs to the PAE, and        *)
(* neither limit is exceeded by more than one ration for each other caller *)
(* that is between its check and its commit (RegistrosController.py:       *)
(* 66-92), also when the day ends there.                                   *)
ImplementaComedor == C!ComedorSpec
===============================================================================
