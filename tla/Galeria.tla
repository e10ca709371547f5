-------------------------------- MODULE Galeria -------------------------------
(***************************************************************************)
(* What the fingerprint service promises: a durable register of enrolled   *)
(* templates and a gallery of active ones that follows it.  The gallery    *)
(* may be emptied at any time and is filled again one student at a time,   *)
(* always with the template that is registered at that moment; whatever is *)
(* missing or out of date is eventually put right.                         *)
(***************************************************************************)
CONSTANTS Usuarios, Huellas, SinHuella

VARIABLES inscritas, activas

galeriaVars == <<inscritas, activas>>

Vacia == [u \in Usuarios |-> SinHuella]

GaleriaInit ==
  /\ inscritas \in [Usuarios -> Huellas \cup {SinHuella}]
  /\ activas = Vacia

Inscribir(u, h) ==
  /\ inscritas' = [inscritas EXCEPT ![u] = h]
  /\ UNCHANGED activas

Vaciar ==
  /\ activas' = Vacia
  /\ UNCHANGED inscritas

Activar(u) ==
  /\ activas[u] = SinHuella
  /\ inscritas[u] # SinHuella
  /\ activas' = [activas EXCEPT ![u] = inscritas[u]]
  /\ UNCHANGED inscritas

GaleriaNext ==
  \/ Vaciar
  \/ \E u \in Usuarios : Activar(u) \/ \E h \in Huellas : Inscribir(u, h)

Desactualizada ==
  \E u \in Usuarios : activas[u] # SinHuella /\ activas[u] # inscritas[u]

GaleriaSpec ==
  /\ GaleriaInit /\ [][GaleriaNext]_galeriaVars
  /\ WF_galeriaVars(Desactualizada /\ Vaciar)
  /\ \A u \in Usuarios : WF_galeriaVars(Activar(u))
===============================================================================
