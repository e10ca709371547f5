---------------------------- MODULE Comedor_proofs ----------------------------
(***************************************************************************)
(* procesarAsistencia implements the meal service of Comedor for any       *)
(* finite number of threads, students, hours and totals, while nobody      *)
(* changes the students or the rations: checked by TLAPS.                  *)
(***************************************************************************)
EXTENDS Asistencia_proofs, MCAsistencia

-------------------------------------------------------------------------------
(* Commits may fail, the process may die and the registros may be deleted. *)
PadronFijo == Entorno \subseteq {"fallo_sqlite", "reinicio", "eliminar_registros"}

(* What a call that has passed each check knows stays true.                *)
Vigente ==
  \A h \in Hilos :
    /\ pc[h] \in {"config", "usadas", "hoy", "registro", "ticket"} => usuario[h] \in pae
    /\ pc[h] = "usadas" => tope[h] = total[tipo[h]]

(* The calls that may still emit a ticket of kind t without another look   *)
(* at the total.                                                           *)
EnVueloDe(t) ==
  {h \in Hilos : pc[h] \in {"hoy", "registro", "ticket"} /\ tipo[h] = t}

CupoHoy ==
  \A t \in Tipos : total[t] > 0 =>
     Cardinality(DeHoy(t)) + Cardinality(EnVueloDe(t)) <= total[t] + Cardinality(Hilos) - 1

(* Seen from the abstract service, the tickets of a kind are as many as    *)
(* the rations served to all the students together.                        *)
Contadas ==
  \A t \in Tipos : /\ IsFiniteSet(C!DeTipo(t))
                   /\ Cardinality(C!DeTipo(t)) = Cardinality(DeHoy(t))

IInv == InvExceso /\ Vigente /\ CupoHoy /\ Contadas

(* Comedor counts with its own copy of the operator of FiniteSets.         *)
LEMMA MismaCuenta == \A S : C!Cardinality(S) = Cardinality(S)
  BY DEF C!Cardinality, Cardinality

LEMMA VuelosDe ==
  ASSUME IsFiniteSet(Hilos)
  PROVE  \A t : /\ IsFiniteSet(EnVueloDe(t)) /\ Cardinality(EnVueloDe(t)) \in Nat
                /\ Cardinality(EnVueloDe(t)) <= Cardinality(Hilos)
                /\ Cardinality(EnVueloDe(t)') \in Nat
                /\ Cardinality(EnVueloDe(t)') <= Cardinality(Hilos)
  <1>1. \A t : EnVueloDe(t) \in SUBSET Hilos /\ EnVueloDe(t)' \in SUBSET Hilos
    BY DEF EnVueloDe
  <1> QED
    BY <1>1, FS_Subset, FS_CardinalityType

(* The rations served only depend on the tickets of the day.               *)
LEMMA ServidasSigue ==
  ASSUME tickets' = tickets, dia' = dia
  PROVE  Servidas' = Servidas /\ \A t : DeHoy(t)' = DeHoy(t)
  BY DEF Servidas, DeHoyDe, DeHoy

LEMMA ServidasVacias ==
  ASSUME \A t : DeHoy(t) = {}
  PROVE  Servidas = {}
  <1>1. \A u, t : DeHoyDe(u, t) = {}
    BY DEF DeHoyDe
  <1>2. \A u, t : Cardinality(DeHoyDe(u, t)) = 0
    BY <1>1, FS_EmptySet
  <1> QED
    BY <1>2 DEF Servidas

-------------------------------------------------------------------------------
(* The initial states.                                                     *)

LEMMA ComienzoVacio ==
  ASSUME Init, IsFiniteSet(Hilos)
  PROVE  IInv /\ C!ComedorInit
  <1>1. \A t : DeHoy(t) = {} /\ EnVueloDe(t) = {}
    BY DEF Init, ProcesoNuevo, DeHoy, EnVueloDe
  <1>2. Servidas = {} /\ \A t : C!DeTipo(t) = {}
    BY <1>1, ServidasVacias DEF C!DeTipo
  <1>3. TypeOK
    BY TiposInit
  <1>4. CupoHoy
    <2> SUFFICES ASSUME NEW t \in Tipos, total[t] > 0
                 PROVE  Cardinality(DeHoy(t)) + Cardinality(EnVueloDe(t))
                          <= total[t] + Cardinality(Hilos) - 1
      BY DEF CupoHoy
    <2>1. Cardinality(DeHoy(t)) = 0 /\ Cardinality(EnVueloDe(t)) = 0
      BY <1>1, FS_EmptySet
    <2>2. total[t] \in Nat
      BY <1>3 DEF TypeOK
    <2> QED
      BY <2>1, <2>2, Vuelos
  <1>5. Contadas
    BY <1>1, <1>2, FS_EmptySet DEF Contadas
  <1>6. Vigente
    BY DEF Init, ProcesoNuevo, Vigente
  <1>7. C!ComedorInit
    BY <1>2, <1>3 DEF C!ComedorInit, Init, TypeOK
  <1> QED
    BY <1>4, <1>5, <1>6, <1>7, ExcesoInit DEF IInv

-------------------------------------------------------------------------------
(* The steps that emit no ticket and stay in the day.                      *)

(* A step in which no call comes to know more.                             *)
LEMMA VigenteSigue ==
  ASSUME Vigente, UNCHANGED <<pae, total>>,
         \A h \in Hilos : pc'[h] \in {"config", "usadas", "hoy", "registro", "ticket"} =>
            /\ pc[h] \in {"config", "usadas", "hoy", "registro", "ticket"}
            /\ pc'[h] = "usadas" => pc[h] = "usadas"
            /\ usuario'[h] = usuario[h] /\ tipo'[h] = tipo[h] /\ tope'[h] = tope[h]
  PROVE  Vigente'
  BY DEF Vigente

LEMMA CupoSigue ==
  ASSUME InvExceso, CupoHoy, IsFiniteSet(Hilos), tickets' = tickets, dia' = dia, total' = total,
         \A h \in Hilos : pc'[h] \in {"hoy", "registro", "ticket"} =>
            /\ pc[h] \in {"hoy", "registro", "ticket"} \/ total[tipo[h]] = 0
            /\ tipo'[h] = tipo[h]
  PROVE  CupoHoy'
  <1> SUFFICES ASSUME NEW t \in Tipos, total[t] > 0
               PROVE  Cardinality(DeHoy(t)') + Cardinality(EnVueloDe(t)')
                        <= total[t] + Cardinality(Hilos) - 1
    BY DEF CupoHoy
  <1>1. Cardinality(DeHoy(t)) + Cardinality(EnVueloDe(t)) <= total[t] + Cardinality(Hilos) - 1
    BY DEF CupoHoy
  <1>2. EnVueloDe(t)' \in SUBSET EnVueloDe(t)
    BY DEF EnVueloDe
  <1>3. DeHoy(t)' = DeHoy(t)
    BY ServidasSigue
  <1>4. Cardinality(EnVueloDe(t)') <= Cardinality(EnVueloDe(t))
    BY <1>2, VuelosDe, FS_Subset
  <1>5. total[t] \in Nat /\ Cardinality(DeHoy(t)) \in Nat /\ Cardinality(Hilos) \in Nat
    BY Cuentas, Vuelos DEF InvExceso, TypeOK
  <1> QED
    BY <1>1, <1>3, <1>4, <1>5, VuelosDe

LEMMA ContadasSigue ==
  ASSUME Contadas, tickets' = tickets, dia' = dia
  PROVE  Contadas'
  <1>1. \A t : C!DeTipo(t)' = C!DeTipo(t)
    BY ServidasSigue DEF C!DeTipo
  <1> QED
    BY <1>1, ServidasSigue DEF Contadas

(* The checks of a call.                                                   *)
LEMMA ComprobarUsuario ==
  ASSUME IInv, IsFiniteSet(Hilos), NEW h \in Hilos, VerUsuario(h)
  PROVE  Vigente' /\ CupoHoy'
  <1>1. /\ UNCHANGED <<tickets, dia, pae, total>> /\ pc[h] = "usuario"
        /\ InvExceso /\ Vigente /\ CupoHoy
    BY DEF VerUsuario, reloj, padron, IInv
  <1>2. CASE usuario[h] \in alumnos \cap pae
    <2>1. pc' = [pc EXCEPT ![h] = "config"] /\ UNCHANGED <<usuario, tipo, tope>>
      BY <1>2 DEF VerUsuario, Seguir, Ir, locales
    <2>2. Vigente'
      BY <1>1, <1>2, <2>1 DEF Vigente, InvExceso, TypeOK
    <2>3. CupoHoy'
      BY <1>1, <2>1, CupoSigue DEF InvExceso, TypeOK
    <2> QED
      BY <2>2, <2>3
  <1>3. CASE ~(usuario[h] \in alumnos \cap pae)
    <2>1. Responder(h, "Rechazado")
      BY <1>3 DEF VerUsuario
    <2> QED
      BY <1>1, <2>1, VigenteSigue, CupoSigue DEF Responder, Ir, InvExceso, TypeOK
  <1> QED
    BY <1>2, <1>3

LEMMA ComprobarConfig ==
  ASSUME IInv, IsFiniteSet(Hilos), NEW h \in Hilos, VerConfig(h)
  PROVE  Vigente' /\ CupoHoy'
  <1>1. /\ UNCHANGED <<tickets, dia, pae, total, usuario, tipo>> /\ pc[h] = "config"
        /\ pc' = [pc EXCEPT ![h] = IF total[tipo[h]] > 0 THEN "usadas" ELSE "hoy"]
        /\ tope' = [tope EXCEPT ![h] = total[tipo[h]]]
        /\ InvExceso /\ Vigente /\ CupoHoy
    BY DEF VerConfig, Ir, reloj, padron, IInv
  <1>2. tipo[h] \in Tipos /\ total[tipo[h]] \in Nat
    BY <1>1 DEF InvExceso, TypeOK, Puntos
  <1>3. Vigente'
    BY <1>1, <1>2 DEF Vigente, InvExceso, TypeOK
  <1>4. CupoHoy'
    <2>1. \A k \in Hilos : pc'[k] \in {"hoy", "registro", "ticket"} =>
            pc[k] \in {"hoy", "registro", "ticket"} \/ total[tipo[k]] = 0
      BY <1>1, <1>2 DEF InvExceso, TypeOK
    <2> QED
      BY <1>1, <2>1, CupoSigue
  <1> QED
    BY <1>3, <1>4

(* The count passes below the total, and no more calls than all are on     *)
(* their way after it.                                                     *)
LEMMA ComprobarUsadas ==
  ASSUME IInv, IsFiniteSet(Hilos), NEW h \in Hilos, VerUsadas(h)
  PROVE  Vigente' /\ CupoHoy'
  <1>1. /\ UNCHANGED <<tickets, dia, pae, total>> /\ pc[h] = "usadas"
        /\ InvExceso /\ Vigente /\ CupoHoy
    BY DEF VerUsadas, reloj, padron, IInv
  <1>2. tope[h] = total[tipo[h]] /\ tipo[h] \in Tipos /\ total \in [Tipos -> Nat]
    BY <1>1 DEF Vigente, InvExceso, TypeOK, Puntos
  <1>3. CASE ~(Cardinality(DeHoy(tipo[h])) >= tope[h])
    <2>1. pc' = [pc EXCEPT ![h] = "hoy"] /\ UNCHANGED <<usuario, tipo, tope>>
      BY <1>3 DEF VerUsadas, Seguir, Ir, locales
    <2>2. Vigente'
      BY <1>1, <2>1, VigenteSigue DEF InvExceso, TypeOK
    <2>3. CupoHoy'
      <3> SUFFICES ASSUME NEW t \in Tipos, total[t] > 0
                   PROVE  Cardinality(DeHoy(t)') + Cardinality(EnVueloDe(t)')
                            <= total[t] + Cardinality(Hilos) - 1
        BY <1>1 DEF CupoHoy
      <3>1. /\ DeHoy(t)' = DeHoy(t) /\ Cardinality(DeHoy(t)) \in Nat
            /\ total[t] \in Nat /\ Cardinality(Hilos) \in Nat
        BY <1>1, <1>2, ServidasSigue, Cuentas, Vuelos DEF InvExceso
      <3>2. CASE t = tipo[h]
        <4>1. Cardinality(DeHoy(t)) < total[t]
          BY <1>2, <1>3, <3>1, <3>2
        <4> QED
          BY <3>1, <4>1, VuelosDe
      <3>3. CASE t # tipo[h]
        <4>1. EnVueloDe(t)' = EnVueloDe(t)
          BY <1>1, <2>1, <3>3 DEF EnVueloDe, InvExceso, TypeOK
        <4> QED
          BY <1>1, <3>1, <4>1 DEF CupoHoy
      <3> QED
        BY <3>2, <3>3
    <2> QED
      BY <2>2, <2>3
  <1>4. CASE Cardinality(DeHoy(tipo[h])) >= tope[h]
    <2>1. Responder(h, "SinRaciones")
      BY <1>4 DEF VerUsadas
    <2> QED
      BY <1>1, <2>1, VigenteSigue, CupoSigue DEF Responder, Ir, InvExceso, TypeOK
  <1> QED
    BY <1>3, <1>4

(* The other steps of a call.                                              *)
LEMMA ComprobarResto ==
  ASSUME IInv, IsFiniteSet(Hilos), NEW h \in Hilos,
         \/ VerAdmin(h) \/ VerHorario(h) \/ VerHoy(h) \/ ConsultaFalla(h) \/ RegistroFalla(h)
         \/ RegistroPerdido(h) \/ TicketFalla(h) \/ CrearRegistro(h)
         \/ \E u \in Alumnos : Solicitar(h, u)
  PROVE  Vigente' /\ CupoHoy' /\ UNCHANGED <<tickets, dia, pae, total>>
  <1>1. InvExceso /\ Vigente /\ CupoHoy /\ TypeOK
    BY DEF IInv, InvExceso
  <1>2. UNCHANGED <<tickets, dia, pae, total>>
    BY DEF VerAdmin, VerHorario, VerHoy, ConsultaFalla, RegistroFalla, RegistroPerdido,
           TicketFalla, CrearRegistro, Solicitar, reloj, padron
  <1>3. CASE VerAdmin(h) \/ VerHoy(h)
    BY <1>1, <1>2, <1>3, VigenteSigue, CupoSigue
    DEF VerAdmin, VerHoy, Responder, Seguir, Ir, locales, TypeOK
  <1>4. CASE VerHorario(h)
    BY <1>1, <1>2, <1>4, VigenteSigue, CupoSigue DEF VerHorario, Responder, Ir, TypeOK
  <1>5. CASE ConsultaFalla(h) \/ RegistroFalla(h) \/ RegistroPerdido(h) \/ TicketFalla(h)
    BY <1>1, <1>2, <1>5, VigenteSigue, CupoSigue
    DEF ConsultaFalla, RegistroFalla, RegistroPerdido, TicketFalla, Responder, Ir, TypeOK
  <1>6. CASE CrearRegistro(h)
    BY <1>1, <1>2, <1>6, VigenteSigue, CupoSigue DEF CrearRegistro, Ir, TypeOK
  <1>7. CASE \E u \in Alumnos : Solicitar(h, u)
    BY <1>1, <1>2, <1>7, VigenteSigue, CupoSigue DEF Solicitar, Ir, TypeOK
  <1> QED
    BY <1>2, <1>3, <1>4, <1>5, <1>6, <1>7

-------------------------------------------------------------------------------
(* The ticket is the next ration of its student and kind.                  *)

LEMMA UnaMas ==
  ASSUME IInv, IsFiniteSet(Hilos), NEW h \in Hilos, GenerarTicket(h),
         NEW u0 \in Alumnos, NEW t0 \in Tipos, usuario[h] = u0, tipo[h] = t0
  PROVE  /\ Cardinality(DeHoyDe(u0, t0)) + 1 \in 1..(Limite(t0) + Cardinality(Hilos) - 1)
         /\ Cardinality(DeHoyDe(u0, t0)) \in Nat
         /\ Cardinality(DeHoyDe(u0, t0)') = Cardinality(DeHoyDe(u0, t0)) + 1
         /\ Cardinality(DeHoy(t0)') = Cardinality(DeHoy(t0)) + 1
         /\ \A u, t : ~(u = u0 /\ t = t0) => DeHoyDe(u, t)' = DeHoyDe(u, t)
         /\ \A t : t # t0 => DeHoy(t)' = DeHoy(t)
  <1> DEFINE k0 == [registro |-> registro[h], usuario |-> u0, tipo |-> t0, dia |-> dia]
  <1>1. /\ InvExceso /\ tickets' = tickets \cup {k0} /\ dia' = dia /\ pc[h] = "ticket"
        /\ k0 \notin tickets
    BY DEF GenerarTicket, ConTicket, reloj, IInv
  <1>2. k0.usuario = u0 /\ k0.tipo = t0 /\ k0.dia = dia
    OBVIOUS
  <1> HIDE DEF k0
  <1>3. /\ IsFiniteSet(DeHoy(t0)) /\ Cardinality(DeHoy(t0)) \in Nat
        /\ IsFiniteSet(DeHoyDe(u0, t0)) /\ Cardinality(DeHoyDe(u0, t0)) \in Nat
    <2>1. DeHoyDe(u0, t0) \in SUBSET DeHoy(t0)
      BY DEF DeHoyDe
    <2> QED
      BY <1>1, <2>1, Cuentas, FS_Subset, FS_CardinalityType DEF InvExceso
  <1>4. DeHoy(t0)' = DeHoy(t0) \cup {k0} /\ k0 \notin DeHoy(t0)
    BY <1>1, <1>2 DEF DeHoy
  <1>5. DeHoyDe(u0, t0)' = DeHoyDe(u0, t0) \cup {k0} /\ k0 \notin DeHoyDe(u0, t0)
    BY <1>2, <1>4 DEF DeHoyDe
  <1>6. /\ Cardinality(DeHoy(t0)') = Cardinality(DeHoy(t0)) + 1
        /\ Cardinality(DeHoyDe(u0, t0)') = Cardinality(DeHoyDe(u0, t0)) + 1
    <2>1. \A S : IsFiniteSet(S) /\ k0 \notin S => Cardinality(S \cup {k0}) = Cardinality(S) + 1
      BY FS_AddElement
    <2>2. Cardinality(DeHoy(t0) \cup {k0}) = Cardinality(DeHoy(t0)) + 1
      BY <1>3, <1>4, <2>1
    <2>3. Cardinality(DeHoyDe(u0, t0) \cup {k0}) = Cardinality(DeHoyDe(u0, t0)) + 1
      BY <1>3, <1>5, <2>1
    <2> QED
      BY <1>4, <1>5, <2>2, <2>3
  <1>7. Cardinality(DeHoyDe(u0, t0)) + 1 <= Limite(t0) + Cardinality(Hilos) - 1
    <2>1. DeHoyDe(u0, t0) = DelDia(u0, t0, dia)
      BY DEF DeHoyDe, DeHoy, DelDia
    <2>2. Cardinality(DelDia(u0, t0, dia)) + Cardinality(EnVuelo(u0, t0)) <= MaximoDe(t0)
      BY <1>1 DEF InvExceso, ExcesoHoy
    <2>3. Cardinality(EnVuelo(u0, t0)) > 0
      <3>1. h \in EnVuelo(u0, t0)
        BY <1>1 DEF EnVuelo
      <3> QED
        BY <3>1, Vuelos, FS_EmptySet
    <2> QED
      BY <1>3, <2>1, <2>2, <2>3, Vuelos, LimitePositivo DEF MaximoDe
  <1>8. Limite(t0) + Cardinality(Hilos) - 1 \in Int
    BY Vuelos, LimitePositivo
  <1>9. \A t : t # t0 => DeHoy(t)' = DeHoy(t)
    BY <1>1, <1>2 DEF DeHoy
  <1>10. \A u, t : ~(u = u0 /\ t = t0) => DeHoyDe(u, t)' = DeHoyDe(u, t)
    BY <1>1, <1>2 DEF DeHoyDe, DeHoy
  <1> QED
    BY <1>3, <1>6, <1>7, <1>8, <1>9, <1>10

LEMMA RacionNueva ==
  ASSUME IInv, IsFiniteSet(Hilos), NEW h \in Hilos, GenerarTicket(h),
         NEW u0 \in Alumnos, NEW t0 \in Tipos, usuario[h] = u0, tipo[h] = t0,
         NEW n0, n0 = Cardinality(DeHoyDe(u0, t0)) + 1
  PROVE  /\ Servidas' = Servidas \cup {<<n0, u0, t0>>}
         /\ \A m \in 1..(Limite(t0) + Cardinality(Hilos) - 1) :
              <<m, u0, t0>> \in Servidas <=> m < n0
         /\ <<n0, u0, t0>> \notin Servidas
  <1>1. /\ n0 \in 1..(Limite(t0) + Cardinality(Hilos) - 1)
        /\ Cardinality(DeHoyDe(u0, t0)) = n0 - 1
        /\ Cardinality(DeHoyDe(u0, t0)') = n0
        /\ \A u, t : ~(u = u0 /\ t = t0) => DeHoyDe(u, t)' = DeHoyDe(u, t)
    BY UnaMas
  <1>2. Limite(t0) \in 1..2 /\ Cardinality(Hilos) \in Nat
    BY Vuelos DEF Limite
  <1> DEFINE N == 1..(2 + Cardinality(Hilos))
  <1>3. n0 \in N /\ \A m \in 1..(Limite(t0) + Cardinality(Hilos) - 1) : m \in N
    BY <1>1, <1>2
  <1>4. \A n \in N : /\ n <= n0 - 1 <=> n < n0
                     /\ n <= n0 <=> n < n0 \/ n = n0
    <2>1. n0 \in Int /\ \A n \in N : n \in Int
      BY <1>1, <1>2
    <2> HIDE DEF N
    <2> QED
      BY <2>1
  <1>5. /\ \A n \in N : n <= Cardinality(DeHoyDe(u0, t0)) <=> n < n0
        /\ \A n \in N : n <= Cardinality(DeHoyDe(u0, t0)') <=> n < n0 \/ n = n0
    <2> HIDE DEF N
    <2> QED
      BY <1>1, <1>4
  <1> HIDE DEF N
  <1>6. Servidas = {s \in N \X Alumnos \X Tipos : s[1] <= Cardinality(DeHoyDe(s[2], s[3]))}
    BY DEF Servidas, N
  <1>7. Servidas' = {s \in N \X Alumnos \X Tipos : s[1] <= Cardinality(DeHoyDe(s[2], s[3])')}
    BY DEF Servidas, N
  <1>8. \A n \in N : <<n, u0, t0>> \in Servidas <=> n < n0
    BY <1>5, <1>6
  <1>9. \A n \in N : <<n, u0, t0>> \in Servidas' <=> n < n0 \/ n = n0
    BY <1>5, <1>7
  <1>10. \A n \in N, u \in Alumnos, t \in Tipos : ~(u = u0 /\ t = t0) =>
           (<<n, u, t>> \in Servidas' <=> <<n, u, t>> \in Servidas)
    BY <1>1, <1>6, <1>7
  <1>11. Servidas \subseteq N \X Alumnos \X Tipos /\ Servidas' \subseteq N \X Alumnos \X Tipos
    BY <1>6, <1>7
  <1>12. \A n \in N, u \in Alumnos, t \in Tipos :
           <<n, u, t>> \in Servidas' <=> <<n, u, t>> \in Servidas \cup {<<n0, u0, t0>>}
    BY <1>8, <1>9, <1>10
  <1>13. Servidas' = Servidas \cup {<<n0, u0, t0>>}
    <2>1. \A s \in N \X Alumnos \X Tipos :
            s \in Servidas' <=> s \in Servidas \cup {<<n0, u0, t0>>}
      <3> TAKE s \in N \X Alumnos \X Tipos
      <3>1. PICK n \in N, u \in Alumnos, t \in Tipos : s = <<n, u, t>>
        OBVIOUS
      <3> QED
        BY <1>12, <3>1
    <2>2. Servidas \cup {<<n0, u0, t0>>} \subseteq N \X Alumnos \X Tipos
      BY <1>3, <1>11
    <2> QED
      BY <1>11, <2>1, <2>2
  <1>14. ~(n0 < n0)
    BY <1>1
  <1> QED
    BY <1>3, <1>8, <1>13, <1>14

LEMMA TicketSirve ==
  ASSUME IInv, IsFiniteSet(Hilos), PadronFijo, NEW h \in Hilos, GenerarTicket(h)
  PROVE  Vigente' /\ CupoHoy' /\ Contadas' /\ C!ComedorNext
  <1>1. /\ InvExceso /\ TypeOK /\ Vigente /\ CupoHoy /\ Contadas
        /\ pc[h] = "ticket" /\ UNCHANGED <<dia, pae, total>> /\ Responder(h, "Aprobado")
    BY DEF IInv, InvExceso, GenerarTicket, reloj, padron
  <1>2. PICK u0 \in Alumnos, t0 \in Tipos : usuario[h] = u0 /\ tipo[h] = t0
    BY <1>1 DEF TypeOK, Puntos
  <1>3. PICK n0 : n0 = Cardinality(DeHoyDe(u0, t0)) + 1
    OBVIOUS
  <1>4. /\ Servidas' = Servidas \cup {<<n0, u0, t0>>} /\ <<n0, u0, t0>> \notin Servidas
        /\ \A m \in 1..(Limite(t0) + Cardinality(Hilos) - 1) :
              <<m, u0, t0>> \in Servidas <=> m < n0
    BY <1>2, <1>3, RacionNueva
  <1>5. /\ n0 \in 1..(Limite(t0) + Cardinality(Hilos) - 1)
        /\ Cardinality(DeHoy(t0)') = Cardinality(DeHoy(t0)) + 1
        /\ \A t : t # t0 => DeHoy(t)' = DeHoy(t)
    BY <1>2, <1>3, UnaMas
  <1>6. \A t : EnVueloDe(t)' = EnVueloDe(t) \ {h}
    BY <1>1 DEF EnVueloDe, Responder, Ir, TypeOK
  <1>7. h \in EnVueloDe(t0) /\ \A t : t # t0 => EnVueloDe(t)' = EnVueloDe(t)
    BY <1>1, <1>2, <1>6 DEF EnVueloDe
  <1>8. Cardinality(EnVueloDe(t0)') = Cardinality(EnVueloDe(t0)) - 1 /\ Cardinality(EnVueloDe(t0)) > 0
    <2>1. Cardinality(EnVueloDe(t0) \ {h}) = Cardinality(EnVueloDe(t0)) - 1
      BY <1>7, VuelosDe, FS_RemoveElement
    <2>2. Cardinality(EnVueloDe(t0)) # 0
      BY <1>7, VuelosDe, FS_EmptySet
    <2> QED
      BY <1>6, <2>1, <2>2, VuelosDe
  <1>9. \A t : Cardinality(DeHoy(t)) \in Nat
    BY <1>1, Cuentas DEF InvExceso
  <1>10. CupoHoy'
    <2> SUFFICES ASSUME NEW t \in Tipos, total[t] > 0
                 PROVE  Cardinality(DeHoy(t)') + Cardinality(EnVueloDe(t)')
                          <= total[t] + Cardinality(Hilos) - 1
      BY <1>1 DEF CupoHoy
    <2>1. Cardinality(DeHoy(t)) + Cardinality(EnVueloDe(t)) <= total[t] + Cardinality(Hilos) - 1
      BY <1>1 DEF CupoHoy
    <2>2. Cardinality(DeHoy(t)') + Cardinality(EnVueloDe(t)') =
            Cardinality(DeHoy(t)) + Cardinality(EnVueloDe(t))
      BY <1>5, <1>7, <1>8, <1>9, VuelosDe
    <2> QED
      BY <2>1, <2>2
  <1>11. C!DeTipo(t0)' = C!DeTipo(t0) \cup {<<n0, u0, t0>>} /\ <<n0, u0, t0>> \notin C!DeTipo(t0)
    BY <1>4 DEF C!DeTipo
  <1>12. \A t : t # t0 => C!DeTipo(t)' = C!DeTipo(t)
    BY <1>4 DEF C!DeTipo
  <1>13. Contadas'
    <2> SUFFICES ASSUME NEW t \in Tipos
                 PROVE  /\ IsFiniteSet(C!DeTipo(t)')
                        /\ Cardinality(C!DeTipo(t)') = Cardinality(DeHoy(t)')
      BY DEF Contadas
    <2>1. IsFiniteSet(C!DeTipo(t)) /\ Cardinality(C!DeTipo(t)) = Cardinality(DeHoy(t))
      BY <1>1 DEF Contadas
    <2>2. CASE t = t0
      BY <1>5, <1>11, <2>1, <2>2, FS_AddElement
    <2>3. CASE t # t0
      BY <1>5, <1>12, <2>1, <2>3
    <2> QED
      BY <2>2, <2>3
  <1>14. Vigente'
    BY <1>1, VigenteSigue DEF Responder, Ir, TypeOK
  <1>15. C!Servir(u0, t0)
    <2>1. u0 \in pae
      BY <1>1, <1>2 DEF Vigente
    <2>2. total[t0] > 0 => Cardinality(C!DeTipo(t0)) < total[t0] + (Cardinality(Hilos) - 1)
      <3> SUFFICES ASSUME total[t0] > 0
                   PROVE  Cardinality(DeHoy(t0)) < total[t0] + (Cardinality(Hilos) - 1)
        BY <1>1 DEF Contadas
      <3>1. Cardinality(DeHoy(t0)) + Cardinality(EnVueloDe(t0)) <= total[t0] + Cardinality(Hilos) - 1
        BY <1>1 DEF CupoHoy
      <3>2. total[t0] \in Nat /\ Cardinality(Hilos) \in Nat
        BY <1>1, Vuelos DEF TypeOK
      <3> QED
        BY <1>8, <1>9, <3>1, <3>2, VuelosDe
    <2>3. Limite(t0) + (Cardinality(Hilos) - 1) = Limite(t0) + Cardinality(Hilos) - 1
      BY Vuelos, LimitePositivo
    <2>4. \E n \in 1..(Limite(t0) + (Cardinality(Hilos) - 1)) :
            /\ \A m \in 1..(Limite(t0) + (Cardinality(Hilos) - 1)) :
                 <<m, u0, t0>> \in Servidas <=> m < n
            /\ Servidas' = Servidas \cup {<<n, u0, t0>>}
      BY <1>4, <1>5, <2>3
    <2> QED
      BY <1>1, <2>1, <2>2, <2>4, MismaCuenta DEF C!Servir
  <1> QED
    BY <1>10, <1>13, <1>14, <1>15 DEF C!ComedorNext

-------------------------------------------------------------------------------
(* The clock and the environment.                                          *)

LEMMA DiaNuevo ==
  ASSUME IInv, IsFiniteSet(Hilos), Reloj
  PROVE  Vigente' /\ CupoHoy' /\ Contadas' /\ (C!NuevoDia \/ UNCHANGED C!comedorVars)
  <1>1. /\ InvExceso /\ TypeOK /\ Vigente /\ CupoHoy /\ Contadas
        /\ UNCHANGED <<tickets, pc, usuario, tipo, tope, pae, total>>
    BY DEF IInv, InvExceso, Reloj, padron, locales
  <1>2. Vigente'
    BY <1>1, VigenteSigue
  <1>3. CASE dia' = dia
    <2>1. CupoHoy' /\ Contadas'
      BY <1>1, <1>3, CupoSigue, ContadasSigue
    <2> QED
      BY <1>1, <1>2, <1>3, <2>1, ServidasSigue DEF C!comedorVars
  <1>4. CASE dia' = dia + 1
    <2>1. \A t : DeHoy(t)' = {}
      <3>1. \A k \in tickets : k.dia \in Nat /\ k.dia <= dia
        BY <1>1 DEF InvExceso, TypeOK, SinFuturo, Boleta
      <3>2. dia \in Nat
        BY <1>1 DEF TypeOK
      <3> QED
        BY <1>1, <1>4, <3>1, <3>2 DEF DeHoy
    <2>2. Servidas' = {}
      <3>1. \A u, t : DeHoyDe(u, t)' = {}
        BY <2>1 DEF DeHoyDe
      <3>2. \A u, t : Cardinality(DeHoyDe(u, t)') = 0
        BY <3>1, FS_EmptySet
      <3> QED
        BY <3>2 DEF Servidas
    <2>3. \A t : C!DeTipo(t)' = {}
      BY <2>2 DEF C!DeTipo
    <2>4. Contadas'
      BY <2>1, <2>3, FS_EmptySet DEF Contadas
    <2>5. CupoHoy'
      <3> SUFFICES ASSUME NEW t \in Tipos, total[t] > 0
                   PROVE  Cardinality(DeHoy(t)') + Cardinality(EnVueloDe(t)')
                            <= total[t] + Cardinality(Hilos) - 1
        BY <1>1 DEF CupoHoy
      <3>1. Cardinality(DeHoy(t)') = 0
        BY <2>1, FS_EmptySet
      <3>2. total[t] \in Nat
        BY <1>1 DEF TypeOK
      <3> QED
        BY <3>1, <3>2, Vuelos, VuelosDe
    <2> QED
      BY <1>1, <1>2, <1>4, <2>2, <2>4, <2>5 DEF C!NuevoDia
  <1> QED
    BY <1>3, <1>4 DEF Reloj

LEMMA EntornoQuieto ==
  ASSUME IInv, IsFiniteSet(Hilos), PadronFijo, Externo, ~Reloj
  PROVE  Vigente' /\ CupoHoy' /\ UNCHANGED <<tickets, dia, pae, total>>
  <1>1. InvExceso /\ Vigente /\ CupoHoy
    BY DEF IInv
  <1>2. EliminarRegistros \/ Reinicio
    BY DEF PadronFijo, Externo, EliminarTodos, EliminarAlumno, CambiarPae, ActualizarRaciones
  <1>3. CASE EliminarRegistros
    BY <1>1, <1>3, VigenteSigue, CupoSigue DEF EliminarRegistros, reloj, padron, locales
  <1>4. CASE Reinicio
    BY <1>1, <1>4, VigenteSigue, CupoSigue DEF Reinicio, reloj, padron
  <1> QED
    BY <1>2, <1>3, <1>4

LEMMA ComedorPaso ==
  ASSUME IInv, IsFiniteSet(Hilos), PadronFijo, [Next]_vars
  PROVE  IInv' /\ [C!ComedorNext]_C!comedorVars
  <1>1. InvExceso'
    BY ExcesoPaso DEF IInv
  <1>2. CASE \E h \in Hilos : GenerarTicket(h)
    BY <1>1, <1>2, TicketSirve DEF IInv
  <1>3. CASE Reloj
    BY <1>1, <1>3, DiaNuevo DEF IInv, C!ComedorNext
  <1>4. ASSUME UNCHANGED <<tickets, dia, pae, total>>, Vigente', CupoHoy'
        PROVE  IInv' /\ [C!ComedorNext]_C!comedorVars
    BY <1>1, <1>4, ContadasSigue, ServidasSigue DEF IInv, C!comedorVars
  <1>5. CASE \E h \in Hilos : Paso(h) /\ ~GenerarTicket(h)
    <2>1. PICK h \in Hilos : Paso(h) /\ ~GenerarTicket(h)
      BY <1>5
    <2>2. CASE VerUsuario(h) \/ VerConfig(h) \/ VerUsadas(h)
      <3>1. UNCHANGED <<tickets, dia, pae, total>>
        BY <2>2 DEF VerUsuario, VerConfig, VerUsadas, reloj, padron
      <3> QED
        BY <1>4, <2>2, <3>1, ComprobarUsuario, ComprobarConfig, ComprobarUsadas
    <2>3. CASE ~(VerUsuario(h) \/ VerConfig(h) \/ VerUsadas(h))
      BY <1>4, <2>1, <2>3, ComprobarResto DEF Paso
    <2> QED
      BY <2>2, <2>3
  <1>6. CASE \E h \in Hilos, u \in Alumnos : Solicitar(h, u)
    BY <1>4, <1>6, ComprobarResto
  <1>7. CASE Externo /\ ~Reloj
    BY <1>4, <1>7, EntornoQuieto
  <1>8. CASE UNCHANGED vars
    <2>1. Vigente' /\ CupoHoy'
      BY <1>8, VigenteSigue, CupoSigue DEF vars, reloj, padron, locales, IInv
    <2> QED
      BY <1>4, <1>8, <2>1 DEF vars, reloj, padron
  <1> QED
    BY <1>2, <1>3, <1>5, <1>6, <1>7, <1>8 DEF Next

(* Whatever the number of threads that run procesarAsistencia, of students *)
(* and of rations, every ticket is a ration that the service may give: to  *)
(* a student of the PAE, below the limit of the student and the total of   *)
(* the kind, except for one ration for each other thread between its check *)
(* and its commit (RegistrosController.py:66-92); also when commits fail,  *)
(* the process dies, the registros are deleted or the day ends there.      *)
THEOREM RefinaComedor ==
  ASSUME IsFiniteSet(Hilos), PadronFijo
  PROVE  Spec => ImplementaComedor
  <1>1. Init => IInv /\ C!ComedorInit
    BY ComienzoVacio
  <1>2. IInv /\ [Next]_vars => IInv' /\ [C!ComedorNext]_C!comedorVars
    BY ComedorPaso
  <1> QED
    BY <1>1, <1>2, PTL DEF Spec, ImplementaComedor, C!ComedorSpec

===============================================================================
