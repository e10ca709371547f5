--------------------------- MODULE Asistencia_proofs ---------------------------
(***************************************************************************)
(* Theorems about Asistencia, checked by TLAPS: its types, by how much any *)
(* number of threads may exceed the limit of a student, that registros and *)
(* tickets correspond when nothing is lost, and, when a single thread runs *)
(* procesarAsistencia, that neither the limit nor the total of rations is  *)
(* exceeded (with two threads both may be).                                *)
(***************************************************************************)
EXTENDS Asistencia, FiniteSetTheorems, TLAPS

-------------------------------------------------------------------------------
(* Type correctness.                                                       *)

LEMMA LimitePositivo ==
  ASSUME NEW t
  PROVE  Limite(t) \in Nat /\ Limite(t) > 0
  <1>1. CASE t = "almuerzo"
    BY <1>1 DEF Limite
  <1>2. CASE t # "almuerzo"
    BY <1>2 DEF Limite
  <1> QED
    BY <1>1, <1>2

(* The thread's part of TypeOK after each of the three ways of going on.   *)
LocalesOK ==
  /\ pc \in [Hilos -> Puntos]
  /\ usuario \in [Hilos -> Alumnos \cup {Nadie}]
  /\ tipo \in [Hilos -> Tipos \cup {"ninguno"}]
  /\ tope \in [Hilos -> Nat] /\ registro \in [Hilos -> Nat]
  /\ res \in [Hilos -> Respuestas]
  /\ \A h \in Hilos : pc[h] # "libre" => usuario[h] \in Alumnos
  /\ \A h \in Hilos : pc[h] \in Puntos \ {"libre", "admin", "horario"}
                        => tipo[h] \in Tipos

TablasOK ==
  /\ dia \in Nat /\ hora \in Horas
  /\ alumnos \subseteq Alumnos /\ pae \subseteq Alumnos
  /\ total \in [Tipos -> Nat]
  /\ registros \subseteq Fila /\ tickets \subseteq Boleta

LEMMA Partes ==
  /\ TypeOK <=> LocalesOK /\ TablasOK
  /\ TypeOK' <=> LocalesOK' /\ TablasOK'
  BY DEF TypeOK, LocalesOK, TablasOK

LEMMA TiposInit == Init => TypeOK
  <1> SUFFICES ASSUME Init PROVE TypeOK
    OBVIOUS
  <1>1. LocalesOK
    BY DEF Init, ProcesoNuevo, LocalesOK, Puntos, Respuestas
  <1>2. total \in [Tipos -> Nat]
    BY ConstantesOK DEF Init
  <1>3. TablasOK
    BY <1>2 DEF Init, TablasOK
  <1> QED
    BY <1>1, <1>3, Partes

LEMMA ResponderTipo ==
  ASSUME LocalesOK, NEW h \in Hilos,
         NEW r \in Respuestas,
         Responder(h, r)
  PROVE  LocalesOK'
  BY DEF LocalesOK, Responder, Ir, Puntos, Respuestas

LEMMA SeguirTipo ==
  ASSUME LocalesOK, NEW h \in Hilos, NEW l \in Puntos, Seguir(h, l),
         pc[h] # "libre",
         pc[h] \in {"admin", "horario"} => l = "horario"
  PROVE  LocalesOK'
  BY DEF LocalesOK, Seguir, Ir, Puntos, locales

(* The steps of a call that only read the tables.                          *)
Lectura(h) ==
  \/ VerAdmin(h) \/ VerHorario(h) \/ VerUsuario(h) \/ VerConfig(h)
  \/ VerUsadas(h) \/ VerHoy(h) \/ RegistroFalla(h) \/ TicketFalla(h)
  \/ ConsultaFalla(h) \/ RegistroPerdido(h)

LEMMA TipoRacionTipo ==
  ASSUME NEW x PROVE TipoRacion(x) \in Tipos \cup {"ninguno"}
  BY DEF TipoRacion, Tipos

LEMMA LecturaTipo ==
  ASSUME TypeOK, NEW h \in Hilos, Lectura(h)
  PROVE  TypeOK'
  <1> USE Partes
  <1>1. UNCHANGED <<reloj, padron, registros, tickets>>
    BY DEF Lectura, VerAdmin, VerHorario, VerUsuario, VerConfig, VerUsadas, VerHoy,
           RegistroFalla, TicketFalla, ConsultaFalla, RegistroPerdido
  <1>2. TablasOK'
    BY <1>1 DEF TablasOK, reloj, padron
  <1>3. LocalesOK'
    <2>1. CASE VerAdmin(h)
      BY <2>1, ResponderTipo, SeguirTipo DEF VerAdmin, Puntos, Respuestas
    <2>2. CASE VerHorario(h)
      <3>1. CASE TipoRacion(hora) = "ninguno"
        BY <2>2, <3>1, ResponderTipo DEF VerHorario, Respuestas
      <3>2. CASE TipoRacion(hora) # "ninguno"
        BY <2>2, <3>2, TipoRacionTipo DEF VerHorario, LocalesOK, Ir, Puntos
      <3> QED
        BY <3>1, <3>2
    <2>3. CASE VerUsuario(h)
      BY <2>3, ResponderTipo, SeguirTipo DEF VerUsuario, Puntos, Respuestas
    <2>4. CASE VerConfig(h)
      BY <2>4 DEF VerConfig, LocalesOK, TablasOK, Ir, Puntos
    <2>5. CASE VerUsadas(h)
      BY <2>5, ResponderTipo, SeguirTipo DEF VerUsadas, Puntos, Respuestas
    <2>6. CASE VerHoy(h)
      BY <2>6, ResponderTipo, SeguirTipo DEF VerHoy, Puntos, Respuestas
    <2>7. CASE RegistroFalla(h) \/ TicketFalla(h)
      BY <2>7, ResponderTipo DEF RegistroFalla, TicketFalla, Respuestas
    <2>8. CASE ConsultaFalla(h) \/ RegistroPerdido(h)
      BY <2>8, ResponderTipo DEF ConsultaFalla, RegistroPerdido, Respuestas
    <2> QED
      BY <2>1, <2>2, <2>3, <2>4, <2>5, <2>6, <2>7, <2>8 DEF Lectura
  <1> QED
    BY <1>2, <1>3

LEMMA EscrituraTipo ==
  ASSUME TypeOK, NEW h \in Hilos, CrearRegistro(h) \/ GenerarTicket(h)
  PROVE  TypeOK'
  <1> USE Partes
  <1>1. usuario[h] \in Alumnos /\ tipo[h] \in Tipos
    BY DEF TypeOK, CrearRegistro, GenerarTicket, Puntos
  <1>2. CASE CrearRegistro(h)
    <2>1. PICK n \in 1..MaxRegistro :
            /\ registros' = registros \cup
                 {[id |-> n, usuario |-> usuario[h], tipo |-> tipo[h], dia |-> dia]}
            /\ registro' = [registro EXCEPT ![h] = n]
      BY <1>2 DEF CrearRegistro
    <2>2. n \in Nat
      BY ConstantesOK
    <2>3. TablasOK'
      BY <1>1, <1>2, <2>1, <2>2 DEF CrearRegistro, TablasOK, Fila, reloj, padron
    <2>4. LocalesOK'
      BY <1>1, <1>2, <2>1, <2>2 DEF CrearRegistro, LocalesOK, Ir, Puntos
    <2> QED
      BY <2>3, <2>4
  <1>3. CASE GenerarTicket(h)
    <2>1. registro[h] \in Nat /\ dia \in Nat
      BY DEF TypeOK
    <2>2. TablasOK'
      BY <1>1, <1>3, <2>1 DEF GenerarTicket, TablasOK, Boleta, reloj, padron
    <2> QED
      BY <1>3, <2>2, ResponderTipo DEF GenerarTicket, Respuestas
  <1> QED
    BY <1>2, <1>3

LEMMA SolicitarTipo ==
  ASSUME TypeOK, NEW h \in Hilos, NEW u \in Alumnos, Solicitar(h, u)
  PROVE  TypeOK'
  <1>1. TablasOK'
    BY Partes DEF TablasOK, Solicitar, reloj, padron
  <1>2. LocalesOK'
    BY Partes DEF LocalesOK, Solicitar, Ir, Puntos, Respuestas
  <1> QED
    BY <1>1, <1>2, Partes

LEMMA ExternoTipo == TypeOK /\ Externo => TypeOK'
  <1> SUFFICES ASSUME TypeOK, Externo PROVE TypeOK'
    OBVIOUS
  <1> USE Partes, ConstantesOK
  <1>1. CASE Reloj
    BY <1>1 DEF Reloj, TypeOK, padron, locales
  <1>2. CASE EliminarRegistros
    BY <1>2 DEF EliminarRegistros, TypeOK, reloj, padron, locales
  <1>3. CASE EliminarTodos
    BY <1>3 DEF EliminarTodos, TypeOK, reloj, locales
  <1>4. CASE Reinicio
    <2>1. TablasOK'
      BY <1>4 DEF Reinicio, TablasOK, reloj, padron
    <2>2. LocalesOK'
      BY <1>4 DEF Reinicio, LocalesOK, Puntos, Respuestas
    <2> QED
      BY <2>1, <2>2
  <1>5. CASE \E u \in Alumnos : EliminarAlumno(u)
    BY <1>5 DEF EliminarAlumno, TypeOK, reloj, locales
  <1>6. CASE \E u \in Alumnos : CambiarPae(u)
    BY <1>6 DEF CambiarPae, TypeOK, reloj, locales
  <1>7. CASE \E t \in Tipos, n \in Totales : ActualizarRaciones(t, n)
    BY <1>7 DEF ActualizarRaciones, TypeOK, reloj, locales
  <1> QED
    BY <1>1, <1>2, <1>3, <1>4, <1>5, <1>6, <1>7 DEF Externo

LEMMA Casos ==
  ASSUME NEW h \in Hilos, Paso(h)
  PROVE  Lectura(h) \/ CrearRegistro(h) \/ GenerarTicket(h)
  BY DEF Paso, Lectura

LEMMA TiposPaso == TypeOK /\ [Next]_vars => TypeOK'
  <1> SUFFICES ASSUME TypeOK, [Next]_vars PROVE TypeOK'
    OBVIOUS
  <1>1. CASE \E h \in Hilos : Paso(h)
    BY <1>1, Casos, LecturaTipo, EscrituraTipo
  <1>2. CASE \E h \in Hilos, u \in Alumnos : Solicitar(h, u)
    BY <1>2, SolicitarTipo
  <1>3. CASE Externo
    BY <1>3, ExternoTipo
  <1>4. CASE UNCHANGED vars
    BY <1>4 DEF vars, reloj, padron, locales, TypeOK
  <1> QED
    BY <1>1, <1>2, <1>3, <1>4 DEF Next

(* Every reachable state is well typed; in particular a call past the      *)
(* schedule check knows the kind of its ration (RegistrosController.py:50).*)
THEOREM TiposInvariante == Spec => []TypeOK
  BY TiposInit, TiposPaso, PTL DEF Spec

-------------------------------------------------------------------------------
(* The daily limit with any number of threads.                             *)

(* Tickets are never dated after today.                                    *)
SinFuturo == \A k \in tickets : k.dia <= dia

(* The calls that have passed the check of u for t and not yet emitted.    *)
EnVuelo(u, t) ==
  {h \in Hilos : pc[h] \in {"registro", "ticket"} /\ usuario[h] = u /\ tipo[h] = t}

MaximoDe(t) == Limite(t) + Cardinality(Hilos) - 1

(* The tickets of today and those on their way respect the bound together. *)
ExcesoHoy ==
  \A u \in Alumnos, t \in Tipos :
     Cardinality(DelDia(u, t, dia)) + Cardinality(EnVuelo(u, t)) <= MaximoDe(t)

InvExceso ==
  /\ TypeOK /\ dia > 0 /\ IsFiniteSet(tickets)
  /\ SinFuturo /\ ExcesoHoy /\ ExcesoAcotado

(* Both counts are of subsets of the table of tickets.                     *)
LEMMA Cuentas ==
  ASSUME IsFiniteSet(tickets)
  PROVE  /\ \A u, t, d : /\ IsFiniteSet(DelDia(u, t, d))
                         /\ Cardinality(DelDia(u, t, d)) \in Nat
         /\ \A t : /\ IsFiniteSet(DeHoy(t))
                   /\ Cardinality(DeHoy(t)) \in Nat
  <1>1. \A u, t, d : DelDia(u, t, d) \in SUBSET tickets
    BY DEF DelDia
  <1>2. \A t : DeHoy(t) \in SUBSET tickets
    BY DEF DeHoy
  <1> QED
    BY <1>1, <1>2, FS_Subset, FS_CardinalityType

(* Steps that emit no ticket and stay in the day only lower the counts.    *)
LEMMA CuentasBajan ==
  ASSUME IsFiniteSet(tickets), tickets' \subseteq tickets, dia' = dia
  PROVE  /\ IsFiniteSet(tickets')
         /\ \A u, t, d : /\ Cardinality(DelDia(u, t, d)') \in Nat
                         /\ Cardinality(DelDia(u, t, d)') <= Cardinality(DelDia(u, t, d))
         /\ \A t : /\ Cardinality(DeHoy(t)') \in Nat
                   /\ Cardinality(DeHoy(t)') <= Cardinality(DeHoy(t))
  <1>1. IsFiniteSet(tickets')
    BY FS_Subset
  <1>2. \A u, t, d : DelDia(u, t, d)' \in SUBSET DelDia(u, t, d)
    BY DEF DelDia
  <1>3. \A t : DeHoy(t)' \in SUBSET DeHoy(t)
    BY DEF DeHoy
  <1>4. \A u, t, d : IsFiniteSet(DelDia(u, t, d)')
    BY <1>2, Cuentas, FS_Subset
  <1>5. \A t : IsFiniteSet(DeHoy(t)')
    BY <1>3, Cuentas, FS_Subset
  <1> QED
    BY <1>1, <1>2, <1>3, <1>4, <1>5, Cuentas, FS_Subset, FS_CardinalityType

LEMMA Vuelos ==
  ASSUME IsFiniteSet(Hilos)
  PROVE  /\ Cardinality(Hilos) \in Nat /\ Cardinality(Hilos) > 0
         /\ \A u, t : /\ IsFiniteSet(EnVuelo(u, t))
                      /\ Cardinality(EnVuelo(u, t)) \in Nat
                      /\ Cardinality(EnVuelo(u, t)) <= Cardinality(Hilos)
  <1>1. \A u, t : EnVuelo(u, t) \in SUBSET Hilos
    BY DEF EnVuelo
  <1>2. Hilos # {}
    BY ConstantesOK
  <1> QED
    BY <1>1, <1>2, FS_Subset, FS_CardinalityType, FS_EmptySet

(* A step in which no call passes the check nor emits a ticket.            *)
LEMMA ExcesoSigue ==
  ASSUME InvExceso, IsFiniteSet(Hilos), TypeOK', tickets' \subseteq tickets, dia' = dia,
         \A h \in Hilos : pc'[h] \in {"registro", "ticket"} =>
            /\ pc[h] \in {"registro", "ticket"}
            /\ usuario'[h] = usuario[h] /\ tipo'[h] = tipo[h]
  PROVE  InvExceso'
  <1>1. IsFiniteSet(tickets') /\ SinFuturo'
    BY CuentasBajan DEF InvExceso, SinFuturo
  <1>2. ExcesoHoy'
    <2> SUFFICES ASSUME NEW u \in Alumnos, NEW t \in Tipos
                 PROVE  Cardinality(DelDia(u, t, dia)') + Cardinality(EnVuelo(u, t)')
                          <= MaximoDe(t)
      BY DEF ExcesoHoy, MaximoDe, Limite
    <2>1. EnVuelo(u, t)' \in SUBSET EnVuelo(u, t)
      BY DEF EnVuelo
    <2>2. /\ Cardinality(EnVuelo(u, t)') \in Nat
          /\ Cardinality(EnVuelo(u, t)') <= Cardinality(EnVuelo(u, t))
      BY <2>1, Vuelos, FS_Subset, FS_CardinalityType
    <2>3. /\ Cardinality(DelDia(u, t, dia)') \in Nat
          /\ Cardinality(DelDia(u, t, dia)') <= Cardinality(DelDia(u, t, dia))
      <3>1. DelDia(u, t, dia)' \in SUBSET DelDia(u, t, dia)
        BY DEF DelDia
      <3> QED
        BY <3>1, Cuentas, FS_Subset, FS_CardinalityType DEF InvExceso
    <2>4. Cardinality(DelDia(u, t, dia)) + Cardinality(EnVuelo(u, t)) <= MaximoDe(t)
      BY DEF InvExceso, ExcesoHoy
    <2> QED
      BY <2>2, <2>3, <2>4, Cuentas, Vuelos, LimitePositivo DEF InvExceso, MaximoDe
  <1>3. ExcesoAcotado'
    <2> SUFFICES ASSUME NEW u \in Alumnos, NEW t \in Tipos, NEW d \in (1..dia)'
                 PROVE  Cardinality(DelDia(u, t, d)') <= MaximoDe(t)
      BY DEF ExcesoAcotado, MaximoDe
    <2>1. Cardinality(DelDia(u, t, d)) <= MaximoDe(t)
      BY DEF InvExceso, ExcesoAcotado, MaximoDe
    <2> QED
      BY <2>1, CuentasBajan, Cuentas, Vuelos, LimitePositivo DEF InvExceso, MaximoDe
  <1> QED
    BY <1>1, <1>2, <1>3 DEF InvExceso

(* The check: before it passes there is room for one ticket of its own,    *)
(* and no more than all the threads are on their way after it.             *)
LEMMA ExcesoVerHoy ==
  ASSUME InvExceso, IsFiniteSet(Hilos), TypeOK', NEW h \in Hilos, VerHoy(h)
  PROVE  InvExceso'
  <1>1. UNCHANGED <<tickets, dia>> /\ pc[h] = "hoy"
    BY DEF VerHoy, reloj
  <1>2. CASE Cardinality(DeHoyDe(usuario[h], tipo[h])) >= Limite(tipo[h])
    BY <1>1, <1>2, ExcesoSigue DEF VerHoy, Responder, Ir, InvExceso, TypeOK
  <1>3. CASE ~(Cardinality(DeHoyDe(usuario[h], tipo[h])) >= Limite(tipo[h]))
    <2>1. pc' = [pc EXCEPT ![h] = "registro"] /\ UNCHANGED <<usuario, tipo>>
      BY <1>3 DEF VerHoy, Seguir, Ir, locales
    <2>2. DeHoyDe(usuario[h], tipo[h]) = DelDia(usuario[h], tipo[h], dia)
      BY DEF DeHoyDe, DeHoy, DelDia
    <2>3. Cardinality(DelDia(usuario[h], tipo[h], dia)) < Limite(tipo[h])
      BY <1>3, <2>2, Cuentas, LimitePositivo DEF InvExceso
    <2>4. \A u, t, d : DelDia(u, t, d)' = DelDia(u, t, d)
      BY <1>1 DEF DelDia
    <2>5. ExcesoHoy'
      <3> SUFFICES ASSUME NEW u \in Alumnos, NEW t \in Tipos
                   PROVE  Cardinality(DelDia(u, t, dia)) + Cardinality(EnVuelo(u, t)')
                            <= MaximoDe(t)
        BY <1>1 DEF ExcesoHoy, MaximoDe, Limite, DelDia
      <3>1. CASE u = usuario[h] /\ t = tipo[h]
        <4>1. EnVuelo(u, t)' \in SUBSET Hilos
          BY DEF EnVuelo
        <4>2. /\ Cardinality(EnVuelo(u, t)') \in Nat
              /\ Cardinality(EnVuelo(u, t)') <= Cardinality(Hilos)
          BY <4>1, FS_Subset, FS_CardinalityType
        <4> QED
          BY <2>3, <3>1, <4>2, Cuentas, Vuelos, LimitePositivo DEF InvExceso, MaximoDe
      <3>2. CASE ~(u = usuario[h] /\ t = tipo[h])
        <4>1. EnVuelo(u, t)' = EnVuelo(u, t)
          BY <1>1, <2>1, <3>2 DEF EnVuelo, InvExceso, TypeOK
        <4> QED
          BY <4>1 DEF InvExceso, ExcesoHoy
      <3> QED
        BY <3>1, <3>2
    <2>6. ExcesoAcotado'
      BY <1>1, <2>4 DEF InvExceso, ExcesoAcotado
    <2> QED
      BY <1>1, <2>5, <2>6 DEF InvExceso, SinFuturo
  <1> QED
    BY <1>2, <1>3

(* The other steps of a call that emit no ticket.                          *)
LEMMA ExcesoLlamada ==
  ASSUME InvExceso, IsFiniteSet(Hilos), TypeOK', NEW h \in Hilos,
         Lectura(h) \/ CrearRegistro(h) \/ \E u \in Alumnos : Solicitar(h, u)
  PROVE  InvExceso'
  <1>1. CASE VerHoy(h)
    BY <1>1, ExcesoVerHoy
  <1>2. CASE VerAdmin(h) \/ VerHorario(h) \/ VerUsuario(h) \/ VerConfig(h) \/ VerUsadas(h)
    BY <1>2, ExcesoSigue DEF VerAdmin, VerHorario, VerUsuario, VerConfig, VerUsadas,
                             Responder, Seguir, Ir, locales, reloj, InvExceso, TypeOK
  <1>3. CASE RegistroFalla(h) \/ TicketFalla(h) \/ ConsultaFalla(h) \/ RegistroPerdido(h)
    BY <1>3, ExcesoSigue DEF RegistroFalla, TicketFalla, ConsultaFalla, RegistroPerdido,
                             Responder, Ir, reloj, InvExceso, TypeOK
  <1>4. CASE CrearRegistro(h)
    BY <1>4, ExcesoSigue DEF CrearRegistro, Ir, reloj, InvExceso, TypeOK
  <1>5. CASE \E u \in Alumnos : Solicitar(h, u)
    BY <1>5, ExcesoSigue DEF Solicitar, Ir, reloj, InvExceso, TypeOK
  <1> QED
    BY <1>1, <1>2, <1>3, <1>4, <1>5 DEF Lectura

(* A day that begins has no tickets, and the calls on their way are at     *)
(* most one for each thread.                                               *)
LEMMA ExcesoReloj ==
  ASSUME InvExceso, IsFiniteSet(Hilos), TypeOK', Reloj
  PROVE  InvExceso'
  <1>1. UNCHANGED <<tickets, pc, usuario, tipo>>
    BY DEF Reloj, locales
  <1>2. CASE dia' = dia
    BY <1>1, <1>2, ExcesoSigue
  <1>3. CASE dia' = dia + 1
    <2> USE <1>1, <1>3
    <2>1. dia \in Nat /\ dia > 0 /\ tickets \subseteq Boleta
      BY DEF InvExceso, TypeOK
    <2>2. \A k \in tickets : k.dia \in Nat /\ k.dia <= dia
      BY <2>1 DEF InvExceso, SinFuturo, Boleta
    <2>3. \A u, t : DelDia(u, t, dia)' = {} /\ DelDia(u, t, dia + 1) = {}
      BY <2>1, <2>2 DEF DelDia
    <2>4. SinFuturo'
      BY <2>1, <2>2 DEF SinFuturo
    <2>5. ExcesoHoy'
      <3> SUFFICES ASSUME NEW u \in Alumnos, NEW t \in Tipos
                   PROVE  Cardinality(DelDia(u, t, dia)') + Cardinality(EnVuelo(u, t)')
                            <= MaximoDe(t)
        BY DEF ExcesoHoy, MaximoDe, Limite
      <3>1. EnVuelo(u, t)' = EnVuelo(u, t)
        BY DEF EnVuelo
      <3> QED
        BY <2>3, <3>1, Vuelos, LimitePositivo, FS_EmptySet DEF MaximoDe
    <2>6. ExcesoAcotado'
      <3> SUFFICES ASSUME NEW u \in Alumnos, NEW t \in Tipos, NEW d \in (1..dia)'
                   PROVE  Cardinality(DelDia(u, t, d)') <= MaximoDe(t)
        BY DEF ExcesoAcotado, MaximoDe
      <3>1. DelDia(u, t, d)' = DelDia(u, t, d)
        BY DEF DelDia
      <3>2. CASE d \in 1..dia
        BY <3>1, <3>2 DEF InvExceso, ExcesoAcotado, MaximoDe
      <3>3. CASE d = dia + 1
        BY <2>3, <3>1, <3>3, Vuelos, LimitePositivo, FS_EmptySet DEF MaximoDe
      <3> QED
        BY <2>1, <3>2, <3>3
    <2> QED
      BY <2>1, <2>4, <2>5, <2>6 DEF InvExceso
  <1> QED
    BY <1>2, <1>3 DEF Reloj

LEMMA ExcesoExterno ==
  ASSUME InvExceso, IsFiniteSet(Hilos), TypeOK', Externo
  PROVE  InvExceso'
  <1>1. CASE Reloj
    BY <1>1, ExcesoReloj
  <1>2. CASE Reinicio
    BY <1>2, ExcesoSigue DEF Reinicio, reloj
  <1>3. CASE EliminarRegistros \/ EliminarTodos
    BY <1>3, ExcesoSigue DEF EliminarRegistros, EliminarTodos, locales, reloj
  <1>4. CASE \E u \in Alumnos : EliminarAlumno(u)
    BY <1>4, ExcesoSigue DEF EliminarAlumno, locales, reloj
  <1>5. CASE \E u \in Alumnos : CambiarPae(u)
    BY <1>5, ExcesoSigue DEF CambiarPae, locales, reloj
  <1>6. CASE \E t \in Tipos, n \in Totales : ActualizarRaciones(t, n)
    BY <1>6, ExcesoSigue DEF ActualizarRaciones, locales, reloj
  <1> QED
    BY <1>1, <1>2, <1>3, <1>4, <1>5, <1>6 DEF Externo

(* A call that emits its ticket is no longer on its way: the sum stays.    *)
LEMMA ExcesoTicket ==
  ASSUME InvExceso, IsFiniteSet(Hilos), TypeOK', NEW h \in Hilos, GenerarTicket(h)
  PROVE  InvExceso'
  <1> DEFINE u0 == usuario[h]
             t0 == tipo[h]
             k0 == [registro |-> registro[h], usuario |-> u0, tipo |-> t0, dia |-> dia]
  <1>1. /\ tickets' = tickets \cup {k0} /\ dia' = dia
        /\ pc[h] = "ticket" /\ pc' = [pc EXCEPT ![h] = "libre"]
        /\ usuario' = [usuario EXCEPT ![h] = Nadie]
        /\ tipo' = [tipo EXCEPT ![h] = "ninguno"]
    BY DEF GenerarTicket, Responder, Ir, reloj
  <1>2. dia \in Nat /\ dia > 0
    BY DEF InvExceso, TypeOK
  <1>3. SinFuturo'
    BY <1>1, <1>2 DEF InvExceso, SinFuturo
  <1>4. IsFiniteSet(tickets')
    BY <1>1, FS_AddElement DEF InvExceso
  <1>5. \A u, t : EnVuelo(u, t)' = EnVuelo(u, t) \ {h}
    BY <1>1 DEF EnVuelo, InvExceso, TypeOK
  <1>6. ExcesoHoy'
    <2> SUFFICES ASSUME NEW u \in Alumnos, NEW t \in Tipos
                 PROVE  Cardinality(DelDia(u, t, dia)') + Cardinality(EnVuelo(u, t)')
                          <= MaximoDe(t)
      BY DEF ExcesoHoy, MaximoDe, Limite
    <2>1. Cardinality(DelDia(u, t, dia)) + Cardinality(EnVuelo(u, t)) <= MaximoDe(t)
      BY DEF InvExceso, ExcesoHoy
    <2>2. /\ IsFiniteSet(DelDia(u, t, dia)) /\ Cardinality(DelDia(u, t, dia)) \in Nat
          /\ IsFiniteSet(EnVuelo(u, t)) /\ Cardinality(EnVuelo(u, t)) \in Nat
      BY Cuentas, Vuelos DEF InvExceso
    <2>3. CASE u = u0 /\ t = t0
      <3>1. DelDia(u, t, dia)' = DelDia(u, t, dia) \cup {k0}
        BY <1>1, <2>3 DEF DelDia
      <3>2. h \in EnVuelo(u, t)
        BY <1>1, <2>3 DEF EnVuelo
      <3>3. Cardinality(EnVuelo(u, t)') = Cardinality(EnVuelo(u, t)) - 1
        BY <1>5, <2>2, <3>2, FS_RemoveElement
      <3>4. Cardinality(DelDia(u, t, dia) \cup {k0}) =
              IF k0 \in DelDia(u, t, dia) THEN Cardinality(DelDia(u, t, dia))
                                          ELSE Cardinality(DelDia(u, t, dia)) + 1
        BY <2>2, FS_AddElement
      <3> QED
        BY <2>1, <2>2, <3>1, <3>3, <3>4, Vuelos, LimitePositivo DEF MaximoDe
    <2>4. CASE ~(u = u0 /\ t = t0)
      <3>1. DelDia(u, t, dia)' = DelDia(u, t, dia)
        BY <1>1, <2>4 DEF DelDia
      <3>2. h \notin EnVuelo(u, t)
        BY <2>4 DEF EnVuelo
      <3>3. EnVuelo(u, t)' = EnVuelo(u, t)
        BY <1>5, <3>2
      <3> QED
        BY <2>1, <3>1, <3>3
    <2> QED
      BY <2>3, <2>4
  <1>7. ExcesoAcotado'
    <2> SUFFICES ASSUME NEW u \in Alumnos, NEW t \in Tipos, NEW d \in (1..dia)'
                 PROVE  Cardinality(DelDia(u, t, d)') <= MaximoDe(t)
      BY DEF ExcesoAcotado, MaximoDe
    <2>1. CASE d = dia
      <3>1. DelDia(u, t, d)' = DelDia(u, t, dia)'
        BY <1>1, <2>1 DEF DelDia
      <3>2. Cardinality(DelDia(u, t, dia)') + Cardinality(EnVuelo(u, t)') <= MaximoDe(t)
        BY <1>6 DEF ExcesoHoy, MaximoDe, Limite
      <3>3. /\ Cardinality(DelDia(u, t, dia)') \in Nat
            /\ Cardinality(EnVuelo(u, t)') \in Nat
        <4>1. DelDia(u, t, dia)' \in SUBSET tickets'
          BY DEF DelDia
        <4>2. EnVuelo(u, t)' \in SUBSET Hilos
          BY DEF EnVuelo
        <4> QED
          BY <1>4, <4>1, <4>2, FS_Subset, FS_CardinalityType
      <3> QED
        BY <3>1, <3>2, <3>3, Vuelos, LimitePositivo DEF MaximoDe
    <2>2. CASE d # dia
      <3>1. DelDia(u, t, d)' = DelDia(u, t, d)
        BY <1>1, <2>2 DEF DelDia
      <3> QED
        BY <1>1, <3>1 DEF InvExceso, ExcesoAcotado, MaximoDe
    <2> QED
      BY <2>1, <2>2
  <1> QED
    BY <1>1, <1>2, <1>3, <1>4, <1>6, <1>7 DEF InvExceso

LEMMA ExcesoInit == IsFiniteSet(Hilos) /\ Init => InvExceso
  <1> SUFFICES ASSUME IsFiniteSet(Hilos), Init PROVE InvExceso
    OBVIOUS
  <1>1. TypeOK /\ tickets = {} /\ dia = 1 /\ IsFiniteSet(tickets)
    BY TiposInit, FS_EmptySet DEF Init
  <1>2. \A u, t, d : DelDia(u, t, d) = {}
    BY <1>1 DEF DelDia
  <1>3. \A u, t : EnVuelo(u, t) = {}
    BY DEF Init, ProcesoNuevo, EnVuelo
  <1>4. ExcesoHoy /\ ExcesoAcotado
    BY <1>2, <1>3, Vuelos, LimitePositivo, FS_EmptySet DEF ExcesoHoy, ExcesoAcotado, MaximoDe
  <1> QED
    BY <1>1, <1>4 DEF InvExceso, SinFuturo

LEMMA ExcesoPaso ==
  ASSUME IsFiniteSet(Hilos)
  PROVE  InvExceso /\ [Next]_vars => InvExceso'
  <1> SUFFICES ASSUME InvExceso, [Next]_vars PROVE InvExceso'
    OBVIOUS
  <1>1. TypeOK'
    BY TiposPaso DEF InvExceso
  <1>2. CASE \E h \in Hilos : Paso(h)
    BY <1>1, <1>2, Casos, ExcesoLlamada, ExcesoTicket
  <1>3. CASE \E h \in Hilos, u \in Alumnos : Solicitar(h, u)
    BY <1>1, <1>3, ExcesoLlamada
  <1>4. CASE Externo
    BY <1>1, <1>4, ExcesoExterno
  <1>5. CASE UNCHANGED vars
    BY <1>1, <1>5, ExcesoSigue DEF vars, reloj, locales
  <1> QED
    BY <1>2, <1>3, <1>4, <1>5 DEF Next

(* With any finite number of threads in procesarAsistencia, the limit of a *)
(* student is exceeded by at most one ticket for each thread but one       *)
(* (RegistrosController.py:76-92), whatever else happens and also when the *)
(* day changes between a check and its commit.                             *)
THEOREM ExcesoInvariante ==
  ASSUME IsFiniteSet(Hilos)
  PROVE  Spec => []ExcesoAcotado
  <1>1. InvExceso => ExcesoAcotado
    BY DEF InvExceso
  <1> QED
    BY <1>1, ExcesoInit, ExcesoPaso, PTL DEF Spec

(* With one thread in procesarAsistencia no student gets more tickets of a *)
(* kind for a day than the limit (RegistrosController.py:76-86), whatever  *)
(* is deleted, configured or fails meanwhile.                              *)
THEOREM LimiteInvariante ==
  ASSUME Hilos = {Bucle}
  PROVE  Spec => []LimiteDiario
  <1>1. IsFiniteSet(Hilos) /\ Cardinality(Hilos) = 1
    BY FS_Singleton
  <1>2. \A t : Limite(t) + Cardinality(Hilos) - 1 = Limite(t)
    BY <1>1, LimitePositivo
  <1>3. ExcesoAcotado => LimiteDiario
    BY <1>2 DEF ExcesoAcotado, LimiteDiario
  <1>4. Spec => []ExcesoAcotado
    BY <1>1, ExcesoInvariante
  <1> QED
    BY <1>3, <1>4, PTL

-------------------------------------------------------------------------------
(* The total of rations, when one thread runs procesarAsistencia.          *)

(* What VerConfig and VerUsadas saw is still so until the ticket.          *)
CupoTotal ==
  \A h \in Hilos : (pc[h] \in {"hoy", "registro", "ticket"} /\ tope[h] > 0) =>
     Cardinality(DeHoy(tipo[h])) < tope[h]

(* A step in which no call gets to know more, and none emits a ticket.     *)
LEMMA TotalSigue ==
  ASSUME InvExceso, CupoTotal, tickets' \subseteq tickets, dia' = dia,
         \A h \in Hilos : pc'[h] \in {"hoy", "registro", "ticket"} =>
            /\ pc[h] \in {"hoy", "registro", "ticket"}
            /\ tipo'[h] = tipo[h] /\ tope'[h] = tope[h]
  PROVE  CupoTotal'
  <1> SUFFICES ASSUME NEW h \in Hilos, pc'[h] \in {"hoy", "registro", "ticket"},
                      tope'[h] > 0
               PROVE  Cardinality(DeHoy(tipo[h])') < tope'[h]
    BY DEF CupoTotal
  <1>1. /\ pc[h] \in {"hoy", "registro", "ticket"}
        /\ tipo'[h] = tipo[h] /\ tope'[h] = tope[h]
    OBVIOUS
  <1>2. Cardinality(DeHoy(tipo[h])) < tope[h]
    BY <1>1 DEF CupoTotal
  <1>3. DeHoy(tipo[h])' \in SUBSET DeHoy(tipo[h])
    BY <1>1 DEF DeHoy
  <1>4. IsFiniteSet(DeHoy(tipo[h])')
    BY <1>3, Cuentas, FS_Subset DEF InvExceso
  <1>5. tope[h] \in Nat
    BY DEF InvExceso, TypeOK
  <1> QED
    BY <1>1, <1>2, <1>3, <1>4, <1>5, Cuentas, FS_Subset, FS_CardinalityType DEF InvExceso

(* The two checks establish it.                                            *)
LEMMA TotalVerConfig ==
  ASSUME InvExceso, CupoTotal, NEW h \in Hilos, VerConfig(h)
  PROVE  CupoTotal'
  <1>1. /\ UNCHANGED <<tickets, dia, tipo>>
        /\ pc' = [pc EXCEPT ![h] = IF total[tipo[h]] > 0 THEN "usadas" ELSE "hoy"]
        /\ tope' = [tope EXCEPT ![h] = total[tipo[h]]]
    BY DEF VerConfig, Ir, reloj
  <1>2. pc[h] = "config" /\ total[tipo[h]] \in Nat
    BY DEF VerConfig, InvExceso, TypeOK, Puntos
  <1> QED
    BY <1>1, <1>2 DEF CupoTotal, InvExceso, TypeOK, DeHoy

LEMMA TotalVerUsadas ==
  ASSUME InvExceso, CupoTotal, NEW h \in Hilos, VerUsadas(h)
  PROVE  CupoTotal'
  <1>1. UNCHANGED <<tickets, dia>> /\ pc[h] = "usadas"
    BY DEF VerUsadas, reloj
  <1>2. CASE Cardinality(DeHoy(tipo[h])) >= tope[h]
    BY <1>1, <1>2, TotalSigue DEF VerUsadas, Responder, Ir, InvExceso, TypeOK
  <1>3. CASE ~(Cardinality(DeHoy(tipo[h])) >= tope[h])
    <2>1. pc' = [pc EXCEPT ![h] = "hoy"] /\ UNCHANGED <<tipo, tope>>
      BY <1>3 DEF VerUsadas, Seguir, Ir, locales
    <2>2. Cardinality(DeHoy(tipo[h])) < tope[h]
      BY <1>3, Cuentas DEF InvExceso, TypeOK
    <2> QED
      BY <1>1, <2>1, <2>2 DEF CupoTotal, InvExceso, TypeOK, DeHoy
  <1> QED
    BY <1>2, <1>3

LEMMA TotalLlamada ==
  ASSUME InvExceso, CupoTotal, NEW h \in Hilos,
         Lectura(h) \/ CrearRegistro(h) \/ \E u \in Alumnos : Solicitar(h, u)
  PROVE  CupoTotal'
  <1>1. CASE VerConfig(h) \/ VerUsadas(h)
    BY <1>1, TotalVerConfig, TotalVerUsadas
  <1>2. CASE VerAdmin(h) \/ VerHorario(h) \/ VerUsuario(h) \/ VerHoy(h)
    BY <1>2, TotalSigue DEF VerAdmin, VerHorario, VerUsuario, VerHoy, Responder, Seguir,
                            Ir, locales, reloj, InvExceso, TypeOK
  <1>3. CASE RegistroFalla(h) \/ TicketFalla(h) \/ ConsultaFalla(h) \/ RegistroPerdido(h)
    BY <1>3, TotalSigue DEF RegistroFalla, TicketFalla, ConsultaFalla, RegistroPerdido,
                            Responder, Ir, reloj, InvExceso, TypeOK
  <1>4. CASE CrearRegistro(h)
    BY <1>4, TotalSigue DEF CrearRegistro, Ir, reloj, InvExceso, TypeOK
  <1>5. CASE \E u \in Alumnos : Solicitar(h, u)
    BY <1>5, TotalSigue DEF Solicitar, Ir, reloj, InvExceso, TypeOK
  <1> QED
    BY <1>1, <1>2, <1>3, <1>4, <1>5 DEF Lectura

LEMMA TotalExterno ==
  ASSUME InvExceso, CupoTotal, Externo
  PROVE  CupoTotal'
  <1>1. CASE Reloj
    <2>1. UNCHANGED <<tickets, pc, tipo, tope>>
      BY <1>1 DEF Reloj, locales
    <2>2. CASE dia' = dia
      BY <2>1, <2>2, TotalSigue
    <2>3. CASE dia' = dia + 1
      <3>1. \A k \in tickets : k.dia \in Nat /\ k.dia <= dia /\ dia \in Nat
        BY DEF InvExceso, TypeOK, SinFuturo, Boleta
      <3>2. \A t : DeHoy(t)' = {}
        BY <2>1, <2>3, <3>1 DEF DeHoy
      <3> QED
        BY <2>1, <3>2, FS_EmptySet DEF CupoTotal
    <2> QED
      BY <1>1, <2>2, <2>3 DEF Reloj
  <1>2. CASE Reinicio
    BY <1>2, TotalSigue DEF Reinicio, reloj
  <1>3. CASE EliminarRegistros \/ EliminarTodos
    BY <1>3, TotalSigue DEF EliminarRegistros, EliminarTodos, locales, reloj
  <1>4. CASE \E u \in Alumnos : EliminarAlumno(u)
    BY <1>4, TotalSigue DEF EliminarAlumno, locales, reloj
  <1>5. CASE \E u \in Alumnos : CambiarPae(u)
    BY <1>5, TotalSigue DEF CambiarPae, locales, reloj
  <1>6. CASE \E t \in Tipos, n \in Totales : ActualizarRaciones(t, n)
    BY <1>6, TotalSigue DEF ActualizarRaciones, locales, reloj
  <1> QED
    BY <1>1, <1>2, <1>3, <1>4, <1>5, <1>6 DEF Externo

(* A ticket leaves no other thread with a count that it made stale.        *)
LEMMA TotalTicket ==
  ASSUME InvExceso, Hilos = {Bucle}, NEW h \in Hilos, GenerarTicket(h)
  PROVE  CupoTotal'
  <1>1. pc' = [pc EXCEPT ![h] = "libre"]
    BY DEF GenerarTicket, Responder, Ir
  <1>2. \A x \in Hilos : pc'[x] = "libre"
    BY <1>1 DEF InvExceso, TypeOK
  <1> QED
    BY <1>2 DEF CupoTotal

LEMMA TotalPaso ==
  ASSUME Hilos = {Bucle}
  PROVE  InvExceso /\ CupoTotal /\ [Next]_vars => CupoTotal'
  <1> SUFFICES ASSUME InvExceso, CupoTotal, [Next]_vars PROVE CupoTotal'
    OBVIOUS
  <1>1. CASE \E h \in Hilos : Paso(h)
    BY <1>1, Casos, TotalLlamada, TotalTicket
  <1>2. CASE \E h \in Hilos, u \in Alumnos : Solicitar(h, u)
    BY <1>2, TotalLlamada
  <1>3. CASE Externo
    BY <1>3, TotalExterno
  <1>4. CASE UNCHANGED vars
    BY <1>4, TotalSigue DEF vars, reloj, locales
  <1> QED
    BY <1>1, <1>2, <1>3, <1>4 DEF Next

(* With one thread a ticket is only emitted while the total that the call  *)
(* read is not used up (RegistrosController.py:66-74).                     *)
THEOREM RacionesInvariante ==
  ASSUME Hilos = {Bucle}
  PROVE  Spec => RacionesRespetadas
  <1> DEFINE EmiteConCupo ==
        \A h \in Hilos :
          (tickets' # tickets /\ pc[h] = "ticket" /\ pc'[h] = "libre" /\ tope[h] > 0)
            => Cardinality(DeHoy(tipo[h])) < tope[h]
  <1>1. IsFiniteSet(Hilos)
    BY FS_Singleton
  <1>2. Init => InvExceso /\ CupoTotal
    BY <1>1, ExcesoInit DEF Init, ProcesoNuevo, CupoTotal
  <1>3. InvExceso /\ CupoTotal /\ [Next]_vars => (InvExceso /\ CupoTotal)'
    BY <1>1, ExcesoPaso, TotalPaso
  <1>4. CupoTotal => EmiteConCupo
    BY DEF CupoTotal
  <1> QED
    BY <1>2, <1>3, <1>4, PTL DEF Spec, RacionesRespetadas

-------------------------------------------------------------------------------
(* registros and tickets, with any number of threads, when nothing is lost *)
(* or deleted between the two commits of a call.                           *)

SinPerdidas ==
  Entorno \cap {"fallo_sqlite", "reinicio", "eliminar_registros", "eliminar_alumno"} = {}

EsDe(r, n, u, t) == r.id = n /\ r.usuario = u /\ r.tipo = t

EnTicket(h, n) == pc[h] = "ticket" /\ registro[h] = n

(* Each row of registros has a ticket or the thread that will emit it, and *)
(* that thread no other row and no ticket yet.                             *)
Emparejados ==
  /\ \A r, s \in registros : r.id = s.id => r = s
  /\ \A k \in tickets : \E r \in registros : EsDe(r, k.registro, k.usuario, k.tipo)
  /\ \A h \in Hilos : pc[h] = "ticket" =>
       /\ \E r \in registros : EsDe(r, registro[h], usuario[h], tipo[h])
       /\ ~ConTicket(registro[h])
  /\ \A g, h \in Hilos : EnTicket(h, registro[h]) /\ EnTicket(g, registro[h]) => g = h
  /\ \A r \in registros : ConTicket(r.id) \/ \E h \in Hilos : EnTicket(h, r.id)

LEMMA EmparejadosInit == Init => Emparejados
  BY DEF Init, ProcesoNuevo, Emparejados, EnTicket

(* A step outside the two commits.                                         *)
LEMMA EmparejadosSigue ==
  ASSUME Emparejados, UNCHANGED <<registros, tickets>>,
         \A h \in Hilos : \/ pc[h] # "ticket" /\ pc'[h] # "ticket"
                          \/ /\ pc'[h] = pc[h] /\ usuario'[h] = usuario[h]
                             /\ tipo'[h] = tipo[h] /\ registro'[h] = registro[h]
  PROVE  Emparejados'
  BY DEF Emparejados, EnTicket, EsDe, ConTicket

(* The new row has an id that no other row has, and so no other thread.    *)
LEMMA EmparejadosRegistro ==
  ASSUME TypeOK, Emparejados, NEW h \in Hilos, CrearRegistro(h)
  PROVE  Emparejados'
  <1>1. PICK n \in 1..MaxRegistro :
          /\ IdNuevo(n)
          /\ registros' = registros \cup
               {[id |-> n, usuario |-> usuario[h], tipo |-> tipo[h], dia |-> dia]}
          /\ registro' = [registro EXCEPT ![h] = n]
    BY DEF CrearRegistro
  <1> DEFINE r0 == [id |-> n, usuario |-> usuario[h], tipo |-> tipo[h], dia |-> dia]
  <1>2. /\ pc' = [pc EXCEPT ![h] = "ticket"] /\ pc[h] = "registro"
        /\ UNCHANGED <<tickets, usuario, tipo>>
    BY DEF CrearRegistro, Ir
  <1>3. \A r \in registros : r.id # n
    <2>1. n \in Nat /\ \A i \in Ids : i < n
      BY <1>1, ConstantesOK DEF IdNuevo
    <2>2. \A r \in registros : r.id \in Nat /\ r.id \in Ids
      BY DEF Ids, TypeOK, Fila
    <2> QED
      BY <2>1, <2>2
  <1>4. r0 \in registros' /\ registros \subseteq registros' /\ EsDe(r0, n, usuario[h], tipo[h])
        /\ \A r \in registros' : r \in registros \/ r = r0
    BY <1>1 DEF EsDe
  <1> HIDE DEF r0
  <1>5. \A x : ConTicket(x)' <=> ConTicket(x)
    BY <1>2 DEF ConTicket
  <1>6. ~ConTicket(n)
    BY <1>3 DEF Emparejados, ConTicket, EsDe
  <1>7. /\ pc'[h] = "ticket" /\ registro'[h] = n /\ usuario'[h] = usuario[h] /\ tipo'[h] = tipo[h]
        /\ \A g \in Hilos \ {h} : /\ pc'[g] = pc[g] /\ registro'[g] = registro[g]
                                 /\ usuario'[g] = usuario[g] /\ tipo'[g] = tipo[g]
    BY <1>1, <1>2 DEF TypeOK
  <1>8. \A r, s \in registros' : r.id = s.id => r = s
    BY <1>3, <1>4 DEF Emparejados, EsDe
  <1>9. \A k \in tickets' : \E r \in registros' : EsDe(r, k.registro, k.usuario, k.tipo)
    BY <1>2, <1>4 DEF Emparejados
  <1>10. ASSUME NEW g \in Hilos, pc'[g] = "ticket"
         PROVE  /\ \E r \in registros' : EsDe(r, registro'[g], usuario'[g], tipo'[g])
                /\ ~ConTicket(registro[g])'
    <2>1. CASE g = h
      BY <1>4, <1>5, <1>6, <1>7, <2>1
    <2>2. CASE g # h
      BY <1>4, <1>5, <1>7, <1>10, <2>2 DEF Emparejados
    <2> QED
      BY <2>1, <2>2
  <1>11. \A g \in Hilos : pc[g] = "ticket" => registro[g] # n
    BY <1>3 DEF Emparejados, EsDe
  <1>12. ASSUME NEW f \in Hilos, NEW g \in Hilos, pc'[f] = "ticket", pc'[g] = "ticket",
                registro'[f] = registro'[g]
         PROVE  f = g
    BY <1>7, <1>11, <1>12 DEF Emparejados, EnTicket
  <1>13. ASSUME NEW r \in registros'
         PROVE  ConTicket(r.id)' \/ \E g \in Hilos : EnTicket(g, r.id)'
    <2>1. CASE r = r0
      BY <1>4, <1>7, <2>1 DEF EnTicket, EsDe
    <2>2. CASE r \in registros
      BY <1>2, <1>5, <1>7, <2>2 DEF Emparejados, EnTicket
    <2> QED
      BY <1>4, <2>1, <2>2
  <1> QED
    BY <1>8, <1>9, <1>10, <1>12, <1>13 DEF Emparejados, EnTicket, EsDe

(* The ticket goes to the row of its thread, which leaves.                 *)
LEMMA EmparejadosTicket ==
  ASSUME TypeOK, Emparejados, NEW h \in Hilos, GenerarTicket(h)
  PROVE  Emparejados'
  <1> DEFINE k0 == [registro |-> registro[h], usuario |-> usuario[h],
                    tipo |-> tipo[h], dia |-> dia]
  <1>1. /\ pc[h] = "ticket" /\ UNCHANGED registros
        /\ tickets' = tickets \cup {k0}
        /\ pc' = [pc EXCEPT ![h] = "libre"]
        /\ usuario' = [usuario EXCEPT ![h] = Nadie]
        /\ tipo' = [tipo EXCEPT ![h] = "ninguno"]
        /\ registro' = [registro EXCEPT ![h] = 0]
    BY DEF GenerarTicket, Responder, Ir
  <1>2. k0 \in tickets' /\ k0.registro = registro[h] /\ k0.usuario = usuario[h] /\ k0.tipo = tipo[h]
        /\ tickets \subseteq tickets' /\ \A k \in tickets' : k \in tickets \/ k = k0
    BY <1>1
  <1> HIDE DEF k0
  <1>3. \A x : ConTicket(x)' <=> ConTicket(x) \/ x = registro[h]
    BY <1>2 DEF ConTicket
  <1>4. /\ pc'[h] = "libre"
        /\ \A g \in Hilos \ {h} : /\ pc'[g] = pc[g] /\ registro'[g] = registro[g]
                                 /\ usuario'[g] = usuario[g] /\ tipo'[g] = tipo[g]
    BY <1>1 DEF TypeOK
  <1>5. \A k \in tickets' : \E r \in registros' : EsDe(r, k.registro, k.usuario, k.tipo)
    BY <1>1, <1>2 DEF Emparejados
  <1>6. ASSUME NEW g \in Hilos, pc'[g] = "ticket"
        PROVE  /\ \E r \in registros' : EsDe(r, registro'[g], usuario'[g], tipo'[g])
               /\ ~ConTicket(registro[g])'
    <2>1. g # h /\ pc[g] = "ticket"
      BY <1>4, <1>6
    <2>2. registro[g] # registro[h]
      BY <1>1, <2>1 DEF Emparejados, EnTicket
    <2> QED
      BY <1>1, <1>3, <1>4, <2>1, <2>2 DEF Emparejados
  <1>7. ASSUME NEW f \in Hilos, NEW g \in Hilos, pc'[f] = "ticket", pc'[g] = "ticket",
               registro'[f] = registro'[g]
        PROVE  f = g
    BY <1>4, <1>7 DEF Emparejados, EnTicket
  <1>8. ASSUME NEW r \in registros
        PROVE  ConTicket(r.id)' \/ \E g \in Hilos : EnTicket(g, r.id)'
    BY <1>3, <1>4 DEF Emparejados, EnTicket
  <1> QED
    BY <1>1, <1>5, <1>6, <1>7, <1>8 DEF Emparejados, EnTicket, EsDe

LEMMA EmparejadosPaso ==
  ASSUME SinPerdidas
  PROVE  TypeOK /\ Emparejados /\ [Next]_vars => Emparejados'
  <1> SUFFICES ASSUME TypeOK, Emparejados, [Next]_vars PROVE Emparejados'
    OBVIOUS
  <1>1. ASSUME NEW h \in Hilos, Paso(h)
        PROVE  Emparejados'
    <2>1. ~RegistroPerdido(h) /\ ~TicketFalla(h)
      BY DEF RegistroPerdido, TicketFalla, Emparejados, EsDe, Ids, SinPerdidas
    <2>2. ~RegistroFalla(h) /\ ~ConsultaFalla(h)
      BY DEF RegistroFalla, ConsultaFalla, SinPerdidas
    <2>3. CASE VerAdmin(h) \/ VerHorario(h) \/ VerUsuario(h)
      BY <2>3, EmparejadosSigue DEF VerAdmin, VerHorario, VerUsuario, Responder, Seguir, Ir,
                                    locales, TypeOK
    <2>4. CASE VerConfig(h) \/ VerUsadas(h) \/ VerHoy(h)
      BY <2>4, EmparejadosSigue DEF VerConfig, VerUsadas, VerHoy, Responder, Seguir, Ir,
                                    locales, TypeOK
    <2> QED
      BY <1>1, <2>1, <2>2, <2>3, <2>4, EmparejadosRegistro, EmparejadosTicket DEF Paso
  <1>2. ASSUME NEW h \in Hilos, NEW u \in Alumnos, Solicitar(h, u)
        PROVE  Emparejados'
    BY <1>2, EmparejadosSigue DEF Solicitar, Ir, TypeOK
  <1>3. CASE Externo
    BY <1>3, EmparejadosSigue
    DEF Externo, SinPerdidas, Reloj, EliminarRegistros, EliminarTodos, Reinicio,
        EliminarAlumno, CambiarPae, ActualizarRaciones, locales
  <1>4. CASE UNCHANGED vars
    BY <1>4, EmparejadosSigue DEF vars, locales
  <1> QED
    BY <1>1, <1>2, <1>3, <1>4 DEF Next

(* Whatever number of calls interleave their two commits, at rest every    *)
(* row of registros has its ticket, with the same student and kind, and    *)
(* every ticket its row (modelos.py:67, 91).                               *)
THEOREM UnTicketInvariante ==
  ASSUME SinPerdidas
  PROVE  Spec => []UnTicketPorRegistro
  <1>1. Emparejados => UnTicketPorRegistro
    <2> SUFFICES ASSUME Emparejados, \A h \in Hilos : pc[h] = "libre"
                 PROVE  {<<r.id, r.usuario, r.tipo>> : r \in registros}
                          = {<<k.registro, k.usuario, k.tipo>> : k \in tickets}
      BY DEF UnTicketPorRegistro
    <2>1. ASSUME NEW r \in registros
          PROVE  \E k \in tickets : k.registro = r.id /\ k.usuario = r.usuario /\ k.tipo = r.tipo
      <3>1. PICK k \in tickets : k.registro = r.id
        BY DEF Emparejados, EnTicket, ConTicket
      <3>2. PICK s \in registros : EsDe(s, k.registro, k.usuario, k.tipo)
        BY DEF Emparejados
      <3>3. s = r
        BY <3>1, <3>2 DEF Emparejados, EsDe
      <3> QED
        BY <3>1, <3>2, <3>3 DEF EsDe
    <2>2. ASSUME NEW k \in tickets
          PROVE  \E r \in registros : k.registro = r.id /\ k.usuario = r.usuario /\ k.tipo = r.tipo
      BY DEF Emparejados, EsDe
    <2> QED
      BY <2>1, <2>2
  <1>2. TypeOK /\ Emparejados /\ [Next]_vars => Emparejados'
    BY EmparejadosPaso
  <1> QED
    BY <1>1, <1>2, EmparejadosInit, TiposInvariante, PTL DEF Spec

===============================================================================
