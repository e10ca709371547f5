------------------------------ MODULE Asistencia ------------------------------
(***************************************************************************)
(* The meal rules of the totem: RegistrosController.procesarAsistencia and *)
(* the tables it decides on (usuarios, raciones_config, registros,         *)
(* tickets).  A thread runs it for one student at a time: the event loop   *)
(* for the readings that ws_totem takes from the queue, the threads of the *)
(* server's pool for POST /api/ticket/procesar.  Every SELECT and every    *)
(* commit is a step of its own: no transaction spans two of them.          *)
(***************************************************************************)
EXTENDS Integers, FiniteSets

CONSTANTS
  Alumnos,          \* ids of the table usuarios
  Administradores,  \* the students of course level "Admin"
  Hilos,            \* threads that run procesarAsistencia
  Bucle,            \* the event loop, one of them
  Nadie,            \* no student
  Horas,            \* the hours of the day at which the clock is observed
  Totales,          \* the totals an administrator may configure
  MaxDia,           \* bound: days
  MaxRegistro,      \* bound: ids of registros
  Entorno           \* what else may happen in this instance

Tipos == {"desayuno", "almuerzo"}

Eventos == {"fallo_sqlite", "reinicio", "eliminar_registros", "eliminar_alumno",
            "eliminar_todos", "pae", "raciones"}

ASSUME ConstantesOK ==
  /\ Bucle \in Hilos
  /\ Nadie \notin Alumnos
  /\ IsFiniteSet(Alumnos)
  /\ Horas \subseteq 0..23 /\ Horas # {}
  /\ Totales \subseteq Nat
  /\ MaxDia \in Nat \ {0} /\ MaxRegistro \in Nat
  /\ Entorno \subseteq Eventos

VARIABLES
  dia, hora,   \* the clock
  alumnos,     \* the rows of usuarios
  pae,         \* those with es_pae
  total,       \* raciones_config.total, 0 = no limit (and no row)
  registros,   \* table registros
  tickets,     \* table tickets
  pc,          \* where each thread is in procesarAsistencia
  usuario,     \* argument: usuario_id
  tipo,        \* tipo_solicitud
  tope,        \* config.total as it was read
  registro,    \* registro.id, once it is committed
  res          \* the estado that the last call of each thread returned

reloj   == <<dia, hora>>
padron  == <<alumnos, pae, total>>
locales == <<usuario, tipo, tope, registro>>
vars == <<reloj, padron, registros, tickets, pc, locales, res>>

(* The daily limit of a student, by kind of ration.                        *)
Limite(t) == IF t = "almuerzo" THEN 2 ELSE 1

(* obtener_tipo_racion                                                     *)
TipoRacion(h) == IF h \in 8..11 THEN "desayuno"
                 ELSE IF h \in 12..19 THEN "almuerzo" ELSE "ninguno"

Fila   == [id : Nat, usuario : Alumnos, tipo : Tipos, dia : Nat]
Boleta == [registro : Nat, usuario : Alumnos, tipo : Tipos, dia : Nat]

Respuestas == {"ninguno", "Aprobado", "Rechazado", "SinRaciones", "Admin", "error"}

Puntos == {"libre", "admin", "horario", "usuario", "config", "usadas", "hoy",
           "registro", "ticket"}

TypeOK ==
  /\ dia \in Nat /\ hora \in Horas
  /\ alumnos \subseteq Alumnos /\ pae \subseteq Alumnos
  /\ total \in [Tipos -> Nat]
  /\ registros \subseteq Fila /\ tickets \subseteq Boleta
  /\ pc \in [Hilos -> Puntos]
  /\ usuario \in [Hilos -> Alumnos \cup {Nadie}]
  /\ tipo \in [Hilos -> Tipos \cup {"ninguno"}]
  /\ tope \in [Hilos -> Nat] /\ registro \in [Hilos -> Nat]
  /\ res \in [Hilos -> Respuestas]
  /\ \A h \in Hilos : pc[h] # "libre" => usuario[h] \in Alumnos
  /\ \A h \in Hilos : pc[h] \in Puntos \ {"libre", "admin", "horario"}
                        => tipo[h] \in Tipos

ProcesoNuevo ==
  /\ pc = [h \in Hilos |-> "libre"]
  /\ usuario = [h \in Hilos |-> Nadie]
  /\ tipo = [h \in Hilos |-> "ninguno"]
  /\ tope = [h \in Hilos |-> 0]
  /\ registro = [h \in Hilos |-> 0]
  /\ res = [h \in Hilos |-> "ninguno"]

Init ==
  /\ dia = 1 /\ hora \in Horas
  /\ alumnos \in SUBSET Alumnos /\ pae \in SUBSET alumnos
  /\ total \in [Tipos -> Totales]
  /\ registros = {} /\ tickets = {}
  /\ ProcesoNuevo

-------------------------------------------------------------------------------
Ir(h, l) == pc' = [pc EXCEPT ![h] = l]

Seguir(h, l) == Ir(h, l) /\ UNCHANGED <<locales, res>>

Responder(h, r) ==
  /\ Ir(h, "libre")
  /\ res' = [res EXCEPT ![h] = r]
  /\ usuario' = [usuario EXCEPT ![h] = Nadie]
  /\ tipo' = [tipo EXCEPT ![h] = "ninguno"]
  /\ tope' = [tope EXCEPT ![h] = 0]
  /\ registro' = [registro EXCEPT ![h] = 0]

(* A reading of the queue, or a POST with the id of a student.  ws_totem   *)
(* looks first for the administrators.                                     *)
Solicitar(h, u) ==
  /\ pc[h] = "libre"
  /\ Ir(h, IF h = Bucle THEN "admin" ELSE "horario")
  /\ usuario' = [usuario EXCEPT ![h] = u]
  /\ res' = [res EXCEPT ![h] = "ninguno"]
  /\ UNCHANGED <<reloj, padron, registros, tickets, tipo, tope, registro>>

VerAdmin(h) ==
  /\ pc[h] = "admin"
  /\ IF usuario[h] \in alumnos \cap Administradores
     THEN Responder(h, "Admin") ELSE Seguir(h, "horario")
  /\ UNCHANGED <<reloj, padron, registros, tickets>>

(* Mutant of the schedule check: the call goes on without a kind.          *)
VerHorarioSinRechazo(h) ==
  /\ pc[h] = "horario"
  /\ tipo' = [tipo EXCEPT ![h] = TipoRacion(hora)]
  /\ Ir(h, "usuario")
  /\ UNCHANGED <<reloj, padron, registros, tickets, usuario, tope, registro, res>>

(* The hour is read once for the whole call.                               *)
VerHorario(h) ==
  /\ pc[h] = "horario"
  /\ IF TipoRacion(hora) = "ninguno"
     THEN Responder(h, "Rechazado")
     ELSE /\ tipo' = [tipo EXCEPT ![h] = TipoRacion(hora)]
          /\ Ir(h, "usuario")
          /\ UNCHANGED <<usuario, tope, registro, res>>
  /\ UNCHANGED <<reloj, padron, registros, tickets>>

(* Mutant: es_pae is not looked at.                                        *)
VerUsuarioSinPae(h) ==
  /\ pc[h] = "usuario"
  /\ IF usuario[h] \in alumnos
     THEN Seguir(h, "config") ELSE Responder(h, "Rechazado")
  /\ UNCHANGED <<reloj, padron, registros, tickets>>

VerUsuario(h) ==
  /\ pc[h] = "usuario"
  /\ IF usuario[h] \in alumnos \cap pae
     THEN Seguir(h, "config") ELSE Responder(h, "Rechazado")
  /\ UNCHANGED <<reloj, padron, registros, tickets>>

(* tickets of kind t emitted today, and those of student u among them      *)
DeHoy(t) == {k \in tickets : k.tipo = t /\ k.dia = dia}
DeHoyDe(u, t) == {k \in DeHoy(t) : k.usuario = u}

(* The global rations: the configured total is read, and then the tickets  *)
(* of the day are counted; a total of zero means there is no limit.        *)
VerConfig(h) ==
  /\ pc[h] = "config"
  /\ tope' = [tope EXCEPT ![h] = total[tipo[h]]]
  /\ Ir(h, IF total[tipo[h]] > 0 THEN "usadas" ELSE "hoy")
  /\ UNCHANGED <<reloj, padron, registros, tickets, usuario, tipo, registro, res>>

(* Mutant: one ration more than configured.                                *)
VerUsadasDeMas(h) ==
  /\ pc[h] = "usadas"
  /\ IF Cardinality(DeHoy(tipo[h])) > tope[h]
     THEN Responder(h, "SinRaciones") ELSE Seguir(h, "hoy")
  /\ UNCHANGED <<reloj, padron, registros, tickets>>

VerUsadas(h) ==
  /\ pc[h] = "usadas"
  /\ IF Cardinality(DeHoy(tipo[h])) >= tope[h]
     THEN Responder(h, "SinRaciones") ELSE Seguir(h, "hoy")
  /\ UNCHANGED <<reloj, padron, registros, tickets>>

(* Mutant: one ticket more than the limit.                                 *)
VerHoyDeMas(h) ==
  /\ pc[h] = "hoy"
  /\ IF Cardinality(DeHoyDe(usuario[h], tipo[h])) > Limite(tipo[h])
     THEN Responder(h, "SinRaciones") ELSE Seguir(h, "registro")
  /\ UNCHANGED <<reloj, padron, registros, tickets>>

(* The daily limit of the student.                                         *)
VerHoy(h) ==
  /\ pc[h] = "hoy"
  /\ IF Cardinality(DeHoyDe(usuario[h], tipo[h])) >= Limite(tipo[h])
     THEN Responder(h, "SinRaciones") ELSE Seguir(h, "registro")
  /\ UNCHANGED <<reloj, padron, registros, tickets>>

(* A query raises (the base is locked for too long): the call ends.        *)
ConsultaFalla(h) ==
  /\ pc[h] \in {"admin", "usuario", "config", "usadas", "hoy"}
  /\ "fallo_sqlite" \in Entorno
  /\ Responder(h, "error")
  /\ UNCHANGED <<reloj, padron, registros, tickets>>

(* SQLite gives a new row the greatest id of the table plus one.           *)
Ids == {r.id : r \in registros}
IdNuevo(n) == (n = 1 \/ n - 1 \in Ids) /\ \A i \in Ids : i < n

(* crear_registro_evento: one commit in a session of its own.              *)
CrearRegistro(h) ==
  /\ pc[h] = "registro"
  /\ \E n \in 1..MaxRegistro :
       /\ IdNuevo(n)
       /\ registros' = registros \cup
            {[id |-> n, usuario |-> usuario[h], tipo |-> tipo[h], dia |-> dia]}
       /\ registro' = [registro EXCEPT ![h] = n]
  /\ Ir(h, "ticket")
  /\ UNCHANGED <<reloj, padron, tickets, usuario, tipo, tope, res>>

RegistroFalla(h) ==
  /\ pc[h] = "registro" /\ "fallo_sqlite" \in Entorno
  /\ Responder(h, "Rechazado")
  /\ UNCHANGED <<reloj, padron, registros, tickets>>

(* The refresh that follows the commit does not find the row any more.     *)
RegistroPerdido(h) ==
  /\ pc[h] = "ticket" /\ registro[h] \notin Ids
  /\ Responder(h, "Rechazado")
  /\ UNCHANGED <<reloj, padron, registros, tickets>>

ConTicket(n) == \E k \in tickets : k.registro = n

(* Mutant: the ticket takes the last id of registros, whoever's it is.     *)
GenerarTicketUltimo(h) ==
  /\ pc[h] = "ticket"
  /\ \E n \in Ids :
       /\ \A i \in Ids : i <= n
       /\ ~ConTicket(n)
       /\ tickets' = tickets \cup
            {[registro |-> n, usuario |-> usuario[h], tipo |-> tipo[h], dia |-> dia]}
  /\ Responder(h, "Aprobado")
  /\ UNCHANGED <<reloj, padron, registros>>

(* generar_ticket_comida: another commit, which raises when a ticket with  *)
(* that registro_id exists (UNIQUE) or SQLite fails.  Its result is not    *)
(* looked at: the answer is Aprobado.                                      *)
GenerarTicket(h) ==
  /\ pc[h] = "ticket"
  /\ ~ConTicket(registro[h])
  /\ tickets' = tickets \cup
       {[registro |-> registro[h], usuario |-> usuario[h], tipo |-> tipo[h], dia |-> dia]}
  /\ Responder(h, "Aprobado")
  /\ UNCHANGED <<reloj, padron, registros>>

TicketFalla(h) ==
  /\ pc[h] = "ticket"
  /\ ConTicket(registro[h]) \/ "fallo_sqlite" \in Entorno
  /\ Responder(h, "Aprobado")
  /\ UNCHANGED <<reloj, padron, registros, tickets>>

-------------------------------------------------------------------------------
(* The clock goes to the next observed hour, or to the first of the next   *)
(* day.                                                                    *)
Reloj ==
  /\ \/ /\ hora' \in {x \in Horas : x > hora /\ \A y \in Horas : y > hora => x <= y}
        /\ UNCHANGED dia
     \/ /\ dia < MaxDia
        /\ \A y \in Horas : y <= hora
        /\ dia' = dia + 1
        /\ hora' \in {x \in Horas : \A y \in Horas : x <= y}
  /\ UNCHANGED <<padron, registros, tickets, pc, locales, res>>

(* DELETE /api/registros empties registros and leaves the tickets.         *)
EliminarRegistros ==
  /\ "eliminar_registros" \in Entorno
  /\ registros' = {}
  /\ UNCHANGED <<reloj, padron, tickets, pc, locales, res>>

(* eliminarUsuario deletes the student with everything of hers.            *)
EliminarAlumno(u) ==
  /\ "eliminar_alumno" \in Entorno /\ u \in alumnos
  /\ tickets' = {k \in tickets : /\ k.usuario # u
                                 /\ \A r \in registros : r.usuario = u => r.id # k.registro}
  /\ registros' = {r \in registros : r.usuario # u}
  /\ alumnos' = alumnos \ {u} /\ pae' = pae \ {u}
  /\ UNCHANGED <<reloj, total, pc, locales, res>>

(* DELETE /api/usuarios deletes the students and leaves their tickets.     *)
EliminarTodos ==
  /\ "eliminar_todos" \in Entorno
  /\ alumnos' = {} /\ pae' = {}
  /\ UNCHANGED <<reloj, total, registros, tickets, pc, locales, res>>

(* PUT /api/usuarios/{id} with es_pae.                                     *)
CambiarPae(u) ==
  /\ "pae" \in Entorno /\ u \in alumnos
  /\ pae' \in {pae \cup {u}, pae \ {u}}
  /\ UNCHANGED <<reloj, alumnos, total, registros, tickets, pc, locales, res>>

(* PUT /api/raciones/{tipo}                                                *)
ActualizarRaciones(t, n) ==
  /\ "raciones" \in Entorno
  /\ total' = [total EXCEPT ![t] = n]
  /\ UNCHANGED <<reloj, alumnos, pae, registros, tickets, pc, locales, res>>

(* The process dies in the middle of its calls and starts again.           *)
Reinicio ==
  /\ "reinicio" \in Entorno
  /\ pc' = [h \in Hilos |-> "libre"]
  /\ usuario' = [h \in Hilos |-> Nadie]
  /\ tipo' = [h \in Hilos |-> "ninguno"]
  /\ tope' = [h \in Hilos |-> 0]
  /\ registro' = [h \in Hilos |-> 0]
  /\ res' = [h \in Hilos |-> "ninguno"]
  /\ UNCHANGED <<reloj, padron, registros, tickets>>

-------------------------------------------------------------------------------
Paso(h) ==
  \/ VerAdmin(h) \/ VerHorario(h) \/ VerUsuario(h) \/ VerConfig(h)
  \/ VerUsadas(h) \/ VerHoy(h) \/ ConsultaFalla(h)
  \/ CrearRegistro(h) \/ RegistroFalla(h) \/ RegistroPerdido(h)
  \/ GenerarTicket(h) \/ TicketFalla(h)

Externo ==
  \/ Reloj \/ EliminarRegistros \/ EliminarTodos \/ Reinicio
  \/ \E u \in Alumnos : EliminarAlumno(u) \/ CambiarPae(u)
  \/ \E t \in Tipos, n \in Totales : ActualizarRaciones(t, n)

Next ==
  \/ \E h \in Hilos : Paso(h) \/ \E u \in Alumnos : Solicitar(h, u)
  \/ Externo

Spec == Init /\ [][Next]_vars

-------------------------------------------------------------------------------
DelDia(u, t, d) == {k \in tickets : k.usuario = u /\ k.tipo = t /\ k.dia = d}

(* No student holds more tickets of a kind for a day than the limit that   *)
(* procesarAsistencia checks, whatever fails, is deleted or is configured  *)
(* between the check and the commit of the ticket (RegistrosController.py: *)
(* 76-92): the table has no constraint that would stop it (modelos.py:96). *)
LimiteDiario ==
  \A u \in Alumnos, t \in Tipos, d \in 1..dia :
     Cardinality(DelDia(u, t, d)) <= Limite(t)

(* Without a lock between the check and the commit, the callers that have  *)
(* passed the check together exceed the limit, but never by more than one  *)
(* ticket for each other caller (RegistrosController.py:76-92), also when  *)
(* the day changes between a check and its commit.                         *)
ExcesoAcotado ==
  \A u \in Alumnos, t \in Tipos, d \in 1..dia :
     Cardinality(DelDia(u, t, d)) <= Limite(t) + Cardinality(Hilos) - 1

(* A ticket is only emitted while fewer tickets of its kind than the total *)
(* in force when the call read it were emitted that day: the count of      *)
(* RegistrosController.py:66-74 is still right when the commit of line 92  *)
(* happens.                                                                *)
RacionesRespetadas ==
  [][\A h \in Hilos :
       (tickets' # tickets /\ pc[h] = "ticket" /\ pc'[h] = "libre" /\ tope[h] > 0)
         => Cardinality(DeHoy(tipo[h])) < tope[h]]_vars

(* At rest, registros and tickets correspond one to one, with the same     *)
(* student and kind (modelos.py:67, 91), although they are written by two  *)
(* commits whose calls interleave.  For instances without deletions,       *)
(* failures of SQLite or restarts.                                         *)
UnTicketPorRegistro ==
  (\A h \in Hilos : pc[h] = "libre") =>
     {<<r.id, r.usuario, r.tipo>> : r \in registros}
       = {<<k.registro, k.usuario, k.tipo>> : k \in tickets}

===============================================================================
