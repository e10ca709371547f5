------------------------------ MODULE ColaHuellas -----------------------------
(***************************************************************************)
(* The coroutines of the server's event loop that share cola_huellas and   *)
(* instruccion_sensor: sensor_worker, which reads the mailbox and produces *)
(* messages, the handlers of /ws/totem, which consume the readings, and    *)
(* those of /ws/huella/enrolar, which leave an order in the mailbox and    *)
(* consume its result.  A handler that takes a message for somebody else   *)
(* puts it back and sleeps.  A step is what a coroutine does between two   *)
(* points where it really suspends: put on a queue without maximum never   *)
(* does, get does only when the queue is empty.                            *)
(***************************************************************************)
EXTENDS Naturals, Sequences, FiniteSets

CONSTANTS
  Totems,     \* handlers of /ws/totem
  Admins,     \* handlers of /ws/huella/enrolar
  Alumnos,    \* students that may be enrolled
  Nadie,      \* None
  Lecturas,   \* bound: the readings of the sensor that give a message
  Entorno     \* what else may happen in this instance

Manejadores == Totems \cup Admins

ASSUME ConstantesOK ==
  /\ Totems \cap Admins = {}
  /\ Nadie \notin Alumnos
  /\ Entorno \subseteq {"desconexion", "fallo"}

VARIABLES
  cola,        \* cola_huellas: the messages
  esperan,     \* the getters of cola_huellas that wait, oldest first
  modo,        \* instruccion_sensor["modo"]
  objetivo,    \* instruccion_sensor["target_user_id"]
  trabajador,  \* what sensor_worker is waiting for
  orden,       \* user_id of the enrolment in course
  loc,         \* where each handler is
  viva,        \* the client at the other end of the WebSocket is there
  pedido,      \* path parameter user_id of each enrolment handler
  respuesta,   \* the student whose result the client received
  usadas,      \* readings made
  atendidas    \* readings that some ws_totem handler has processed

buzon == <<modo, objetivo>>
worker == <<trabajador, orden>>
vars == <<cola, esperan, buzon, worker, loc, viva, pedido, respuesta, usadas, atendidas>>

DeLectura == {"ASISTENCIA", "NO_RECONOCIDO"}

(* A message; de is the reading, or the student whose enrolment ended.     *)
Mensajes == [tipo : DeLectura, de : Lecturas]
              \cup [tipo : {"ENROLAMIENTO_LISTO"}, de : Alumnos]

TypeOK ==
  /\ cola \in Seq(Mensajes)
  /\ esperan \in Seq(Manejadores)
  /\ modo \in {"ASISTENCIA", "ENROLAR"}
  /\ objetivo \in Alumnos \cup {Nadie}
  /\ trabajador \in {"pausa", "identificando", "enrolando"}
  /\ orden \in Alumnos \cup {Nadie}
  /\ loc \in [Manejadores -> {"cerrado", "listo", "espera"}]
  /\ viva \in [Manejadores -> BOOLEAN]
  /\ pedido \in [Admins -> Alumnos \cup {Nadie}]
  /\ respuesta \in [Admins -> Alumnos \cup {Nadie}]
  /\ usadas \subseteq Lecturas /\ atendidas \subseteq usadas
  /\ (modo = "ENROLAR") <=> (objetivo # Nadie)
  /\ (trabajador = "enrolando") <=> (orden # Nadie)
  /\ {esperan[i] : i \in DOMAIN esperan} = {c \in Manejadores : loc[c] = "espera"}

Init ==
  /\ cola = <<>> /\ esperan = <<>>
  /\ modo = "ASISTENCIA" /\ objetivo = Nadie
  /\ trabajador = "identificando" /\ orden = Nadie
  /\ loc = [c \in Manejadores |-> "cerrado"]
  /\ viva = [c \in Manejadores |-> FALSE]
  /\ pedido = [c \in Admins |-> Nadie]
  /\ respuesta = [c \in Admins |-> Nadie]
  /\ usadas = {} /\ atendidas = {}

-------------------------------------------------------------------------------
(* asyncio.Queue: put appends and wakes the oldest getter, which will look *)
(* at the queue again when it runs.  l is loc as the caller leaves it.     *)
Poner(q, m, l) ==
  /\ cola' = Append(q, m)
  /\ IF esperan = <<>>
     THEN loc' = l /\ UNCHANGED esperan
     ELSE /\ loc' = [l EXCEPT ![Head(esperan)] = "listo"]
          /\ esperan' = Tail(esperan)

-------------------------------------------------------------------------------
(* sensor_worker.                                                          *)

(* The top of the loop: the mailbox is read and a call is sent to the      *)
(* executor thread.                                                        *)
Despachar(m, o) ==
  IF m = "ASISTENCIA"
  THEN trabajador' = "identificando" /\ orden' = Nadie
  ELSE trabajador' = "enrolando" /\ orden' = o

(* Mutant: after a pause the worker only looks for enrolment orders.       *)
FinPausaSoloOrdenes ==
  /\ trabajador = "pausa"
  /\ IF modo = "ENROLAR" THEN Despachar(modo, objetivo) ELSE UNCHANGED worker
  /\ UNCHANGED <<cola, esperan, buzon, loc, viva, pedido, respuesta, usadas, atendidas>>

FinPausa ==
  /\ trabajador = "pausa"
  /\ Despachar(modo, objetivo)
  /\ UNCHANGED <<cola, esperan, buzon, loc, viva, pedido, respuesta, usadas, atendidas>>

(* Mutant: the reading is put from the executor thread, which does not     *)
(* wake the event loop.                                                    *)
FinIdentificarDesdeHilo(r, t) ==
  /\ trabajador = "identificando"
  /\ r \in Lecturas \ usadas /\ t \in DeLectura
  /\ cola' = Append(cola, [tipo |-> t, de |-> r])
  /\ usadas' = usadas \cup {r}
  /\ Despachar(modo, objetivo)
  /\ UNCHANGED <<esperan, loc, buzon, viva, pedido, respuesta, atendidas>>

FinIdentificar(r, t) ==
  /\ trabajador = "identificando"
  /\ r \in Lecturas \ usadas /\ t \in DeLectura
  /\ Poner(cola, [tipo |-> t, de |-> r], loc)
  /\ usadas' = usadas \cup {r}
  /\ Despachar(modo, objetivo)
  /\ UNCHANGED <<buzon, viva, pedido, respuesta, atendidas>>

(* No finger, noise, or no device: a short sleep.                          *)
FinSinLectura ==
  /\ trabajador = "identificando"
  /\ trabajador' = "pausa"
  /\ UNCHANGED <<cola, esperan, buzon, orden, loc, viva, pedido, respuesta, usadas, atendidas>>

(* Mutants: the target of the mailbox is not reset; the result is put      *)
(* without waking a getter.                                                *)
FinEnrolarSinLimpiar ==
  /\ trabajador = "enrolando"
  /\ Poner(cola, [tipo |-> "ENROLAMIENTO_LISTO", de |-> orden], loc)
  /\ modo' = "ASISTENCIA" /\ UNCHANGED objetivo
  /\ Despachar("ASISTENCIA", Nadie)
  /\ UNCHANGED <<viva, pedido, respuesta, usadas, atendidas>>

FinEnrolarDesdeHilo ==
  /\ trabajador = "enrolando"
  /\ cola' = Append(cola, [tipo |-> "ENROLAMIENTO_LISTO", de |-> orden])
  /\ modo' = "ASISTENCIA" /\ objetivo' = Nadie
  /\ Despachar("ASISTENCIA", Nadie)
  /\ UNCHANGED <<esperan, loc, viva, pedido, respuesta, usadas, atendidas>>

(* The result of the enrolment, good or bad, and the mailbox back to       *)
(* ASISTENCIA whatever it says by then.                                    *)
FinEnrolar ==
  /\ trabajador = "enrolando"
  /\ Poner(cola, [tipo |-> "ENROLAMIENTO_LISTO", de |-> orden], loc)
  /\ modo' = "ASISTENCIA" /\ objetivo' = Nadie
  /\ Despachar("ASISTENCIA", Nadie)
  /\ UNCHANGED <<viva, pedido, respuesta, usadas, atendidas>>

(* The call raises: the loop sleeps and reads the same mailbox again.      *)
Excepcion ==
  /\ "fallo" \in Entorno /\ trabajador # "pausa"
  /\ trabajador' = "pausa" /\ orden' = Nadie
  /\ UNCHANGED <<cola, esperan, buzon, loc, viva, pedido, respuesta, usadas, atendidas>>

-------------------------------------------------------------------------------
(* Handlers: "listo" is a handler that was woken, or sleeps, or sends, and *)
(* will run get(); "espera" one that waits in it.                          *)

(* What cola_huellas.get() finds when the coroutine of c runs it: nothing, *)
(* and c waits; a message of a kind it does not consume, which goes to the *)
(* end of the queue while c sleeps; or one it does consume.  l is loc as   *)
(* the caller leaves it.                                                   *)
Esperar(c) ==
  /\ cola = <<>>
  /\ loc' = [loc EXCEPT ![c] = "espera"]
  /\ esperan' = Append(esperan, c)
  /\ UNCHANGED cola

HayDe(tipos) == cola # <<>> /\ Head(cola).tipo \in tipos

(* Mutant: the message is put back without having been taken.              *)
DevolverCopia(c, tipos) ==
  /\ HayDe(tipos)
  /\ Poner(cola, Head(cola), [loc EXCEPT ![c] = "listo"])

Devolver(c, tipos) ==
  /\ HayDe(tipos)
  /\ Poner(Tail(cola), Head(cola), [loc EXCEPT ![c] = "listo"])

(* ws_totem: the connection empties the queue and waits.                   *)
ConectarTotem(c) ==
  /\ c \in Totems /\ loc[c] = "cerrado"
  /\ cola' = <<>>
  /\ loc' = [loc EXCEPT ![c] = "espera"]
  /\ esperan' = Append(esperan, c)
  /\ viva' = [viva EXCEPT ![c] = TRUE]
  /\ UNCHANGED <<buzon, worker, pedido, respuesta, usadas, atendidas>>

(* The reading is processed and its result sent.  A client that is gone    *)
(* makes send_json raise, after the processing, and the handler ends.      *)
TotemAtiende(c) ==
  /\ c \in Totems /\ loc[c] = "listo" /\ HayDe(DeLectura)
  /\ cola' = Tail(cola)
  /\ atendidas' = atendidas \cup {Head(cola).de}
  /\ loc' = [loc EXCEPT ![c] = IF viva[c] THEN "listo" ELSE "cerrado"]
  /\ UNCHANGED <<esperan, buzon, worker, viva, pedido, respuesta, usadas>>

TotemSigue(c) ==
  /\ c \in Totems /\ loc[c] = "listo"
  /\ Esperar(c) \/ Devolver(c, {"ENROLAMIENTO_LISTO"})
  /\ UNCHANGED <<buzon, worker, viva, pedido, respuesta, usadas, atendidas>>

(* ws_huella_enrolar: the order goes to the mailbox and get() runs at      *)
(* once; a result that was already in the queue is the answer.             *)
ConectarAdmin(c, u) ==
  /\ c \in Admins /\ loc[c] = "cerrado"
  /\ modo' = "ENROLAR" /\ objetivo' = u
  /\ pedido' = [pedido EXCEPT ![c] = u]
  /\ \/ /\ Esperar(c) \/ Devolver(c, DeLectura)
        /\ viva' = [viva EXCEPT ![c] = TRUE]
        /\ respuesta' = [respuesta EXCEPT ![c] = Nadie]
     \/ /\ HayDe({"ENROLAMIENTO_LISTO"})
        /\ cola' = Tail(cola)
        /\ respuesta' = [respuesta EXCEPT ![c] = Head(cola).de]
        /\ UNCHANGED <<esperan, loc, viva>>
  /\ UNCHANGED <<worker, usadas, atendidas>>

(* The result is sent and the handler ends.  A client that is gone makes   *)
(* send_json raise WebSocketDisconnect, and the mailbox is reset.          *)
AdminRecibe(c) ==
  /\ c \in Admins /\ loc[c] = "listo" /\ HayDe({"ENROLAMIENTO_LISTO"})
  /\ cola' = Tail(cola)
  /\ loc' = [loc EXCEPT ![c] = "cerrado"]
  /\ viva' = [viva EXCEPT ![c] = FALSE]
  /\ IF viva[c]
     THEN /\ respuesta' = [respuesta EXCEPT ![c] = Head(cola).de]
          /\ UNCHANGED buzon
     ELSE /\ modo' = "ASISTENCIA" /\ objetivo' = Nadie
          /\ UNCHANGED respuesta
  /\ UNCHANGED <<esperan, worker, pedido, usadas, atendidas>>

AdminSigue(c) ==
  /\ c \in Admins /\ loc[c] = "listo"
  /\ Esperar(c) \/ Devolver(c, DeLectura)
  /\ UNCHANGED <<buzon, worker, viva, pedido, respuesta, usadas, atendidas>>

(* A client goes away: no handler looks at its socket while it waits for   *)
(* the queue, so nothing else changes.                                     *)
Desconectar(c) ==
  /\ "desconexion" \in Entorno
  /\ loc[c] # "cerrado" /\ viva[c]
  /\ viva' = [viva EXCEPT ![c] = FALSE]
  /\ UNCHANGED <<cola, esperan, buzon, worker, loc, pedido, respuesta, usadas, atendidas>>

-------------------------------------------------------------------------------
Trabajador ==
  \/ FinPausa \/ FinSinLectura \/ FinEnrolar \/ Excepcion
  \/ \E r \in Lecturas, t \in DeLectura : FinIdentificar(r, t)

Manejador(c) == TotemAtiende(c) \/ TotemSigue(c) \/ AdminRecibe(c) \/ AdminSigue(c)

Clientes ==
  \E c \in Manejadores :
     \/ Desconectar(c) \/ ConectarTotem(c)
     \/ \E u \in Alumnos : ConectarAdmin(c, u)

Next == Trabajador \/ (\E c \in Manejadores : Manejador(c)) \/ Clientes

Spec == Init /\ [][Next]_vars

(* The event loop runs every coroutine that is ready, timers expire, and   *)
(* the executor calls return (the capture has a deadline, Sensor.cpp:199). *)
FairSpec ==
  /\ Spec
  /\ WF_vars(Trabajador)
  /\ \A c \in Manejadores : WF_vars(Manejador(c))

(* An enrolment that is tried again and again does not raise for ever.     *)
EstableSpec == FairSpec /\ SF_vars(FinEnrolar)

-------------------------------------------------------------------------------
(* A finger that was read once gives at most one ticket and one answer:    *)
(* the messages that handlers put back are never duplicated, nor come back *)
(* after they were processed (main.py:853-857, 940-944).                   *)
LecturaUnaVez ==
  /\ \A i, j \in DOMAIN cola :
       (cola[i] = cola[j] /\ cola[i].tipo \in DeLectura) => i = j
  /\ \A i \in DOMAIN cola : cola[i].tipo \in DeLectura => cola[i].de \notin atendidas

(* No handler sleeps in get while there are messages and nobody is awake   *)
(* to take them: each put wakes one getter, also when the one that puts is *)
(* a handler that gives a message back.                                    *)
SinMensajeOlvidado ==
  (cola # <<>> /\ esperan # <<>>) => \E c \in Manejadores : loc[c] = "listo"

(* Whatever the clients do, the sensor goes back to reading attendance     *)
(* ("devolvemos el sensor a la normalidad", main.py:132).                  *)
VuelveAAsistencia == []<>(trabajador = "identificando")

(* Every enrolment ordered is answered ("Avisamos al terminar",            *)
(* main.py:132): its handler ends.                                         *)
OrdenRespondida == \A c \in Admins : []<>(loc[c] = "cerrado")

(* It is, when no screen takes part and the orders come one by one: the    *)
(* handler that gives the readings back to the queue (main.py:940-944)     *)
(* reaches its result, also if a call raised or its client went away.  One *)
(* by one: a single element of Admins serves them all.                     *)
OrdenesDeUnaEnUna ==
  [](/\ \A k \in Totems : loc[k] = "cerrado"
     /\ Cardinality({c \in Admins : pedido[c] # Nadie}) <= 1)
    => OrdenRespondida

===============================================================================
