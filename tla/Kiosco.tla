-------------------------------- MODULE Kiosco --------------------------------
(***************************************************************************)
(* The page of the kiosk (Frontend/src/js/renderer.js): the loop that      *)
(* listens for readings on a socket, shows an answer and listens again,    *)
(* its ways back after errors, and the registration that covers it.        *)
(*                                                                         *)
(* A socket is an object whose handlers stay: the page forgets it          *)
(* (activeWs = null) when it answers, without closing it, so that older    *)
(* sockets go on answering; closing one whose handshake is not over makes  *)
(* its onerror run later.  What matters of them is how many there are, up  *)
(* to a bound of each kind.  A socket of capturar-identificar counts among *)
(* the requests of the registration: like them, it ends in another step.   *)
(***************************************************************************)
EXTENDS Integers

CONSTANTS
  Tope,          \* bound: sockets of the totem without an answer
  TopeVueltas,   \* bound: timers and fetches of each way back
  TopeRegistro   \* the same, of the registration

ASSUME TopesOK == {Tope, TopeVueltas, TopeRegistro} \subseteq Nat \ {0}

Tipos == {"totem", "enrolar"}

VARIABLES
  servidor,      \* the server and the reader: listo, sin_sensor or caido
  pantalla,      \* the active screen; "fuera": the page was left
  autoReturn,    \* autoReturnTimeout is set
  activeWs,      \* activeWs points to a socket (one of vivos.totem)
  vivos,         \* sockets without an answer, by kind
  abortados,     \* closed before they connected: onerror is still to run
  fugas,         \* sockets of the totem that have answered, still open
  cierres,       \* _silentCloseCount
  reconexiones,  \* timers of 500 ms that will call activarSensor
  verificando,   \* fetches of /api/sensor/verificar on their way
  esperando,     \* _esperandoSensor: the loop that asks every 3 s
  inicio,        \* inicializar is asking for the server
  paso,          \* step of the registration: one with buttons to leave it
                 \* ("elige"), or the two that have none
  enrollWs,      \* enrollWs points to a socket of an enrolment
  consultas,     \* fetches and captures of the registration on their way
  vinculos,      \* POST /api/huella/vincular on their way
  exitos         \* timers that will close the step of success

escucha   == <<pantalla, autoReturn, activeWs, vivos, abortados>>
vueltas   == <<cierres, reconexiones, verificando, esperando, inicio>>
registro  == <<paso, enrollWs, consultas, vinculos, exitos>>
vars == <<servidor, escucha, fugas, vueltas, registro>>

Cota == [t \in Tipos |-> IF t = "totem" THEN Tope ELSE TopeRegistro]

(* Bound: one request of the current registration may find another that a  *)
(* cancelled one has left on its way.                                      *)
TopeConsultas == TopeRegistro + 1

TypeOK ==
  /\ servidor \in {"listo", "sin_sensor", "caido"}
  /\ pantalla \in {"waiting", "resultado", "sinSensor", "fuera"}
  /\ {autoReturn, activeWs, esperando, inicio, enrollWs} \subseteq BOOLEAN
  /\ vivos \in [Tipos -> Nat] /\ abortados \in [Tipos -> 0..1]
  /\ \A t \in Tipos : vivos[t] <= Cota[t]
  /\ cierres \in 0..2
  /\ {fugas, reconexiones, verificando} \subseteq 0..TopeVueltas
  /\ consultas \in 0..TopeConsultas
  /\ {vinculos, exitos} \subseteq 0..TopeRegistro
  /\ paso \in {"ninguno", "elige", "dedo", "exito"}
  /\ activeWs => vivos["totem"] > 0
  /\ enrollWs => vivos["enrolar"] > 0

Ninguno == [t \in Tipos |-> 0]

Init ==
  /\ servidor \in {"listo", "sin_sensor", "caido"}
  /\ pantalla = "waiting" /\ inicio = TRUE
  /\ autoReturn = FALSE /\ activeWs = FALSE
  /\ vivos = Ninguno /\ abortados = Ninguno /\ fugas = 0
  /\ cierres = 0 /\ reconexiones = 0 /\ verificando = 0 /\ esperando = FALSE
  /\ paso = "ninguno" /\ enrollWs = FALSE
  /\ consultas = 0 /\ vinculos = 0 /\ exitos = 0

-------------------------------------------------------------------------------
Arriba == servidor # "caido"

(* Bound: sockets and timers beyond the bound are merged.                  *)
MasHasta(n, c) == IF n < c THEN n + 1 ELSE n
Mas(n)      == MasHasta(n, TopeVueltas)
Nace(v, t)  == [v EXCEPT ![t] = MasHasta(@, Cota[t])]
Muere(v, t) == [v EXCEPT ![t] = @ - 1]

(* v closed: it may have been connecting.                                  *)
Cerrado(ab, t) == {ab, [ab EXCEPT ![t] = 1]}

(* Mutant: a result without its timer.                                     *)
MostrarSinRetorno(s) == pantalla' = s /\ autoReturn' = FALSE

(* showScreen clears the timer; mostrarAprobado, mostrarRechazado and      *)
(* mostrarSinRaciones set it again.                                        *)
Mostrar(s) == pantalla' = s /\ autoReturn' = (s = "resultado")

(* activarSensor, from the sockets v and the pending errors ab.  Mutant:   *)
(* the previous socket is closed and still counted as the active one.      *)
ActivarSinAbrir(v, ab) ==
  /\ vivos' = IF activeWs THEN Muere(v, "totem") ELSE v
  /\ abortados' = ab
  /\ activeWs' = TRUE
  /\ Mostrar("waiting")

Activar(v, ab) ==
  /\ vivos' = IF activeWs THEN v ELSE Nace(v, "totem")
  /\ abortados' \in IF activeWs THEN Cerrado(ab, "totem") ELSE {ab}
  /\ activeWs' = TRUE
  /\ Mostrar("waiting")

(* showScreen('sinSensor') and _esperarSensor, which does nothing if its   *)
(* loop is running.                                                        *)
SinSensor == Mostrar("sinSensor") /\ esperando' = TRUE

-------------------------------------------------------------------------------
(* The sockets of the totem.                                               *)

(* The page is left: for the menu, with its button or the finger of an     *)
(* administrator; and it is loaded again.                                  *)
Irse ==
  /\ pantalla' = "fuera" /\ inicio' = FALSE
  /\ autoReturn' = FALSE /\ activeWs' = FALSE
  /\ vivos' = Ninguno /\ abortados' = Ninguno /\ fugas' = 0
  /\ cierres' = 0 /\ reconexiones' = 0 /\ verificando' = 0 /\ esperando' = FALSE
  /\ paso' = "ninguno" /\ enrollWs' = FALSE
  /\ consultas' = 0 /\ vinculos' = 0 /\ exitos' = 0
  /\ UNCHANGED servidor

Salir == pantalla # "fuera" /\ paso = "ninguno" /\ Irse

Volver ==
  /\ pantalla = "fuera" /\ pantalla' = "waiting" /\ inicio' = TRUE
  /\ UNCHANGED <<servidor, autoReturn, activeWs, vivos, abortados, fugas, cierres,
                 reconexiones, verificando, esperando, registro>>

(* onmessage, with a result or for an administrator.                       *)
Contestar(v, f) ==
  \/ Irse
  \/ /\ vivos' = v /\ fugas' = f
     /\ activeWs' = FALSE /\ cierres' = 0
     /\ Mostrar("resultado")
     /\ UNCHANGED <<servidor, abortados, reconexiones, verificando, esperando, inicio,
                    registro>>

MensajeTotem ==
  /\ Arriba /\ vivos["totem"] > 0
  /\ Contestar(Muere(vivos, "totem"), Mas(fugas))

MensajeFuga == Arriba /\ fugas > 0 /\ Contestar(vivos, fugas)

(* onclose.  Mutant: after the third close nobody goes on.                 *)
AlCerrarSinSeguir ==
  IF cierres < 2
  THEN cierres' = cierres + 1 /\ reconexiones' = Mas(reconexiones) /\ UNCHANGED verificando
  ELSE cierres' = 0 /\ UNCHANGED <<reconexiones, verificando>>

AlCerrar ==
  IF cierres < 2
  THEN cierres' = cierres + 1 /\ reconexiones' = Mas(reconexiones) /\ UNCHANGED verificando
  ELSE cierres' = 0 /\ verificando' = Mas(verificando) /\ UNCHANGED reconexiones

(* The server is down: onclose of a socket without an answer, after its    *)
(* onerror unless the server closed it in order.                           *)
CierreTotem ==
  /\ ~Arriba /\ vivos["totem"] > 0
  /\ vivos' = Muere(vivos, "totem") /\ activeWs' = FALSE
  /\ Mostrar("resultado") \/ UNCHANGED <<pantalla, autoReturn>>
  /\ AlCerrar
  /\ UNCHANGED <<servidor, abortados, fugas, esperando, inicio, registro>>

AbortoTotem ==
  /\ abortados["totem"] = 1
  /\ abortados' = [abortados EXCEPT !["totem"] = 0]
  /\ activeWs' = FALSE
  /\ Mostrar("resultado")
  /\ UNCHANGED <<servidor, vivos, fugas, vueltas, registro>>

-------------------------------------------------------------------------------
(* The ways back.                                                          *)

AutoReturn ==
  /\ autoReturn
  /\ Activar(vivos, abortados)
  /\ UNCHANGED <<servidor, fugas, vueltas, registro>>

Reconectar ==
  /\ reconexiones > 0 /\ reconexiones' = reconexiones - 1
  /\ Activar(vivos, abortados)
  /\ UNCHANGED <<servidor, fugas, cierres, verificando, esperando, inicio, registro>>

VerificarFin ==
  /\ verificando > 0 /\ verificando' = verificando - 1
  /\ IF servidor = "listo"
     THEN reconexiones' = Mas(reconexiones) /\ UNCHANGED <<pantalla, autoReturn, esperando>>
     ELSE SinSensor /\ UNCHANGED reconexiones
  /\ UNCHANGED <<servidor, activeWs, vivos, abortados, fugas, cierres, inicio, registro>>

Sondear ==
  /\ esperando /\ servidor = "listo"
  /\ esperando' = FALSE
  /\ Activar(vivos, abortados)
  /\ UNCHANGED <<servidor, fugas, cierres, reconexiones, verificando, inicio, registro>>

(* inicializar: the answer of the server, or none after fifteen tries.     *)
Inicializar ==
  /\ inicio /\ inicio' = FALSE
  /\ \/ servidor = "listo" /\ Activar(vivos, abortados) /\ UNCHANGED esperando
     \/ servidor = "sin_sensor" /\ SinSensor /\ UNCHANGED <<activeWs, vivos, abortados>>
     \/ ~Arriba /\ Mostrar("resultado") /\ UNCHANGED <<activeWs, vivos, abortados, esperando>>
  /\ UNCHANGED <<servidor, fugas, cierres, reconexiones, verificando, registro>>

-------------------------------------------------------------------------------
(* The registration.                                                       *)

Ir(p, e) == paso' = p /\ enrollWs' = e

(* cancelarRegistro, and the same once enrollWs is null.                   *)
CancelarNulo(v, ab) == Ir("ninguno", FALSE) /\ Activar(v, ab)

CancelarRegistro ==
  IF enrollWs
  THEN \E ab \in Cerrado(abortados, "enrolar") : CancelarNulo(Muere(vivos, "enrolar"), ab)
  ELSE CancelarNulo(vivos, abortados)

IniciarIdentificacion ==
  /\ pantalla # "fuera" /\ paso = "ninguno" /\ paso' = "elige"
  /\ IF activeWs
     THEN vivos' = Muere(vivos, "totem") /\ abortados' \in Cerrado(abortados, "totem")
     ELSE UNCHANGED <<vivos, abortados>>
  /\ activeWs' = FALSE
  /\ UNCHANGED <<servidor, pantalla, autoReturn, fugas, vueltas, enrollWs, consultas,
                 vinculos, exitos>>

(* A request of the registration goes on after it is cancelled, and so     *)
(* does a capture that was connecting; one that was not is closed.         *)
Cancelar ==
  /\ paso = "elige" /\ CancelarRegistro
  /\ consultas' \in {consultas, consultas - 1} \cap Nat
  /\ UNCHANGED <<servidor, fugas, vueltas, vinculos, exitos>>

(* A form or a button of the step sends a request or starts a capture.     *)
Consultar ==
  /\ paso = "elige" /\ consultas < TopeConsultas /\ consultas' = consultas + 1
  /\ UNCHANGED <<servidor, escucha, fugas, vueltas, paso, enrollWs, vinculos, exitos>>

Conectar ==
  /\ Ir("dedo", TRUE)
  /\ vivos' = Nace(vivos, "enrolar")
  /\ UNCHANGED <<pantalla, autoReturn, activeWs, abortados>>

(* What follows: another step; the end of the registration; no sensor, in  *)
(* iniciarPorHuella; or the step of the finger, for an enrolment, or to    *)
(* link the template that was captured.                                    *)
FinConsulta ==
  /\ consultas > 0 /\ consultas' = consultas - 1
  /\ \/ Ir("elige", enrollWs) /\ UNCHANGED <<escucha, esperando, vinculos>>
     \/ CancelarRegistro /\ UNCHANGED <<esperando, vinculos>>
     \/ /\ servidor # "listo" /\ SinSensor
        /\ UNCHANGED <<activeWs, vivos, abortados, paso, enrollWs, vinculos>>
     \/ Arriba /\ Conectar /\ UNCHANGED <<esperando, vinculos>>
     \/ /\ Arriba /\ vinculos < TopeRegistro /\ vinculos' = vinculos + 1
        /\ Ir("dedo", enrollWs) /\ UNCHANGED <<escucha, esperando>>
  /\ UNCHANGED <<servidor, fugas, cierres, reconexiones, verificando, inicio, exitos>>

(* The step of success closes after some seconds.                          *)
Exito(e) == Ir("exito", e) /\ exitos < TopeRegistro /\ exitos' = exitos + 1

FinVinculo ==
  /\ vinculos > 0 /\ vinculos' = vinculos - 1
  /\ \/ Exito(enrollWs) /\ UNCHANGED escucha
     \/ Conectar /\ UNCHANGED exitos
  /\ UNCHANGED <<servidor, fugas, vueltas, consultas>>

FinExito ==
  /\ exitos > 0 /\ exitos' = exitos - 1
  /\ CancelarRegistro
  /\ UNCHANGED <<servidor, fugas, vueltas, consultas, vinculos>>

(* onmessage, onerror and onclose of an enrolment: success, or the end of  *)
(* the registration; when both onerror and onclose run, the second closes  *)
(* the socket that the first has just opened.                              *)
FinEnrolar ==
  /\ vivos["enrolar"] > 0
  /\ LET v == Muere(vivos, "enrolar") IN
     \/ /\ Exito(FALSE) /\ vivos' = v
        /\ UNCHANGED <<pantalla, autoReturn, activeWs, abortados>>
     \/ /\ UNCHANGED exitos
        /\ CancelarNulo(v, abortados)
           \/ CancelarNulo(v, [abortados EXCEPT !["totem"] = 1])
  /\ UNCHANGED <<servidor, fugas, vueltas, consultas, vinculos>>

AbortoEnrolar ==
  /\ abortados["enrolar"] = 1
  /\ CancelarNulo(vivos, [abortados EXCEPT !["enrolar"] = 0])
  /\ UNCHANGED <<servidor, fugas, vueltas, consultas, vinculos, exitos>>

-------------------------------------------------------------------------------
(* The server dies, and with it the sockets that have answered.  It starts *)
(* again after the page has seen its sockets close.                        *)
Caer ==
  /\ Arriba /\ servidor' = "caido" /\ fugas' = 0
  /\ UNCHANGED <<escucha, vueltas, registro>>

Arrancar ==
  /\ ~Arriba /\ \A t \in Tipos : vivos[t] = 0
  /\ servidor' \in {"listo", "sin_sensor"}
  /\ UNCHANGED <<escucha, fugas, vueltas, registro>>

Enchufar ==
  /\ Arriba /\ servidor' \in {"listo", "sin_sensor"} \ {servidor}
  /\ UNCHANGED <<escucha, fugas, vueltas, registro>>

Retorno == AutoReturn \/ Reconectar \/ VerificarFin \/ Sondear \/ Inicializar
Fin     == FinConsulta \/ FinVinculo \/ FinExito \/ FinEnrolar

Next ==
  \/ Salir \/ Volver \/ MensajeTotem \/ MensajeFuga \/ CierreTotem \/ AbortoTotem
  \/ Retorno \/ Fin \/ AbortoEnrolar
  \/ IniciarIdentificacion \/ Cancelar \/ Consultar
  \/ Caer \/ Arrancar \/ Enchufar

Spec == Init /\ [][Next]_vars

(* Timers expire, fetches are answered, and the browser reports what it    *)
(* has closed, and what the server closed by dying.  An enrolment need not *)
(* be answered: ws_huella_enrolar waits for its result without a timeout,  *)
(* and the result, or the order, may be lost (main.py:932-944, 789-792).   *)
FairSpec ==
  /\ Spec
  /\ WF_vars(AutoReturn) /\ WF_vars(Reconectar) /\ WF_vars(VerificarFin)
  /\ WF_vars(Sondear) /\ WF_vars(Inicializar)
  /\ WF_vars(FinConsulta) /\ WF_vars(FinVinculo) /\ WF_vars(FinExito)
  /\ WF_vars(~Arriba /\ FinEnrolar)
  /\ WF_vars(AbortoTotem) /\ WF_vars(AbortoEnrolar)

-------------------------------------------------------------------------------
(* The page is never dead: each screen, and each step that has no button   *)
(* to leave it (index.html:207-218), has something pending that will       *)
(* change it: a timer, a request, a loop or a socket whose handlers react  *)
(* (renderer.js:62-81, 109-183, 190-206, 315-330).                         *)
ConSalida ==
  /\ pantalla = "resultado" => autoReturn
  /\ pantalla = "sinSensor" => esperando
  /\ (pantalla = "waiting" /\ paso = "ninguno") =>
        inicio \/ vivos["totem"] > 0 \/ reconexiones > 0 \/ verificando > 0
  /\ paso = "dedo"  => vivos["enrolar"] > 0 \/ vinculos > 0 \/ exitos > 0
  /\ paso = "exito" => exitos > 0

Atiende ==
  \/ pantalla = "fuera"
  \/ paso = "ninguno" /\ (pantalla = "resultado" \/ (pantalla = "waiting" /\ activeWs))

(* No enrolment waits for ever.                                            *)
Contestados == []<>(vivos["enrolar"] = 0)

(* The kiosk comes back to listen on a socket it knows, or shows what one  *)
(* answered, once the server and the reader stay up, if whoever starts a   *)
(* registration goes on with it or cancels it, and if the enrolments are   *)
(* answered: nothing else keeps the page from listening                    *)
(* (renderer.js:65-67, 155-206, 311-325, 592-615).                         *)
VuelveAEscuchar ==
  (<>[](servidor = "listo") /\ []<>(paso # "elige") /\ Contestados) => []<>Atiende

===============================================================================
