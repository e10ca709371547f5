-------------------------------- MODULE Padron --------------------------------
(***************************************************************************)
(* The register of students of one totem, whose ids SQLite gives again     *)
(* once they are free, and the dialog of the administration panel that     *)
(* creates a student, enrols her finger, and deletes her again if it is    *)
(* closed before the enrolment is confirmed.                               *)
(*                                                                         *)
(* A person is her name and course, and her finger.  The mailbox, the      *)
(* sensor worker and its results are those of ColaHuellas, seen from the   *)
(* panel: one order at a time, and a result goes to any socket that waits. *)
(***************************************************************************)
EXTENDS Integers, FiniteSets

CONSTANTS
  Personas, Nadie,
  Paneles,    \* administration panels open on this totem
  MaxId,      \* bound: ids of usuarios
  Entorno     \* what else may happen in this instance

(* "perdidas": answers, DELETE requests and pages are lost; "eliminar": a  *)
(* panel deletes a student from its list, "eliminar_pendiente": also one   *)
(* that a dialog, of this panel or of another, has pending.                *)
Eventos == {"eliminar_todos", "importar", "recarga_ram", "perdidas", "eliminar",
            "eliminar_pendiente"}

ASSUME PadronOK ==
  /\ Nadie \notin Personas
  /\ MaxId \in Nat \ {0}
  /\ Entorno \subseteq Eventos

Ids == 1..MaxId

VARIABLES
  alumnos,          \* usuarios: who has each id
  huellas,          \* table huellas: whose finger is under each usuario_id
  ram,              \* the same in the reader
  objetivo,         \* target of the mailbox, 0 = none
  orden,            \* the id the worker is enrolling, 0 = none
  muestra,          \* the finger it has captured for it
  cola,             \* results nobody has taken (bound: one of each kind)
  abierto, paso,    \* by panel: its dialog is on the screen, and at which step
  ficha,            \* the person in the form
  post,             \* POST /api/usuarios/base on its way: none, or its stage
  respuesta,        \* the id that its answer brings, 0 = none
  duplicado,        \* usuarioDuplicadoId, 0 = none
  enrollingUserId,  \* 0 = none
  retry,            \* _enrollRetryData: student and endpoint of the last capture
  enrollWs,         \* student of the socket the dialog knows, 0 = none
  sockets,          \* students of the sockets that are open
  edicion,          \* student whose finger ws_huella_editar captures, 0 = none
  deletes,          \* DELETE requests on their way: id, and for whom it was
  origen            \* of each row: whether a dialog created it, and then reported
                    \* it enrolled, or the network or the page lost it

servidor == <<alumnos, huellas, ram>>
worker   == <<objetivo, orden, muestra, cola, edicion>>
dialogo  == <<abierto, paso, ficha, duplicado, enrollingUserId, retry, enrollWs, sockets>>
peticion == <<post, respuesta>>
vars == <<servidor, worker, dialogo, peticion, deletes, origen>>

Nulo == [i \in Ids |-> Nadie]

TypeOK ==
  /\ {alumnos, huellas, ram} \subseteq [Ids -> Personas \cup {Nadie}]
  /\ {objetivo, orden} \subseteq 0..MaxId /\ muestra \in Personas \cup {Nadie}
  /\ cola \subseteq {"exito", "error"}
  /\ abierto \subseteq Paneles
  /\ paso \in [Paneles -> {"formulario", "captura", "exito", "error"}]
  /\ ficha \in [Paneles -> Personas \cup {Nadie}]
  /\ post \in [Paneles -> {"no", "buscar", "insertar", "respuesta"}]
  /\ {duplicado, enrollingUserId, retry, enrollWs, edicion, respuesta}
       \subseteq [Paneles -> 0..MaxId]
  /\ sockets \in [Paneles -> SUBSET Ids]
  /\ deletes \subseteq Ids \X Personas
  /\ origen \in [Ids -> {"otro", "creado", "confirmado", "perdido"}]
  /\ \A p \in Paneles : enrollWs[p] \in sockets[p] \cup {0}

Init ==
  /\ alumnos \in [Ids -> Personas \cup {Nadie}]
  /\ \A i, j \in Ids : alumnos[i] = alumnos[j] /\ alumnos[i] # Nadie => i = j
  /\ huellas = alumnos /\ ram = alumnos
  /\ objetivo = 0 /\ orden = 0 /\ muestra = Nadie /\ cola = {}
  /\ abierto = {} /\ deletes = {}
  /\ paso = [p \in Paneles |-> "formulario"]
  /\ ficha = [p \in Paneles |-> Nadie]
  /\ post = [p \in Paneles |-> "no"]
  /\ sockets = [p \in Paneles |-> {}]
  /\ origen = [i \in Ids |-> "otro"]
  /\ LET cero == [p \in Paneles |-> 0]
     IN /\ duplicado = cero /\ enrollingUserId = cero /\ retry = cero
        /\ enrollWs = cero /\ edicion = cero /\ respuesta = cero

-------------------------------------------------------------------------------
Ocupados == {i \in Ids : alumnos[i] # Nadie}
IdDe(x)  == {i \in Ids : alumnos[i] = x}

(* SQLite: the greatest id in use plus one.                                *)
Nuevo(x, n, o) ==
  /\ \A i \in Ocupados : i < n
  /\ n = 1 \/ n - 1 \in Ocupados
  /\ alumnos' = [alumnos EXCEPT ![n] = x]
  /\ origen' = [origen EXCEPT ![n] = o]

Escribir(i, x) == /\ huellas' = [huellas EXCEPT ![i] = x]
                  /\ ram' = huellas'

-------------------------------------------------------------------------------
(* The dialog.                                                             *)

(* openEnrollModal.                                                        *)
Abrir(p) ==
  /\ p \notin abierto
  /\ abierto' = abierto \cup {p}
  /\ duplicado' = [duplicado EXCEPT ![p] = 0]
  /\ UNCHANGED <<servidor, worker, paso, ficha, enrollingUserId, retry, enrollWs,
                 sockets, peticion, deletes, origen>>

(* handleEnrollStudent, first time: the button stays disabled meanwhile.   *)
(* Bound: one request of each panel on its way.                            *)
Enviar(p, x) ==
  /\ p \in abierto /\ paso[p] = "formulario" /\ duplicado[p] = 0 /\ post[p] = "no"
  /\ ficha' = [ficha EXCEPT ![p] = x]
  /\ post' = [post EXCEPT ![p] = "buscar"]
  /\ UNCHANGED <<servidor, worker, abierto, paso, duplicado, enrollingUserId, retry,
                 enrollWs, sockets, respuesta, deletes, origen>>

(* crear_usuario_base_endpoint finds a student of that name and course:    *)
(* the answer is duplicado, and the administrator must confirm.            *)
EsDuplicado(p) ==
  /\ post[p] = "buscar"
  /\ \E i \in IdDe(ficha[p]) : duplicado' = [duplicado EXCEPT ![p] = i]
  /\ post' = [post EXCEPT ![p] = "no"]
  /\ UNCHANGED <<servidor, worker, abierto, paso, ficha, enrollingUserId, retry,
                 enrollWs, sockets, respuesta, deletes, origen>>

NoEsta(p) ==
  /\ post[p] = "buscar" /\ IdDe(ficha[p]) = {}
  /\ post' = [post EXCEPT ![p] = "insertar"]
  /\ UNCHANGED <<servidor, worker, dialogo, respuesta, deletes, origen>>

(* An error before the commit: an alert, and the form again.               *)
CrearFalla(p) ==
  /\ post[p] \in {"buscar", "insertar"}
  /\ post' = [post EXCEPT ![p] = "no"]
  /\ UNCHANGED <<servidor, worker, dialogo, respuesta, deletes, origen>>

(* crearUsuarioBase, in a second session: the student is there before the  *)
(* page knows her id.                                                      *)
Insertar(p) ==
  /\ post[p] = "insertar"
  /\ post' = [post EXCEPT ![p] = "respuesta"]
  /\ \E n \in Ids : /\ Nuevo(ficha[p], n, "creado")
                    /\ respuesta' = [respuesta EXCEPT ![p] = n]
  /\ UNCHANGED <<huellas, ram, worker, dialogo, deletes>>

(* Nobody remembers any more that a dialog created the student i.          *)
Olvidar(i) ==
  origen' = [j \in Ids |-> IF j = i /\ origen[j] = "creado" THEN "perdido" ELSE origen[j]]

(* An error after the commit: to the page it is the same error, and the    *)
(* student stays.                                                          *)
RespuestaPerdida(p) ==
  /\ "perdidas" \in Entorno /\ post[p] = "respuesta"
  /\ post' = [post EXCEPT ![p] = "no"]
  /\ respuesta' = [respuesta EXCEPT ![p] = 0]
  /\ Olvidar(respuesta[p])
  /\ UNCHANGED <<servidor, worker, dialogo, deletes>>

(* _iniciarCapturaHuella: a socket to ws_huella_editar, which captures for *)
(* its own client (bound: one of each panel), or to ws_huella_enrolar,     *)
(* which leaves the order in the mailbox.                                  *)
Conectar(p, i, editar) ==
  /\ paso' = [paso EXCEPT ![p] = "captura"]
  /\ enrollWs' = [enrollWs EXCEPT ![p] = i]
  /\ sockets' = [sockets EXCEPT ![p] = @ \cup {i}]
  /\ retry' = [retry EXCEPT ![p] = i]
  /\ IF editar THEN /\ edicion[p] = 0 /\ edicion' = [edicion EXCEPT ![p] = i]
                    /\ UNCHANGED objetivo
               ELSE objetivo' = i /\ UNCHANGED edicion
  /\ UNCHANGED <<orden, muestra, cola, huellas, ram, abierto, ficha, duplicado, deletes>>

(* Mutant: the student of a duplicate is marked for deletion too.          *)
ConfirmarDuplicadoMarca(p) ==
  /\ p \in abierto /\ paso[p] = "formulario" /\ duplicado[p] # 0
  /\ Conectar(p, duplicado[p], TRUE)
  /\ enrollingUserId' = [enrollingUserId EXCEPT ![p] = duplicado[p]]
  /\ UNCHANGED <<alumnos, peticion, origen>>

(* handleEnrollStudent, confirmed: the finger of an existing student will  *)
(* be overwritten.                                                         *)
ConfirmarDuplicado(p) ==
  /\ p \in abierto /\ paso[p] = "formulario" /\ duplicado[p] # 0
  /\ Conectar(p, duplicado[p], TRUE)
  /\ UNCHANGED <<alumnos, enrollingUserId, peticion, origen>>

(* The answer: the student is marked for deletion and the capture starts,  *)
(* also if the dialog was closed.                                          *)
Crear(p) ==
  /\ post[p] = "respuesta"
  /\ enrollingUserId' = [enrollingUserId EXCEPT ![p] = respuesta[p]]
  /\ Conectar(p, respuesta[p], FALSE)
  /\ post' = [post EXCEPT ![p] = "no"]
  /\ respuesta' = [respuesta EXCEPT ![p] = 0]
  /\ UNCHANGED <<alumnos, origen>>

(* onmessage of a socket: success unmarks the student.  Whoever had been   *)
(* forgotten has a finger at last when a second creation found her.        *)
Respuesta(p, i, r) ==
  /\ sockets' = [sockets EXCEPT ![p] = @ \ {i}]
  /\ enrollWs' = [enrollWs EXCEPT ![p] = 0]
  /\ paso' = [paso EXCEPT ![p] = r]
  /\ IF r = "exito"
     THEN /\ enrollingUserId' = [enrollingUserId EXCEPT ![p] = 0]
          /\ origen' = [origen EXCEPT ![i] =
                          IF enrollingUserId[p] = i \/ @ = "perdido"
                          THEN "confirmado" ELSE @]
     ELSE UNCHANGED <<enrollingUserId, origen>>
  /\ UNCHANGED <<alumnos, objetivo, orden, muestra, abierto, ficha, duplicado, retry,
                 peticion, deletes>>

(* Any open socket of an order takes whatever result is in the queue.      *)
Recibir(p, i, r) ==
  /\ i \in sockets[p] \ {edicion[p]} /\ r \in cola
  /\ cola' = cola \ {r}
  /\ Respuesta(p, i, r)
  /\ UNCHANGED <<huellas, ram, edicion>>

(* ws_huella_editar ends, and answers if its client is still there.        *)
Editar(p, r) ==
  LET i == edicion[p] IN
  /\ i # 0
  /\ edicion' = [edicion EXCEPT ![p] = 0]
  /\ IF r = "exito" THEN Escribir(i, ficha[p]) ELSE UNCHANGED <<huellas, ram>>
  /\ \/ /\ i \in sockets[p] /\ Respuesta(p, i, r) /\ UNCHANGED cola
     \/ /\ i \notin sockets[p]
        /\ UNCHANGED <<alumnos, objetivo, orden, muestra, cola, dialogo, peticion, deletes,
                       origen>>

(* onerror and onclose of a socket that had no answer.                     *)
Caer(p, i) ==
  /\ i \in sockets[p]
  /\ sockets' = [sockets EXCEPT ![p] = @ \ {i}]
  /\ enrollWs' = [enrollWs EXCEPT ![p] = 0]
  /\ paso' = [paso EXCEPT ![p] = "error"]
  /\ UNCHANGED <<servidor, worker, abierto, ficha, duplicado, enrollingUserId, retry,
                 peticion, deletes, origen>>

(* retryEnrollCapture.                                                     *)
Reintentar(p) ==
  /\ p \in abierto /\ paso[p] = "error" /\ retry[p] # 0
  /\ Conectar(p, retry[p], duplicado[p] # 0)
  /\ UNCHANGED <<alumnos, enrollingUserId, peticion, origen>>

(* closeEnrollModal, also the cancel button.  Mutant: it closes the socket *)
(* and goes on pointing at it.                                             *)
OcultarSinSoltar(p) ==
  /\ p \in abierto
  /\ abierto' = abierto \ {p}
  /\ paso' = [paso EXCEPT ![p] = "formulario"]
  /\ sockets' = [sockets EXCEPT ![p] = @ \ {enrollWs[p]}]
  /\ duplicado' = [duplicado EXCEPT ![p] = 0]
  /\ retry' = [retry EXCEPT ![p] = 0]
  /\ UNCHANGED <<servidor, worker, ficha, enrollWs, peticion, origen>>

Ocultar(p) ==
  /\ p \in abierto
  /\ abierto' = abierto \ {p}
  /\ paso' = [paso EXCEPT ![p] = "formulario"]
  /\ enrollWs' = [enrollWs EXCEPT ![p] = 0]
  /\ sockets' = [sockets EXCEPT ![p] = @ \ {enrollWs[p]}]
  /\ duplicado' = [duplicado EXCEPT ![p] = 0]
  /\ retry' = [retry EXCEPT ![p] = 0]
  /\ UNCHANGED <<servidor, worker, ficha, peticion, origen>>

Marcado(p) == IF enrollingUserId[p] = 0 THEN {} ELSE {<<enrollingUserId[p], ficha[p]>>}

(* Mutant: the mark is erased and the student is not deleted.              *)
CerrarSinBorrar(p) ==
  /\ Ocultar(p)
  /\ UNCHANGED deletes
  /\ enrollingUserId' = [enrollingUserId EXCEPT ![p] = 0]

Cerrar(p) ==
  /\ Ocultar(p)
  /\ deletes' = deletes \cup Marcado(p)
  /\ enrollingUserId' = [enrollingUserId EXCEPT ![p] = 0]

(* The page is reloaded, or closed: what it remembered is gone.            *)
(* Bound: none of its requests is on its way.                              *)
Recargar(p) ==
  /\ "perdidas" \in Entorno /\ post[p] = "no"
  /\ abierto' = abierto \ {p}
  /\ paso' = [paso EXCEPT ![p] = "formulario"]
  /\ enrollWs' = [enrollWs EXCEPT ![p] = 0]
  /\ sockets' = [sockets EXCEPT ![p] = {}]
  /\ duplicado' = [duplicado EXCEPT ![p] = 0]
  /\ retry' = [retry EXCEPT ![p] = 0]
  /\ enrollingUserId' = [enrollingUserId EXCEPT ![p] = 0]
  /\ Olvidar(enrollingUserId[p])
  /\ UNCHANGED <<servidor, worker, ficha, peticion, deletes>>

-------------------------------------------------------------------------------
(* The server.                                                             *)

(* eliminarUsuario: the rows of the student and of her finger; the reader  *)
(* stays as it is.                                                         *)
Borrar(i) ==
  /\ alumnos' = [alumnos EXCEPT ![i] = Nadie]
  /\ huellas' = IF alumnos[i] = Nadie THEN huellas ELSE [huellas EXCEPT ![i] = Nadie]
  /\ origen' = [origen EXCEPT ![i] = "otro"]
  /\ UNCHANGED <<ram, worker, dialogo, peticion>>

(* The DELETE of a dialog arrives, or is lost: its catch does nothing.     *)
Eliminar(i, x) ==
  /\ <<i, x>> \in deletes
  /\ deletes' = deletes \ {<<i, x>>}
  /\ Borrar(i)

DeletePerdido(i, x) ==
  /\ "perdidas" \in Entorno /\ <<i, x>> \in deletes
  /\ deletes' = deletes \ {<<i, x>>}
  /\ Olvidar(i)
  /\ UNCHANGED <<servidor, worker, dialogo, peticion>>

(* The students that a dialog, or the DELETE of one, is about.             *)
Suyos(p)     == {enrollingUserId[p], respuesta[p]} \ {0}
Pendiente(i) == \/ \E p \in Paneles : i \in Suyos(p)
                \/ \E x \in Personas : <<i, x>> \in deletes

(* The DELETE of a student chosen in a list, which any panel may send, of  *)
(* another totem too, and which may be older than the dialog.              *)
(* Assumption, without "eliminar_pendiente": nobody sends it, or the one   *)
(* that deletes everybody, for a student that a dialog has pending.        *)
SinEstorbar(i) == "eliminar_pendiente" \in Entorno \/ ~Pendiente(i)

EliminarDeLista(i) ==
  /\ {"eliminar", "eliminar_pendiente"} \cap Entorno # {}
  /\ alumnos[i] # Nadie /\ SinEstorbar(i)
  /\ Borrar(i)
  /\ UNCHANGED deletes

(* sensor_worker takes the order of the mailbox ...                        *)
TomarOrden ==
  /\ orden = 0 /\ objetivo # 0 /\ orden' = objetivo
  /\ UNCHANGED <<servidor, objetivo, muestra, cola, edicion, dialogo, peticion, deletes, origen>>

(* ... captures the finger of whoever stands at an open dialog ...         *)
Capturar(p) ==
  /\ orden # 0 /\ muestra = Nadie
  /\ p \in abierto /\ paso[p] = "captura"
  /\ muestra' = ficha[p]
  /\ UNCHANGED <<servidor, objetivo, orden, cola, edicion, dialogo, peticion, deletes, origen>>

(* ... writes it under the id of the order, whether or not that student    *)
(* still exists, or fails; the result is queued, the mailbox reset.        *)
FinEnrolar(r) ==
  /\ orden # 0
  /\ IF r = "exito" THEN muestra # Nadie /\ Escribir(orden, muestra)
                    ELSE UNCHANGED <<huellas, ram>>
  /\ orden' = 0 /\ objetivo' = 0 /\ muestra' = Nadie
  /\ cola' = cola \cup {r}
  /\ UNCHANGED <<alumnos, edicion, dialogo, peticion, deletes, origen>>

(* A kiosk connects and empties the queue, or the handlers of sockets that *)
(* are gone take what there is.                                            *)
Vaciar ==
  /\ cola # {} /\ cola' = {}
  /\ UNCHANGED <<servidor, objetivo, orden, muestra, edicion, dialogo, peticion, deletes, origen>>

(* DELETE /api/usuarios: both tables, and the reader as it is.             *)
EliminarTodos ==
  /\ "eliminar_todos" \in Entorno /\ Ocupados # {}
  /\ \A i \in Ids : SinEstorbar(i)
  /\ alumnos' = Nulo /\ huellas' = Nulo
  /\ origen' = [i \in Ids |-> "otro"]
  /\ UNCHANGED <<ram, worker, dialogo, peticion, deletes>>

(* An Excel, another totem or the kiosk adds a person who is not there.    *)
Importar(x) ==
  /\ "importar" \in Entorno /\ IdDe(x) = {}
  /\ \E n \in Ids : Nuevo(x, n, "otro")
  /\ UNCHANGED <<huellas, ram, worker, dialogo, peticion, deletes>>

(* A restart, or verificar: the reader is loaded again from the table.     *)
RecargarRam ==
  /\ "recarga_ram" \in Entorno
  /\ ram' = huellas
  /\ UNCHANGED <<alumnos, huellas, worker, dialogo, peticion, deletes, origen>>

-------------------------------------------------------------------------------
DelPanel(p) ==
  \/ Abrir(p) \/ Cerrar(p) \/ ConfirmarDuplicado(p) \/ Reintentar(p)
  \/ EsDuplicado(p) \/ NoEsta(p) \/ CrearFalla(p) \/ Insertar(p) \/ Crear(p)
  \/ RespuestaPerdida(p) \/ Recargar(p)
  \/ \E x \in Personas : Enviar(p, x)
  \/ \E i \in Ids : Caer(p, i) \/ \E r \in {"exito", "error"} : Recibir(p, i, r)

DelServidor ==
  \/ \E i \in Ids, x \in Personas : Eliminar(i, x) \/ DeletePerdido(i, x)
  \/ \E i \in Ids : EliminarDeLista(i)
  \/ \E p \in Paneles : Capturar(p) \/ \E r \in {"exito", "error"} : Editar(p, r)
  \/ TomarOrden \/ \E r \in {"exito", "error"} : FinEnrolar(r)
  \/ Vaciar \/ EliminarTodos \/ RecargarRam \/ \E x \in Personas : Importar(x)

Next == DelServidor \/ \E p \in Paneles : DelPanel(p)

Spec == Init /\ [][Next]_vars

-------------------------------------------------------------------------------
(* The DELETE that closes a dialog hits the student that the dialog        *)
(* created and did not report as enrolled, or nobody, although ids are     *)
(* given again and late answers, errors, reloads, imports and deletions    *)
(* of others come in between (app.js:451-455, 586-587, 616).  It holds     *)
(* while nobody deletes a pending student from elsewhere.                  *)
BorradoPropio ==
  [][\A i \in Ids, x \in Personas :
       Eliminar(i, x) /\ alumnos[i] # Nadie => alumnos[i] = x /\ origen[i] = "creado"]_vars

Vigilado(i) == \/ \E p \in Paneles : i \in Suyos(p)
               \/ <<i, alumnos[i]>> \in deletes

(* Whomever a dialog created without reporting her as enrolled, its panel  *)
(* remembers, or will when the answer arrives, or a DELETE for her is on   *)
(* its way; unless an answer, a DELETE or a page was lost (app.js:451-455, *)
(* 586-587).                                                               *)
CreadoVigilado == \A i \in Ids : origen[i] = "creado" => Vigilado(i)

(* "Esta accion eliminara permanentemente todos los alumnos y sus huellas" *)
(* (menu.html:677): no student is identified by the finger of another.     *)
HuellaPropia ==
  \A i \in Ids : alumnos[i] # Nadie => ram[i] \in {alumnos[i], Nadie}

===============================================================================
