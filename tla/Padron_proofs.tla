----------------------------- MODULE Padron_proofs -----------------------------
(***************************************************************************)
(* Theorems about Padron for every set of persons and panels and every     *)
(* number of ids, checked by TLAPS.  Three invariants in layers: what a    *)
(* dialog is, whom it watches, both in every environment; and that she is  *)
(* hers alone, while nobody deletes a pending student from elsewhere.      *)
(***************************************************************************)
EXTENDS Padron, TLAPS

SinPendientes == "eliminar_pendiente" \notin Entorno

-------------------------------------------------------------------------------
(* The inductive invariants.                                               *)

Alumno == [Ids -> Personas \cup {Nadie}]

ServidorOK ==
  /\ alumnos \in Alumno /\ huellas \in Alumno /\ ram \in Alumno
  /\ origen \in [Ids -> {"otro", "creado", "confirmado", "perdido"}]
  /\ deletes \subseteq Ids \X Personas

WorkerOK ==
  /\ objetivo \in 0..MaxId /\ orden \in 0..MaxId /\ muestra \in Personas \cup {Nadie}
  /\ cola \subseteq {"exito", "error"}
  /\ edicion \in [Paneles -> 0..MaxId]

DialogoOK ==
  /\ abierto \subseteq Paneles
  /\ paso \in [Paneles -> {"formulario", "captura", "exito", "error"}]
  /\ ficha \in [Paneles -> Personas \cup {Nadie}]
  /\ post \in [Paneles -> {"no", "buscar", "insertar", "respuesta"}]
  /\ respuesta \in [Paneles -> 0..MaxId]
  /\ duplicado \in [Paneles -> 0..MaxId]
  /\ enrollingUserId \in [Paneles -> 0..MaxId]
  /\ retry \in [Paneles -> 0..MaxId]
  /\ enrollWs \in [Paneles -> 0..MaxId]
  /\ sockets \in [Paneles -> SUBSET Ids]

(* A dialog has no socket but the one it knows, and that only in the step  *)
(* of the capture; its form has neither a socket nor a marked student, nor *)
(* a duplicate while a request is on its way.                              *)
Sockets ==
  \A p \in Paneles :
    /\ sockets[p] = {enrollWs[p]} \ {0}
    /\ paso[p] # "captura" => enrollWs[p] = 0
    /\ post[p] # "no" => paso[p] = "formulario" /\ duplicado[p] = 0 /\ ficha[p] \in Personas
    /\ respuesta[p] # 0 <=> post[p] = "respuesta"
    /\ enrollingUserId[p] # 0 => paso[p] # "formulario" /\ ficha[p] \in Personas

Base == ServidorOK /\ WorkerOK /\ DialogoOK /\ Sockets

(* The sockets and the retries of a dialog that has a marked student are   *)
(* for her.                                                                *)
Marcas ==
  \A p \in Paneles : enrollingUserId[p] # 0 =>
    retry[p] = enrollingUserId[p] /\ enrollWs[p] \in {0, enrollingUserId[p]}

(* Whoever was created and not reported has a dialog with her name in the  *)
(* form, or a DELETE with her name.                                        *)
Duenos ==
  \A i \in Ids : origen[i] = "creado" =>
    \/ \E p \in Paneles : i \in Suyos(p) /\ ficha[p] = alumnos[i]
    \/ <<i, alumnos[i]>> \in deletes

Vigilancia == Marcas /\ Duenos

(* A dialog's own student is there, and no other dialog's.                 *)
Propios ==
  /\ \A p \in Paneles : \A i \in Suyos(p) : origen[i] = "creado" /\ alumnos[i] = ficha[p]
  /\ \A p, q \in Paneles : Suyos(p) \cap Suyos(q) # {} => p = q

(* And so is that of a DELETE, which nobody will send a second time.       *)
Borrados ==
  \A i \in Ids, x \in Personas : <<i, x>> \in deletes =>
    /\ alumnos[i] = x /\ origen[i] = "creado"
    /\ \A p \in Paneles : i \notin Suyos(p)

Vinculos == Propios /\ Borrados

LEMMA BaseImplicaTypeOK == Base => TypeOK
  <1> SUFFICES ASSUME Base PROVE TypeOK
    OBVIOUS
  <1>1. \A p \in Paneles : enrollWs[p] \in sockets[p] \cup {0}
    BY DEF Base, Sockets
  <1> QED
    BY <1>1 DEF Base, TypeOK, ServidorOK, WorkerOK, DialogoOK, Alumno

LEMMA IdsTipo == Ids \subseteq 0..MaxId /\ 0 \notin Ids /\ Ids = 0..MaxId \ {0} /\ 0 \in 0..MaxId
  BY PadronOK DEF Ids

LEMMA BaseInit == Init => Base
  <1> SUFFICES ASSUME Init PROVE Base
    OBVIOUS
  <1>1. ServidorOK
    BY DEF Init, ServidorOK, Alumno
  <1>2. WorkerOK
    BY IdsTipo DEF Init, WorkerOK
  <1>3. DialogoOK
    BY IdsTipo DEF Init, DialogoOK
  <1>4. Sockets
    BY DEF Init, Sockets
  <1> QED
    BY <1>1, <1>2, <1>3, <1>4 DEF Base

-------------------------------------------------------------------------------
(* First layer: types and sockets.                                         *)

(* What the worker, the reader and the requests of others do is not seen   *)
(* by the dialogs.                                                         *)
LEMMA BaseAparte ==
  ASSUME Base, ServidorOK', WorkerOK', UNCHANGED <<dialogo, peticion>>
  PROVE  Base'
  <1>1. DialogoOK'
    BY DEF Base, DialogoOK, dialogo, peticion, Ids
  <1>2. Sockets'
    BY DEF Base, Sockets, dialogo, peticion
  <1> QED
    BY <1>1, <1>2 DEF Base

LEMMA ServidorQuieto ==
  ASSUME ServidorOK, UNCHANGED <<servidor, origen, deletes>>
  PROVE  ServidorOK'
  BY DEF ServidorOK, servidor, Alumno, Ids

LEMMA EscribirTipo ==
  ASSUME ServidorOK, NEW i, NEW x \in Personas \cup {Nadie}, Escribir(i, x),
         UNCHANGED <<alumnos, origen, deletes>>
  PROVE  ServidorOK'
  BY DEF Escribir, Alumno, ServidorOK, Ids

LEMMA OlvidarTipo ==
  ASSUME ServidorOK, NEW i, Olvidar(i)
  PROVE  /\ origen' \in [Ids -> {"otro", "creado", "confirmado", "perdido"}]
         /\ \A j \in Ids : /\ origen'[j] = "creado" <=> origen[j] = "creado" /\ j # i
                           /\ j # i => origen'[j] = origen[j]
  BY DEF ServidorOK, Olvidar

LEMMA BaseWorker ==
  ASSUME Base,
         \/ TomarOrden \/ Vaciar \/ RecargarRam
         \/ \E r \in {"exito", "error"} : FinEnrolar(r)
         \/ \E p \in Paneles : Capturar(p)
  PROVE  /\ Base'
         /\ UNCHANGED <<alumnos, origen, deletes, dialogo, peticion>>
  <1> USE DEF Base
  <1>1. CASE TomarOrden \/ Vaciar
    <2>1. WorkerOK'
      BY <1>1 DEF TomarOrden, Vaciar, WorkerOK
    <2> QED
      BY <1>1, <2>1, ServidorQuieto, BaseAparte DEF TomarOrden, Vaciar, servidor
  <1>2. CASE RecargarRam
    <2>1. WorkerOK' /\ ServidorOK'
      BY <1>2 DEF RecargarRam, WorkerOK, worker, ServidorOK, Alumno, Ids
    <2> QED
      BY <1>2, <2>1, BaseAparte DEF RecargarRam
  <1>3. ASSUME NEW r \in {"exito", "error"}, FinEnrolar(r)
        PROVE  Base' /\ UNCHANGED <<alumnos, origen, deletes, dialogo, peticion>>
    <2>1. WorkerOK'
      BY <1>3, IdsTipo DEF FinEnrolar, WorkerOK
    <2>2. ServidorOK'
      <3>1. CASE r = "exito"
        BY <1>3, <3>1, EscribirTipo DEF FinEnrolar, WorkerOK
      <3>2. CASE r # "exito"
        BY <1>3, <3>2, ServidorQuieto DEF FinEnrolar, servidor
      <3> QED
        BY <3>1, <3>2
    <2> QED
      BY <1>3, <2>1, <2>2, BaseAparte DEF FinEnrolar
  <1>4. ASSUME NEW p \in Paneles, Capturar(p)
        PROVE  Base' /\ UNCHANGED <<alumnos, origen, deletes, dialogo, peticion>>
    <2>1. WorkerOK'
      BY <1>4 DEF Capturar, WorkerOK, DialogoOK
    <2> QED
      BY <1>4, <2>1, ServidorQuieto, BaseAparte DEF Capturar, servidor
  <1> QED
    BY <1>1, <1>2, <1>3, <1>4

(* Rows that appear and disappear, and requests that others send.          *)
LEMMA BaseFilas ==
  ASSUME Base,
         \/ EliminarTodos \/ \E x \in Personas : Importar(x)
         \/ \E i \in Ids : EliminarDeLista(i)
         \/ \E i \in Ids, x \in Personas : Eliminar(i, x) \/ DeletePerdido(i, x)
  PROVE  Base'
  <1> USE DEF Base
  <1>1. CASE EliminarTodos
    BY <1>1, BaseAparte DEF EliminarTodos, Nulo, ServidorOK, WorkerOK, worker, Alumno, Ids
  <1>2. ASSUME NEW x \in Personas, Importar(x)
        PROVE  Base'
    BY <1>2, BaseAparte DEF Importar, Nuevo, ServidorOK, WorkerOK, worker, Alumno, Ids
  <1>3. ASSUME NEW i \in Ids, Borrar(i), deletes' \subseteq deletes
        PROVE  Base'
    BY <1>3, BaseAparte DEF Borrar, ServidorOK, WorkerOK, worker, Alumno, Ids
  <1>4. ASSUME NEW i \in Ids, NEW x \in Personas, DeletePerdido(i, x)
        PROVE  Base'
    <2>1. ServidorOK'
      BY <1>4, OlvidarTipo DEF DeletePerdido, ServidorOK, servidor, Alumno, Ids
    <2> QED
      BY <1>4, <2>1, BaseAparte DEF DeletePerdido, WorkerOK, worker
  <1> QED
    BY <1>1, <1>2, <1>3, <1>4 DEF EliminarDeLista, Eliminar

LEMMA BaseAbrir ==
  ASSUME Base, NEW p \in Paneles, Abrir(p)
  PROVE  Base'
  <1>1. ServidorOK' /\ WorkerOK'
    BY ServidorQuieto DEF Abrir, Base, WorkerOK, worker
  <1>2. DialogoOK'
    BY IdsTipo DEF Abrir, Base, DialogoOK, peticion, Ids
  <1>3. Sockets'
    BY IdsTipo DEF Abrir, Base, DialogoOK, Sockets, peticion
  <1> QED
    BY <1>1, <1>2, <1>3 DEF Base

(* The request that creates a student, until its answer.                   *)
LEMMA BasePeticion ==
  ASSUME Base, NEW p \in Paneles,
         EsDuplicado(p) \/ NoEsta(p) \/ CrearFalla(p) \/ \E x \in Personas : Enviar(p, x)
  PROVE  Base'
  <1>1. ServidorOK' /\ WorkerOK'
    BY ServidorQuieto DEF EsDuplicado, NoEsta, CrearFalla, Enviar, Base, WorkerOK, worker
  <1>2. ASSUME NEW x \in Personas, Enviar(p, x)
        PROVE  DialogoOK' /\ Sockets'
    <2>1. DialogoOK'
      BY <1>2 DEF Enviar, Base, DialogoOK, Ids
    <2>2. Sockets'
      BY <1>2 DEF Enviar, Base, DialogoOK, Sockets
    <2> QED
      BY <2>1, <2>2
  <1>3. CASE EsDuplicado(p)
    <2>1. duplicado' \in [Paneles -> 0..MaxId]
      BY <1>3, IdsTipo DEF EsDuplicado, IdDe, Base, DialogoOK
    <2>2. DialogoOK'
      BY <1>3, <2>1 DEF EsDuplicado, Base, DialogoOK, Ids
    <2>3. /\ post[p] = "buscar" /\ post'[p] = "no"
          /\ \A q \in Paneles \ {p} : post'[q] = post[q] /\ duplicado'[q] = duplicado[q]
          /\ UNCHANGED <<paso, ficha, enrollingUserId, enrollWs, sockets, respuesta>>
      BY <1>3 DEF EsDuplicado, Base, DialogoOK
    <2>4. Sockets'
      BY <2>3 DEF Base, Sockets
    <2> QED
      BY <1>1, <2>2, <2>4 DEF Base
  <1>4. CASE NoEsta(p) \/ CrearFalla(p)
    <2>1. UNCHANGED <<dialogo, respuesta>>
      BY <1>4 DEF NoEsta, CrearFalla
    <2>2. DialogoOK'
      BY <1>4, <2>1 DEF NoEsta, CrearFalla, Base, DialogoOK, dialogo, Ids
    <2>3. /\ post[p] \in {"buscar", "insertar"} /\ post'[p] \in {"no", "insertar"}
          /\ \A q \in Paneles \ {p} : post'[q] = post[q]
          /\ UNCHANGED <<paso, ficha, duplicado, enrollingUserId, enrollWs, sockets, respuesta>>
      BY <1>4, <2>1 DEF NoEsta, CrearFalla, Base, DialogoOK, dialogo
    <2>4. Sockets'
      BY <2>3 DEF Base, Sockets
    <2> QED
      BY <1>1, <2>2, <2>4 DEF Base
  <1> QED
    BY <1>1, <1>2, <1>3, <1>4 DEF Base

LEMMA BaseInsertar ==
  ASSUME Base, NEW p \in Paneles, Insertar(p)
  PROVE  Base'
  <1>1. PICK n \in Ids : /\ Nuevo(ficha[p], n, "creado")
                         /\ respuesta' = [respuesta EXCEPT ![p] = n]
    BY DEF Insertar
  <1>2. ficha[p] \in Personas /\ n \in 0..MaxId /\ n # 0
    BY IdsTipo DEF Insertar, Base, Sockets
  <1>3. ServidorOK'
    BY <1>1, <1>2 DEF Insertar, Nuevo, Base, ServidorOK, Alumno, Ids
  <1>4. WorkerOK' /\ DialogoOK'
    BY <1>1, <1>2 DEF Insertar, Base, WorkerOK, DialogoOK, worker, dialogo, Ids
  <1>5. Sockets'
    BY <1>1, <1>2 DEF Insertar, Base, Sockets, DialogoOK, dialogo
  <1> QED
    BY <1>3, <1>4, <1>5 DEF Base

LEMMA BaseRespuestaPerdida ==
  ASSUME Base, NEW p \in Paneles, RespuestaPerdida(p)
  PROVE  Base'
  <1>1. ServidorOK'
    BY OlvidarTipo DEF RespuestaPerdida, Base, ServidorOK, servidor, Alumno, Ids
  <1>2. WorkerOK' /\ DialogoOK'
    BY IdsTipo DEF RespuestaPerdida, Base, WorkerOK, DialogoOK, worker, dialogo, Ids
  <1>3. Sockets'
    BY DEF RespuestaPerdida, Base, Sockets, DialogoOK, dialogo
  <1> QED
    BY <1>1, <1>2, <1>3 DEF Base

LEMMA ConectarEfecto ==
  ASSUME Base, NEW p \in Paneles, NEW i \in Ids, NEW e \in BOOLEAN,
         Conectar(p, i, e), paso[p] # "captura"
  PROVE  /\ WorkerOK'
         /\ paso' = [paso EXCEPT ![p] = "captura"]
         /\ retry' = [retry EXCEPT ![p] = i]
         /\ enrollWs' = [enrollWs EXCEPT ![p] = i]
         /\ sockets' = [sockets EXCEPT ![p] = {i}]
         /\ i \in 0..MaxId /\ i # 0
         /\ UNCHANGED <<huellas, ram, abierto, ficha, duplicado, deletes>>
  <1>1. i \in 0..MaxId /\ i # 0
    BY IdsTipo
  <1>2. WorkerOK'
    BY <1>1 DEF Conectar, Base, WorkerOK
  <1>3. sockets[p] = {}
    BY DEF Base, Sockets
  <1>4. sockets' = [sockets EXCEPT ![p] = {i}]
    BY <1>3 DEF Conectar
  <1> QED
    BY <1>1, <1>2, <1>4 DEF Conectar

(* Whom a duplicate that is confirmed, or a retry, connects for.           *)
LEMMA QuienConecta ==
  ASSUME Base, NEW p \in Paneles, ConfirmarDuplicado(p) \/ Reintentar(p)
  PROVE  /\ \E i \in Ids, e \in BOOLEAN :
              /\ Conectar(p, i, e)
              /\ enrollingUserId[p] # 0 => i = retry[p]
         /\ paso[p] # "captura" /\ post[p] = "no"
         /\ UNCHANGED <<alumnos, enrollingUserId, peticion, origen>>
  <1>1. CASE ConfirmarDuplicado(p)
    <2>1. duplicado[p] \in Ids /\ enrollingUserId[p] = 0
      BY <1>1, IdsTipo DEF ConfirmarDuplicado, Base, DialogoOK, Sockets
    <2> QED
      BY <1>1, <2>1 DEF ConfirmarDuplicado, Base, Sockets
  <1>2. CASE Reintentar(p)
    <2>1. retry[p] \in Ids
      BY <1>2, IdsTipo DEF Reintentar, Base, DialogoOK
    <2> QED
      BY <1>2, <2>1 DEF Reintentar, Base, Sockets
  <1> QED
    BY <1>1, <1>2

LEMMA BaseConectar ==
  ASSUME Base, NEW p \in Paneles, ConfirmarDuplicado(p) \/ Reintentar(p)
  PROVE  Base'
  <1>1. PICK i \in Ids, e \in BOOLEAN : Conectar(p, i, e)
    BY QuienConecta
  <1>2. /\ paso[p] # "captura" /\ post[p] = "no"
        /\ UNCHANGED <<alumnos, enrollingUserId, post, respuesta, origen>>
    BY QuienConecta DEF peticion
  <1>3. /\ WorkerOK'
        /\ paso' = [paso EXCEPT ![p] = "captura"]
        /\ retry' = [retry EXCEPT ![p] = i]
        /\ enrollWs' = [enrollWs EXCEPT ![p] = i]
        /\ sockets' = [sockets EXCEPT ![p] = {i}]
        /\ i \in 0..MaxId /\ i # 0
        /\ UNCHANGED <<huellas, ram, abierto, ficha, duplicado, deletes>>
    BY <1>1, <1>2, ConectarEfecto
  <1>4. DialogoOK' /\ ServidorOK'
    BY <1>2, <1>3, ServidorQuieto DEF Base, DialogoOK, servidor, Ids
  <1>5. Sockets'
    BY <1>2, <1>3 DEF Base, Sockets, DialogoOK
  <1> QED
    BY <1>3, <1>4, <1>5 DEF Base

LEMMA BaseCrear ==
  ASSUME Base, NEW p \in Paneles, Crear(p)
  PROVE  Base'
  <1>1. /\ respuesta[p] \in Ids /\ paso[p] = "formulario" /\ ficha[p] \in Personas
        /\ respuesta[p] # 0
    BY IdsTipo DEF Crear, Base, Sockets, DialogoOK
  <1>2. /\ WorkerOK'
        /\ paso' = [paso EXCEPT ![p] = "captura"]
        /\ retry' = [retry EXCEPT ![p] = respuesta[p]]
        /\ enrollWs' = [enrollWs EXCEPT ![p] = respuesta[p]]
        /\ sockets' = [sockets EXCEPT ![p] = {respuesta[p]}]
        /\ UNCHANGED <<huellas, ram, abierto, ficha, duplicado, deletes>>
    BY <1>1, ConectarEfecto DEF Crear
  <1>3. /\ enrollingUserId' = [enrollingUserId EXCEPT ![p] = respuesta[p]]
        /\ post' = [post EXCEPT ![p] = "no"] /\ respuesta' = [respuesta EXCEPT ![p] = 0]
        /\ UNCHANGED <<alumnos, origen>>
    BY DEF Crear
  <1>4. ServidorOK'
    BY <1>2, <1>3, ServidorQuieto DEF Base, servidor
  <1>5. DialogoOK'
    BY <1>1, <1>2, <1>3, IdsTipo DEF Base, DialogoOK, Ids
  <1>6. Sockets'
    BY <1>1, <1>2, <1>3 DEF Base, Sockets, DialogoOK
  <1> QED
    BY <1>2, <1>4, <1>5, <1>6 DEF Base

LEMMA UnSocket ==
  ASSUME Base, NEW p \in Paneles, NEW i \in sockets[p]
  PROVE  /\ i \in Ids /\ i = enrollWs[p] /\ i # 0 /\ sockets[p] \ {i} = {}
         /\ paso[p] = "captura" /\ post[p] = "no"
  <1>1. i = enrollWs[p] /\ i # 0 /\ sockets[p] \ {i} = {}
    BY DEF Base, Sockets
  <1> QED
    BY <1>1 DEF Base, Sockets, DialogoOK

LEMMA BaseCaer ==
  ASSUME Base, NEW p \in Paneles, NEW i \in Ids, Caer(p, i)
  PROVE  Base'
  <1>1. i \in sockets[p] /\ sockets[p] \ {i} = {} /\ post[p] = "no"
    BY UnSocket DEF Caer
  <1>2. ServidorOK' /\ WorkerOK'
    BY ServidorQuieto DEF Caer, Base, WorkerOK, worker
  <1>3. DialogoOK'
    BY IdsTipo DEF Caer, Base, DialogoOK, peticion, Ids
  <1>4. Sockets'
    BY <1>1 DEF Caer, Base, Sockets, DialogoOK, peticion
  <1> QED
    BY <1>2, <1>3, <1>4 DEF Base

(* An answer to a socket: the student it unmarks is forgotten by the       *)
(* dialog, and is the only one whose row it reports.                       *)
LEMMA RespuestaEfecto ==
  ASSUME Base, NEW p \in Paneles, NEW i \in sockets[p], NEW r \in {"exito", "error"},
         Respuesta(p, i, r)
  PROVE  /\ i \in Ids /\ i = enrollWs[p] /\ sockets[p] \ {i} = {} /\ post[p] = "no"
         /\ sockets' = [sockets EXCEPT ![p] = {}]
         /\ enrollWs' = [enrollWs EXCEPT ![p] = 0]
         /\ paso' = [paso EXCEPT ![p] = r]
         /\ UNCHANGED <<alumnos, abierto, ficha, duplicado, retry, post, respuesta, deletes>>
         /\ IF r = "exito" THEN enrollingUserId' = [enrollingUserId EXCEPT ![p] = 0]
                           ELSE enrollingUserId' = enrollingUserId
         /\ origen' \in [Ids -> {"otro", "creado", "confirmado", "perdido"}]
         /\ \A j \in Ids : origen'[j] = "creado" <=>
              origen[j] = "creado" /\ ~(r = "exito" /\ j = i /\ enrollingUserId[p] = i)
  <1>1. i \in Ids /\ i = enrollWs[p] /\ sockets[p] \ {i} = {} /\ post[p] = "no"
    BY UnSocket
  <1>2. /\ sockets' = [sockets EXCEPT ![p] = {}]
        /\ enrollWs' = [enrollWs EXCEPT ![p] = 0]
        /\ paso' = [paso EXCEPT ![p] = r]
        /\ UNCHANGED <<alumnos, abierto, ficha, duplicado, retry, post, respuesta, deletes>>
        /\ IF r = "exito" THEN enrollingUserId' = [enrollingUserId EXCEPT ![p] = 0]
                          ELSE enrollingUserId' = enrollingUserId
    BY <1>1 DEF Respuesta, peticion
  <1>3. /\ origen' \in [Ids -> {"otro", "creado", "confirmado", "perdido"}]
        /\ \A j \in Ids : origen'[j] = "creado" <=>
             origen[j] = "creado" /\ ~(r = "exito" /\ j = i /\ enrollingUserId[p] = i)
    <2>1. CASE r = "exito"
      <3>1. origen' = [origen EXCEPT ![i] = IF enrollingUserId[p] = i \/ @ = "perdido"
                                            THEN "confirmado" ELSE @]
        BY <2>1 DEF Respuesta
      <3> QED
        BY <1>1, <2>1, <3>1 DEF Base, ServidorOK
    <2>2. CASE r # "exito"
      BY <2>2 DEF Respuesta, Base, ServidorOK
    <2> QED
      BY <2>1, <2>2
  <1> QED
    BY <1>1, <1>2, <1>3

LEMMA BaseRespuesta ==
  ASSUME Base, NEW p \in Paneles, NEW i \in sockets[p], NEW r \in {"exito", "error"},
         Respuesta(p, i, r), WorkerOK', huellas' \in Alumno, ram' \in Alumno
  PROVE  Base'
  <1>1. /\ sockets' = [sockets EXCEPT ![p] = {}]
        /\ enrollWs' = [enrollWs EXCEPT ![p] = 0]
        /\ paso' = [paso EXCEPT ![p] = r] /\ post[p] = "no"
        /\ UNCHANGED <<alumnos, abierto, ficha, duplicado, retry, post, respuesta, deletes>>
        /\ IF r = "exito" THEN enrollingUserId' = [enrollingUserId EXCEPT ![p] = 0]
                          ELSE enrollingUserId' = enrollingUserId
        /\ origen' \in [Ids -> {"otro", "creado", "confirmado", "perdido"}]
    BY RespuestaEfecto
  <1>2. ServidorOK'
    BY <1>1 DEF Base, ServidorOK, Alumno, Ids
  <1>3. DialogoOK'
    BY <1>1, IdsTipo DEF Base, DialogoOK, Ids
  <1>4. Sockets'
    BY <1>1 DEF Base, Sockets, DialogoOK
  <1> QED
    BY <1>2, <1>3, <1>4 DEF Base

LEMMA BaseRecibir ==
  ASSUME Base, NEW p \in Paneles, NEW i \in Ids, NEW r \in {"exito", "error"}, Recibir(p, i, r)
  PROVE  Base'
  <1>1. WorkerOK'
    BY DEF Recibir, Respuesta, Base, WorkerOK
  <1>2. huellas' \in Alumno /\ ram' \in Alumno
    BY DEF Recibir, Base, ServidorOK
  <1> QED
    BY <1>1, <1>2, BaseRespuesta DEF Recibir

LEMMA BaseEditar ==
  ASSUME Base, NEW p \in Paneles, NEW r \in {"exito", "error"}, Editar(p, r)
  PROVE  Base'
  <1> DEFINE i == edicion[p]
  <1>1. edicion' \in [Paneles -> 0..MaxId]
    BY IdsTipo DEF Editar, Base, WorkerOK
  <1>2. huellas' \in Alumno /\ ram' \in Alumno
    <2>1. CASE r = "exito"
      <3>1. Escribir(i, ficha[p])
        BY <2>1 DEF Editar
      <3> QED
        BY <3>1 DEF Escribir, Base, ServidorOK, DialogoOK, Alumno
    <2>2. CASE r # "exito"
      BY <2>2 DEF Editar, Base, ServidorOK
    <2> QED
      BY <2>1, <2>2
  <1>3. CASE i \in sockets[p] /\ Respuesta(p, i, r) /\ UNCHANGED cola
    <2>1. WorkerOK'
      BY <1>1, <1>3 DEF Respuesta, Base, WorkerOK
    <2> QED
      BY <1>2, <1>3, <2>1, BaseRespuesta
  <1>4. CASE UNCHANGED <<alumnos, objetivo, orden, muestra, cola, dialogo, peticion, deletes,
                         origen>>
    <2>1. WorkerOK'
      BY <1>1, <1>4 DEF Base, WorkerOK
    <2>2. ServidorOK'
      BY <1>2, <1>4 DEF Base, ServidorOK, Alumno, Ids
    <2> QED
      BY <1>4, <2>1, <2>2, BaseAparte
  <1> QED
    BY <1>3, <1>4 DEF Editar

(* The dialog closes, or its page is reloaded.                             *)
LEMMA CierreEfecto ==
  ASSUME Base, NEW p \in Paneles, Cerrar(p) \/ Recargar(p)
  PROVE  /\ paso' = [paso EXCEPT ![p] = "formulario"]
         /\ enrollWs' = [enrollWs EXCEPT ![p] = 0]
         /\ sockets' = [sockets EXCEPT ![p] = {}]
         /\ duplicado' = [duplicado EXCEPT ![p] = 0]
         /\ retry' = [retry EXCEPT ![p] = 0]
         /\ enrollingUserId' = [enrollingUserId EXCEPT ![p] = 0]
         /\ abierto' = abierto \ {p}
         /\ UNCHANGED <<servidor, worker, ficha, peticion>>
  <1>1. sockets[p] \ {enrollWs[p]} = {}
    BY DEF Base, Sockets
  <1> QED
    BY <1>1 DEF Cerrar, Ocultar, Recargar

LEMMA BaseCierre ==
  ASSUME Base, NEW p \in Paneles, Cerrar(p) \/ Recargar(p)
  PROVE  Base'
  <1>1. /\ paso' = [paso EXCEPT ![p] = "formulario"]
        /\ enrollWs' = [enrollWs EXCEPT ![p] = 0]
        /\ sockets' = [sockets EXCEPT ![p] = {}]
        /\ duplicado' = [duplicado EXCEPT ![p] = 0]
        /\ retry' = [retry EXCEPT ![p] = 0]
        /\ enrollingUserId' = [enrollingUserId EXCEPT ![p] = 0]
        /\ abierto' = abierto \ {p}
        /\ UNCHANGED <<servidor, worker, ficha, post, respuesta>>
    BY CierreEfecto DEF peticion
  <1>2. ServidorOK'
    <2>1. CASE Cerrar(p)
      <3>1. Marcado(p) \subseteq Ids \X Personas
        BY IdsTipo DEF Marcado, Base, Sockets, DialogoOK
      <3> QED
        BY <1>1, <2>1, <3>1 DEF Cerrar, Ocultar, Base, ServidorOK, servidor, Alumno, Ids
    <2>2. CASE Recargar(p)
      BY <1>1, <2>2, OlvidarTipo DEF Recargar, Base, ServidorOK, servidor, Alumno, Ids
    <2> QED
      BY <2>1, <2>2
  <1>3. WorkerOK' /\ DialogoOK'
    BY <1>1, IdsTipo DEF Base, WorkerOK, DialogoOK, worker, Ids
  <1>4. Sockets'
    BY <1>1 DEF Base, Sockets, DialogoOK
  <1> QED
    BY <1>2, <1>3, <1>4 DEF Base

LEMMA BaseNext == Base /\ [Next]_vars => Base'
  <1> SUFFICES ASSUME Base, [Next]_vars PROVE Base'
    OBVIOUS
  <1>1. CASE DelServidor
    BY <1>1, BaseWorker, BaseFilas, BaseEditar DEF DelServidor
  <1>2. ASSUME NEW p \in Paneles, DelPanel(p)
        PROVE  Base'
    BY <1>2, BaseAbrir, BaseCierre, BaseConectar, BasePeticion, BaseInsertar, BaseCrear,
       BaseRespuestaPerdida, BaseCaer, BaseRecibir
    DEF DelPanel
  <1>3. CASE UNCHANGED vars
    <2>1. WorkerOK' /\ ServidorOK'
      BY <1>3, ServidorQuieto DEF vars, worker, Base, WorkerOK
    <2> QED
      BY <1>3, <2>1, BaseAparte DEF vars
  <1> QED
    BY <1>1, <1>2, <1>3 DEF Next

LEMMA BaseSiempre == Spec => []Base
  BY BaseInit, BaseNext, PTL DEF Spec

-------------------------------------------------------------------------------
(* Second and third layers: whom a dialog watches, and that she is hers.   *)

LEMMA SuyosIds ==
  ASSUME Base, NEW p \in Paneles
  PROVE  Suyos(p) \subseteq Ids /\ (Suyos(p) # {} => ficha[p] \in Personas)
  BY IdsTipo DEF Suyos, Base, DialogoOK, Sockets

LEMMA VinculosInit == Init => Vigilancia /\ Vinculos
  BY DEF Init, Vigilancia, Vinculos, Marcas, Duenos, Propios, Borrados, Suyos

(* A step that leaves the rows and the requests to delete them alone, and  *)
(* what each dialog remembers of its student.                              *)
LEMMA VinculosDialogo ==
  ASSUME Base, Vigilancia, UNCHANGED <<alumnos, origen, deletes>>, Marcas',
         \A q \in Paneles : /\ Suyos(q)' = Suyos(q)
                            /\ Suyos(q) # {} => ficha'[q] = ficha[q]
  PROVE  Vigilancia' /\ (Vinculos => Vinculos')
  <1>1. Duenos'
    BY DEF Vigilancia, Duenos, Ids
  <1>2. Propios => Propios'
    BY DEF Propios
  <1>3. Borrados => Borrados'
    BY DEF Borrados, Ids
  <1> QED
    BY <1>1, <1>2, <1>3 DEF Vigilancia, Vinculos

(* A step that changes rows and requests to delete, and not the dialogs: a *)
(* row stays as it was, or is nobody's; and then no dialog's either.       *)
LEMMA VinculosFilas ==
  ASSUME Base, Vigilancia, UNCHANGED <<dialogo, peticion>>, deletes' \subseteq deletes,
         NEW S \in SUBSET Ids,
         \A j \in Ids \ S : /\ alumnos'[j] = alumnos[j]
                            /\ origen'[j] = "creado" <=> origen[j] = "creado"
                            /\ <<j, alumnos[j]>> \in deletes => <<j, alumnos[j]>> \in deletes',
         \A j \in S : origen'[j] # "creado",
         SinPendientes /\ Vinculos => \A j \in S :
           /\ \A q \in Paneles : j \notin Suyos(q)
           /\ \A x \in Personas : <<j, x>> \notin deletes'
  PROVE  Vigilancia' /\ (SinPendientes /\ Vinculos => Vinculos')
  <1>1. /\ \A q \in Paneles : Suyos(q)' = Suyos(q) /\ Suyos(q) \subseteq Ids
        /\ UNCHANGED <<ficha, retry, enrollWs, enrollingUserId>>
    BY SuyosIds DEF dialogo, peticion, Suyos
  <1>2. Marcas'
    BY <1>1 DEF Vigilancia, Marcas
  <1>3. Duenos'
    BY <1>1 DEF Vigilancia, Duenos, Ids
  <1>4. SinPendientes /\ Vinculos => Propios'
    BY <1>1 DEF Vinculos, Propios
  <1>5. SinPendientes /\ Vinculos => Borrados'
    BY <1>1 DEF Vinculos, Borrados, Ids
  <1> QED
    BY <1>2, <1>3, <1>4, <1>5 DEF Vigilancia, Vinculos

(* A dialog lets go of its student, whose row nobody watches any more.     *)
LEMMA VinculosSoltar ==
  ASSUME Base, Vigilancia, NEW p \in Paneles, UNCHANGED <<alumnos, deletes>>,
         Suyos(p)' = {}, enrollingUserId'[p] = 0,
         \A q \in Paneles \ {p} :
           /\ Suyos(q)' = Suyos(q) /\ ficha'[q] = ficha[q] /\ retry'[q] = retry[q]
           /\ enrollWs'[q] = enrollWs[q] /\ enrollingUserId'[q] = enrollingUserId[q],
         \A j \in Ids : origen'[j] = "creado" <=> origen[j] = "creado" /\ j \notin Suyos(p)
  PROVE  Vigilancia' /\ (Vinculos => Vinculos')
  <1>1. Marcas'
    BY DEF Vigilancia, Marcas
  <1>2. Duenos'
    <2>1. ASSUME NEW j \in Ids, origen'[j] = "creado"
          PROVE  \/ \E q \in Paneles : j \in Suyos(q)' /\ ficha'[q] = alumnos'[j]
                 \/ <<j, alumnos'[j]>> \in deletes'
      <3>1. origen[j] = "creado" /\ j \notin Suyos(p)
        BY <2>1
      <3> QED
        BY <3>1 DEF Vigilancia, Duenos
    <2> QED
      BY <2>1 DEF Duenos, Ids
  <1>3. ASSUME Vinculos PROVE Propios'
    <2>1. ASSUME NEW q \in Paneles, NEW j \in Suyos(q)'
          PROVE  origen'[j] = "creado" /\ alumnos'[j] = ficha'[q]
      <3>1. q # p /\ j \in Suyos(q) /\ j \in Ids
        BY <2>1, SuyosIds
      <3>2. j \notin Suyos(p)
        BY <1>3, <3>1 DEF Vinculos, Propios
      <3> QED
        BY <1>3, <3>1, <3>2 DEF Vinculos, Propios
    <2>2. \A q, s \in Paneles : Suyos(q)' \cap Suyos(s)' # {} => q = s
      BY <1>3 DEF Vinculos, Propios
    <2> QED
      BY <2>1, <2>2 DEF Propios
  <1>4. ASSUME Vinculos PROVE Borrados'
    <2>1. \A q \in Paneles : Suyos(q)' \subseteq Suyos(q)
      OBVIOUS
    <2> QED
      BY <1>4, <2>1 DEF Vinculos, Borrados, Ids
  <1> QED
    BY <1>1, <1>2, <1>3, <1>4 DEF Vigilancia, Vinculos

LEMMA VinculosAparte ==
  ASSUME Base, Vigilancia, UNCHANGED <<alumnos, origen, deletes, dialogo, peticion>>
  PROVE  Vigilancia' /\ (Vinculos => Vinculos')
  <1>1. /\ \A q \in Paneles : Suyos(q)' = Suyos(q)
        /\ UNCHANGED <<ficha, retry, enrollWs, enrollingUserId>>
    BY DEF dialogo, peticion, Suyos
  <1> QED
    BY <1>1, VinculosDialogo DEF Vigilancia, Marcas

LEMMA VinculosAbrir ==
  ASSUME Base, Vigilancia, NEW p \in Paneles, Abrir(p)
  PROVE  Vigilancia' /\ (Vinculos => Vinculos')
  <1>1. /\ \A q \in Paneles : Suyos(q)' = Suyos(q)
        /\ UNCHANGED <<alumnos, origen, deletes, ficha, retry, enrollWs, enrollingUserId>>
    BY DEF Abrir, servidor, peticion, Suyos
  <1> QED
    BY <1>1, VinculosDialogo DEF Vigilancia, Marcas

LEMMA VinculosPeticion ==
  ASSUME Base, Vigilancia, NEW p \in Paneles,
         EsDuplicado(p) \/ NoEsta(p) \/ CrearFalla(p) \/ \E x \in Personas : Enviar(p, x)
  PROVE  Vigilancia' /\ (Vinculos => Vinculos')
  <1>1. /\ \A q \in Paneles : Suyos(q)' = Suyos(q)
        /\ UNCHANGED <<alumnos, origen, deletes, retry, enrollWs, enrollingUserId>>
    BY DEF EsDuplicado, NoEsta, CrearFalla, Enviar, servidor, dialogo, Suyos
  <1>2. \A q \in Paneles : Suyos(q) # {} => ficha'[q] = ficha[q]
    <2>1. ASSUME NEW x \in Personas, Enviar(p, x)
          PROVE  Suyos(p) = {} /\ \A q \in Paneles \ {p} : ficha'[q] = ficha[q]
      BY <2>1 DEF Enviar, Suyos, Base, Sockets, DialogoOK
    <2>2. CASE EsDuplicado(p) \/ NoEsta(p) \/ CrearFalla(p)
      BY <2>2 DEF EsDuplicado, NoEsta, CrearFalla, dialogo
    <2> QED
      BY <2>1, <2>2
  <1> QED
    BY <1>1, <1>2, VinculosDialogo DEF Vigilancia, Marcas

LEMMA VinculosConectar ==
  ASSUME Base, Vigilancia, NEW p \in Paneles, ConfirmarDuplicado(p) \/ Reintentar(p)
  PROVE  Vigilancia' /\ (Vinculos => Vinculos')
  <1>1. PICK i \in Ids, e \in BOOLEAN : /\ Conectar(p, i, e)
                                        /\ enrollingUserId[p] # 0 => i = retry[p]
    BY QuienConecta
  <1>2. /\ paso[p] # "captura"
        /\ UNCHANGED <<alumnos, enrollingUserId, respuesta, origen>>
    BY QuienConecta DEF peticion
  <1>3. /\ retry' = [retry EXCEPT ![p] = i]
        /\ enrollWs' = [enrollWs EXCEPT ![p] = i]
        /\ UNCHANGED <<ficha, deletes>>
    BY <1>1, <1>2, ConectarEfecto
  <1>4. \A q \in Paneles : Suyos(q)' = Suyos(q)
    BY <1>2 DEF Suyos
  <1>5. ASSUME NEW q \in Paneles, enrollingUserId'[q] # 0
        PROVE  retry'[q] = enrollingUserId'[q] /\ enrollWs'[q] \in {0, enrollingUserId'[q]}
    BY <1>1, <1>2, <1>3, <1>5 DEF Base, DialogoOK, Vigilancia, Marcas
  <1> QED
    BY <1>2, <1>3, <1>4, <1>5, VinculosDialogo DEF Marcas

LEMMA VinculosCaer ==
  ASSUME Base, Vigilancia, NEW p \in Paneles, NEW i \in Ids, Caer(p, i)
  PROVE  Vigilancia' /\ (Vinculos => Vinculos')
  <1>1. /\ \A q \in Paneles : Suyos(q)' = Suyos(q)
        /\ enrollWs' = [enrollWs EXCEPT ![p] = 0]
        /\ UNCHANGED <<alumnos, origen, deletes, ficha, retry, enrollingUserId>>
    BY DEF Caer, servidor, peticion, Suyos
  <1> QED
    BY <1>1, VinculosDialogo DEF Vigilancia, Marcas, Base, DialogoOK

(* The student passes from the answer to the mark of the dialog.           *)
LEMMA VinculosCrear ==
  ASSUME Base, Vigilancia, NEW p \in Paneles, Crear(p)
  PROVE  Vigilancia' /\ (Vinculos => Vinculos')
  <1>1. /\ respuesta[p] \in Ids /\ respuesta[p] # 0 /\ paso[p] = "formulario"
        /\ enrollingUserId[p] = 0
    BY IdsTipo DEF Crear, Base, Sockets, DialogoOK
  <1>2. /\ retry' = [retry EXCEPT ![p] = respuesta[p]]
        /\ enrollWs' = [enrollWs EXCEPT ![p] = respuesta[p]]
        /\ UNCHANGED <<ficha, deletes>>
    BY <1>1, ConectarEfecto DEF Crear
  <1>3. /\ enrollingUserId' = [enrollingUserId EXCEPT ![p] = respuesta[p]]
        /\ respuesta' = [respuesta EXCEPT ![p] = 0]
        /\ UNCHANGED <<alumnos, origen>>
    BY DEF Crear
  <1>4. \A q \in Paneles : Suyos(q)' = Suyos(q)
    BY <1>1, <1>3 DEF Suyos, Base, DialogoOK
  <1>5. ASSUME NEW q \in Paneles, enrollingUserId'[q] # 0
        PROVE  retry'[q] = enrollingUserId'[q] /\ enrollWs'[q] \in {0, enrollingUserId'[q]}
    BY <1>2, <1>3, <1>5 DEF Base, DialogoOK, Vigilancia, Marcas
  <1> QED
    BY <1>2, <1>3, <1>4, <1>5, VinculosDialogo DEF Marcas

(* SQLite gives an id again, but not while a dialog or a DELETE has it.    *)
LEMMA IdLibre ==
  ASSUME Base, Vinculos, NEW n \in Ids, \A j \in Ocupados : j < n
  PROVE  /\ \A q \in Paneles : n \notin Suyos(q)
         /\ \A x \in Personas : <<n, x>> \notin deletes
  <1>1. alumnos[n] = Nadie
    BY PadronOK DEF Ocupados, Ids
  <1>2. ASSUME NEW q \in Paneles, n \in Suyos(q) PROVE FALSE
    BY <1>1, <1>2, SuyosIds, PadronOK DEF Vinculos, Propios
  <1>3. \A x \in Personas : <<n, x>> \notin deletes
    BY <1>1, PadronOK DEF Vinculos, Borrados
  <1> QED
    BY <1>2, <1>3

LEMMA VinculosInsertar ==
  ASSUME Base, Vigilancia, NEW p \in Paneles, Insertar(p)
  PROVE  Vigilancia' /\ (Vinculos => Vinculos')
  <1>1. PICK n \in Ids : /\ Nuevo(ficha[p], n, "creado")
                         /\ respuesta' = [respuesta EXCEPT ![p] = n]
    BY DEF Insertar
  <1>2. /\ \A j \in Ids \ {n} : alumnos'[j] = alumnos[j] /\ origen'[j] = origen[j]
        /\ alumnos'[n] = ficha[p] /\ origen'[n] = "creado"
        /\ UNCHANGED <<ficha, retry, enrollWs, enrollingUserId, deletes>>
    BY <1>1 DEF Insertar, Nuevo, Base, ServidorOK, Alumno, dialogo
  <1>3. n # 0 /\ enrollingUserId[p] = 0 /\ respuesta[p] = 0
    BY IdsTipo DEF Insertar, Base, Sockets, DialogoOK
  <1>4. /\ Suyos(p) = {} /\ Suyos(p)' = {n}
        /\ \A q \in Paneles \ {p} : Suyos(q)' = Suyos(q) /\ Suyos(q) \subseteq Ids
    BY <1>1, <1>2, <1>3, SuyosIds DEF Suyos, Base, DialogoOK
  <1>5. Marcas'
    BY <1>2 DEF Vigilancia, Marcas
  <1>6. Duenos'
    <2>1. ASSUME NEW j \in Ids, origen'[j] = "creado"
          PROVE  \/ \E q \in Paneles : j \in Suyos(q)' /\ ficha'[q] = alumnos'[j]
                 \/ <<j, alumnos'[j]>> \in deletes'
      <3>1. CASE j = n
        BY <1>2, <1>4, <3>1
      <3>2. CASE j # n
        BY <1>2, <1>4, <2>1, <3>2 DEF Vigilancia, Duenos
      <3> QED
        BY <3>1, <3>2
    <2> QED
      BY <2>1 DEF Duenos, Ids
  <1>7. ASSUME Vinculos PROVE Vinculos'
    <2>1. /\ \A q \in Paneles : n \notin Suyos(q)
          /\ \A x \in Personas : <<n, x>> \notin deletes
      BY <1>1, <1>7, IdLibre DEF Nuevo
    <2>2. Propios'
      <3>1. ASSUME NEW q \in Paneles, NEW j \in Suyos(q)'
            PROVE  origen'[j] = "creado" /\ alumnos'[j] = ficha'[q]
        <4>1. CASE q = p
          BY <1>2, <1>4, <3>1, <4>1
        <4>2. CASE q # p
          BY <1>2, <1>4, <1>7, <2>1, <3>1, <4>2 DEF Vinculos, Propios
        <4> QED
          BY <4>1, <4>2
      <3>2. \A q, s \in Paneles : Suyos(q)' \cap Suyos(s)' # {} => q = s
        BY <1>4, <1>7, <2>1 DEF Vinculos, Propios
      <3> QED
        BY <3>1, <3>2 DEF Propios
    <2>3. Borrados'
      <3>1. ASSUME NEW j \in Ids, NEW x \in Personas, <<j, x>> \in deletes
            PROVE  /\ alumnos'[j] = x /\ origen'[j] = "creado"
                   /\ \A q \in Paneles : j \notin Suyos(q)'
        <4>1. j # n
          BY <2>1, <3>1
        <4>2. /\ alumnos[j] = x /\ origen[j] = "creado"
              /\ \A q \in Paneles : j \notin Suyos(q)
          BY <1>7, <3>1 DEF Vinculos, Borrados
        <4> QED
          BY <1>2, <1>4, <4>1, <4>2
      <3> QED
        BY <1>2, <3>1 DEF Borrados, Ids
    <2> QED
      BY <2>2, <2>3 DEF Vinculos
  <1> QED
    BY <1>5, <1>6, <1>7 DEF Vigilancia

(* What a dialog lets go of: a lost answer, a success, a reload.           *)
LEMMA VinculosPerdida ==
  ASSUME Base, Vigilancia, NEW p \in Paneles, RespuestaPerdida(p) \/ Recargar(p)
  PROVE  Vigilancia' /\ (Vinculos => Vinculos')
  <1>1. CASE RespuestaPerdida(p)
    <2>1. enrollingUserId[p] = 0 /\ Suyos(p) = {respuesta[p]} /\ respuesta[p] # 0
      BY <1>1, IdsTipo DEF RespuestaPerdida, Suyos, Base, Sockets, DialogoOK
    <2>2. /\ Suyos(p)' = {}
          /\ \A q \in Paneles \ {p} : Suyos(q)' = Suyos(q)
          /\ UNCHANGED <<alumnos, deletes, ficha, retry, enrollWs, enrollingUserId>>
      BY <1>1, <2>1 DEF RespuestaPerdida, servidor, dialogo, Suyos, Base, DialogoOK
    <2>3. \A j \in Ids : origen'[j] = "creado" <=> origen[j] = "creado" /\ j \notin Suyos(p)
      BY <1>1, <2>1, OlvidarTipo DEF RespuestaPerdida, Base
    <2> QED
      BY <2>1, <2>2, <2>3, VinculosSoltar
  <1>2. CASE Recargar(p)
    <2>1. respuesta[p] = 0 /\ Suyos(p) = {enrollingUserId[p]} \ {0}
      BY <1>2, IdsTipo DEF Recargar, Suyos, Base, Sockets, DialogoOK
    <2>2. /\ paso' = [paso EXCEPT ![p] = "formulario"]
          /\ enrollWs' = [enrollWs EXCEPT ![p] = 0]
          /\ retry' = [retry EXCEPT ![p] = 0]
          /\ enrollingUserId' = [enrollingUserId EXCEPT ![p] = 0]
          /\ UNCHANGED <<servidor, ficha, respuesta>>
      BY <1>2, CierreEfecto DEF peticion
    <2>3. /\ Suyos(p)' = {} /\ enrollingUserId'[p] = 0
          /\ \A q \in Paneles \ {p} :
               /\ Suyos(q)' = Suyos(q) /\ ficha'[q] = ficha[q] /\ retry'[q] = retry[q]
               /\ enrollWs'[q] = enrollWs[q] /\ enrollingUserId'[q] = enrollingUserId[q]
      BY <2>1, <2>2 DEF Suyos, Base, DialogoOK
    <2>4. \A j \in Ids : origen'[j] = "creado" <=> origen[j] = "creado" /\ j \notin Suyos(p)
      BY <1>2, <2>1, OlvidarTipo, IdsTipo DEF Recargar, Base
    <2>5. UNCHANGED <<alumnos, deletes>>
      BY <1>2 DEF Recargar, servidor
    <2> QED
      BY <2>3, <2>4, <2>5, VinculosSoltar
  <1> QED
    BY <1>1, <1>2

(* Success unmarks the student, and she is the one who had been marked,    *)
(* because every socket of the dialog is hers.                             *)
LEMMA VinculosRespuesta ==
  ASSUME Base, Vigilancia, NEW p \in Paneles, NEW i \in sockets[p], NEW r \in {"exito", "error"},
         Respuesta(p, i, r)
  PROVE  Vigilancia' /\ (Vinculos => Vinculos')
  <1>1. /\ i \in Ids /\ i = enrollWs[p] /\ i # 0 /\ post[p] = "no"
        /\ enrollWs' = [enrollWs EXCEPT ![p] = 0]
        /\ UNCHANGED <<alumnos, ficha, retry, respuesta, deletes>>
        /\ IF r = "exito" THEN enrollingUserId' = [enrollingUserId EXCEPT ![p] = 0]
                          ELSE enrollingUserId' = enrollingUserId
        /\ \A j \in Ids : origen'[j] = "creado" <=>
             origen[j] = "creado" /\ ~(r = "exito" /\ j = i /\ enrollingUserId[p] = i)
    BY RespuestaEfecto, UnSocket
  <1>2. respuesta[p] = 0 /\ Suyos(p) = {enrollingUserId[p]} \ {0}
    BY <1>1, IdsTipo DEF Suyos, Base, Sockets, DialogoOK
  <1>3. enrollingUserId[p] # 0 => i = enrollingUserId[p]
    BY <1>1 DEF Vigilancia, Marcas
  <1>4. CASE r = "exito"
    <2>1. /\ Suyos(p)' = {} /\ enrollingUserId'[p] = 0
          /\ \A q \in Paneles \ {p} :
               /\ Suyos(q)' = Suyos(q) /\ ficha'[q] = ficha[q] /\ retry'[q] = retry[q]
               /\ enrollWs'[q] = enrollWs[q] /\ enrollingUserId'[q] = enrollingUserId[q]
      BY <1>1, <1>2, <1>4 DEF Suyos, Base, DialogoOK
    <2>2. \A j \in Ids : origen'[j] = "creado" <=> origen[j] = "creado" /\ j \notin Suyos(p)
      BY <1>1, <1>2, <1>3, <1>4, IdsTipo
    <2> QED
      BY <1>1, <2>1, <2>2, VinculosSoltar
  <1>5. CASE r = "error"
    <2>1. /\ \A q \in Paneles : Suyos(q)' = Suyos(q)
          /\ UNCHANGED enrollingUserId
      BY <1>1, <1>5 DEF Suyos
    <2>2. origen' = origen
      BY <1>5 DEF Respuesta
    <2>3. \A q \in Paneles : enrollingUserId'[q] # 0 =>
            retry'[q] = enrollingUserId'[q] /\ enrollWs'[q] \in {0, enrollingUserId'[q]}
      BY <1>1, <2>1 DEF Vigilancia, Marcas, Base, DialogoOK
    <2> QED
      BY <1>1, <2>1, <2>2, <2>3, VinculosDialogo DEF Marcas
  <1> QED
    BY <1>4, <1>5

LEMMA VinculosEditar ==
  ASSUME Base, Vigilancia, NEW p \in Paneles, NEW r \in {"exito", "error"}, Editar(p, r)
  PROVE  Vigilancia' /\ (Vinculos => Vinculos')
  BY VinculosRespuesta, VinculosAparte DEF Editar

LEMMA VinculosCerrar ==
  ASSUME Base, Vigilancia, NEW p \in Paneles, Cerrar(p)
  PROVE  Vigilancia' /\ (Vinculos => Vinculos')
  <1>1. /\ enrollWs' = [enrollWs EXCEPT ![p] = 0]
        /\ retry' = [retry EXCEPT ![p] = 0]
        /\ enrollingUserId' = [enrollingUserId EXCEPT ![p] = 0]
        /\ deletes' = deletes \cup Marcado(p)
        /\ UNCHANGED <<alumnos, origen, ficha, respuesta>>
    BY CierreEfecto DEF Cerrar, Ocultar, servidor, peticion
  <1>2. enrollingUserId[p] # 0 =>
          Suyos(p) = {enrollingUserId[p]} /\ enrollingUserId[p] \in Ids /\ ficha[p] \in Personas
    BY IdsTipo DEF Suyos, Base, Sockets, DialogoOK
  <1>3. /\ \A q \in Paneles : Suyos(q)' \subseteq Suyos(q)
        /\ enrollingUserId[p] # 0 => Suyos(p)' = {}
        /\ enrollingUserId[p] = 0 => Suyos(p)' = Suyos(p)
        /\ \A q \in Paneles \ {p} : Suyos(q)' = Suyos(q)
    BY <1>1, <1>2 DEF Suyos, Base, DialogoOK, Sockets
  <1>4. Marcas'
    BY <1>1 DEF Vigilancia, Marcas, Base, DialogoOK
  <1>5. Duenos'
    <2>1. ASSUME NEW j \in Ids, origen[j] = "creado"
          PROVE  \/ \E q \in Paneles : j \in Suyos(q)' /\ ficha[q] = alumnos[j]
                 \/ <<j, alumnos[j]>> \in deletes'
      <3>1. CASE <<j, alumnos[j]>> \in deletes
        BY <1>1, <3>1
      <3>2. CASE \E q \in Paneles : j \in Suyos(q) /\ ficha[q] = alumnos[j]
        <4>1. PICK q \in Paneles : j \in Suyos(q) /\ ficha[q] = alumnos[j]
          BY <3>2
        <4>2. CASE q = p /\ enrollingUserId[p] # 0
          <5>1. <<j, alumnos[j]>> \in Marcado(p)
            BY <1>2, <4>1, <4>2 DEF Marcado
          <5> QED
            BY <1>1, <5>1
        <4>3. CASE ~(q = p /\ enrollingUserId[p] # 0)
          BY <1>3, <4>1, <4>3
        <4> QED
          BY <4>2, <4>3
      <3> QED
        BY <2>1, <3>1, <3>2 DEF Vigilancia, Duenos
    <2> QED
      BY <1>1, <2>1 DEF Duenos, Ids
  <1>6. ASSUME Vinculos PROVE Propios'
    <2>1. ASSUME NEW q \in Paneles, NEW j \in Suyos(q)'
          PROVE  origen'[j] = "creado" /\ alumnos'[j] = ficha'[q]
      BY <1>1, <1>3, <1>6, <2>1 DEF Vinculos, Propios
    <2>2. \A q, s \in Paneles : Suyos(q)' \cap Suyos(s)' # {} => q = s
      BY <1>3, <1>6 DEF Vinculos, Propios
    <2> QED
      BY <2>1, <2>2 DEF Propios
  <1>7. ASSUME Vinculos PROVE Borrados'
    <2>1. ASSUME NEW j \in Ids, NEW x \in Personas, <<j, x>> \in deletes'
          PROVE  /\ alumnos[j] = x /\ origen[j] = "creado"
                 /\ \A q \in Paneles : j \notin Suyos(q)'
      <3>1. CASE <<j, x>> \in deletes
        BY <1>3, <1>7, <3>1 DEF Vinculos, Borrados
      <3>2. CASE <<j, x>> \notin deletes
        <4>1. enrollingUserId[p] # 0 /\ j = enrollingUserId[p] /\ x = ficha[p]
          BY <1>1, <2>1, <3>2 DEF Marcado
        <4>2. j \in Suyos(p)
          BY <1>2, <4>1
        <4>3. \A q \in Paneles \ {p} : j \notin Suyos(q)
          BY <1>7, <4>2 DEF Vinculos, Propios
        <4> QED
          BY <1>3, <1>7, <4>1, <4>2, <4>3 DEF Vinculos, Propios
      <3> QED
        BY <3>1, <3>2
    <2> QED
      BY <1>1, <2>1 DEF Borrados, Ids
  <1> QED
    BY <1>4, <1>5, <1>6, <1>7 DEF Vigilancia, Vinculos

(* Rows: whoever is deleted from a list, or with all the others, is not    *)
(* pending, nor is the id that a new one takes.                            *)
LEMMA VinculosFilasPasos ==
  ASSUME Base, Vigilancia,
         \/ EliminarTodos \/ \E x \in Personas : Importar(x)
         \/ \E i \in Ids : EliminarDeLista(i)
         \/ \E i \in Ids, x \in Personas : Eliminar(i, x) \/ DeletePerdido(i, x)
  PROVE  Vigilancia' /\ (SinPendientes /\ Vinculos => Vinculos')
  <1> DEFINE Meta == Vigilancia' /\ (SinPendientes /\ Vinculos => Vinculos')
  <1>1. CASE EliminarTodos
    <2>1. /\ UNCHANGED <<dialogo, peticion, deletes>>
          /\ \A j \in Ids : origen'[j] # "creado"
          /\ SinPendientes => \A j \in Ids : ~Pendiente(j)
      BY <1>1 DEF EliminarTodos, SinEstorbar, SinPendientes
    <2> QED
      BY <2>1, VinculosFilas DEF Pendiente
  <1>2. ASSUME NEW x \in Personas, Importar(x)
        PROVE  Meta
    <2>1. PICK n \in Ids : Nuevo(x, n, "otro")
      BY <1>2 DEF Importar
    <2>2. Vinculos => /\ \A q \in Paneles : n \notin Suyos(q)
                      /\ \A y \in Personas : <<n, y>> \notin deletes
      BY <2>1, IdLibre DEF Nuevo
    <2>3. /\ \A j \in Ids \ {n} : alumnos'[j] = alumnos[j] /\ origen'[j] = origen[j]
          /\ origen'[n] = "otro" /\ {n} \in SUBSET Ids
          /\ UNCHANGED <<dialogo, peticion, deletes>>
      BY <1>2, <2>1 DEF Importar, Nuevo, Base, ServidorOK, Alumno
    <2> HIDE DEF Meta
    <2>4. Vigilancia' /\ (SinPendientes /\ Vinculos => Vinculos')
      BY <2>2, <2>3, VinculosFilas
    <2> QED
      BY <2>4 DEF Meta
  <1>3. ASSUME NEW i \in Ids, Borrar(i), deletes' \subseteq deletes,
               SinPendientes /\ Vinculos =>
                 /\ \A q \in Paneles : i \notin Suyos(q)
                 /\ \A y \in Personas : <<i, y>> \notin deletes',
               \A j \in Ids \ {i} : <<j, alumnos[j]>> \in deletes => <<j, alumnos[j]>> \in deletes'
        PROVE  Meta
    <2>1. /\ \A j \in Ids \ {i} : alumnos'[j] = alumnos[j] /\ origen'[j] = origen[j]
          /\ origen'[i] = "otro" /\ {i} \in SUBSET Ids
          /\ UNCHANGED <<dialogo, peticion>>
      BY <1>3 DEF Borrar, Base, ServidorOK, Alumno
    <2> QED
      BY <1>3, <2>1, VinculosFilas
  <1>4. ASSUME NEW i \in Ids, EliminarDeLista(i)
        PROVE  Meta
    <2>1. Borrar(i) /\ deletes' = deletes /\ (SinPendientes => ~Pendiente(i))
      BY <1>4 DEF EliminarDeLista, SinEstorbar, SinPendientes
    <2> QED
      BY <1>3, <2>1 DEF Pendiente
  <1>5. ASSUME NEW i \in Ids, NEW x \in Personas, <<i, x>> \in deletes,
               deletes' = deletes \ {<<i, x>>}
        PROVE  /\ Vinculos => /\ \A q \in Paneles : i \notin Suyos(q)
                              /\ \A y \in Personas : <<i, y>> \notin deletes'
               /\ \A j \in Ids \ {i} : <<j, alumnos[j]>> \in deletes => <<j, alumnos[j]>> \in deletes'
    BY <1>5 DEF Vinculos, Borrados
  <1>6. ASSUME NEW i \in Ids, NEW x \in Personas, Eliminar(i, x)
        PROVE  Meta
    BY <1>3, <1>5, <1>6 DEF Eliminar
  <1>7. ASSUME NEW i \in Ids, NEW x \in Personas, DeletePerdido(i, x)
        PROVE  Meta
    <2>1. /\ UNCHANGED <<alumnos, dialogo, peticion>> /\ {i} \in SUBSET Ids
          /\ \A j \in Ids : origen'[j] = "creado" <=> origen[j] = "creado" /\ j # i
          /\ <<i, x>> \in deletes /\ deletes' = deletes \ {<<i, x>>}
      BY <1>7, OlvidarTipo DEF DeletePerdido, servidor, Base
    <2>2. /\ Vinculos => /\ \A q \in Paneles : i \notin Suyos(q)
                         /\ \A y \in Personas : <<i, y>> \notin deletes'
          /\ \A j \in Ids \ {i} : <<j, alumnos[j]>> \in deletes => <<j, alumnos[j]>> \in deletes'
      BY <1>5, <2>1
    <2>3. Vigilancia' /\ (SinPendientes /\ Vinculos => Vinculos')
      BY <2>1, <2>2, VinculosFilas
    <2> QED
      BY <2>3
  <1> QED
    BY <1>1, <1>2, <1>4, <1>6, <1>7

-------------------------------------------------------------------------------
LEMMA VinculosNext ==
  Base /\ Vigilancia /\ [Next]_vars => Vigilancia' /\ (SinPendientes /\ Vinculos => Vinculos')
  <1> SUFFICES ASSUME Base, Vigilancia, [Next]_vars
               PROVE  Vigilancia' /\ (SinPendientes /\ Vinculos => Vinculos')
    OBVIOUS
  <1>1. CASE DelServidor
    BY <1>1, BaseWorker, VinculosAparte, VinculosFilasPasos, VinculosEditar DEF DelServidor
  <1>2. ASSUME NEW p \in Paneles, DelPanel(p)
        PROVE  Vigilancia' /\ (Vinculos => Vinculos')
    BY <1>2, VinculosAbrir, VinculosCerrar, VinculosConectar, VinculosPeticion,
       VinculosInsertar, VinculosCrear, VinculosPerdida, VinculosCaer, VinculosRespuesta
    DEF DelPanel, Recibir
  <1>3. CASE UNCHANGED vars
    BY <1>3, VinculosAparte DEF vars, servidor
  <1> QED
    BY <1>1, <1>2, <1>3 DEF Next

LEMMA VigilanciaSiempre == Spec => []Vigilancia
  BY VinculosInit, VinculosNext, BaseSiempre, PTL DEF Spec

LEMMA VinculosSiempre ==
  ASSUME SinPendientes
  PROVE  Spec => []Vinculos
  <1>1. Base /\ Vigilancia /\ Vinculos /\ [Next]_vars => Vinculos'
    BY VinculosNext
  <1> QED
    BY <1>1, VinculosInit, VigilanciaSiempre, BaseSiempre, PTL DEF Spec

(* Ids, fingers and requests keep their types, and a dialog only points to *)
(* a socket that is open, whoever deletes whom meanwhile.                  *)
THEOREM TiposInvariante == Spec => []TypeOK
  BY BaseImplicaTypeOK, BaseSiempre, PTL

(* No student that a dialog created is forgotten without a finger unless   *)
(* an answer, a DELETE or a page was lost, with any number of panels,      *)
(* however their answers, retries, errors and closes interleave, and       *)
(* whomever others delete or import meanwhile (app.js:451-455).            *)
THEOREM CreadoVigiladoInvariante == Spec => []CreadoVigilado
  <1>1. Vigilancia => CreadoVigilado
    BY DEF Vigilancia, Duenos, CreadoVigilado, Vigilado
  <1> QED
    BY <1>1, VigilanciaSiempre, PTL

(* While nobody deletes a pending student from elsewhere, the DELETE of a  *)
(* dialog hits the student it was sent for, although ids are given again   *)
(* and answers, DELETEs and pages are lost (app.js:451-455, 586-587, 616). *)
THEOREM BorradoPropioSiempre ==
  ASSUME SinPendientes
  PROVE  Spec => BorradoPropio
  <1>1. Vinculos => [\A i \in Ids, x \in Personas :
                       Eliminar(i, x) /\ alumnos[i] # Nadie
                         => alumnos[i] = x /\ origen[i] = "creado"]_vars
    BY DEF Vinculos, Borrados, Eliminar
  <1> QED
    BY <1>1, VinculosSiempre, PTL DEF BorradoPropio

===============================================================================
