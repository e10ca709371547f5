---------------------------- MODULE HuellaService -----------------------------
(***************************************************************************)
(* The singleton HuellaService: the only owner of the fingerprint reader.  *)
(* Its methods run concurrently in threads: the executor thread of         *)
(* sensor_worker, the threads that serve HTTP endpoints and background     *)
(* tasks, and the executor threads of the WebSocket handlers.  Two locks   *)
(* order them: init_lock (init/close) and capture_lock (capture, identify, *)
(* db_add).  SQLite is the durable copy of the templates; the RAM of the   *)
(* reader is the copy that identification uses and it is lost whenever     *)
(* the driver is closed or the process dies.                               *)
(*                                                                         *)
(* Each thread executes one operation (op) at a time; pc says where it is. *)
(* A step is a stretch of code between two points where another thread can *)
(* observe or change what the stretch uses: lock operations, calls that    *)
(* release the GIL, SQLite statements, the flag _huellas_cargadas.         *)
(***************************************************************************)
EXTENDS Sensor

CONSTANTS
  Hilos,          \* threads of the server process
  Principal,      \* the thread that runs lifespan before requests are served
  Nadie,          \* no thread (a free lock), no user
  OperacionesDe,  \* the operations each thread is asked to run
  Entorno         \* what the environment does in this instance

Operaciones ==
  {"arranque", "status", "acceso", "editar", "verificar", "identificar",
   "capturar_identificar", "enrolar", "vincular"}

ConUsuario == {"editar", "enrolar", "vincular"}

Eventos == {"usb", "fallo_sdk", "fallo_sqlite", "reinicio", "eliminar",
            "eliminar_todos", "sync"}

ASSUME ConstantesOK ==
  /\ Principal \in Hilos
  /\ Nadie \notin Hilos /\ Nadie \notin Usuarios
  /\ OperacionesDe \in [Hilos \ {Principal} -> SUBSET (Operaciones \ {"arranque"})]
  /\ Entorno \subseteq Eventos

VARIABLES
  sqlite,           \* table huellas: the template stored for each user id
  huerfanas,        \* blobs of the rows of huellas whose usuario_id is NULL
  initLock,         \* init_lock: the thread that holds it, or Nadie
  captureLock,      \* capture_lock
  huellasCargadas,  \* _huellas_cargadas
  pc, op,           \* where each thread is, and in which operation
  uid,              \* argument: the student whose fingerprint is saved
  muestra,          \* the template captured, or received from the client
  leida,            \* the blob of huella_db, as the upsert read it
  pend,             \* pendientes: the rows read and not yet added
  cuenta,           \* which of cargadas and fallidas are greater than zero
  res               \* what the last operation of each thread returned

candados == <<initLock, captureLock>>
tabla    == <<sqlite, huerfanas>>
locales  == <<uid, muestra, leida, pend, cuenta>>
vars == <<sensorVars, tabla, candados, huellasCargadas, pc, op, locales, res>>

-------------------------------------------------------------------------------
(* Program counters, by the locks that the thread holds at each.           *)

EsperaInit    == {"ini", "vf_init", "rf_init"}
EsperaCaptura == {"vf_capture", "cap", "id", "gb", "rf_capture", "cg_lock"}
TieneInit     == {"ini_sdk", "vf_close", "vf_open",
                  "rf_capture", "rf_close", "rf_open"}
TieneCaptura  == {"vf_init", "vf_close", "vf_open", "cap_sdk", "id_fallo",
                  "id_db", "gb_sdk", "rf_close", "rf_open", "cg_add"}
SinCandado    == {"libre", "ini", "st_flag", "vf_capture", "cap", "id",
                  "up_leer", "up_commit", "vi", "gb", "rf_init", "cg_leer",
                  "cg_lock", "cg_flag"}
Puntos == SinCandado \cup TieneInit \cup TieneCaptura

(* Inside a call that released the GIL and uses the device or the cache.   *)
EnSDK == {"cap_sdk", "id_db", "gb_sdk", "cg_add"}

Resultados == {"ninguno", "exito", "error", "conectado", "desconectado",
               "reconocido", "no_reconocido", "ruido"}

TypeOK ==
  /\ SensorTypeOK
  /\ sqlite \in [Usuarios -> Plantillas]
  /\ huerfanas \subseteq Huellas
  /\ initLock \in Hilos \cup {Nadie}
  /\ captureLock \in Hilos \cup {Nadie}
  /\ huellasCargadas \in BOOLEAN
  /\ pc \in [Hilos -> Puntos]
  /\ op \in [Hilos -> Operaciones]
  /\ uid \in [Hilos -> Usuarios \cup {Nadie}]
  /\ muestra \in [Hilos -> Plantillas]
  /\ leida \in [Hilos -> Plantillas]
  /\ pend \in [Hilos -> [Usuarios -> Plantillas]]
  /\ cuenta \in [Hilos -> SUBSET {"cargada", "fallida"}]
  /\ res \in [Hilos -> Resultados]

(* A process that starts: lifespan runs inicializar first, and nothing     *)
(* else runs until it has finished.                                        *)
PcInicial == [h \in Hilos |-> IF h = Principal THEN "ini" ELSE "libre"]

ProcesoNuevo ==
  /\ pc = PcInicial
  /\ op = [h \in Hilos |-> "arranque"]
  /\ uid = [h \in Hilos |-> Nadie]
  /\ muestra = [h \in Hilos |-> SinHuella]
  /\ leida = [h \in Hilos |-> SinHuella]
  /\ pend = [h \in Hilos |-> RamVacia]
  /\ cuenta = [h \in Hilos |-> {}]
  /\ res = [h \in Hilos |-> "ninguno"]
  /\ initLock = Nadie
  /\ captureLock = Nadie
  /\ huellasCargadas = FALSE

Init ==
  /\ SensorInit
  /\ ("usb" \notin Entorno => conectado)
  /\ sqlite \in [Usuarios -> Plantillas]
  /\ huerfanas = {}
  /\ ProcesoNuevo

-------------------------------------------------------------------------------
(* Control.                                                                *)

Ir(h, l) == pc' = [pc EXCEPT ![h] = l]

(* Return to the caller: the locals of the call die with it.               *)
Terminar(h, r) ==
  /\ Ir(h, "libre")
  /\ res' = [res EXCEPT ![h] = r]
  /\ uid' = [uid EXCEPT ![h] = Nadie]
  /\ muestra' = [muestra EXCEPT ![h] = SinHuella]
  /\ leida' = [leida EXCEPT ![h] = SinHuella]
  /\ pend' = [pend EXCEPT ![h] = RamVacia]
  /\ cuenta' = [cuenta EXCEPT ![h] = {}]
  /\ UNCHANGED op

Seguir(h, l) == Ir(h, l) /\ UNCHANGED <<op, locales, res>>

(* Where an operation starts.                                              *)
Entrada(o) ==
  CASE o \in {"status", "acceso", "editar"} -> "ini"
    [] o = "verificar" -> "vf_capture"
    [] o \in {"identificar", "capturar_identificar"} -> "id"
    [] o = "enrolar" -> "cap"
    [] o = "vincular" -> "vi"

(* A request reaches thread h: o is the endpoint or the worker's order, u  *)
(* the student it names, f the template that vincular brings.              *)
Llamar(h, o, u, f) ==
  /\ h # Principal /\ pc[Principal] = "libre"
  /\ pc[h] = "libre"
  /\ o \in OperacionesDe[h]
  /\ u \in IF o \in ConUsuario THEN Usuarios ELSE {Nadie}
  /\ f \in IF o = "vincular" THEN Huellas ELSE {SinHuella}
  /\ Ir(h, Entrada(o))
  /\ op' = [op EXCEPT ![h] = o]
  /\ uid' = [uid EXCEPT ![h] = u]
  /\ muestra' = [muestra EXCEPT ![h] = f]
  /\ res' = [res EXCEPT ![h] = "ninguno"]
  /\ UNCHANGED <<sensorVars, tabla, candados, huellasCargadas, leida, pend, cuenta>>

TrasInit(l) == CASE l = "ini"     -> "ini_sdk"
                 [] l = "vf_init" -> "vf_close"
                 [] l = "rf_init" -> "rf_capture"

TrasCaptura(l) == CASE l = "vf_capture" -> "vf_init"
                    [] l = "cap"        -> "cap_sdk"
                    [] l = "id"         -> "cap_sdk"
                    [] l = "gb"         -> "gb_sdk"
                    [] l = "rf_capture" -> "rf_close"
                    [] l = "cg_lock"    -> "cg_add"

(* with self.init_lock / with self.capture_lock: blocking acquisitions.    *)
TomarInit(h) ==
  /\ pc[h] \in EsperaInit
  /\ initLock = Nadie
  /\ initLock' = h
  /\ Seguir(h, TrasInit(pc[h]))
  /\ UNCHANGED <<sensorVars, tabla, captureLock, huellasCargadas>>

TomarCaptura(h) ==
  /\ pc[h] \in EsperaCaptura
  /\ captureLock = Nadie
  /\ captureLock' = h
  /\ Seguir(h, TrasCaptura(pc[h]))
  /\ UNCHANGED <<sensorVars, tabla, initLock, huellasCargadas>>

-------------------------------------------------------------------------------
(* Mutant of inicializar: a driver that comes up counts as loaded.         *)
InicializarMarca(h, exito) ==
  /\ pc[h] = "ini_sdk"
  /\ InitSensor(exito)
  /\ (exito \/ ~conectado \/ "fallo_sdk" \in Entorno)
  /\ initLock' = Nadie
  /\ huellasCargadas' = exito
  /\ IF exito
     THEN Seguir(h, CASE op[h] = "status" -> "st_flag"
                      [] op[h] = "arranque" -> "cg_leer"
                      [] op[h] = "acceso" -> "id"
                      [] op[h] = "editar" -> "cap")
     ELSE Terminar(h, "error")
  /\ UNCHANGED <<conectado, tabla, captureLock>>

(* inicializar, and what its callers do with the answer: lifespan and      *)
(* /status go on to the load, PUT /api/huella/editar and POST              *)
(* /api/huella/enrolar to the capture, /api/totem/acceso and               *)
(* verificar-usuario to the identification.                                *)
Inicializar(h, exito) ==
  /\ pc[h] = "ini_sdk"
  /\ InitSensor(exito)
  /\ (exito \/ ~conectado \/ "fallo_sdk" \in Entorno)
  /\ initLock' = Nadie
  /\ huellasCargadas' = (exito /\ huellasCargadas)
  /\ IF exito
     THEN Seguir(h, CASE op[h] = "status" -> "st_flag"
                      [] op[h] = "arranque" -> "cg_leer"
                      [] op[h] = "acceso" -> "id"
                      [] op[h] = "editar" -> "cap")
     ELSE Terminar(h, "error")
  /\ UNCHANGED <<conectado, tabla, captureLock>>

(* GET /api/sensor/status reloads only when the flag says nothing is loaded. *)
ConsultarFlag(h) ==
  /\ pc[h] = "st_flag"
  /\ IF huellasCargadas THEN Terminar(h, "exito") ELSE Seguir(h, "cg_leer")
  /\ UNCHANGED <<sensorVars, tabla, candados, huellasCargadas>>

-------------------------------------------------------------------------------
(* verificar_conexion_hardware: capture_lock first (three seconds at most, *)
(* after which the answer is "connected"), then init_lock.                 *)

VerificarOcupado(h) ==
  /\ pc[h] = "vf_capture"
  /\ captureLock # Nadie
  /\ Terminar(h, "conectado")
  /\ UNCHANGED <<sensorVars, tabla, candados, huellasCargadas>>

VerificarCierra(h) ==
  /\ pc[h] = "vf_close"
  /\ CloseSensor
  /\ Seguir(h, "vf_open")
  /\ UNCHANGED <<conectado, tabla, candados, huellasCargadas>>

VerificarAbre(h, exito) ==
  /\ pc[h] = "vf_open"
  /\ InitSensor(exito)
  /\ (exito \/ ~conectado \/ "fallo_sdk" \in Entorno)
  /\ initLock' = Nadie /\ captureLock' = Nadie
  /\ IF exito THEN Seguir(h, "cg_leer") ELSE Terminar(h, "desconectado")
  /\ UNCHANGED <<conectado, tabla, huellasCargadas>>

-------------------------------------------------------------------------------
(* Capture.  The template of any finger may come; the capture may also     *)
(* fail, at once on a driver that is not initialized, or by timeout.       *)

Capturar(h, f) ==
  /\ pc[h] = "cap_sdk"
  /\ PuedeCapturar
  /\ f \in Huellas
  /\ muestra' = [muestra EXCEPT ![h] = f]
  /\ IF op[h] \in {"enrolar", "editar"}
     THEN Ir(h, "up_leer") /\ captureLock' = Nadie
     ELSE Ir(h, "id_db") /\ UNCHANGED captureLock
  /\ UNCHANGED <<sensorVars, tabla, initLock, huellasCargadas,
                 op, uid, leida, pend, cuenta, res>>

(* Mutant of the failed capture: its early return keeps capture_lock.      *)
CapturaFallidaSinSoltar(h) ==
  /\ pc[h] = "cap_sdk"
  /\ IF op[h] \in {"identificar", "acceso"}
     THEN Seguir(h, "id_fallo")
     ELSE Terminar(h, "error")
  /\ UNCHANGED <<sensorVars, tabla, candados, huellasCargadas>>

(* capturar_plantilla and capturar_y_identificar report the failure;       *)
(* identificar_usuario first asks init_sensor whether the device is there. *)
CapturaFallida(h) ==
  /\ pc[h] = "cap_sdk"
  /\ IF op[h] \in {"identificar", "acceso"}
     THEN Seguir(h, "id_fallo") /\ UNCHANGED captureLock
     ELSE Terminar(h, "error") /\ captureLock' = Nadie
  /\ UNCHANGED <<sensorVars, tabla, initLock, huellasCargadas>>

DistinguirFallo(h, exito) ==
  /\ pc[h] = "id_fallo"
  /\ InitSensor(exito)
  /\ (exito \/ ~conectado \/ "fallo_sdk" \in Entorno)
  /\ huellasCargadas' = (exito /\ huellasCargadas)
  /\ captureLock' = Nadie
  /\ Terminar(h, IF exito THEN "ruido" ELSE "desconectado")
  /\ UNCHANGED <<conectado, tabla, initLock>>

Identificar(h) ==
  /\ pc[h] = "id_db"
  /\ captureLock' = Nadie
  /\ Terminar(h, IF Coincidencias(muestra[h]) # {} THEN "reconocido"
                                                   ELSE "no_reconocido")
  /\ UNCHANGED <<sensorVars, tabla, initLock, huellasCargadas>>

-------------------------------------------------------------------------------
(* procesar_contexto("enrolar" and "editar"): after the capture, an upsert *)
(* in two statements, the query and the commit; then the refresh, whose    *)
(* result is ignored.                                                      *)

UpsertLeer(h) ==
  /\ pc[h] = "up_leer"
  /\ leida' = [leida EXCEPT ![h] = sqlite[uid[h]]]
  /\ Ir(h, "up_commit")
  /\ UNCHANGED <<sensorVars, tabla, candados, huellasCargadas,
                 op, uid, muestra, pend, cuenta, res>>

(* Mutant of the upsert: the table is loaded again over a full RAM, where  *)
(* db_add refuses the ids already there.                                   *)
UpsertCommitSinVaciar(h) ==
  /\ pc[h] = "up_commit"
  /\ \/ /\ (leida[h] = SinHuella) <=> (sqlite[uid[h]] = SinHuella)
        /\ sqlite' = [sqlite EXCEPT ![uid[h]] = muestra[h]]
        /\ UNCHANGED huerfanas
     \/ /\ leida[h] \in huerfanas /\ sqlite[uid[h]] = SinHuella
        /\ huerfanas' = (huerfanas \ {leida[h]}) \cup {muestra[h]}
        /\ UNCHANGED sqlite
  /\ Seguir(h, "cg_leer")
  /\ UNCHANGED <<sensorVars, candados, huellasCargadas>>

(* INSERT of a first row, or UPDATE of the row read.  eliminarUsuario may  *)
(* have turned that row into an orphan: the UPDATE still hits it.          *)
UpsertCommit(h) ==
  /\ pc[h] = "up_commit"
  /\ \/ /\ (leida[h] = SinHuella) <=> (sqlite[uid[h]] = SinHuella)
        /\ sqlite' = [sqlite EXCEPT ![uid[h]] = muestra[h]]
        /\ UNCHANGED huerfanas
     \/ /\ leida[h] \in huerfanas /\ sqlite[uid[h]] = SinHuella
        /\ huerfanas' = (huerfanas \ {leida[h]}) \cup {muestra[h]}
        /\ UNCHANGED sqlite
  /\ Seguir(h, "rf_init")
  /\ UNCHANGED <<sensorVars, candados, huellasCargadas>>

(* The commit raises: the row was inserted (UNIQUE) or deleted by somebody *)
(* else after the query, or SQLite fails.  rollback, and estado False.     *)
UpsertFalla(h) ==
  /\ pc[h] = "up_commit"
  /\ \/ leida[h] = SinHuella /\ sqlite[uid[h]] # SinHuella
     \/ leida[h] \notin huerfanas \cup {SinHuella} /\ sqlite[uid[h]] = SinHuella
     \/ "fallo_sqlite" \in Entorno
  /\ Terminar(h, "error")
  /\ UNCHANGED <<sensorVars, tabla, candados, huellasCargadas>>

-------------------------------------------------------------------------------
(* POST /api/huella/vincular: the DELETE of the orphan with the same bytes *)
(* opens the write transaction, so the upsert is one step; guardar_en_bd   *)
(* adds to the RAM, and the refresh runs only if db_add refuses.           *)

VincularCommit(h) ==
  /\ pc[h] = "vi"
  /\ huerfanas' = huerfanas \ {muestra[h]}
  /\ sqlite' = [sqlite EXCEPT ![uid[h]] = muestra[h]]
  /\ Seguir(h, "gb")
  /\ UNCHANGED <<sensorVars, candados, huellasCargadas>>

(* Mutant of vincular: a failed commit does not stop guardar_en_bd.        *)
VincularFallaSigue(h) ==
  /\ pc[h] = "vi" /\ "fallo_sqlite" \in Entorno
  /\ Seguir(h, "gb")
  /\ UNCHANGED <<sensorVars, tabla, candados, huellasCargadas>>

VincularFalla(h) ==
  /\ pc[h] = "vi" /\ "fallo_sqlite" \in Entorno
  /\ Terminar(h, "error")
  /\ UNCHANGED <<sensorVars, tabla, candados, huellasCargadas>>

GuardarEnBD(h) ==
  /\ pc[h] = "gb_sdk"
  /\ DBAdd(uid[h], muestra[h])
  /\ captureLock' = Nadie
  /\ IF AceptaDBAdd(uid[h]) THEN Terminar(h, "exito") ELSE Seguir(h, "rf_init")
  /\ UNCHANGED <<conectado, inicializado, tabla, initLock, huellasCargadas>>

-------------------------------------------------------------------------------
(* refrescar_bd_hardware: init_lock first, then capture_lock; close and    *)
(* init empty the RAM; both locks are released before the load.            *)

(* Mutant of the refresh: it closes the driver once it holds init_lock,    *)
(* while it waits for capture_lock.                                        *)
RefrescarCierraAntes(h) ==
  /\ pc[h] \in {"rf_capture", "rf_close"}
  /\ CloseSensor
  /\ Seguir(h, IF pc[h] = "rf_close" THEN "rf_open" ELSE "rf_capture")
  /\ UNCHANGED <<conectado, tabla, candados, huellasCargadas>>

RefrescarCierra(h) ==
  /\ pc[h] = "rf_close"
  /\ CloseSensor
  /\ Seguir(h, "rf_open")
  /\ UNCHANGED <<conectado, tabla, candados, huellasCargadas>>

RefrescarAbre(h, exito) ==
  /\ pc[h] = "rf_open"
  /\ InitSensor(exito)
  /\ (exito \/ ~conectado \/ "fallo_sdk" \in Entorno)
  /\ initLock' = Nadie /\ captureLock' = Nadie
  /\ IF exito THEN Seguir(h, "cg_leer") ELSE Terminar(h, "exito")
  /\ UNCHANGED <<conectado, tabla, huellasCargadas>>

-------------------------------------------------------------------------------
(* cargar_huellas_iniciales.  Phase 1 reads the table without a lock.      *)

CargarLeer(h) ==
  /\ pc[h] = "cg_leer"
  /\ pend' = [pend EXCEPT ![h] = sqlite]
  /\ cuenta' = [cuenta EXCEPT ![h] = IF huerfanas = {} THEN {} ELSE {"fallida"}]
  /\ Ir(h, "cg_lock")
  /\ UNCHANGED <<sensorVars, tabla, candados, huellasCargadas,
                 op, uid, muestra, leida, res>>

(* Phase 2: db_add of one row, and counting what it answers.               *)
CargarUna(h, u) ==
  /\ pc[h] = "cg_add"
  /\ pend[h][u] # SinHuella
  /\ DBAdd(u, pend[h][u])
  /\ cuenta' = [cuenta EXCEPT ![h] = @ \cup
                  {IF AceptaDBAdd(u) THEN "cargada" ELSE "fallida"}]
  /\ pend' = [pend EXCEPT ![h] = [@ EXCEPT ![u] = SinHuella]]
  /\ UNCHANGED <<conectado, inicializado, tabla, candados, huellasCargadas,
                 pc, op, uid, muestra, leida, res>>

CargarSuelta(h) ==
  /\ pc[h] = "cg_add"
  /\ pend[h] = RamVacia
  /\ captureLock' = Nadie
  /\ Seguir(h, "cg_flag")
  /\ UNCHANGED <<sensorVars, tabla, initLock, huellasCargadas>>

(* The flag is written after capture_lock was released.                    *)
CargarMarca(h) ==
  /\ pc[h] = "cg_flag"
  /\ huellasCargadas' = (huellasCargadas \/ "cargada" \in cuenta[h]
                                         \/ "fallida" \notin cuenta[h])
  /\ Terminar(h, IF op[h] = "verificar" THEN "conectado" ELSE "exito")
  /\ UNCHANGED <<sensorVars, tabla, candados>>

-------------------------------------------------------------------------------
(* The environment: the cable, the other writers of the table huellas, and *)
(* the death of the process.                                               *)

Usb ==
  /\ "usb" \in Entorno
  /\ conectado' = ~conectado
  /\ UNCHANGED <<inicializado, ram, tabla, candados, huellasCargadas,
                 pc, op, locales, res>>

(* eliminarUsuario: the row of the student stays with usuario_id NULL.     *)
EliminarUsuario(u) ==
  /\ "eliminar" \in Entorno
  /\ sqlite[u] # SinHuella
  /\ sqlite' = [sqlite EXCEPT ![u] = SinHuella]
  /\ huerfanas' = huerfanas \cup {sqlite[u]}
  /\ UNCHANGED <<sensorVars, candados, huellasCargadas, pc, op, locales, res>>

(* DELETE /api/usuarios empties the table; the RAM is not touched.         *)
EliminarTodos ==
  /\ "eliminar_todos" \in Entorno
  /\ sqlite' = RamVacia /\ huerfanas' = {}
  /\ UNCHANGED <<sensorVars, candados, huellasCargadas, pc, op, locales, res>>

(* POST /api/sync/import writes the template another totem sends.          *)
SyncImport(u, f) ==
  /\ "sync" \in Entorno
  /\ sqlite' = [sqlite EXCEPT ![u] = f]
  /\ UNCHANGED <<sensorVars, huerfanas, candados, huellasCargadas,
                 pc, op, locales, res>>

(* The process dies and is started again; SQLite survives.                 *)
Reinicio ==
  /\ "reinicio" \in Entorno
  /\ CloseSensor
  /\ pc' = PcInicial
  /\ op' = [h \in Hilos |-> "arranque"]
  /\ uid' = [h \in Hilos |-> Nadie]
  /\ muestra' = [h \in Hilos |-> SinHuella]
  /\ leida' = [h \in Hilos |-> SinHuella]
  /\ pend' = [h \in Hilos |-> RamVacia]
  /\ cuenta' = [h \in Hilos |-> {}]
  /\ res' = [h \in Hilos |-> "ninguno"]
  /\ initLock' = Nadie
  /\ captureLock' = Nadie
  /\ huellasCargadas' = FALSE
  /\ UNCHANGED <<conectado, tabla>>

-------------------------------------------------------------------------------
Paso(h) ==
  \/ TomarInit(h) \/ TomarCaptura(h)
  \/ \E exito \in BOOLEAN : \/ Inicializar(h, exito) \/ VerificarAbre(h, exito)
                            \/ RefrescarAbre(h, exito) \/ DistinguirFallo(h, exito)
  \/ ConsultarFlag(h)
  \/ VerificarOcupado(h) \/ VerificarCierra(h)
  \/ \E f \in Huellas : Capturar(h, f)
  \/ CapturaFallida(h) \/ Identificar(h)
  \/ UpsertLeer(h) \/ UpsertCommit(h) \/ UpsertFalla(h)
  \/ VincularCommit(h) \/ VincularFalla(h) \/ GuardarEnBD(h)
  \/ RefrescarCierra(h)
  \/ CargarLeer(h) \/ CargarSuelta(h) \/ CargarMarca(h)
  \/ \E u \in Usuarios : CargarUna(h, u)

Llegada == \E h \in Hilos \ {Principal}, o \in Operaciones,
              u \in Usuarios \cup {Nadie}, f \in Plantillas : Llamar(h, o, u, f)

Externo ==
  \/ Usb \/ EliminarTodos \/ Reinicio
  \/ \E u \in Usuarios : EliminarUsuario(u)
  \/ \E u \in Usuarios, f \in Huellas : SyncImport(u, f)

Next == Llegada \/ (\E h \in Hilos : Paso(h)) \/ Externo

Spec == Init /\ [][Next]_vars

-------------------------------------------------------------------------------
(* Safety.                                                                 *)

(* Both locks are held exactly by the thread that is inside the critical   *)
(* section the code protects with them: no return path, error or timeout   *)
(* of any operation leaves a lock taken, releases one it does not hold, or *)
(* reaches a protected call without it (HuellaService.py:87-269).          *)
CandadosCoherentes ==
  \A h \in Hilos : /\ (initLock = h) <=> (pc[h] \in TieneInit)
                   /\ (captureLock = h) <=> (pc[h] \in TieneCaptura)

(* The driver is never closed, nor its cache freed, while another thread   *)
(* is inside a capture, an identification or a db_add: those calls hold    *)
(* raw SDK handles with the GIL released, and verificar and refrescar      *)
(* close the driver (HuellaService.py:114, 204).  The death of the process *)
(* takes its threads with it.                                              *)
SinCierreDuranteSDK ==
  [][(inicializado /\ ~inicializado') =>
       \/ \A h \in Hilos : pc[h] \notin EnSDK
       \/ Reinicio]_vars

(* The RAM never identifies a student whose template is not in SQLite: all *)
(* the writers commit before they touch the reader, a failed commit leaves *)
(* the reader alone, and a load only brings what it read from the table    *)
(* (huellaController.py:67-85, main.py:1304-1313).  Stated for instances   *)
(* in which nobody deletes rows of huellas.                                *)
RamRespaldada ==
  \A u \in Usuarios : ram[u] # SinHuella => sqlite[u] # SinHuella

(* Between the commit of a template and the end of its way to the RAM.     *)
Recargando == {"gb", "gb_sdk", "rf_init", "rf_capture", "rf_close", "rf_open",
               "cg_leer", "cg_lock", "cg_add"}

(* Except while somebody is in that stretch, the reader holds exactly the  *)
(* table: an identification never uses an old finger, misses an enrolled   *)
(* one or finds a replaced one, whenever the process died or a commit      *)
(* failed ("esto garantiza que la nueva huella quede activa",              *)
(* huellaController.py:120-121).  For instances without deletions, imports *)
(* or failures of the reader, and with one writer: two writers break it.   *)
RamAlDia ==
  (inicializado /\ \A h \in Hilos : pc[h] \notin Recargando) => ram = sqlite

-------------------------------------------------------------------------------
(* Liveness.                                                               *)

(* A thread that can run runs, and a lock that is released again and again *)
(* is eventually obtained by each thread that waits for it.  Requests, the *)
(* cable and restarts are not fair.                                        *)
Justicia == \A h \in Hilos : SF_vars(Paso(h))

FairSpec == Spec /\ Justicia

(* A process that is not restarted for ever.                               *)
EstableSpec == FairSpec /\ <>[][~Reinicio]_vars

(* Every operation ends: the locks never stop a thread for ever, so the    *)
(* worker goes on reading fingers ("el sensor_worker sigue corriendo       *)
(* felizmente de fondo", main.py:862).                                     *)
TodaOperacionTermina == \A h \in Hilos : []<>(pc[h] = "libre")

(* The kiosk polls /api/sensor/status until it answers available           *)
(* (renderer.js, _esperarSensor); that answer loads the templates.  The    *)
(* request waits in the queue of the pool while every thread is busy, and  *)
(* is served when one becomes free: fairness is strong.                    *)
Sondeo == SF_vars(~huellasCargadas /\
                  \E h \in Hilos \ {Principal} :
                     Llamar(h, "status", Nadie, SinHuella))

FairSpecSondeo == FairSpec /\ Sondeo

(* The operations that may empty the RAM.                                  *)
Vacian == {"enrolar", "editar", "vincular", "verificar"}

(* A server started without its reader ends up with every template loaded, *)
(* once the reader stays connected, whoever initializes the driver first   *)
(* and although it is unplugged and plugged again meanwhile                *)
(* (main.py:322-328).  Nobody refreshes: a refresh that fails leaves the   *)
(* flag set over an empty reader, and the polling does not load again.     *)
RecuperaLectorTardio ==
  ([](\A h \in Hilos : op[h] \notin Vacian) /\ <>[]conectado)
     => <>[](huellasCargadas /\ ram = sqlite)

===============================================================================
