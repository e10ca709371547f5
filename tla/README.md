# BioPAE: TLA+ models and proofs

BioPAE serves school meals by fingerprint: a FastAPI server owns a ZKTeco
reader, a SQLite database and a kiosk screen; students put a finger on the
reader and get a ticket for the meal of the hour. The modules here model the
parts of the server where threads, coroutines, commits and hardware meet, say
what those parts promise, check the promises with TLC on small instances and
prove the most important ones with TLAPS for every instance. Paths below are
relative to `src/`; `main.py` is `infra/main.py`, `HuellaService.py` is
`core/Services/userServces/Atributos/HuellaService.py`.

Contents: 1 the system, 2 modules and plan, 3 how the modules correspond to the
code, 4 runs, 5 fairness, 6 proofs, 7 known disagreements, 8 what is not
modelled.

## 1. The system

### Components

| component | state it keeps | operations | module |
|---|---|---|---|
| Reader driver (`infra/Hardware/Sensor.cpp`, `sensorWrapper.cpp`) | driver open or not, the template cache (RAM), the SDK handles, the image buffer | `init_sensor`, `close_sensor`, `capture_template`, `db_add`, `db_identify` | `Sensor`, `Driver` |
| `HuellaService` and its callers (`huellaController.py`, endpoints and WebSockets of `main.py`) | `init_lock`, `capture_lock`, `_huellas_cargadas`; table `huellas` | initialise, verify, capture, identify, enrol, edit, link, refresh, load | `HuellaService`, `Galeria` |
| Meal rules (`RegistrosController.py`, `RegistroRepository.py`, `horarioService.py`) | tables `registros`, `tickets`, `raciones_config` | `procesarAsistencia`; deletions and configuration | `Asistencia`, `Comedor` |
| Worker, queue and mailbox (`main.py:90-139, 780-949`) | `cola_huellas`, `instruccion_sensor`, the coroutines that wait on them | `sensor_worker`, `/ws/totem`, `/ws/huella/enrolar` | `ColaHuellas` |
| Register of students (`UserRepository.py`, `main.py:541-778`) | tables `usuarios`, `cursos`; ids that are used again | create with duplicates, edit, delete one, delete all | `Padron`; also `Asistencia`, `HuellaService` |
| Administration panel (`Frontend/src/index/app.js`) | enrolment dialog: student being enrolled, socket, retry data; list of totems | create, enrol, retry, compensate by deleting; delete from the list; broadcast | `Padron`, `Sincronizacion`, partly |
| Synchronisation (`main.py:1355-1431`, `app.js:1402-1422`) | the tables of each totem | export, broadcast, merge by RUT | `Sincronizacion` |
| Kiosk screen (`Frontend/src/js/renderer.js`) | screen, sockets, return timer, silent-close counter, registration step | show, return, reconnect, register | `Kiosco` |
| Result buffer (`huellaController.py`, `/api/huella/pooling`) | one slot, one shared SQLAlchemy session | save, poll, clear | not modelled |
| Excel import (`main.py:1324-1353`, `RegistrosController.py`) | – | rows with failures, one commit | not modelled |
| RUT check digit (`main.py`, `renderer.js`, `app.js`) | – | validate, generate provisional RUTs | not modelled |
| Login, Electron shell, backups, exports, database location, scripts | – | – | not modelled (section 8) |

### How they interact

* `lifespan` (`main.py:66-90`) initialises the reader and loads the templates
  in the main thread; then the event loop and a pool of threads serve
  requests, and `sensor_worker` sends one blocking call after the other to an
  executor thread.
* The executor thread, the threads of `def` endpoints, background tasks and
  `run_in_executor` calls of WebSocket handlers meet in `HuellaService`, a
  singleton protected by two locks, and in SQLite, each statement or commit
  being a separate point of interleaving.
* Inside the event loop, the worker, the handlers of `/ws/totem` and those of
  `/ws/huella/enrolar` communicate only through the queue `cola_huellas` and
  the one-slot mailbox `instruccion_sensor`.
* `ws_totem` calls `procesarAsistencia` in the event loop itself; `POST
  /api/ticket/procesar` calls it in a thread of the pool.
* The reader's RAM is a copy of the table `huellas`; identification uses the
  copy. The kiosk polls `/api/sensor/status`, and that reloads the copy when
  the flag says it is empty.
* A panel creates a student, enrols her through the worker and deletes her again
  if its dialog closes first; it also sends its totem's register to the others.

### What is hard, and what makes it correct

| behaviour | what must hold |
|---|---|
| two locks, early returns, a timeout, calls without the GIL | locks held exactly in their sections; the driver is never closed under a call; every operation ends |
| a durable table and a volatile copy; crashes and failed commits between them | nobody is identified by a template that SQLite does not hold; at the end of a reload the copy is the table; an enrolled finger becomes active |
| a reader that appears late or is unplugged and plugged again | the templates end up loaded |
| check, then commit, without a lock or a constraint | the daily limit and the total of rations; the excess with several callers is bounded |
| two commits for one event | each ticket belongs to its own registro |
| consumers that put back what is not theirs | no reading duplicated or lost between handlers, no handler asleep beside a message, the sensor returns to attendance, an order is answered |
| an SDK with two handles, many places to fail, calls without the GIL | no handle leaks, none dies in use, every call returns |
| ids that SQLite hands out again; a deletion by a page that may be late | the page deletes whom it created and nobody else, and forgets nobody |
| totems that overwrite one another over a network | nothing is taken away by a broadcast; the totems converge |
| a page full of timers, sockets and fetches that outlive their purpose | it is never left without something that will change it; it listens again |

`PROJECT.json` lists every hazard at its line with the properties about it, or
why none covers it yet.

## 2. Modules and plan

In the order of importance:

1. `Sensor` – the driver's operators, shared by everything that drives it.
2. `HuellaService` (EXTENDS `Sensor`) – threads, locks, table and RAM.
   `Galeria` – the abstract promise: a register and a gallery that follows it.
   `MCHuellaService` – instances and the refinement mapping.
   `HuellaService_proofs`.
3. `Asistencia` – `procesarAsistencia` and the tables. `Comedor` – the abstract
   meal service. `MCAsistencia` – instances and the mapping.
   `Asistencia_proofs`; `Comedor_proofs` – the refinement.
4. `ColaHuellas`, `MCColaHuellas`, `ColaHuellas_proofs` – the event loop.
5. `Driver`, `MCDriver`, `Driver_proofs` – the C++ object call by call of the
   SDK, with threads in it; it implements `Sensor!SensorSpec`.
6. `Padron`, `MCPadron`, `Padron_proofs` – students with the ids that SQLite
   reuses, the reader's RAM, and the enrolment dialog of the panel.
7. `Sincronizacion`, `MCSincronizacion`, `Sincronizacion_proofs` – totems that
   broadcast their registers.
8. `Kiosco`, `MCKiosco`, `Kiosco_proofs` – the page of the kiosk.

Left: the slot and the shared session of `huella_buffer`, the RUT check digit
and the row loop of the Excel import, as small modules of their own.

## 3. How the modules correspond to the code

**Sensor.** One operator per method exposed to Python. `InitSensor(exito)` is
`initSensor`: true at once when the driver is up (it does not look at the
device), otherwise it needs a connected device and its SDK calls may still
fail. `CloseSensor` frees the cache. `DBAdd` is refused by a driver that is
down and for an id already in the cache. `PuedeCapturar` is when a capture can
deliver a template. Templates are model values; two templates match when equal.

**HuellaService.** `pc[h]` names where thread `h` is, `op[h]` the operation it
runs. A step is the code between two points where another thread may observe or
change what it uses: a lock operation, an SDK call that releases the GIL, a
SQLite statement, a read or write of the flag.

| actions | code |
|---|---|
| `Llamar`, `Entrada` | the endpoints and WebSockets of `main.py:322-417, 865-980, 1288`, the worker's orders |
| `TomarInit`, `TomarCaptura` | `with self.init_lock`, `with self.capture_lock` |
| `Inicializar`, `ConsultarFlag` | `inicializar`; `/api/sensor/status` |
| `VerificarOcupado`, `VerificarCierra`, `VerificarAbre` | `verificar_conexion_hardware` |
| `Capturar`, `CapturaFallida`, `DistinguirFallo`, `Identificar` | `capturar_plantilla`, `capturar_y_identificar`, `identificar_usuario` |
| `UpsertLeer`, `UpsertCommit`, `UpsertFalla` | `procesar_contexto` (`huellaController.py:59-122`) |
| `VincularCommit`, `VincularFalla`, `GuardarEnBD` | `POST /api/huella/vincular`, `guardar_en_bd` |
| `RefrescarCierra`, `RefrescarAbre` | `refrescar_bd_hardware` |
| `CargarLeer`, `CargarUna`, `CargarSuelta`, `CargarMarca` | `cargar_huellas_iniciales`, its two phases |
| `EliminarUsuario`, `EliminarTodos`, `SyncImport` | the other writers of `huellas`, as they change that table |
| `Usb`, `Reinicio` | the cable; the death and restart of the process |

Decisions: the three-second timeout of `VerificarOcupado` may expire whenever
the lock is taken. `POST /api/huella/enrolar` takes the path of `editar`
(initialise, then capture). `huella_buffer`'s session is treated as one per
call (the shared one is a listed hazard). An upsert whose row was deleted and
inserted again is an update. Rows are loaded in any order. A blob that the
reader cannot parse counts only as a "fallida" among the orphans. `cerrar`
runs only from `__del__` of a singleton and is left out, and so is a process
that could not import the C++ module. `"usb"` absent from `Entorno` means a
reader that is always connected.

**Asistencia.** A call runs one query after the other (`VerAdmin`,
`VerHorario`, `VerUsuario`, `VerConfig`, `VerUsadas`, `VerHoy`), then two
commits (`CrearRegistro`, `GenerarTicket`), each in a session of its own; a
query may raise (`ConsultaFalla`), a commit may fail (`RegistroFalla`,
`TicketFalla`, whose result the code drops), the row may be gone at the refresh
(`RegistroPerdido`). Ids of `registros` are the greatest plus one
(`IdNuevo`: INTEGER PRIMARY KEY without AUTOINCREMENT), so they are used again
after a deletion; `tickets.registro_id` is UNIQUE. Foreign keys are not
enforced by the connection. `Reloj` moves to the next observed hour or day
between any two steps. The event loop reads the hour twice within one
uninterrupted stretch, which is one reading. Names of states and messages are
reduced to `Respuestas`; the lazy load of the course after the commits is left
out.

**ColaHuellas.** A step is what a coroutine does between two real suspensions:
`put` on an unbounded `asyncio.Queue` never suspends, `get` does only on an
empty queue. `esperan` is the queue's list of getters; `Poner` wakes the
oldest, which then looks again (`loc = "listo"`). A handler that takes a
message for the other kind puts it back and sleeps (`Devolver`).
`FinIdentificar` … `Excepcion` are the branches of `sensor_worker`. A client
that is gone is noticed only when the handler sends: the handler that waits in
`get` is not cancelled. A kiosk that got an answer opens a new socket and
leaves the old one open (`renderer.js:128-131`), so one screen may be two
elements of `Totems`; the login page opens `/ws/totem` too. `ASISTENCIA` and
`NO_RECONOCIDO` are handled alike. `respuesta`, `usadas` and `atendidas`
only observe.

**Driver.** A step is one call of the SDK with the member it assigns. A thread
enters with the locks that its method of `HuellaService` holds (`Entrar`,
`UsaInit`, `UsaCaptura`): the mutual exclusion between methods is what
`HuellaService` proves, and is used here; `gil` is the second layer, kept by
`init_sensor` and `close_sensor` from first to last line and released by the
others (`sensorWrapper.cpp:12-44`). Between two reads of a handle (`manejo`)
others may run. Every SDK call may fail; handles are given from a small set and
may be given again. Two threads are enough for a race, since every call holds
one of two locks. The clock (`Tic`) runs beside the loop of
`captureCreateTemplate`, 50 ms of sleep in each turn. The mapping to `Sensor`
counts the driver as open from the flag to the freeing of the cache.
`captureTemplateImmediate` has no caller and is left out, like
`matchTemplate`, `captureLastTemplate` and the getters, which are not bound.
The width and the height of the image are not modelled: were the reader to
report zero, the buffer would be empty and no capture would ever start.

**Padron.** `alumnos`, `huellas` and `ram` say who has each id, whose finger is
stored under it and whose finger the reader has under it; a new id is the
greatest in use plus one (`Nuevo`). A person is one name and course, so a second
creation of her finds the first (`EsDuplicado`). The look-up and the insert of
`POST /api/usuarios/base` are two sessions, hence two steps. The dialog is
`app.js` function by function; a socket is the student it is about, and a result
goes to any of them, as in `ColaHuellas` (whose worker, queue and mailbox are
reduced to `objetivo`, `orden`, `muestra`, `cola`), while `ws_huella_editar`
answers its own client. The student is in the table (`Insertar`) before the
page knows her id (`Crear`); an error before the commit (`CrearFalla`) leaves
nothing behind, one after it (`RespuestaPerdida`) leaves her there, and to the
page they are the same error. With `"perdidas"` in `Entorno` answers and DELETEs
are lost and pages reloaded (`DeletePerdido`, `Recargar`), with `"eliminar"` a
panel, of this totem or another, deletes a student from its list
(`EliminarDeLista`). Assumptions, each of them named beside its action: one POST
of each panel in flight, during which its page is not reloaded; and, in the
passing run, nobody deletes a student, from a list or with all the others, while
a dialog has her pending (`SinEstorbar`). That one is needed, with one dialog
too: with `"eliminar_pendiente"`, which lifts it, `BorradoPropio`
fails (section 7) and `CreadoVigilado` does not. `origen` only observes:
whom a dialog created (`creado`), reported as enrolled (`confirmado`), or was
made to forget (`perdido`).

**Sincronizacion.** A row is one column that every export carries (`nombre`) and
one that it may lack (`huella`). An import reads student by student
(`BuscarAlumno`, `BuscarHuella`), remembers what it found, and commits once
(`Confirmar`): SQLAlchemy writes only the columns that differ from what it had
read (`Fusion`), and raises when a RUT or a template is there by now or a row is
gone (`Choca`), which undoes the whole payload (`Fallar`). SQLite's lock makes
some of these overlaps impossible after the first `flush`; the model allows
them. Requests are lost, delayed and reordered (`Perder`, `Llegar`). RUTs do not
change; an Excel without RUN, whose null RUT makes every receiver refuse the
payload, is assumed to be put right before the administrators finish
(`Terminar`).

**Kiosco.** Sockets are counted, by kind and by whether they have answered,
because the page forgets them without closing them; a socket closed while it
connects runs its `onerror` later (`abortados`). `Activar`, `AlCerrar`,
`Sondear`, `Inicializar` are `activarSensor`, the tail of its `onclose`,
`_esperarSensor`, `inicializar`. The registration keeps the control: a step
with buttons (`elige`), the two without (`dedo`, `exito`), requests and timers
in flight that end later, whatever the page shows by then. The socket of
`capturar-identificar` counts as one of those requests. Sockets, timers
and requests beyond the bound of their kind are merged, which loses only how
many there are. The
`estado` "error" that `onmessage` expects (line 139) is sent by no endpoint. A
server starts again only after the page has seen its sockets close.

**Galeria, Comedor.** The register and the gallery with the actions `Inscribir`,
`Vaciar`, `Activar`, and fairness that puts right what is missing or out of
date; the rations served, each to a beneficiary, within a limit per student and
the total, each with a margin of one ration for each other caller
(`Margen`). The mappings are in the MC modules: `inscritas <- sqlite`,
`activas <- ram`; `servidas <-` the tickets of today, numbered per student.

## 4. Runs

Passing:

| run | instance | what it shows |
|---|---|---|
| `MCHuellaConcurrencia` | worker and one request thread beside `lifespan`, every operation, every event of the environment | types; `CandadosCoherentes`: no path of any operation leaves, drops or lacks a lock; `SinCierreDuranteSDK`: nobody closes the driver under a call |
| `MCHuellaActiva` | two students, two templates, one writing thread beside identifications and polling, failing commits, restarts | `RamRespaldada`, `RamAlDia`, and the refinement of `Galeria` with its liveness |
| `MCHuellaProgreso` | everything but `verificar`, the cable moving | `TodaOperacionTermina`; `RecuperaLectorTardio` |
| `MCAsistenciaLimite` | one caller, one student, two days, every failure, deletion, restart and change | types, `LimiteDiario`, `RacionesRespetadas` |
| `MCAsistenciaRegistros` | two callers, one student and one administrator, two days; no query or commit fails and nobody else writes | `UnTicketPorRegistro`; `ExcesoAcotado`; the refinement of `Comedor` with a margin of one |
| `MCColaSensor` | two kiosk sockets, two enrolment clients, two students, one reading, disconnections and failures | types, `LecturaUnaVez`, `SinMensajeOlvidado`, `VuelveAAsistencia`, `OrdenesDeUnaEnUna` |
| `MCDriver` | two threads, every method, three handles, every SDK call failing, the cable | types, `SinFugas`, `ManejoVivo`, `TodaLlamadaVuelve`, the refinement of `Sensor` |
| `MCPadronDialogo` | one panel, two persons, two ids, imports, reloads of the reader, deletion of all and of single students who are not pending, lost answers, DELETEs and pages | types, `CreadoVigilado`, `BorradoPropio` |
| `MCSincronizacion` | two totems with a panel each, one student, two requests in flight, administrators at work until they finish | types, `NadaSePierde`, `Converge` |
| `MCKiosco` | two sockets without an answer, one timer or fetch of each way back, two requests of registrations, server and reader coming and going | types, `ConSalida`; `VuelveAEscuchar`, for enrolments that are answered |

Each property also has a plausible wrong version of one action beside the right
one in the module (commented "Mutant"): with it, the run finds the property
violated.

Expected violations, each of what a comment or document of the repository says:

| run | what fails |
|---|---|
| `MCHuellaInterbloqueo` | `verificar` (capture, then init) and `refrescar` (init, then capture) block each other, and the worker behind them |
| `MCPadronHerencia` | "delete all" leaves the fingers in the reader, and the next students get the ids: one is identified by the finger of another |

**Bounds.** Threads: `lifespan`'s plus two, because every protocol in the code
is between a holder and one rival, and the third role (the worker behind both)
appears in the pair; the lock proofs are for any number. Students and templates:
one where the property is about locks, two where templates may be mixed up.
`MaxDia` 2 crosses midnight once, `MaxRegistro` 3 allows an id to be freed and
used again in `MCAsistenciaLimite`, `Totales` has there "no limit" and a total
smaller than the demand.
`Horas` takes hours of both meals and one outside. `ColaHuellas` bounds only
the readings that give a message; the pauses are unbounded. `Driver`'s three
handles allow one to be given again while a stale one is remembered; a
deadline of two ticks is a loop that turns and one that ends. `Padron`'s two ids
allow one to be freed, inherited and inherited again; nothing in it tells the
two persons apart and its properties are of safety, so the run takes them as
symmetric, and several panels are left to the proofs. In `Sincronizacion` two
requests make an import overlap another or an old payload arrive last; students
do not influence one another except by undoing the whole payload, which
`Fallar` does too. In `Kiosco` two sockets are the active one and one
that was forgotten, and two requests that of the current registration and one
that a cancelled one left. Where a run leaves
events out, the comment of its property says for which instances it is stated:
deletions are out of `MCHuellaActiva` because deleting a student does not touch
the RAM at all (`MCPadronHerencia`).

Deadlock checking is off only in `MCHuellaInterbloqueo` and
`MCHuellaConcurrencia`, where `verificar` and `refrescar` together really stop
the threads.

## 5. Fairness

* `HuellaService!Justicia`: strong fairness of each thread. A thread that can
  run is scheduled, and a released `threading.Lock` wakes a waiter, so one that
  is released again and again is obtained. Requests, the cable, deletions and
  restarts are never fair.
* `FairSpecSondeo` adds the kiosk's polling of `/api/sensor/status` every three
  seconds (`renderer.js:190-205`): strong, because the request waits in the
  queue of the thread pool.
* `HuellaService!EstableSpec` adds that the process is not restarted for ever;
  a register that is reloaded after the last restart cannot be promised
  otherwise.
* `ColaHuellas!FairSpec`: weak fairness of the worker and of each handler: the
  event loop runs what is ready, timers expire, and captures have a deadline
  (`Sensor.cpp:199`). Readings and clients are not fair. `EstableSpec` adds
  that an enrolment tried again and again does not raise for ever.
* `Asistencia` and `Padron` have no liveness property: a call is a straight
  line, and a person drives the dialog.
* `Driver!FairSpec`: weak fairness of each thread and of the clock (the SDK
  answers), and strong fairness of the two methods that wait for the GIL, which
  CPython hands over on request.
* `Sincronizacion!FairSpec`: weak fairness of the broadcast of the panel that
  stays open (`setInterval`, `app.js:98`) and of each import; strong fairness of
  "some request arrives" and "some import commits", because a network or a
  base that fails for ever is not promised anything. Existential on purpose:
  no particular request is guaranteed.
* `Kiosco!FairSpec`: weak fairness of timers, polls, fetches and of the
  browser's late events, and of the answers to the socket of
  `capturar-identificar` (its capture times out, `main.py:880`). Not of readings,
  buttons, the server or the cable; nor of enrolments: `ws_huella_enrolar` waits
  without a timeout for a result that others may take (section 7), so with the
  server up an enrolment socket need never end.

`RecuperaLectorTardio` assumes that nobody runs an operation that closes the
driver, because a refresh whose `init` fails leaves the flag set over an empty
reader (section 7). `OrdenesDeUnaEnUna` assumes that no kiosk is connected and
that the orders come from one client after another (section 7).
`VuelveAEscuchar` assumes that the server and the reader stay up from some time
on, that whoever starts a registration goes on or cancels it, and that
enrolments are answered (`Contestados`: again and again none is pending).
Without the last one the property is false: the page stays in the step `dedo`.

## 6. Proofs

Every invariant, action property and refinement of safety that the passing runs
check is proved for every value of the constants. The assumptions are the
`ConstantesOK` (or similar) of each module, nonempty, disjoint, finite where
something is counted, and the hypotheses named in the theorems. The argument is
the same everywhere: an inductive invariant, one lemma per action or group of
actions that disturb the same conjuncts, and a temporal step that joins them.

`HuellaService_proofs`:

* `TypeOKInvariante`: `Spec => []TypeOK`, one lemma per group of actions.
* `CandadosInvariante`: `Spec => []CandadosCoherentes`. The formula is inductive
  together with the types: a lock that is free has no thread inside, so taking
  it adds one; a thread inside holds it, so releasing it removes the only one.
* `SinCierre`: `Spec => SinCierreDuranteSDK`. The steps that close the driver
  are taken by a thread at `vf_close` or `rf_close`, both inside
  `capture_lock`; by coherence nobody else is at a point of `EnSDK`, which are
  inside it too.
* `RespaldoInvariante`: in an environment without deletions, `Spec =>
  []RamRespaldada`. Not inductive alone: it needs that what a load carries
  (`pend`) and what `vincular` is about to add is in the table already.
* `AlDiaInvariante`: `Spec => []RamAlDia`, and `SigueGaleria`: the initial
  states and the steps are those of `Galeria`, both for `UnEscritor(e)`: one
  thread `e` enrols, edits, links or verifies, any number of others identify
  and ask for the state, nobody deletes or imports, the reader is connected and
  does not fail; commits fail and the process dies at will. These hypotheses
  are those of the run, and each is needed: two edits at once, an import, a
  deletion or a refresh whose `init` fails leave an old RAM (section 7). The
  invariant `AlDia` says that only `e`, or `lifespan` alone before the first
  request, is ever on the way to a load (`Reparto`); that the driver is down
  only before that first opening and between the close and the init of `e`, and
  the flag stays set, so that the polling never loads a second time
  (`Encendido`); and that what the loader still has to bring is exactly what
  the RAM lacks of the table (`Contenido`).
* `UsaSensor`: `Spec => SensorSpec` in every environment: the service drives the
  reader only in the ways that `Sensor` allows, and those are the ways that
  `RefinaSensor` (below) proves of the C++ object. Only templates of `Huellas`
  are added, for ids of students, which rests on the type invariant.

`Asistencia_proofs`:

* `TiposInvariante`: `Spec => []TypeOK`.
* `ExcesoInvariante`: for any finite set of threads, `Spec => []ExcesoAcotado`.
  The invariant `InvExceso` counts, for a student and a kind, the tickets of
  today plus the calls that have passed the check and not emitted yet
  (`ExcesoHoy`): passing the check needs a count below the limit and leaves at
  most every thread on its way; emitting moves one from the second term to the
  first; midnight empties the first. `SinFuturo` is what makes midnight work.
* `LimiteInvariante`: with one thread the bound is the limit itself.
* `RacionesInvariante`: with one thread, `Spec => RacionesRespetadas`, from
  `CupoTotal`: what `VerUsadas` saw is still so until the ticket. With several
  threads there is no such bound, since another call may have read a larger
  total.
* `UnTicketInvariante`: for any set of threads, `Spec => []UnTicketPorRegistro`,
  under `SinPerdidas`: no failing commit, restart, or deletion of students or
  registros, any of which separates the two commits of a call for good.
  `Emparejados`: each row has its ticket or one thread that will emit it, whose
  row has none; two rows never have one id.

`Comedor_proofs`:

* `RefinaComedor`: for any finite set of threads, `Spec => ImplementaComedor`,
  while the students and the rations are not changed (`PadronFijo`); commits may
  fail, the process may die, the registros may be deleted. To `InvExceso` it
  adds that what a call has checked stays true (`Vigente`); that the tickets of
  a kind plus the calls that will not look at the total again exceed it by at
  most all threads but one (`CupoHoy`); and that the rations of all the students
  together are as many as the tickets of the kind (`Contadas`), kept step by
  step because a sum over the students would need an induction.

`ColaHuellas_proofs`, for every number of kiosks, clients, students and readings
and every environment:

* `TiposInvariante`, `LecturaUnaVezInvariante` and
  `SinMensajeOlvidadoInvariante`. `Turnos`: the getters of the queue are the
  sleeping handlers, once each. `Pendientes`: a reading is in the queue at most
  once, whatever its kind, and only if it was made and not processed.
  `Despiertos`: while somebody sleeps, as many handlers are awake as there are
  messages; "one is awake" holds but is not inductive, because a handler may end
  with the message it takes.

`Driver_proofs`, for every set of threads and handles and every timeout:

* `TiposInvariante`, `SinFugasInvariante`, `ManejoVivoInvariante`. `Control`:
  the locks and the GIL are where the point of each thread says. `Objeto`: which
  members are set at each point of `initSensor` and `closeSensor` (`Fase`), and
  that the living handles are exactly those two. `EnUso`: a call without the
  GIL uses the handle that the object has now.
* `RefinaSensor`: `Spec => ImplementaSensor`. The object opens where
  `m_isInitialized` is set and closes where it is unset; everything between is a
  stutter, because `Cache` says that no template is in a cache being built or
  undone.

`Padron_proofs`, for every number of panels, persons and ids, in three layers:

* `TiposInvariante`, in every environment, from `Base`: the types, and that a
  dialog has no socket but the one it knows, and a form neither a socket nor a
  marked student (`Sockets`).
* `CreadoVigiladoInvariante`, in every environment, from `Vigilancia`: whoever
  was created and not reported is the student (`Suyos`: the one it marks, or the
  one in the answer on its way) of a dialog that has her name in its form, or of
  a DELETE with her name (`Duenos`), and all the sockets and retries of a dialog
  are for the one it marks (`Marcas`). Without the names it is not inductive: the
  DELETE that a closing dialog sends might be for whoever had the id before.
* `BorradoPropioSiempre`, under the hypothesis `SinPendientes`: nobody deletes,
  from a list or with all the others, a student that a dialog has pending; losses,
  reloads and all other deletions are there. From `Vinculos`: a dialog's own
  student is still there, still hers, and no other dialog's (`Propios`), and so is
  that of a DELETE on its way, which no dialog has any more (`Borrados`). That
  SQLite never gives away the id of a pending student follows: her row is there
  (`IdLibre`). The hypothesis is used only where somebody else deletes rows, and
  cannot be dropped (section 7).

`Sincronizacion_proofs`, for every number of totems, students and requests:

* `TiposInvariante` and `NadaSePierdeSiempre`. `Hallazgos`: what an import has
  decided to write is in its payload, whatever the table has become since.

`Kiosco_proofs`, for every value of the bounds:

* `TiposInvariante` and `SalidaInvariante`; the two invariants are inductive
  together.

Only model-checked:

* liveness, which is out of the prover's reach (it needs ENABLED):
  `TodaOperacionTermina`, `RecuperaLectorTardio`, `VuelveAAsistencia`,
  `OrdenesDeUnaEnUna`, `TodaLlamadaVuelve`, `Converge`, `VuelveAEscuchar`, and
  the fairness of `Galeria` within `ImplementaGaleria`, whose safety is
  `SigueGaleria`;
* that the sum of the students' rations is the number of tickets is proved only
  as an invariant of the steps, not as a fact about any set of tickets
  (induction over data).

## 7. Known disagreements without a run

Seen while modelling, at the line where they bite:

* `HuellaService.py:205` – a refresh or verification whose `init_sensor` fails
  after the close leaves `_huellas_cargadas` True over an empty RAM (line 72
  says "True solo cuando la RAM del hardware tiene huellas"), so
  `/api/sensor/status` does not reload.
* `HuellaService.py:106` – a busy `capture_lock` is answered as "connected",
  and a capture on an unplugged reader is what may be holding it.
* `HuellaService.py:161` – `-2` (unplugged) is never the answer while the driver
  is up, because `initSensor` returns true without looking (`Sensor.cpp:28`).
* `HuellaService.py:212` – between the close and the end of the load both locks
  are free at moments, and an enrolled finger may be answered as unknown;
  `RamAlDia` excludes exactly that stretch.
* `HuellaService.py:234` – two writers at once: the load with the rows read before
  the second commit is the one that stays, and the new finger is not active,
  against `huellaController.py:120-121`. With an edition beside an enrolment and
  nothing else, TLC finds `RamAlDia` violated.
* `RegistrosController.py:82` – two callers of one student pass the same check
  and exceed the daily limit of lines 76 and `modelos.py:96`; `ExcesoAcotado`
  says by how much.
* `RegistrosController.py:92` – the result of `generar_ticket_comida` is not
  looked at: after `DELETE /api/registros` (`main.py:487`, which keeps the
  tickets) the ids of `registros` start again, `tickets.registro_id` is UNIQUE
  (`modelos.py:91`), and the answer is still "emitido correctamente" (line 99).
* `main.py:855` – a kiosk handler that takes the result of an enrolment puts it
  back and may take it again for ever, and a kiosk that connects throws it away
  (789-792), or the worker resets a newer order with the old one (134-135): the
  client is never answered, against line 132, since `get` (933) has no timeout,
  and a kiosk that enrols stays in the step `dedo`.
* `main.py:936` – an enrolment client takes any result, also that of another
  client's order, against the comment of line 935.
* `main.py:947` – an order survives its client: nobody notices the
  disconnection before the worker has enrolled.
* `main.py:863` – the handler of a dead kiosk socket takes the next reading,
  processes its ticket, and only then fails to send.
* `main.py:729` – two concurrent creations of one student both find nobody and
  both insert.
* `main.py:555` – tickets and registros stay when all students are deleted, and
  the students who get the ids inherit them.
* `huellaController.py:94` – the worker's commit after a DELETE of its student
  leaves a row of `huellas` that the next student with the id inherits.
* `app.js:595` – the POST that creates a student commits before it answers
  (`main.py:775`); when the answer is lost, `enrollingUserId` stays unset, and
  closing the dialog deletes nobody, against line 451 ("Eliminar usuario creado
  si la huella nunca se confirmó"). A DELETE that fails (453) and a reload of the
  page forget her too. `Padron` has the three (`RespuestaPerdida`,
  `DeletePerdido`, `Recargar`), and marks whom they lose in `origen`, which
  `CreadoVigilado` then leaves out.
* `app.js:828` – a student deleted from a list while a dialog has her pending: her
  id goes to the next student, whom closing the dialog deletes instead. With
  `"eliminar_pendiente"` and `"importar"` TLC finds `BorradoPropio` violated:
  `Insertar`, `EliminarDeLista`, `Importar`, `Crear`, `Cerrar`, `Eliminar`.
* `app.js:616` – a slow DELETE beside a second submission that finds its student
  as a duplicate deletes a student reported as updated.
* `Flujo de datos.md:27-32` – a student who already has a ticket today is
  rejected; `RegistrosController.py:76, 82` count by kind, and allow two lunches.
* `main.py:1416`, `1423` – an import writes over newer edits, brings back
  deleted students (`menu.html:635`, "Esta acción no se puede deshacer"), makes
  a second row when a RUT was changed, and does not reload the reader.
* `renderer.js:131` – one socket stays open for each answer; its handler goes on
  taking readings.
* `renderer.js:157-158` – the check after three silent closes is meant to notice
  an unplugged reader, but `ws_totem` does not close while the server lives: the
  kiosk waits on a reader that is not there.
* `renderer.js:404, 583, 607` – the timer of success is never cleared and cancels
  the registration that began meanwhile.
* `index.html:207` – the step that waits for the finger has no button and no
  timeout of its own.
* `auth.js:79` – after one failed password the login by fingerprint is off until
  the page is loaded again.
* `horarioService.py:15` – lunch ends at 20:00; the docstring (line 8) says
  23:59.

## 8. Not modelled

* `huella_buffer`: its one slot and its shared SQLAlchemy session. No page polls
  the slot while another operation writes; the session is treated as one per
  call.
* The row loop of the Excel import and the RUT check digit: sequential data
  handling.
* In the panel: lists, filters, statistics, and the dialog that rewrites a
  finger, which is `ws_huella_editar` without the creation.
* Administrators as students (course "Admin"), `_resolver_curso_id`.
* Backups (file copies that nothing reads back), exports and statistics
  (read-only), the Electron shell, the location and creation of the database
  (before any concurrency), the login page and credentials (one row), scripts and
  unused modules.
* `Sensor::matchTemplate`, `captureLastTemplate`, `captureTemplateImmediate`.
* The vendored libraries (Asio, Crow and their headers under
  `infra/Hardware`) and the SDK, which appears as the external behaviour of
  `Driver` and `Sensor`. They are nearly all of the C++ lines of the repository:
  the project's own C++ is `Sensor.cpp`, `Sensor.h` and `sensorWrapper.cpp`,
  some 360 lines, and the rest of its program is Python and JavaScript. The
  share of the repository's C++ that the modules stand for is therefore small,
  and would stay so with all of the program modelled.
