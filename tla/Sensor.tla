-------------------------------- MODULE Sensor --------------------------------
(***************************************************************************)
(* The C++ driver object of the fingerprint reader (Sensor.cpp) as the     *)
(* Python side sees it through sensorWrapper.cpp: one operator per exposed *)
(* method, each atomic because init_sensor and close_sensor keep the GIL   *)
(* and the SDK calls that release it do not change the driver's state.     *)
(*                                                                         *)
(* A fingerprint template is one value of Huellas: two captures of the     *)
(* same finger give the same value, two fingers give two values.  The      *)
(* cache of templates that the SDK keeps in memory ("RAM") maps a user id  *)
(* to the template registered under it.                                    *)
(***************************************************************************)
CONSTANTS
  Usuarios,    \* ids of the table usuarios
  Huellas,     \* fingers, and the templates captured from them
  SinHuella    \* no template

ASSUME SinHuellaNoEsHuella == SinHuella \notin Huellas

VARIABLES
  conectado,     \* the USB device is plugged in and answers
  inicializado,  \* m_isInitialized: SDK up, device open, cache allocated
  ram            \* the templates in m_dbCacheHandle, by user id

sensorVars == <<conectado, inicializado, ram>>

Plantillas == Huellas \cup {SinHuella}

RamVacia == [u \in Usuarios |-> SinHuella]

SensorTypeOK ==
  /\ conectado \in BOOLEAN
  /\ inicializado \in BOOLEAN
  /\ ram \in [Usuarios -> Plantillas]
  /\ ~inicializado => ram = RamVacia

SensorInit ==
  /\ conectado \in BOOLEAN
  /\ inicializado = FALSE
  /\ ram = RamVacia

-------------------------------------------------------------------------------
(* init_sensor: a driver already initialized answers TRUE without touching *)
(* the device.  Otherwise ZKFPM_Init, the device count, OpenDevice and     *)
(* DBInit must all succeed (only possible on a connected device, and an    *)
(* SDK call may fail even then); DBInit allocates an empty cache.          *)
InitSensor(exito) ==
  \/ /\ inicializado
     /\ exito = TRUE
     /\ UNCHANGED <<inicializado, ram>>
  \/ /\ ~inicializado /\ conectado
     /\ exito = TRUE
     /\ inicializado' = TRUE
     /\ ram' = RamVacia
  \/ /\ ~inicializado
     /\ exito = FALSE
     /\ UNCHANGED <<inicializado, ram>>

(* Mutant of close_sensor: the cache handle is not freed.                  *)
CloseSensorSinLiberar ==
  /\ inicializado' = FALSE
  /\ UNCHANGED ram

(* close_sensor frees the cache, closes the device and terminates the SDK. *)
CloseSensor ==
  /\ inicializado' = FALSE
  /\ ram' = RamVacia

(* capture_template polls the device until m_timeoutMs.  It can deliver a  *)
(* template only from an initialized driver and a device that answers;     *)
(* giving up is always possible (nobody puts a finger).                    *)
PuedeCapturar == inicializado /\ conectado

(* db_add: refused by an uninitialized driver and, by the SDK, for a user  *)
(* id the cache already holds.  The cache is memory of the process: the    *)
(* call needs no connected device.                                         *)
AceptaDBAdd(u) == inicializado /\ ram[u] = SinHuella

DBAdd(u, h) ==
  ram' = IF AceptaDBAdd(u) THEN [ram EXCEPT ![u] = h] ELSE ram

(* db_identify: the user ids under which the cache holds the template.     *)
Coincidencias(h) == IF inicializado THEN {u \in Usuarios : ram[u] = h} ELSE {}

-------------------------------------------------------------------------------
(* The driver on its own: what its object promises to whoever calls it.    *)
SensorNext ==
  \/ (CloseSensor \/ \E exito \in BOOLEAN : InitSensor(exito)) /\ UNCHANGED conectado
  \/ /\ \E u \in Usuarios, h \in Huellas : DBAdd(u, h)
     /\ UNCHANGED <<conectado, inicializado>>
  \/ conectado' = ~conectado /\ UNCHANGED <<inicializado, ram>>

SensorSpec == SensorInit /\ [][SensorNext]_sensorVars

===============================================================================
