-------------------------------- MODULE Driver --------------------------------
(***************************************************************************)
(* The C++ object Sensor call by call of the ZKTeco SDK, with the threads  *)
(* that enter it from Python at the same time.  init_sensor and            *)
(* close_sensor keep the GIL; the captures, db_add and db_identify release *)
(* it, and are kept apart from each other and from close_sensor only by    *)
(* the capture_lock of HuellaService.  Sensor.tla is what all of this      *)
(* promises: one atomic step per exposed method.                           *)
(***************************************************************************)
EXTENDS Integers, FiniteSets

CONSTANTS
  Hilos,      \* Python threads
  Nadie,      \* no thread
  Usuarios, Huellas, SinHuella,
  Manejos,    \* handles the SDK may give
  Nulo,       \* nullptr
  Plazo       \* m_timeoutMs, in ticks of the clock

ASSUME DriverOK ==
  /\ Nadie \notin Hilos /\ Nulo \notin Manejos /\ SinHuella \notin Huellas
  /\ Plazo \in Nat \ {0}

VARIABLES
  conectado,        \* the USB device is plugged in and answers
  zkfp,             \* ZKFPM_Init calls not yet undone by ZKFPM_Terminate
  vivos,            \* handles given by the SDK and not yet freed
  contenido,        \* what the cache of templates holds
  m_deviceHandle, m_dbCacheHandle,
  m_imageBuffer,    \* the image buffer is not empty
  m_isInitialized,
  gil, initLock, captureLock,
  pc, op,           \* by thread: where it is, and in which method of HuellaService
  plazo,            \* ticks left to its deadline
  manejo            \* the handle its SDK call is using

sdk      == <<zkfp, vivos, contenido>>
miembros == <<m_deviceHandle, m_dbCacheHandle, m_imageBuffer, m_isInitialized>>
candados == <<gil, initLock, captureLock>>
locales  == <<plazo, manejo>>
vars == <<conectado, sdk, miembros, candados, pc, op, locales>>

RamVacia == [u \in Usuarios |-> SinHuella]

Operaciones == {"inicializar", "identificar", "capturar", "guardar", "refrescar"}

EnInit  == {"i_init", "i_cuenta", "i_abrir", "i_params", "i_db", "i_listo", "i_fin"}
EnClose == {"c_free", "c_disp", "c_term"}
EnSDK   == {"t_sdk", "a_sdk", "s_sdk"}

Puntos == {"libre", "ini", "cer", "tomar", "t_plazo", "t_dormir", "agregar",
           "buscar"} \cup EnInit \cup EnClose \cup EnSDK

TypeOK ==
  /\ conectado \in BOOLEAN
  /\ zkfp \in Nat /\ vivos \subseteq Manejos
  /\ contenido \in [Usuarios -> Huellas \cup {SinHuella}]
  /\ m_deviceHandle \in Manejos \cup {Nulo}
  /\ m_dbCacheHandle \in Manejos \cup {Nulo}
  /\ m_imageBuffer \in BOOLEAN /\ m_isInitialized \in BOOLEAN
  /\ {gil, initLock, captureLock} \subseteq Hilos \cup {Nadie}
  /\ pc \in [Hilos -> Puntos]
  /\ op \in [Hilos -> Operaciones]
  /\ plazo \in [Hilos -> 0..Plazo]
  /\ manejo \in [Hilos -> Manejos \cup {Nulo}]

Init ==
  /\ conectado \in BOOLEAN
  /\ zkfp = 0 /\ vivos = {} /\ contenido = RamVacia
  /\ m_deviceHandle = Nulo /\ m_dbCacheHandle = Nulo
  /\ m_imageBuffer = FALSE /\ m_isInitialized = FALSE
  /\ gil = Nadie /\ initLock = Nadie /\ captureLock = Nadie
  /\ pc = [h \in Hilos |-> "libre"]
  /\ op = [h \in Hilos |-> "inicializar"]
  /\ plazo = [h \in Hilos |-> 0]
  /\ manejo = [h \in Hilos |-> Nulo]

-------------------------------------------------------------------------------
Ir(h, l) == pc' = [pc EXCEPT ![h] = l]

Seguir(h, l) == Ir(h, l) /\ UNCHANGED <<conectado, candados, op, locales>>

(* Back in Python at the end of the method: it releases its locks.         *)
Volver(h) ==
  /\ Ir(h, "libre")
  /\ initLock' = IF initLock = h THEN Nadie ELSE initLock
  /\ captureLock' = IF captureLock = h THEN Nadie ELSE captureLock
  /\ manejo' = [manejo EXCEPT ![h] = Nulo]
  /\ plazo' = [plazo EXCEPT ![h] = 0]
  /\ UNCHANGED <<conectado, op>>

(* The locks that each method holds while it calls the driver.             *)
UsaInit(o)    == o \in {"inicializar", "refrescar"}
UsaCaptura(o) == o # "inicializar"

Primera(o) == CASE o = "inicializar" -> "ini"
                [] o \in {"identificar", "capturar"} -> "tomar"
                [] o = "guardar"     -> "agregar"
                [] o = "refrescar"   -> "cer"

(* Mutant: refrescar does not take capture_lock.                           *)
EntrarSinCaptura(h, o) ==
  /\ pc[h] = "libre"
  /\ UsaInit(o) => initLock = Nadie
  /\ UsaCaptura(o) /\ o # "refrescar" => captureLock = Nadie
  /\ initLock' = IF UsaInit(o) THEN h ELSE initLock
  /\ captureLock' = IF UsaCaptura(o) /\ o # "refrescar" THEN h ELSE captureLock
  /\ op' = [op EXCEPT ![h] = o]
  /\ Ir(h, Primera(o))
  /\ UNCHANGED <<conectado, sdk, miembros, gil, locales>>

(* A method of HuellaService has its locks and makes its first call.       *)
(* "refrescar" is the close and init of refrescar_bd_hardware and of       *)
(* verificar_conexion_hardware.                                            *)
Entrar(h, o) ==
  /\ pc[h] = "libre"
  /\ UsaInit(o) => initLock = Nadie
  /\ UsaCaptura(o) => captureLock = Nadie
  /\ initLock' = IF UsaInit(o) THEN h ELSE initLock
  /\ captureLock' = IF UsaCaptura(o) THEN h ELSE captureLock
  /\ op' = [op EXCEPT ![h] = o]
  /\ Ir(h, Primera(o))
  /\ UNCHANGED <<conectado, sdk, miembros, gil, locales>>

-------------------------------------------------------------------------------
(* Sensor::initSensor, with the GIL from its first line to its last.       *)

IniEntrar(h) ==
  /\ pc[h] = "ini" /\ gil = Nadie
  /\ UNCHANGED <<sdk, miembros>>
  /\ IF m_isInitialized
     THEN Volver(h) /\ UNCHANGED gil
     ELSE /\ gil' = h
          /\ Ir(h, "i_init")
          /\ UNCHANGED <<conectado, op, locales, initLock, captureLock>>

(* return false (or true): the GIL may go to another thread.               *)
Retornar(h) == Volver(h) /\ gil' = IF gil = h THEN Nadie ELSE gil

ZkInit(h) ==
  /\ pc[h] = "i_init"
  /\ \/ zkfp' = zkfp + 1 /\ Seguir(h, "i_cuenta")
     \/ Retornar(h) /\ UNCHANGED zkfp
  /\ UNCHANGED <<vivos, contenido, miembros>>

(* No devices: ZKFPM_Terminate.                                            *)
ContarEquipos(h) ==
  /\ pc[h] = "i_cuenta"
  /\ \/ conectado /\ Seguir(h, "i_abrir") /\ UNCHANGED zkfp
     \/ zkfp' = zkfp - 1 /\ Retornar(h)
  /\ UNCHANGED <<vivos, contenido, miembros>>

OpenDevice(h) ==
  /\ pc[h] = "i_abrir"
  /\ \/ \E d \in Manejos \ vivos :
          /\ conectado
          /\ m_deviceHandle' = d
          /\ vivos' = vivos \cup {d}
          /\ Seguir(h, "i_params")
          /\ UNCHANGED zkfp
     \/ /\ m_deviceHandle' = Nulo
        /\ zkfp' = zkfp - 1
        /\ Retornar(h)
        /\ UNCHANGED vivos
  /\ UNCHANGED <<contenido, m_dbCacheHandle, m_imageBuffer, m_isInitialized>>

(* The size of the image, the reader's or the default one: the buffer.     *)
CaptureParams(h) ==
  /\ pc[h] = "i_params"
  /\ m_imageBuffer' = TRUE
  /\ Seguir(h, "i_db")
  /\ UNCHANGED <<sdk, m_deviceHandle, m_dbCacheHandle, m_isInitialized>>

(* Mutant of the failure of ZKFPM_DBInit: the device stays open.           *)
DBInitSinCerrar(h) ==
  /\ pc[h] = "i_db"
  /\ \/ \E c \in Manejos \ vivos :
          /\ m_dbCacheHandle' = c
          /\ vivos' = vivos \cup {c}
          /\ contenido' = RamVacia
          /\ Seguir(h, "i_listo")
          /\ UNCHANGED <<zkfp, m_deviceHandle, m_imageBuffer>>
     \/ /\ m_imageBuffer' = FALSE
        /\ m_deviceHandle' = Nulo
        /\ zkfp' = zkfp - 1
        /\ Retornar(h)
        /\ UNCHANGED <<vivos, contenido, m_dbCacheHandle>>
  /\ UNCHANGED m_isInitialized

(* ZKFPM_DBInit; its failure undoes everything so far.                     *)
DBInit(h) ==
  /\ pc[h] = "i_db"
  /\ \/ \E c \in Manejos \ vivos :
          /\ m_dbCacheHandle' = c
          /\ vivos' = vivos \cup {c}
          /\ contenido' = RamVacia
          /\ Seguir(h, "i_listo")
          /\ UNCHANGED <<zkfp, m_deviceHandle, m_imageBuffer>>
     \/ /\ m_imageBuffer' = FALSE
        /\ vivos' = vivos \ {m_deviceHandle}
        /\ m_deviceHandle' = Nulo
        /\ zkfp' = zkfp - 1
        /\ Retornar(h)
        /\ UNCHANGED <<contenido, m_dbCacheHandle>>
  /\ UNCHANGED m_isInitialized

(* The flag is the last write, so that a thread without the GIL that sees  *)
(* it set sees the handles and the buffer too (x86 keeps that order).      *)
Listo(h) ==
  /\ pc[h] = "i_listo"
  /\ m_isInitialized' = TRUE
  /\ Seguir(h, "i_fin")
  /\ UNCHANGED <<sdk, m_deviceHandle, m_dbCacheHandle, m_imageBuffer>>

IniSalir(h) ==
  /\ pc[h] = "i_fin" /\ Retornar(h)
  /\ UNCHANGED <<sdk, miembros>>

-------------------------------------------------------------------------------
(* Sensor::closeSensor, with the GIL too.  init_sensor follows.            *)

(* Mutant: a driver that is not up is closed all the same.                 *)
CerEntrarSiempre(h) ==
  /\ pc[h] = "cer" /\ gil = Nadie
  /\ gil' = h /\ Ir(h, "c_free")
  /\ UNCHANGED <<conectado, sdk, miembros, initLock, captureLock, op, locales>>

CerEntrar(h) ==
  /\ pc[h] = "cer" /\ gil = Nadie
  /\ IF m_isInitialized
     THEN gil' = h /\ Ir(h, "c_free")
     ELSE UNCHANGED gil /\ Ir(h, "ini")
  /\ UNCHANGED <<conectado, sdk, miembros, initLock, captureLock, op, locales>>

DBFree(h) ==
  /\ pc[h] = "c_free"
  /\ vivos' = vivos \ {m_dbCacheHandle}
  /\ contenido' = RamVacia
  /\ m_dbCacheHandle' = Nulo
  /\ Seguir(h, "c_disp")
  /\ UNCHANGED <<zkfp, m_deviceHandle, m_imageBuffer, m_isInitialized>>

CloseDevice(h) ==
  /\ pc[h] = "c_disp"
  /\ vivos' = vivos \ {m_deviceHandle}
  /\ m_deviceHandle' = Nulo
  /\ Seguir(h, "c_term")
  /\ UNCHANGED <<zkfp, contenido, m_dbCacheHandle, m_imageBuffer, m_isInitialized>>

Terminate(h) ==
  /\ pc[h] = "c_term"
  /\ m_imageBuffer' = FALSE
  /\ zkfp' = zkfp - 1
  /\ m_isInitialized' = FALSE
  /\ Ir(h, "ini") /\ gil' = Nadie
  /\ UNCHANGED <<conectado, vivos, contenido, m_deviceHandle, m_dbCacheHandle,
                 initLock, captureLock, op, locales>>

-------------------------------------------------------------------------------
(* Sensor::captureCreateTemplate, without the GIL, until its deadline.     *)

(* What identificar_usuario does with a failed capture: init_sensor.       *)
Fallar(h) ==
  IF op[h] = "identificar" THEN Seguir(h, "ini") ELSE Volver(h) /\ UNCHANGED gil

Tomar(h) ==
  /\ pc[h] = "tomar"
  /\ IF m_isInitialized /\ m_imageBuffer
     THEN /\ plazo' = [plazo EXCEPT ![h] = Plazo]
          /\ Ir(h, "t_plazo")
          /\ UNCHANGED <<conectado, candados, op, manejo>>
     ELSE Fallar(h)
  /\ UNCHANGED <<sdk, miembros>>

(* while (now < deadline)                                                  *)
VerPlazo(h) ==
  /\ pc[h] = "t_plazo"
  /\ IF plazo[h] > 0
     THEN /\ manejo' = [manejo EXCEPT ![h] = m_deviceHandle]
          /\ Ir(h, "t_sdk")
          /\ UNCHANGED <<conectado, candados, op, plazo>>
     ELSE Fallar(h)
  /\ UNCHANGED <<sdk, miembros>>

(* ZKFPM_AcquireFingerprint answers: a template, if there is a reader,     *)
(* which identificar_usuario and capturar_y_identificar look up and        *)
(* capturar_plantilla returns; or any error, after which the loop sleeps.  *)
Acquire(h) ==
  /\ pc[h] = "t_sdk"
  /\ \/ conectado /\ Seguir(h, "buscar")
     \/ conectado /\ op[h] = "capturar" /\ Volver(h) /\ UNCHANGED gil
     \/ Seguir(h, "t_dormir")
  /\ UNCHANGED <<sdk, miembros>>

(* Mutant of the loop: the deadline is counted again in each turn.         *)
DormirRenueva(h) ==
  /\ pc[h] = "t_dormir"
  /\ plazo' = [plazo EXCEPT ![h] = Plazo]
  /\ Ir(h, "t_plazo")
  /\ UNCHANGED <<conectado, sdk, miembros, candados, op, manejo>>

Dormir(h) ==
  /\ pc[h] = "t_dormir"
  /\ Seguir(h, "t_plazo")
  /\ UNCHANGED <<sdk, miembros>>

(* DBAdd and DBIdentify check the driver and then use the cache handle.    *)
UsarCache(h, desde, hacia) ==
  /\ pc[h] = desde
  /\ IF m_isInitialized /\ m_dbCacheHandle # Nulo
     THEN /\ manejo' = [manejo EXCEPT ![h] = m_dbCacheHandle]
          /\ Ir(h, hacia)
          /\ UNCHANGED <<conectado, candados, op, plazo>>
     ELSE Volver(h) /\ UNCHANGED gil
  /\ UNCHANGED <<sdk, miembros>>

(* ZKFPM_DBAdd refuses a user id that the cache holds.                     *)
DBAdd(h, u, f) ==
  /\ pc[h] = "a_sdk"
  /\ contenido' = IF contenido[u] = SinHuella
                  THEN [contenido EXCEPT ![u] = f] ELSE contenido
  /\ Volver(h)
  /\ UNCHANGED <<zkfp, vivos, miembros, gil>>

DBIdentify(h) ==
  /\ pc[h] = "s_sdk"
  /\ Volver(h)
  /\ UNCHANGED <<sdk, miembros, gil>>

-------------------------------------------------------------------------------
Usb ==
  /\ conectado' = ~conectado
  /\ UNCHANGED <<sdk, miembros, candados, pc, op, locales>>

(* Time passes for every capture in its loop.                              *)
Tic ==
  /\ plazo' = [h \in Hilos |-> IF plazo[h] > 0 THEN plazo[h] - 1 ELSE 0]
  /\ plazo' # plazo
  /\ UNCHANGED <<conectado, sdk, miembros, candados, pc, op, manejo>>

EnInitSensor(h) ==
  \/ IniEntrar(h) \/ ZkInit(h) \/ ContarEquipos(h) \/ OpenDevice(h)
  \/ CaptureParams(h) \/ DBInit(h) \/ Listo(h) \/ IniSalir(h)

EnCloseSensor(h) == CerEntrar(h) \/ DBFree(h) \/ CloseDevice(h) \/ Terminate(h)

EnCaptura(h) ==
  \/ Tomar(h) \/ VerPlazo(h) \/ Acquire(h) \/ Dormir(h)

EnCache(h) ==
  \/ UsarCache(h, "agregar", "a_sdk") \/ UsarCache(h, "buscar", "s_sdk")
  \/ DBIdentify(h) \/ \E u \in Usuarios, f \in Huellas : DBAdd(h, u, f)

Paso(h) == EnInitSensor(h) \/ EnCloseSensor(h) \/ EnCaptura(h) \/ EnCache(h)

Next ==
  \/ \E h \in Hilos : Paso(h) \/ \E o \in Operaciones : Entrar(h, o)
  \/ Usb \/ Tic

Spec == Init /\ [][Next]_vars

(* Threads run, the SDK answers, the clock advances, and CPython hands the *)
(* GIL over to a thread that keeps asking for it.                          *)
FairSpec ==
  /\ Spec
  /\ WF_vars(Tic)
  /\ \A h \in Hilos : /\ WF_vars(Paso(h))
                      /\ SF_vars(IniEntrar(h)) /\ SF_vars(CerEntrar(h))

-------------------------------------------------------------------------------
(* No failure path of initSensor and no interleaving of two of them leaks  *)
(* a handle or a ZKFPM_Init: whenever nobody is inside init or close, the  *)
(* SDK is up exactly when the flag says so, once, with exactly the two     *)
(* handles the object remembers (Sensor.cpp:41-89, 101-120).               *)
SinFugas ==
  (\A h \in Hilos : pc[h] \notin EnInit \cup EnClose) =>
     /\ m_imageBuffer = m_isInitialized
     /\ zkfp = IF m_isInitialized THEN 1 ELSE 0
     /\ vivos = {m_deviceHandle, m_dbCacheHandle} \ {Nulo}
     /\ Cardinality(vivos) = IF m_isInitialized THEN 2 ELSE 0

(* A call of the SDK that runs without the GIL (sensorWrapper.cpp:14,     *)
(* 32, 41) uses a handle that stays alive until it returns, although other *)
(* threads open and close the reader meanwhile.                            *)
ManejoVivo == \A h \in Hilos : pc[h] \in EnSDK => manejo[h] \in vivos

(* Every call into the driver comes back: a capture by its deadline        *)
(* (Sensor.cpp:199-222), an init or a close although it waits for the GIL. *)
TodaLlamadaVuelve == \A h \in Hilos : pc[h] # "libre" ~> pc[h] = "libre"

(* The object seen from outside.  Between freeing the cache and the flag   *)
(* it counts as closed already; an unplugging that happens after the       *)
(* device was opened shows when init_sensor returns.                       *)
Abierto == m_isInitialized /\ m_dbCacheHandle # Nulo

S == INSTANCE Sensor WITH
       conectado <- conectado \/ \E h \in Hilos :
                      pc[h] \in {"i_params", "i_db", "i_listo", "i_fin"},
       inicializado <- Abierto,
       ram <- IF Abierto THEN contenido ELSE RamVacia

(* The methods of the object behave as the atomic ones that HuellaService  *)
(* is modelled with: the flag and the templates change together, db_add    *)
(* only reaches an open cache, and a TRUE from init_sensor means an empty  *)
(* cache on a reader that answered (Sensor.cpp:27-148).                    *)
ImplementaSensor == S!SensorSpec

===============================================================================
