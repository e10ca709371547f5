-------------------------- MODULE HuellaService_proofs ------------------------
(***************************************************************************)
(* Theorems about HuellaService for every set of threads, students and     *)
(* templates, every assignment of operations to threads and every          *)
(* environment, checked by TLAPS.                                          *)
(***************************************************************************)
EXTENDS HuellaService, TLAPS

-------------------------------------------------------------------------------
(* Type correctness.                                                       *)

(* Some points belong to some operations only: the callers of inicializar  *)
(* decide where its answer leads, only the handlers of a student upsert.   *)
Corresponde(l, o) ==
  /\ l \in {"ini", "ini_sdk"} => o \in {"arranque", "status", "acceso", "editar"}
  /\ l \in {"up_leer", "up_commit"} => o \in {"enrolar", "editar"}
  /\ l \in {"vi", "gb", "gb_sdk"} => o = "vincular"

(* Between the capture, or the request, and the last use of the template.  *)
ConMuestra == {"up_leer", "up_commit", "vi", "gb", "gb_sdk"}

OperacionCoherente ==
  \A h \in Hilos :
    /\ Corresponde(pc[h], op[h])
    /\ pc[h] \in ConMuestra => muestra[h] \in Huellas
    /\ op[h] \in ConUsuario /\ pc[h] # "libre" => uid[h] \in Usuarios

(* The type invariant split by who owns the state.                         *)
LocalesOK ==
  /\ pc \in [Hilos -> Puntos]
  /\ op \in [Hilos -> Operaciones]
  /\ uid \in [Hilos -> Usuarios \cup {Nadie}]
  /\ muestra \in [Hilos -> Plantillas]
  /\ leida \in [Hilos -> Plantillas]
  /\ pend \in [Hilos -> [Usuarios -> Plantillas]]
  /\ cuenta \in [Hilos -> SUBSET {"cargada", "fallida"}]
  /\ res \in [Hilos -> Resultados]
  /\ OperacionCoherente

CompartidoOK ==
  /\ sqlite \in [Usuarios -> Plantillas]
  /\ huerfanas \subseteq Huellas
  /\ initLock \in Hilos \cup {Nadie}
  /\ captureLock \in Hilos \cup {Nadie}
  /\ huellasCargadas \in BOOLEAN

Tipos == SensorTypeOK /\ CompartidoOK /\ LocalesOK

LEMMA TiposImplicaTypeOK == Tipos => TypeOK
  BY DEF Tipos, TypeOK, LocalesOK, CompartidoOK

LEMMA RamVaciaTipo == RamVacia \in [Usuarios -> Plantillas]
  BY DEF RamVacia, Plantillas

LEMMA TiposInit == Init => Tipos
  <1> SUFFICES ASSUME Init PROVE Tipos
    OBVIOUS
  <1> USE ConstantesOK, RamVaciaTipo
  <1>1. SensorTypeOK
    BY DEF Init, SensorInit, SensorTypeOK
  <1>2. pc \in [Hilos -> Puntos] /\ OperacionCoherente
    BY DEF Init, ProcesoNuevo, PcInicial, OperacionCoherente, Corresponde, ConMuestra,
           ConUsuario, Puntos, SinCandado
  <1>3. /\ op \in [Hilos -> Operaciones]
        /\ uid \in [Hilos -> Usuarios \cup {Nadie}]
        /\ muestra \in [Hilos -> Plantillas]
        /\ leida \in [Hilos -> Plantillas]
    BY DEF Init, ProcesoNuevo, Plantillas, Operaciones
  <1>4. /\ pend \in [Hilos -> [Usuarios -> Plantillas]]
        /\ cuenta \in [Hilos -> SUBSET {"cargada", "fallida"}]
        /\ res \in [Hilos -> Resultados]
    BY DEF Init, ProcesoNuevo, Resultados
  <1>5. /\ sqlite \in [Usuarios -> Plantillas]
        /\ huerfanas \subseteq Huellas
        /\ initLock \in Hilos \cup {Nadie}
        /\ captureLock \in Hilos \cup {Nadie}
        /\ huellasCargadas \in BOOLEAN
    BY DEF Init, ProcesoNuevo
  <1> QED
    BY <1>1, <1>2, <1>3, <1>4, <1>5 DEF Tipos, LocalesOK, CompartidoOK

(* Returning, or moving to another point of the same operation, keeps the  *)
(* state of the threads well typed.                                        *)
LEMMA TerminarTipo ==
  ASSUME LocalesOK, NEW h \in Hilos, NEW r \in Resultados, Terminar(h, r)
  PROVE  LocalesOK'
  <1>1. /\ pc' \in [Hilos -> Puntos]
        /\ op' \in [Hilos -> Operaciones]
        /\ res' \in [Hilos -> Resultados]
        /\ OperacionCoherente'
    BY DEF Terminar, Ir, LocalesOK, OperacionCoherente, Corresponde, ConMuestra, Puntos, SinCandado
  <1>2. /\ uid' \in [Hilos -> Usuarios \cup {Nadie}]
        /\ muestra' \in [Hilos -> Plantillas]
        /\ leida' \in [Hilos -> Plantillas]
        /\ cuenta' \in [Hilos -> SUBSET {"cargada", "fallida"}]
    BY DEF Terminar, LocalesOK, Plantillas
  <1>3. pend' \in [Hilos -> [Usuarios -> Plantillas]]
    BY RamVaciaTipo DEF Terminar, LocalesOK
  <1> QED
    BY <1>1, <1>2, <1>3 DEF LocalesOK

LEMMA SeguirTipo ==
  ASSUME LocalesOK, NEW h \in Hilos, NEW l \in Puntos,
         pc[h] # "libre", Corresponde(l, op[h]),
         l \in ConMuestra => pc[h] \in ConMuestra, Seguir(h, l)
  PROVE  LocalesOK'
  BY DEF Seguir, Ir, LocalesOK, OperacionCoherente, Corresponde, ConMuestra, locales

(* The driver's operations keep the driver well typed.                     *)
LEMMA InitSensorTipo ==
  ASSUME SensorTypeOK, NEW e \in BOOLEAN, InitSensor(e), UNCHANGED conectado
  PROVE  SensorTypeOK'
  BY RamVaciaTipo DEF SensorTypeOK, InitSensor, RamVacia

LEMMA CloseSensorTipo ==
  ASSUME SensorTypeOK, CloseSensor, UNCHANGED conectado
  PROVE  SensorTypeOK'
  BY RamVaciaTipo DEF SensorTypeOK, CloseSensor, RamVacia

LEMMA DBAddTipo ==
  ASSUME SensorTypeOK, NEW u, NEW p \in Plantillas, DBAdd(u, p),
         UNCHANGED <<conectado, inicializado>>
  PROVE  SensorTypeOK'
  BY DEF SensorTypeOK, DBAdd, AceptaDBAdd, RamVacia

LEMMA SensorQuieto ==
  ASSUME SensorTypeOK, UNCHANGED sensorVars
  PROVE  SensorTypeOK'
  BY DEF SensorTypeOK, sensorVars, RamVacia

LEMMA TiposLlamar ==
  ASSUME Tipos, NEW h \in Hilos, NEW o \in Operaciones,
         NEW u \in Usuarios \cup {Nadie}, NEW f \in Plantillas, Llamar(h, o, u, f)
  PROVE  Tipos'
  <1>1. SensorTypeOK'
    BY SensorQuieto DEF Tipos, Llamar
  <1>2. CompartidoOK'
    BY DEF Tipos, CompartidoOK, Llamar, tabla, candados
  <1>3. LocalesOK'
    <2>1. Entrada(o) \in Puntos
      BY ConstantesOK DEF Llamar, Entrada, Puntos, SinCandado, Operaciones
    <2>2. /\ Corresponde(Entrada(o), o)
          /\ Entrada(o) \in ConMuestra => o = "vincular"
      BY ConstantesOK DEF Llamar, Entrada, Corresponde, ConMuestra, Operaciones
    <2>3. /\ pc'[h] = Entrada(o) /\ op'[h] = o
          /\ uid'[h] = u /\ muestra'[h] = f
          /\ \A k \in Hilos \ {h} : /\ pc'[k] = pc[k] /\ op'[k] = op[k]
                                   /\ uid'[k] = uid[k] /\ muestra'[k] = muestra[k]
      BY DEF Llamar, Ir, Tipos, LocalesOK
    <2>4. /\ o \in ConUsuario => u \in Usuarios
          /\ o = "vincular" => f \in Huellas
      BY DEF Llamar
    <2>5. OperacionCoherente'
      <3>1. ASSUME NEW k \in Hilos, k # h
            PROVE  /\ Corresponde(pc'[k], op'[k])
                   /\ pc'[k] \in ConMuestra => muestra'[k] \in Huellas
                   /\ op'[k] \in ConUsuario /\ pc'[k] # "libre" => uid'[k] \in Usuarios
        BY <2>3, <3>1 DEF Tipos, LocalesOK, OperacionCoherente
      <3>2. /\ Corresponde(pc'[h], op'[h])
            /\ pc'[h] \in ConMuestra => muestra'[h] \in Huellas
            /\ op'[h] \in ConUsuario /\ pc'[h] # "libre" => uid'[h] \in Usuarios
        BY <2>2, <2>3, <2>4
      <3> QED
        BY <3>1, <3>2 DEF OperacionCoherente, Corresponde
    <2> QED
      BY <2>1, <2>5 DEF Llamar, Ir, Tipos, LocalesOK, Resultados
  <1> QED
    BY <1>1, <1>2, <1>3 DEF Tipos

LEMMA TiposTomarInit ==
  ASSUME Tipos, NEW h \in Hilos, TomarInit(h)
  PROVE  Tipos'
  <1>1. SensorTypeOK'
    BY SensorQuieto DEF Tipos, TomarInit
  <1>2. CompartidoOK'
    BY DEF Tipos, CompartidoOK, TomarInit, tabla, candados
  <1>3. LocalesOK'
    BY SeguirTipo DEF TomarInit, TrasInit, EsperaInit, Tipos, LocalesOK, OperacionCoherente,
           Corresponde, ConMuestra, Puntos, TieneInit
  <1> QED
    BY <1>1, <1>2, <1>3 DEF Tipos

LEMMA TiposTomarCaptura ==
  ASSUME Tipos, NEW h \in Hilos, TomarCaptura(h)
  PROVE  Tipos'
  <1>1. SensorTypeOK'
    BY SensorQuieto DEF Tipos, TomarCaptura
  <1>2. CompartidoOK'
    BY DEF Tipos, CompartidoOK, TomarCaptura, tabla, candados
  <1>3. LocalesOK'
    BY SeguirTipo DEF TomarCaptura, TrasCaptura, EsperaCaptura, Tipos, LocalesOK, OperacionCoherente,
           Corresponde, ConMuestra, Puntos, TieneCaptura
  <1> QED
    BY <1>1, <1>2, <1>3 DEF Tipos

LEMMA TiposInicializar ==
  ASSUME Tipos, NEW h \in Hilos, NEW exito \in BOOLEAN, Inicializar(h, exito)
  PROVE  Tipos'
  <1>1. SensorTypeOK'
    BY InitSensorTipo DEF Tipos, Inicializar
  <1>2. CompartidoOK'
    BY DEF Tipos, CompartidoOK, Inicializar, tabla, candados
  <1>3. LocalesOK'
    <2>1. op[h] \in {"arranque", "status", "acceso", "editar"}
      BY DEF Inicializar, Tipos, LocalesOK, OperacionCoherente, Corresponde
    <2> QED
      BY <2>1, SeguirTipo, TerminarTipo
      DEF Inicializar, Tipos, Corresponde, ConMuestra, Puntos, SinCandado, Resultados
  <1> QED
    BY <1>1, <1>2, <1>3 DEF Tipos

LEMMA TiposConsultarFlag ==
  ASSUME Tipos, NEW h \in Hilos, ConsultarFlag(h)
  PROVE  Tipos'
  <1>1. SensorTypeOK'
    BY SensorQuieto DEF Tipos, ConsultarFlag
  <1>2. CompartidoOK'
    BY DEF Tipos, CompartidoOK, ConsultarFlag, tabla, candados
  <1>3. LocalesOK'
    BY SeguirTipo, TerminarTipo DEF ConsultarFlag, Tipos, Corresponde, ConMuestra, Puntos, SinCandado, TieneInit, TieneCaptura, Resultados
  <1> QED
    BY <1>1, <1>2, <1>3 DEF Tipos

LEMMA TiposVerificarOcupado ==
  ASSUME Tipos, NEW h \in Hilos, VerificarOcupado(h)
  PROVE  Tipos'
  <1>1. SensorTypeOK'
    BY SensorQuieto DEF Tipos, VerificarOcupado
  <1>2. CompartidoOK'
    BY DEF Tipos, CompartidoOK, VerificarOcupado, tabla, candados
  <1>3. LocalesOK'
    BY TerminarTipo DEF VerificarOcupado, Tipos, Resultados
  <1> QED
    BY <1>1, <1>2, <1>3 DEF Tipos

LEMMA TiposVerificarCierra ==
  ASSUME Tipos, NEW h \in Hilos, VerificarCierra(h)
  PROVE  Tipos'
  <1>1. SensorTypeOK'
    BY CloseSensorTipo DEF Tipos, VerificarCierra
  <1>2. CompartidoOK'
    BY DEF Tipos, CompartidoOK, VerificarCierra, tabla, candados
  <1>3. LocalesOK'
    BY SeguirTipo DEF VerificarCierra, Tipos, Corresponde, ConMuestra, Puntos, SinCandado, TieneInit, TieneCaptura
  <1> QED
    BY <1>1, <1>2, <1>3 DEF Tipos

LEMMA TiposVerificarAbre ==
  ASSUME Tipos, NEW h \in Hilos, NEW exito \in BOOLEAN, VerificarAbre(h, exito)
  PROVE  Tipos'
  <1>1. SensorTypeOK'
    BY InitSensorTipo DEF Tipos, VerificarAbre
  <1>2. CompartidoOK'
    BY DEF Tipos, CompartidoOK, VerificarAbre, tabla, candados
  <1>3. LocalesOK'
    BY SeguirTipo, TerminarTipo DEF VerificarAbre, Tipos, Corresponde, ConMuestra, Puntos, SinCandado, TieneInit, TieneCaptura, Resultados
  <1> QED
    BY <1>1, <1>2, <1>3 DEF Tipos

LEMMA TiposCapturar ==
  ASSUME Tipos, NEW h \in Hilos, NEW f \in Huellas, Capturar(h, f)
  PROVE  Tipos'
  <1>1. SensorTypeOK'
    BY SensorQuieto DEF Tipos, Capturar
  <1>2. CompartidoOK'
    BY DEF Tipos, CompartidoOK, Capturar, tabla, candados
  <1>3. LocalesOK'
    BY DEF Capturar, Ir, Tipos, LocalesOK, OperacionCoherente, Corresponde, ConMuestra, Plantillas,
           Puntos, SinCandado, TieneCaptura
  <1> QED
    BY <1>1, <1>2, <1>3 DEF Tipos

LEMMA TiposCapturaFallida ==
  ASSUME Tipos, NEW h \in Hilos, CapturaFallida(h)
  PROVE  Tipos'
  <1>1. SensorTypeOK'
    BY SensorQuieto DEF Tipos, CapturaFallida
  <1>2. CompartidoOK'
    BY DEF Tipos, CompartidoOK, CapturaFallida, tabla, candados
  <1>3. LocalesOK'
    BY SeguirTipo, TerminarTipo DEF CapturaFallida, Tipos, Corresponde, ConMuestra, Puntos, SinCandado, TieneInit, TieneCaptura, Resultados
  <1> QED
    BY <1>1, <1>2, <1>3 DEF Tipos

LEMMA TiposDistinguirFallo ==
  ASSUME Tipos, NEW h \in Hilos, NEW exito \in BOOLEAN, DistinguirFallo(h, exito)
  PROVE  Tipos'
  <1>1. SensorTypeOK'
    BY InitSensorTipo DEF Tipos, DistinguirFallo
  <1>2. CompartidoOK'
    BY DEF Tipos, CompartidoOK, DistinguirFallo, tabla, candados
  <1>3. LocalesOK'
    BY SeguirTipo, TerminarTipo DEF DistinguirFallo, Tipos, Corresponde, ConMuestra, Puntos, SinCandado, TieneInit, TieneCaptura, Resultados
  <1> QED
    BY <1>1, <1>2, <1>3 DEF Tipos

LEMMA TiposIdentificar ==
  ASSUME Tipos, NEW h \in Hilos, Identificar(h)
  PROVE  Tipos'
  <1>1. SensorTypeOK'
    BY SensorQuieto DEF Tipos, Identificar
  <1>2. CompartidoOK'
    BY DEF Tipos, CompartidoOK, Identificar, tabla, candados
  <1>3. LocalesOK'
    BY TerminarTipo DEF Identificar, Tipos, Resultados
  <1> QED
    BY <1>1, <1>2, <1>3 DEF Tipos

LEMMA TiposUpsertLeer ==
  ASSUME Tipos, NEW h \in Hilos, UpsertLeer(h)
  PROVE  Tipos'
  <1>1. SensorTypeOK'
    BY SensorQuieto DEF Tipos, UpsertLeer
  <1>2. CompartidoOK'
    BY DEF Tipos, CompartidoOK, UpsertLeer, tabla, candados
  <1>3. LocalesOK'
    <2>1. uid[h] \in Usuarios
      BY DEF UpsertLeer, Tipos, LocalesOK, OperacionCoherente, Corresponde, ConUsuario
    <2> QED
      BY <2>1 DEF UpsertLeer, Ir, Tipos, LocalesOK, CompartidoOK,
                 OperacionCoherente, Corresponde, ConMuestra, Puntos, SinCandado
  <1> QED
    BY <1>1, <1>2, <1>3 DEF Tipos

LEMMA TiposUpsertCommit ==
  ASSUME Tipos, NEW h \in Hilos, UpsertCommit(h)
  PROVE  Tipos'
  <1>1. SensorTypeOK'
    BY SensorQuieto DEF Tipos, UpsertCommit
  <1>2. CompartidoOK'
    BY DEF Tipos, CompartidoOK, UpsertCommit, tabla, candados, LocalesOK,
           OperacionCoherente, ConMuestra
  <1>3. LocalesOK'
    BY SeguirTipo DEF UpsertCommit, Tipos, Corresponde, ConMuestra, Puntos, SinCandado, TieneInit, TieneCaptura
  <1> QED
    BY <1>1, <1>2, <1>3 DEF Tipos

LEMMA TiposUpsertFalla ==
  ASSUME Tipos, NEW h \in Hilos, UpsertFalla(h)
  PROVE  Tipos'
  <1>1. SensorTypeOK'
    BY SensorQuieto DEF Tipos, UpsertFalla
  <1>2. CompartidoOK'
    BY DEF Tipos, CompartidoOK, UpsertFalla, tabla, candados
  <1>3. LocalesOK'
    BY TerminarTipo DEF UpsertFalla, Tipos, Resultados
  <1> QED
    BY <1>1, <1>2, <1>3 DEF Tipos

LEMMA TiposVincularCommit ==
  ASSUME Tipos, NEW h \in Hilos, VincularCommit(h)
  PROVE  Tipos'
  <1>1. SensorTypeOK'
    BY SensorQuieto DEF Tipos, VincularCommit
  <1>2. CompartidoOK'
    BY DEF Tipos, CompartidoOK, VincularCommit, tabla, candados, LocalesOK
  <1>3. LocalesOK'
    BY SeguirTipo DEF VincularCommit, Tipos, LocalesOK, OperacionCoherente,
           Corresponde, ConMuestra, Puntos, SinCandado, TieneInit, TieneCaptura
  <1> QED
    BY <1>1, <1>2, <1>3 DEF Tipos

LEMMA TiposVincularFalla ==
  ASSUME Tipos, NEW h \in Hilos, VincularFalla(h)
  PROVE  Tipos'
  <1>1. SensorTypeOK'
    BY SensorQuieto DEF Tipos, VincularFalla
  <1>2. CompartidoOK'
    BY DEF Tipos, CompartidoOK, VincularFalla, tabla, candados
  <1>3. LocalesOK'
    BY TerminarTipo DEF VincularFalla, Tipos, Resultados
  <1> QED
    BY <1>1, <1>2, <1>3 DEF Tipos

LEMMA TiposGuardarEnBD ==
  ASSUME Tipos, NEW h \in Hilos, GuardarEnBD(h)
  PROVE  Tipos'
  <1>1. SensorTypeOK'
    BY DBAddTipo DEF Tipos, LocalesOK, GuardarEnBD
  <1>2. CompartidoOK'
    BY DEF Tipos, CompartidoOK, GuardarEnBD, tabla, candados
  <1>3. LocalesOK'
    BY SeguirTipo, TerminarTipo DEF GuardarEnBD, Tipos, Corresponde, ConMuestra, Puntos, SinCandado, TieneInit, TieneCaptura, Resultados
  <1> QED
    BY <1>1, <1>2, <1>3 DEF Tipos

LEMMA TiposRefrescarCierra ==
  ASSUME Tipos, NEW h \in Hilos, RefrescarCierra(h)
  PROVE  Tipos'
  <1>1. SensorTypeOK'
    BY CloseSensorTipo DEF Tipos, RefrescarCierra
  <1>2. CompartidoOK'
    BY DEF Tipos, CompartidoOK, RefrescarCierra, tabla, candados
  <1>3. LocalesOK'
    BY SeguirTipo DEF RefrescarCierra, Tipos, Corresponde, ConMuestra, Puntos, SinCandado, TieneInit, TieneCaptura
  <1> QED
    BY <1>1, <1>2, <1>3 DEF Tipos

LEMMA TiposRefrescarAbre ==
  ASSUME Tipos, NEW h \in Hilos, NEW exito \in BOOLEAN, RefrescarAbre(h, exito)
  PROVE  Tipos'
  <1>1. SensorTypeOK'
    BY InitSensorTipo DEF Tipos, RefrescarAbre
  <1>2. CompartidoOK'
    BY DEF Tipos, CompartidoOK, RefrescarAbre, tabla, candados
  <1>3. LocalesOK'
    BY SeguirTipo, TerminarTipo DEF RefrescarAbre, Tipos, Corresponde, ConMuestra, Puntos, SinCandado, TieneInit, TieneCaptura, Resultados
  <1> QED
    BY <1>1, <1>2, <1>3 DEF Tipos

LEMMA TiposCargarLeer ==
  ASSUME Tipos, NEW h \in Hilos, CargarLeer(h)
  PROVE  Tipos'
  <1>1. SensorTypeOK'
    BY SensorQuieto DEF Tipos, CargarLeer
  <1>2. CompartidoOK'
    BY DEF Tipos, CompartidoOK, CargarLeer, tabla, candados
  <1>3. LocalesOK'
    BY DEF CargarLeer, Ir, Tipos, LocalesOK, CompartidoOK, OperacionCoherente, Corresponde, ConMuestra,
           Puntos, SinCandado
  <1> QED
    BY <1>1, <1>2, <1>3 DEF Tipos

LEMMA TiposCargarUna ==
  ASSUME Tipos, NEW h \in Hilos, NEW u \in Usuarios, CargarUna(h, u)
  PROVE  Tipos'
  <1>1. SensorTypeOK'
    BY DBAddTipo DEF Tipos, LocalesOK, CargarUna
  <1>2. CompartidoOK'
    BY DEF Tipos, CompartidoOK, CargarUna, tabla, candados
  <1>3. LocalesOK'
    BY DEF CargarUna, Tipos, LocalesOK, OperacionCoherente, Corresponde, ConMuestra, Plantillas
  <1> QED
    BY <1>1, <1>2, <1>3 DEF Tipos

LEMMA TiposCargarSuelta ==
  ASSUME Tipos, NEW h \in Hilos, CargarSuelta(h)
  PROVE  Tipos'
  <1>1. SensorTypeOK'
    BY SensorQuieto DEF Tipos, CargarSuelta
  <1>2. CompartidoOK'
    BY DEF Tipos, CompartidoOK, CargarSuelta, tabla, candados
  <1>3. LocalesOK'
    BY SeguirTipo DEF CargarSuelta, Tipos, Corresponde, ConMuestra, Puntos, SinCandado, TieneInit, TieneCaptura
  <1> QED
    BY <1>1, <1>2, <1>3 DEF Tipos

LEMMA TiposCargarMarca ==
  ASSUME Tipos, NEW h \in Hilos, CargarMarca(h)
  PROVE  Tipos'
  <1>1. SensorTypeOK'
    BY SensorQuieto DEF Tipos, CargarMarca
  <1>2. CompartidoOK'
    BY DEF Tipos, CompartidoOK, CargarMarca, tabla, candados
  <1>3. LocalesOK'
    BY TerminarTipo DEF CargarMarca, Tipos, Resultados
  <1> QED
    BY <1>1, <1>2, <1>3 DEF Tipos
LEMMA TiposExterno ==
  ASSUME Tipos, Externo
  PROVE  Tipos'
  <1>1. CASE Usb
    BY <1>1 DEF Usb, Tipos, SensorTypeOK, RamVacia, CompartidoOK, LocalesOK,
                OperacionCoherente, tabla, candados, locales
  <1>2. CASE EliminarTodos
    BY <1>2, RamVaciaTipo, SensorQuieto
    DEF EliminarTodos, Tipos, CompartidoOK, LocalesOK, OperacionCoherente, candados, locales
  <1>3. CASE Reinicio
    <2>1. SensorTypeOK'
      BY <1>3, CloseSensorTipo DEF Reinicio, Tipos
    <2>2. CompartidoOK'
      BY <1>3 DEF Reinicio, Tipos, CompartidoOK, tabla
    <2>3. pc' \in [Hilos -> Puntos] /\ OperacionCoherente'
      BY <1>3 DEF Reinicio, PcInicial, OperacionCoherente, Corresponde, ConMuestra,
                  ConUsuario, Puntos, SinCandado
    <2>4. /\ op' \in [Hilos -> Operaciones]
          /\ uid' \in [Hilos -> Usuarios \cup {Nadie}]
          /\ muestra' \in [Hilos -> Plantillas]
          /\ leida' \in [Hilos -> Plantillas]
      BY <1>3 DEF Reinicio, Plantillas, Operaciones
    <2>5. /\ pend' \in [Hilos -> [Usuarios -> Plantillas]]
          /\ cuenta' \in [Hilos -> SUBSET {"cargada", "fallida"}]
          /\ res' \in [Hilos -> Resultados]
      BY <1>3, RamVaciaTipo DEF Reinicio, Resultados
    <2> QED
      BY <2>1, <2>2, <2>3, <2>4, <2>5 DEF Tipos, LocalesOK
  <1>4. ASSUME NEW u \in Usuarios, EliminarUsuario(u)
        PROVE  Tipos'
    BY <1>4, SensorQuieto
    DEF EliminarUsuario, Tipos, CompartidoOK, LocalesOK, OperacionCoherente,
        Plantillas, candados, locales
  <1>5. ASSUME NEW u \in Usuarios, NEW f \in Huellas, SyncImport(u, f)
        PROVE  Tipos'
    BY <1>5, SensorQuieto
    DEF SyncImport, Tipos, CompartidoOK, LocalesOK, OperacionCoherente,
        Plantillas, candados, locales
  <1> QED
    BY <1>1, <1>2, <1>3, <1>4, <1>5 DEF Externo

LEMMA TiposPaso ==
  ASSUME Tipos, NEW h \in Hilos, Paso(h)
  PROVE  Tipos'
  BY TiposTomarInit, TiposTomarCaptura, TiposInicializar, TiposConsultarFlag,
     TiposVerificarOcupado, TiposVerificarCierra, TiposVerificarAbre,
     TiposCapturar, TiposCapturaFallida, TiposDistinguirFallo, TiposIdentificar,
     TiposUpsertLeer, TiposUpsertCommit, TiposUpsertFalla, TiposVincularCommit,
     TiposVincularFalla, TiposGuardarEnBD, TiposRefrescarCierra,
     TiposRefrescarAbre, TiposCargarLeer, TiposCargarUna, TiposCargarSuelta,
     TiposCargarMarca
  DEF Paso

LEMMA TiposStutter ==
  ASSUME Tipos, UNCHANGED vars
  PROVE  Tipos'
  BY SensorQuieto DEF vars, Tipos, CompartidoOK, LocalesOK, OperacionCoherente,
                      sensorVars, tabla, candados, locales

LEMMA TiposInvariante == Spec => []Tipos
  <1>1. Tipos /\ [Next]_vars => Tipos'
    BY TiposPaso, TiposLlamar, TiposExterno, TiposStutter DEF Next, Llegada
  <1> QED
    BY <1>1, TiposInit, PTL DEF Spec

(* Every reachable state is well typed, and a driver that is not           *)
(* initialized has no cache.                                               *)
THEOREM TypeOKInvariante == Spec => []TypeOK
  BY TiposInvariante, TiposImplicaTypeOK, PTL

-------------------------------------------------------------------------------
(* The locks.  A step moves one thread; what matters is whether the points *)
(* before and after are inside the section of each lock.                   *)

LEMMA CandadosQuietos ==
  ASSUME Tipos, CandadosCoherentes, NEW h \in Hilos, NEW l, Ir(h, l), UNCHANGED candados,
         (l \in TieneInit) <=> (pc[h] \in TieneInit),
         (l \in TieneCaptura) <=> (pc[h] \in TieneCaptura)
  PROVE  CandadosCoherentes'
  BY DEF Tipos, LocalesOK, CandadosCoherentes, Ir, candados

LEMMA CapturaSoltada ==
  ASSUME Tipos, CandadosCoherentes, NEW h \in Hilos, NEW l, Ir(h, l),
         pc[h] \in TieneCaptura, l \notin TieneCaptura, captureLock' = Nadie,
         (l \in TieneInit) <=> (pc[h] \in TieneInit), UNCHANGED initLock
  PROVE  CandadosCoherentes'
  BY ConstantesOK DEF Tipos, LocalesOK, CandadosCoherentes, Ir

LEMMA InitSoltado ==
  ASSUME Tipos, CandadosCoherentes, NEW h \in Hilos, NEW l, Ir(h, l),
         pc[h] \in TieneInit, l \notin TieneInit, initLock' = Nadie,
         (l \in TieneCaptura) <=> (pc[h] \in TieneCaptura), UNCHANGED captureLock
  PROVE  CandadosCoherentes'
  BY ConstantesOK DEF Tipos, LocalesOK, CandadosCoherentes, Ir

LEMMA AmbosSoltados ==
  ASSUME Tipos, CandadosCoherentes, NEW h \in Hilos, NEW l, Ir(h, l),
         pc[h] \in TieneInit, pc[h] \in TieneCaptura,
         l \notin TieneInit, l \notin TieneCaptura,
         initLock' = Nadie, captureLock' = Nadie
  PROVE  CandadosCoherentes'
  BY ConstantesOK DEF Tipos, LocalesOK, CandadosCoherentes, Ir

LEMMA CandadosPaso ==
  ASSUME Tipos, CandadosCoherentes, NEW h \in Hilos, Paso(h)
  PROVE  CandadosCoherentes'
  <1> USE DEF TieneInit, TieneCaptura, Seguir, Terminar
  <1>1. CASE TomarInit(h)
    BY <1>1, ConstantesOK DEF TomarInit, TrasInit, EsperaInit, Ir, CandadosCoherentes, Tipos, LocalesOK
  <1>2. CASE TomarCaptura(h)
    BY <1>2, ConstantesOK DEF TomarCaptura, TrasCaptura, EsperaCaptura, Ir, CandadosCoherentes, Tipos, LocalesOK
  <1>3. CASE ConsultarFlag(h)
    BY <1>3, CandadosQuietos DEF ConsultarFlag, candados
  <1>4. CASE VerificarOcupado(h)
    BY <1>4, CandadosQuietos DEF VerificarOcupado, candados
  <1>5. CASE VerificarCierra(h)
    BY <1>5, CandadosQuietos DEF VerificarCierra, candados
  <1>6. CASE UpsertLeer(h)
    BY <1>6, CandadosQuietos DEF UpsertLeer, candados
  <1>7. CASE UpsertCommit(h)
    BY <1>7, CandadosQuietos DEF UpsertCommit, candados
  <1>8. CASE UpsertFalla(h)
    BY <1>8, CandadosQuietos DEF UpsertFalla, candados
  <1>9. CASE VincularCommit(h)
    BY <1>9, CandadosQuietos DEF VincularCommit, candados
  <1>10. CASE VincularFalla(h)
    BY <1>10, CandadosQuietos DEF VincularFalla, candados
  <1>11. CASE RefrescarCierra(h)
    BY <1>11, CandadosQuietos DEF RefrescarCierra, candados
  <1>12. CASE CargarLeer(h)
    BY <1>12, CandadosQuietos DEF CargarLeer, candados
  <1>13. CASE CargarMarca(h)
    BY <1>13, CandadosQuietos DEF CargarMarca, candados
  <1>14. ASSUME NEW exito \in BOOLEAN, Inicializar(h, exito)
        PROVE  CandadosCoherentes'
    <2>1. op[h] \in {"arranque", "status", "acceso", "editar"}
      BY <1>14 DEF Inicializar, Tipos, LocalesOK, OperacionCoherente, Corresponde
    <2> QED
      BY <1>14, <2>1, InitSoltado DEF Inicializar
  <1>15. ASSUME NEW exito \in BOOLEAN, VerificarAbre(h, exito)
        PROVE  CandadosCoherentes'
    BY <1>15, AmbosSoltados DEF VerificarAbre
  <1>16. ASSUME NEW exito \in BOOLEAN, RefrescarAbre(h, exito)
        PROVE  CandadosCoherentes'
    BY <1>16, AmbosSoltados DEF RefrescarAbre
  <1>17. ASSUME NEW exito \in BOOLEAN, DistinguirFallo(h, exito)
        PROVE  CandadosCoherentes'
    BY <1>17, CapturaSoltada DEF DistinguirFallo
  <1>18. ASSUME NEW f \in Huellas, Capturar(h, f)
        PROVE  CandadosCoherentes'
    BY <1>18, CapturaSoltada, CandadosQuietos DEF Capturar, candados
  <1>19. CASE CapturaFallida(h)
    BY <1>19, CapturaSoltada, CandadosQuietos DEF CapturaFallida, candados
  <1>20. CASE Identificar(h)
    BY <1>20, CapturaSoltada DEF Identificar
  <1>21. CASE GuardarEnBD(h)
    BY <1>21, CapturaSoltada DEF GuardarEnBD
  <1>22. CASE CargarSuelta(h)
    BY <1>22, CapturaSoltada DEF CargarSuelta
  <1>23. ASSUME NEW u \in Usuarios, CargarUna(h, u)
        PROVE  CandadosCoherentes'
    BY <1>23 DEF CargarUna, CandadosCoherentes, candados
  <1> QED
    BY <1>1, <1>2, <1>3, <1>4, <1>5, <1>6, <1>7, <1>8, <1>9, <1>10, <1>11,
       <1>12, <1>13, <1>14, <1>15, <1>16, <1>17, <1>18, <1>19, <1>20, <1>21, <1>22, <1>23 DEF Paso

LEMMA CandadosNext ==
  ASSUME Tipos, CandadosCoherentes, [Next]_vars
  PROVE  CandadosCoherentes'
  <1>1. ASSUME NEW h \in Hilos, NEW o \in Operaciones,
               NEW u \in Usuarios \cup {Nadie}, NEW f \in Plantillas, Llamar(h, o, u, f)
        PROVE  CandadosCoherentes'
    BY <1>1, CandadosQuietos, ConstantesOK
    DEF Llamar, Entrada, Operaciones, TieneInit, TieneCaptura
  <1>2. CASE Reinicio
    BY <1>2, ConstantesOK DEF Reinicio, PcInicial, CandadosCoherentes, TieneInit, TieneCaptura
  <1>3. CASE Usb \/ EliminarTodos
    BY <1>3 DEF Usb, EliminarTodos, CandadosCoherentes, candados
  <1>4. ASSUME NEW u \in Usuarios,
               EliminarUsuario(u) \/ \E f \in Huellas : SyncImport(u, f)
        PROVE  CandadosCoherentes'
    BY <1>4 DEF EliminarUsuario, SyncImport, CandadosCoherentes, candados
  <1>5. CASE UNCHANGED vars
    BY <1>5 DEF vars, CandadosCoherentes, candados
  <1> QED
    BY <1>1, <1>2, <1>3, <1>4, <1>5, CandadosPaso DEF Next, Llegada, Externo

(* The locks are held exactly inside the sections they protect, whatever   *)
(* the number of threads and whatever each of them is asked to do.         *)
THEOREM CandadosInvariante == Spec => []CandadosCoherentes
  <1>1. Init => CandadosCoherentes
    BY ConstantesOK
    DEF Init, ProcesoNuevo, PcInicial, CandadosCoherentes, TieneInit, TieneCaptura
  <1> QED
    BY <1>1, CandadosNext, TiposInvariante, PTL DEF Spec

-------------------------------------------------------------------------------
(* Only three steps close the driver.  verificar and refrescar hold        *)
(* capture_lock when they do, and so nobody else is inside an SDK call.    *)

LEMMA CierreConCaptura ==
  ASSUME Tipos, CandadosCoherentes, [Next]_vars, inicializado, ~inicializado'
  PROVE  Reinicio \/ \A h \in Hilos : pc[h] \notin EnSDK
  <1> SUFFICES ASSUME ~Reinicio PROVE \A h \in Hilos : pc[h] \notin EnSDK
    OBVIOUS
  <1>1. PICK c \in Hilos : VerificarCierra(c) \/ RefrescarCierra(c)
    <2>1. ASSUME NEW h \in Hilos, Paso(h)
          PROVE  VerificarCierra(h) \/ RefrescarCierra(h)
      BY <2>1
      DEF Paso, TomarInit, TomarCaptura, Inicializar, VerificarAbre, RefrescarAbre,
          DistinguirFallo, InitSensor, ConsultarFlag, VerificarOcupado, Capturar,
          CapturaFallida, Identificar, UpsertLeer, UpsertCommit, UpsertFalla,
          VincularCommit, VincularFalla, GuardarEnBD, CargarLeer, CargarSuelta,
          CargarMarca, CargarUna, sensorVars
    <2> QED
      BY <2>1 DEF Next, Llegada, Llamar, Externo, Usb, EliminarTodos,
                  EliminarUsuario, SyncImport, sensorVars, vars
  <1>2. pc[c] \in {"vf_close", "rf_close"}
    BY <1>1 DEF VerificarCierra, RefrescarCierra
  <1> QED
    BY <1>2 DEF CandadosCoherentes, TieneCaptura, EnSDK

(* No step but the death of the process closes the driver while a thread   *)
(* is inside a capture, an identification or a db_add.                     *)
THEOREM SinCierre == Spec => SinCierreDuranteSDK
  <1>1. Tipos /\ CandadosCoherentes /\ [Next]_vars
          => [(inicializado /\ ~inicializado') =>
                \/ \A h \in Hilos : pc[h] \notin EnSDK
                \/ Reinicio]_vars
    BY CierreConCaptura
  <1> QED
    BY <1>1, TiposInvariante, CandadosInvariante, PTL DEF Spec, SinCierreDuranteSDK

-------------------------------------------------------------------------------
(* SQLite before RAM, when nobody deletes rows.  The invariant follows a   *)
(* template on its way: what a load still has to add, and what vincular is *)
(* about to add, is already in the table.                                  *)

SinBorrados == "eliminar" \notin Entorno /\ "eliminar_todos" \notin Entorno

Guardada(u) == sqlite[u] # SinHuella

Respaldo ==
  /\ RamRespaldada
  /\ \A h \in Hilos, u \in Usuarios : pend[h][u] # SinHuella => Guardada(u)
  /\ \A h \in Hilos : pc[h] \in {"gb", "gb_sdk"} => Guardada(uid[h])

LEMMA RespaldoInit == Init => Respaldo
  BY DEF Init, SensorInit, ProcesoNuevo, PcInicial, Respaldo, RamRespaldada, RamVacia

(* No step but a deletion empties a row.                                   *)
LEMMA TablaCrece ==
  ASSUME SinBorrados, Tipos, [Next]_vars, NEW u \in Usuarios, Guardada(u)
  PROVE  Guardada(u)'
  <1>1. ASSUME NEW h \in Hilos, Paso(h)
        PROVE  Guardada(u)'
    <2>1. CASE UpsertCommit(h) \/ VincularCommit(h)
      <3>1. muestra[h] \in Huellas
        BY <2>1 DEF UpsertCommit, VincularCommit, Tipos, LocalesOK,
                    OperacionCoherente, ConMuestra
      <3> QED
        BY <2>1, <3>1, SinHuellaNoEsHuella
        DEF UpsertCommit, VincularCommit, Guardada, Tipos, CompartidoOK
    <2>2. CASE ~(UpsertCommit(h) \/ VincularCommit(h))
      <3>1. UNCHANGED sqlite
        BY <1>1, <2>2
        DEF Paso, TomarInit, TomarCaptura, Inicializar, VerificarAbre, RefrescarAbre,
            DistinguirFallo, ConsultarFlag, VerificarOcupado, VerificarCierra,
            Capturar, CapturaFallida, Identificar, UpsertLeer, UpsertFalla,
            VincularFalla, GuardarEnBD, RefrescarCierra, CargarLeer, CargarSuelta,
            CargarMarca, CargarUna, tabla
      <3> QED
        BY <3>1 DEF Guardada
    <2> QED
      BY <2>1, <2>2
  <1>2. CASE Externo
    BY <1>2, SinHuellaNoEsHuella
    DEF Externo, SinBorrados, Usb, EliminarTodos, EliminarUsuario, Reinicio,
        SyncImport, tabla, Guardada, Tipos, CompartidoOK
  <1>3. CASE Llegada \/ UNCHANGED vars
    BY <1>3 DEF Llegada, Llamar, vars, tabla, Guardada
  <1> QED
    BY <1>1, <1>2, <1>3 DEF Next

(* A step that neither starts a load, nor commits vincular, nor adds to    *)
(* the RAM needs only that rows are kept.                                  *)
LEMMA RespaldoSeConserva ==
  ASSUME SinBorrados, Tipos, Respaldo, [Next]_vars, NEW h \in Hilos, NEW l, Ir(h, l),
         l = "gb_sdk" => pc[h] = "gb", l # "gb",
         l = "gb_sdk" => uid' = uid,
         \A k \in Hilos \ {h} : uid'[k] = uid[k],
         \A k \in Hilos : pend'[k] = pend[k] \/ pend'[k] = RamVacia,
         ram' = ram \/ ram' = RamVacia
  PROVE  Respaldo'
  <1>1. RamRespaldada'
    BY TablaCrece DEF Respaldo, RamRespaldada, Guardada, RamVacia
  <1>2. \A k \in Hilos, u \in Usuarios : pend'[k][u] # SinHuella => Guardada(u)'
    BY TablaCrece DEF Respaldo, RamVacia
  <1>3. ASSUME NEW k \in Hilos, pc'[k] \in {"gb", "gb_sdk"}
        PROVE  sqlite'[uid'[k]] # SinHuella
    <2>1. pc[k] \in {"gb", "gb_sdk"} /\ uid'[k] = uid[k]
      BY <1>3 DEF Ir, Tipos, LocalesOK
    <2>2. uid[k] \in Usuarios /\ Guardada(uid[k])
      BY <2>1 DEF Respaldo, Tipos, LocalesOK, OperacionCoherente, Corresponde, ConUsuario
    <2> QED
      BY <2>1, <2>2, TablaCrece DEF Guardada
  <1> QED
    BY <1>1, <1>2, <1>3 DEF Respaldo, Guardada

LEMMA RespaldoPaso ==
  ASSUME SinBorrados, Tipos, Respaldo, [Next]_vars, NEW h \in Hilos, Paso(h)
  PROVE  Respaldo'
  <1> USE DEF Seguir, Terminar, Tipos, LocalesOK
  <1>1. CASE TomarInit(h)
    BY <1>1, RespaldoSeConserva DEF TomarInit, TrasInit, EsperaInit, sensorVars, locales
  <1>2. CASE TomarCaptura(h)
    BY <1>2, RespaldoSeConserva DEF TomarCaptura, TrasCaptura, EsperaCaptura, sensorVars, locales
  <1>3. ASSUME NEW exito \in BOOLEAN, Inicializar(h, exito)
        PROVE  Respaldo'
    <2>1. op[h] \in {"arranque", "status", "acceso", "editar"}
      BY <1>3 DEF Inicializar, OperacionCoherente, Corresponde
    <2> QED
      BY <1>3, <2>1, RespaldoSeConserva DEF Inicializar, InitSensor, locales
  <1>4. ASSUME NEW exito \in BOOLEAN, VerificarAbre(h, exito)
        PROVE  Respaldo'
    BY <1>4, RespaldoSeConserva DEF VerificarAbre, InitSensor, locales
  <1>5. ASSUME NEW exito \in BOOLEAN, RefrescarAbre(h, exito)
        PROVE  Respaldo'
    BY <1>5, RespaldoSeConserva DEF RefrescarAbre, InitSensor, locales
  <1>6. ASSUME NEW exito \in BOOLEAN, DistinguirFallo(h, exito)
        PROVE  Respaldo'
    BY <1>6, RespaldoSeConserva DEF DistinguirFallo, InitSensor, locales
  <1>7. CASE ConsultarFlag(h)
    BY <1>7, RespaldoSeConserva DEF ConsultarFlag, sensorVars, locales
  <1>8. CASE VerificarOcupado(h)
    BY <1>8, RespaldoSeConserva DEF VerificarOcupado, sensorVars, locales
  <1>9. CASE VerificarCierra(h)
    BY <1>9, RespaldoSeConserva DEF VerificarCierra, sensorVars, locales, CloseSensor
  <1>10. CASE RefrescarCierra(h)
    BY <1>10, RespaldoSeConserva DEF RefrescarCierra, sensorVars, locales, CloseSensor
  <1>11. ASSUME NEW f \in Huellas, Capturar(h, f)
        PROVE  Respaldo'
    BY <1>11, RespaldoSeConserva DEF Capturar, sensorVars
  <1>12. CASE CapturaFallida(h)
    BY <1>12, RespaldoSeConserva DEF CapturaFallida, sensorVars, locales
  <1>13. CASE Identificar(h)
    BY <1>13, RespaldoSeConserva DEF Identificar, sensorVars, locales
  <1>14. CASE UpsertLeer(h)
    BY <1>14, RespaldoSeConserva DEF UpsertLeer, sensorVars, locales
  <1>15. CASE UpsertCommit(h)
    BY <1>15, RespaldoSeConserva DEF UpsertCommit, sensorVars, locales
  <1>16. CASE UpsertFalla(h)
    BY <1>16, RespaldoSeConserva DEF UpsertFalla, sensorVars, locales
  <1>17. CASE VincularFalla(h)
    BY <1>17, RespaldoSeConserva DEF VincularFalla, sensorVars, locales
  <1>18. CASE CargarSuelta(h)
    BY <1>18, RespaldoSeConserva DEF CargarSuelta, sensorVars, locales
  <1>19. CASE CargarMarca(h)
    BY <1>19, RespaldoSeConserva DEF CargarMarca, sensorVars, locales
  <1>20. CASE VincularCommit(h)
    <2>1. uid[h] \in Usuarios /\ muestra[h] \in Huellas
      BY <1>20 DEF VincularCommit, OperacionCoherente, Corresponde, ConUsuario, ConMuestra
    <2>2. \A k \in Hilos : pc'[k] \in {"gb", "gb_sdk"} => Guardada(uid[k])'
      <3>1. Guardada(uid[h])'
        BY <1>20, <2>1, SinHuellaNoEsHuella DEF VincularCommit, Guardada, CompartidoOK, locales
      <3>2. ASSUME NEW k \in Hilos, k # h, pc'[k] \in {"gb", "gb_sdk"}
            PROVE  Guardada(uid[k])'
        <4>1. pc[k] \in {"gb", "gb_sdk"} /\ uid'[k] = uid[k]
          BY <1>20, <3>2 DEF VincularCommit, Ir, locales
        <4>2. uid[k] \in Usuarios /\ Guardada(uid[k])
          BY <4>1 DEF Respaldo, OperacionCoherente, Corresponde, ConUsuario
        <4> QED
          BY <4>1, <4>2, TablaCrece DEF Guardada
      <3> QED
        BY <3>1, <3>2
    <2>3. RamRespaldada'
      BY <1>20, TablaCrece DEF VincularCommit, Respaldo, RamRespaldada, Guardada, sensorVars
    <2> QED
      BY <1>20, <2>2, <2>3, TablaCrece DEF VincularCommit, Respaldo, locales
  <1>21. CASE GuardarEnBD(h)
    <2>1. uid[h] \in Usuarios /\ Guardada(uid[h])
      BY <1>21 DEF GuardarEnBD, Respaldo, OperacionCoherente, Corresponde, ConUsuario
    <2>2. UNCHANGED sqlite
      BY <1>21 DEF GuardarEnBD, tabla
    <2>3. RamRespaldada'
      BY <1>21, <2>1, <2>2 DEF GuardarEnBD, DBAdd, Respaldo, RamRespaldada, Guardada, SensorTypeOK
    <2>4. \A k \in Hilos, u \in Usuarios : pend'[k][u] # SinHuella => Guardada(u)'
      <3>1. \A k \in Hilos : pend'[k] = pend[k] \/ pend'[k] = RamVacia
        BY <1>21 DEF GuardarEnBD, Terminar, Seguir, locales
      <3>2. ASSUME NEW k \in Hilos, NEW u \in Usuarios, pend'[k][u] # SinHuella
            PROVE  Guardada(u)'
        <4>1. RamVacia[u] = SinHuella
          BY DEF RamVacia
        <4>2. pend[k][u] # SinHuella
          BY <3>1, <3>2, <4>1
        <4>3. Guardada(u)
          BY <4>2 DEF Respaldo
        <4> QED
          BY <2>2, <4>3 DEF Guardada
      <3> QED
        BY <3>2
    <2>5. \A k \in Hilos : pc'[k] \in {"gb", "gb_sdk"} => Guardada(uid[k])'
      BY <1>21, <2>2 DEF GuardarEnBD, Ir, Respaldo, Guardada, locales
    <2> QED
      BY <2>3, <2>4, <2>5 DEF Respaldo
  <1>22. CASE CargarLeer(h)
    <2>1. UNCHANGED <<sqlite, ram>>
      BY <1>22 DEF CargarLeer, tabla, sensorVars
    <2>2. \A k \in Hilos, u \in Usuarios : pend'[k][u] # SinHuella => Guardada(u)'
      BY <1>22, <2>1 DEF CargarLeer, Respaldo, Guardada
    <2>3. \A k \in Hilos : pc'[k] \in {"gb", "gb_sdk"} => Guardada(uid[k])'
      BY <1>22, <2>1 DEF CargarLeer, Ir, Respaldo, Guardada
    <2> QED
      BY <2>1, <2>2, <2>3 DEF Respaldo, RamRespaldada
  <1>23. ASSUME NEW u \in Usuarios, CargarUna(h, u)
        PROVE  Respaldo'
    <2>1. UNCHANGED <<sqlite, pc, uid>> /\ Guardada(u)
      BY <1>23 DEF CargarUna, tabla, Respaldo
    <2>2. RamRespaldada'
      BY <1>23, <2>1 DEF CargarUna, DBAdd, Respaldo, RamRespaldada, Guardada, SensorTypeOK
    <2>3. \A k \in Hilos, v \in Usuarios : pend'[k][v] # SinHuella => Guardada(v)'
      BY <1>23, <2>1 DEF CargarUna, Respaldo, Guardada
    <2> QED
      BY <2>1, <2>2, <2>3 DEF Respaldo, Guardada
  <1> QED
    BY <1>1, <1>2, <1>3, <1>4, <1>5, <1>6, <1>7, <1>8, <1>9, <1>10, <1>11,
       <1>12, <1>13, <1>14, <1>15, <1>16, <1>17, <1>18, <1>19, <1>20, <1>21, <1>22, <1>23 DEF Paso

LEMMA RespaldoNext ==
  ASSUME SinBorrados, Tipos, Respaldo, [Next]_vars
  PROVE  Respaldo'
  <1>1. ASSUME NEW h \in Hilos, NEW o \in Operaciones,
               NEW u \in Usuarios \cup {Nadie}, NEW f \in Plantillas, Llamar(h, o, u, f)
        PROVE  Respaldo'
    BY <1>1, RespaldoSeConserva, ConstantesOK
    DEF Llamar, Entrada, Operaciones, Tipos, LocalesOK, sensorVars
  <1>2. CASE Reinicio
    BY <1>2 DEF Reinicio, CloseSensor, PcInicial, Respaldo, RamRespaldada, RamVacia
  <1>3. CASE Externo /\ ~Reinicio
    <2>1. UNCHANGED <<ram, pc, uid, pend>>
      BY <1>3 DEF Externo, SinBorrados, Usb, EliminarTodos, EliminarUsuario,
                  SyncImport, sensorVars, locales
    <2>2. \A h \in Hilos : pc[h] \in {"gb", "gb_sdk"} => uid[h] \in Usuarios
      BY DEF Tipos, LocalesOK, OperacionCoherente, Corresponde, ConUsuario
    <2> QED
      BY <2>1, <2>2, TablaCrece DEF Respaldo, RamRespaldada, Guardada
  <1>4. CASE UNCHANGED vars
    BY <1>4 DEF vars, Respaldo, RamRespaldada, Guardada, sensorVars, tabla, locales
  <1> QED
    BY <1>1, <1>2, <1>3, <1>4, RespaldoPaso DEF Next, Llegada

(* While nobody deletes fingerprints, every template that the reader holds *)
(* belongs to a student whose fingerprint is in SQLite: a crash or a       *)
(* failed commit never leaves an active finger that a restart would lose.  *)
THEOREM RespaldoInvariante ==
  ASSUME SinBorrados
  PROVE  Spec => []RamRespaldada
  <1>1. Tipos /\ Respaldo /\ [Next]_vars => Respaldo'
    BY RespaldoNext
  <1>2. Respaldo => RamRespaldada
    BY DEF Respaldo
  <1> QED
    BY <1>1, <1>2, RespaldoInit, TiposInvariante, PTL DEF Spec

-------------------------------------------------------------------------------
(* The RAM follows the table, when a single thread writes: the others only *)
(* identify and ask for the state.  Nobody deletes, no other totem writes, *)
(* and the reader neither fails nor is unplugged; commits may fail and the *)
(* process may die at any step.                                            *)

Lectoras == {"status", "acceso", "identificar", "capturar_identificar"}

UnEscritor(e) ==
  /\ e \in Hilos \ {Principal}
  /\ \A h \in Hilos \ {Principal, e} : OperacionesDe[h] \subseteq Lectoras
  /\ Entorno \subseteq {"fallo_sqlite", "reinicio"}

PuntosLectora ==
  {"libre", "ini", "ini_sdk", "st_flag", "id", "cap_sdk", "id_fallo", "id_db"}

PuntosArranque == {"libre", "ini", "ini_sdk", "cg_leer", "cg_lock", "cg_add", "cg_flag"}

(* lifespan is alone while it loads, and afterwards only e leaves the      *)
(* points of an identification.                                            *)
Reparto(e) ==
  /\ \A h \in Hilos \ {Principal} : pc[h] # "libre" => op[h] \in OperacionesDe[h]
  /\ \A h \in Hilos \ {Principal, e} : pc[h] \in PuntosLectora
  /\ pc[Principal] \in PuntosArranque /\ op[Principal] = "arranque"
  /\ pc[Principal] # "libre" => \A h \in Hilos \ {Principal} : pc[h] = "libre"

Abriendo == {"vf_open", "rf_open"}

(* The driver is down only before lifespan opens it and between the close  *)
(* and the init of e; the flag stays set, so that nobody else loads.       *)
Encendido(e) ==
  /\ conectado /\ huerfanas = {}
  /\ pc[Principal] = "libre" => huellasCargadas
  /\ inicializado <=> (pc[Principal] \notin {"ini", "ini_sdk"} /\ pc[e] \notin Abriendo)

(* What a load, or the db_add of vincular, has still to bring, at each     *)
(* point, is what the RAM lacks of the table.                              *)
Cargando(c) ==
  /\ pc[c] \in {"cg_leer", "cg_lock"} => ram = RamVacia
  /\ pc[c] = "cg_lock" => pend[c] = sqlite
  /\ pc[c] \in {"cg_lock", "cg_add", "cg_flag"} => "fallida" \notin cuenta[c]
  /\ pc[c] = "cg_add" =>
       \A u \in Usuarios : \/ pend[c][u] = SinHuella /\ ram[u] = sqlite[u]
                           \/ pend[c][u] = sqlite[u] /\ ram[u] = SinHuella
  /\ pc[c] \in {"gb", "gb_sdk"} => sqlite = [ram EXCEPT ![uid[c]] = muestra[c]]

Contenido(e) ==
  /\ Cargando(Principal) /\ Cargando(e)
  /\ (inicializado /\ pc[Principal] \notin Recargando /\ pc[e] \notin Recargando)
       => ram = sqlite

AlDia(e) ==
  Tipos /\ CandadosCoherentes /\ Reparto(e) /\ Encendido(e) /\ Contenido(e)

LEMMA AlDiaNuevo ==
  ASSUME NEW e, UnEscritor(e), conectado, huerfanas = {}, inicializado = FALSE,
         ram = RamVacia, ProcesoNuevo
  PROVE  Reparto(e) /\ Encendido(e) /\ Contenido(e)
  BY ConstantesOK
  DEF UnEscritor, ProcesoNuevo, PcInicial, Reparto, PuntosLectora, PuntosArranque,
      Encendido, Abriendo, Contenido, Cargando, Recargando

(* Where a step of a thread leads.                                         *)
LEMMA RepartoPaso ==
  ASSUME NEW e, UnEscritor(e), Tipos, Reparto(e), NEW h \in Hilos, pc[h] # "libre",
         NEW l, Ir(h, l), UNCHANGED op,
         h = Principal => l \in PuntosArranque,
         h \notin {Principal, e} => l \in PuntosLectora
  PROVE  Reparto(e)' /\ (h # Principal => pc[Principal] = "libre")
  BY DEF UnEscritor, Reparto, Ir, Tipos, LocalesOK

(* A step outside the loads and the restarts of the driver.                *)
Delicados == Recargando \cup Abriendo \cup {"cg_flag"}

LEMMA AlDiaAjeno ==
  ASSUME NEW e, UnEscritor(e), Tipos, Encendido(e), Contenido(e),
         NEW h \in Hilos \ {Principal}, NEW l, Ir(h, l),
         pc[h] \notin Delicados, l \notin Delicados,
         UNCHANGED <<sensorVars, tabla, huellasCargadas>>,
         \A k \in Hilos \ {h} : /\ uid'[k] = uid[k] /\ muestra'[k] = muestra[k]
                                /\ pend'[k] = pend[k] /\ cuenta'[k] = cuenta[k]
  PROVE  Encendido(e)' /\ Contenido(e)'
  <1>1. /\ e \in Hilos /\ Principal \in Hilos /\ pc' = [pc EXCEPT ![h] = l]
        /\ pc \in [Hilos -> Puntos]
        /\ UNCHANGED <<conectado, inicializado, ram, sqlite, huerfanas, huellasCargadas>>
    BY ConstantesOK DEF UnEscritor, Ir, Tipos, LocalesOK, sensorVars, tabla
  <1>2. pc'[Principal] = pc[Principal] /\ (e # h => pc'[e] = pc[e]) /\ (e = h => pc'[e] = l)
    BY <1>1
  <1>3. Encendido(e)'
    BY <1>1, <1>2 DEF Encendido, Delicados
  <1>4. Cargando(Principal)'
    BY <1>1, <1>2 DEF Contenido, Cargando
  <1>5. Cargando(e)'
    <2>1. CASE e = h
      BY <1>2, <2>1 DEF Cargando, Delicados, Recargando
    <2>2. CASE e # h
      BY <1>1, <1>2, <2>2 DEF Contenido, Cargando
    <2> QED
      BY <2>1, <2>2
  <1> QED
    BY <1>1, <1>2, <1>3, <1>4, <1>5 DEF Contenido, Delicados

(* A step of the thread that loads or refreshes: the other one is idle.    *)
LEMMA AlDiaPropio ==
  ASSUME NEW e, UnEscritor(e), Tipos, Reparto(e), NEW h \in {Principal, e}, pc[h] # "libre",
         NEW l, Ir(h, l), Cargando(h)',
         inicializado' /\ l \notin Recargando => ram' = sqlite'
  PROVE  Contenido(e)'
  <1> DEFINE g == IF h = e THEN Principal ELSE e
  <1>1. g # h /\ g \in Hilos /\ h \in Hilos /\ {g, h} = {Principal, e}
    BY ConstantesOK DEF UnEscritor
  <1>2. pc[g] = "libre"
    BY <1>1 DEF Reparto, UnEscritor
  <1>3. pc'[g] = "libre" /\ pc'[h] = l
    BY <1>1, <1>2 DEF Ir, Tipos, LocalesOK
  <1> HIDE DEF g
  <1>4. Cargando(g)'
    BY <1>3 DEF Cargando
  <1> QED
    BY <1>1, <1>3, <1>4 DEF Contenido, Recargando

(* What is known of a call that is under way.                              *)
LEMMA LlamadaEnCurso ==
  ASSUME NEW e, UnEscritor(e), AlDia(e), NEW h \in Hilos \ {Principal}, pc[h] # "libre"
  PROVE  /\ pc[Principal] = "libre" /\ huellasCargadas
         /\ op[h] \in Operaciones \ {"arranque"}
         /\ h # e => op[h] \in Lectoras /\ pc[h] \in PuntosLectora
         /\ pc[h] \in {"ini_sdk", "id_fallo"} => inicializado
  <1>1. /\ pc[Principal] = "libre" /\ huellasCargadas /\ op[h] \in OperacionesDe[h]
        /\ h # e => pc[h] \in PuntosLectora
    BY DEF AlDia, Reparto, Encendido
  <1>2. op[h] \in Operaciones \ {"arranque"} /\ (h # e => op[h] \in Lectoras)
    BY <1>1, ConstantesOK DEF UnEscritor
  <1>3. pc[h] \in {"ini_sdk", "id_fallo"} => pc[e] \notin Abriendo
    BY DEF AlDia, CandadosCoherentes, TieneInit, TieneCaptura, Abriendo, UnEscritor
  <1> QED
    BY <1>1, <1>2, <1>3 DEF AlDia, Encendido

LEMMA AlDiaInofensivo ==
  ASSUME NEW e, UnEscritor(e), AlDia(e), NEW h \in Hilos \ {Principal}, pc[h] # "libre",
         NEW l, Ir(h, l), pc[h] \notin Delicados, l \notin Delicados, h # e => l \in PuntosLectora,
         UNCHANGED <<sensorVars, tabla, huellasCargadas, op>>,
         \A k \in Hilos \ {h} : /\ uid'[k] = uid[k] /\ muestra'[k] = muestra[k]
                                /\ pend'[k] = pend[k] /\ cuenta'[k] = cuenta[k]
  PROVE  Reparto(e)' /\ Encendido(e)' /\ Contenido(e)' /\ UNCHANGED <<sqlite, ram>>
  BY RepartoPaso, AlDiaAjeno DEF AlDia, sensorVars, tabla

LEMMA AlDiaConsulta ==
  ASSUME NEW e, UnEscritor(e), AlDia(e), NEW h \in Hilos \ {Principal},
         \/ TomarInit(h) /\ pc[h] # "rf_init"
         \/ TomarCaptura(h) /\ pc[h] \in {"vf_capture", "cap", "id"}
         \/ \E exito \in BOOLEAN : Inicializar(h, exito) \/ DistinguirFallo(h, exito)
         \/ ConsultarFlag(h) \/ VerificarOcupado(h)
         \/ \E f \in Huellas : Capturar(h, f)
         \/ CapturaFallida(h) \/ Identificar(h)
         \/ UpsertLeer(h) \/ UpsertFalla(h) \/ VincularFalla(h)
  PROVE  Reparto(e)' /\ Encendido(e)' /\ Contenido(e)' /\ UNCHANGED <<sqlite, ram>>
  <1> USE DEF Delicados, Recargando, Abriendo, PuntosLectora
  <1> DEFINE Meta == Reparto(e)' /\ Encendido(e)' /\ Contenido(e)' /\ UNCHANGED <<sqlite, ram>>
  <1>1. Tipos
    BY DEF AlDia
  <1>2. CASE TomarInit(h) /\ pc[h] # "rf_init"
    <2>1. /\ pc[h] \in {"ini", "vf_init"} /\ Ir(h, TrasInit(pc[h])) /\ TrasInit(pc[h]) \in {"ini_sdk", "vf_close"}
          /\ pc[h] = "ini" => TrasInit(pc[h]) = "ini_sdk"
          /\ UNCHANGED <<sensorVars, tabla, huellasCargadas, op, locales>>
      BY <1>2 DEF TomarInit, EsperaInit, TrasInit, Seguir
    <2>2. h # e => pc[h] = "ini"
      BY <2>1, LlamadaEnCurso
    <2> QED
      BY <2>1, <2>2, AlDiaInofensivo DEF locales
  <1>3. CASE TomarCaptura(h) /\ pc[h] \in {"vf_capture", "cap", "id"}
    <2>1. /\ Ir(h, TrasCaptura(pc[h])) /\ TrasCaptura(pc[h]) \in {"vf_init", "cap_sdk"}
          /\ pc[h] = "id" => TrasCaptura(pc[h]) = "cap_sdk"
          /\ UNCHANGED <<sensorVars, tabla, huellasCargadas, op, locales>>
      BY <1>3 DEF TomarCaptura, TrasCaptura, Seguir
    <2>2. h # e => pc[h] = "id"
      BY <1>3, LlamadaEnCurso
    <2> QED
      BY <1>3, <2>1, <2>2, AlDiaInofensivo DEF locales
  <1>4. ASSUME NEW exito \in BOOLEAN, Inicializar(h, exito)
        PROVE  Meta
    <2>1. /\ pc[h] = "ini_sdk" /\ inicializado /\ huellasCargadas
          /\ op[h] \in {"status", "acceso", "editar"} /\ (h # e => op[h] # "editar")
      BY <1>1, <1>4, LlamadaEnCurso
      DEF Inicializar, Tipos, LocalesOK, OperacionCoherente, Corresponde, Lectoras
    <2>2. exito = TRUE /\ UNCHANGED <<sensorVars, tabla, huellasCargadas>>
      BY <1>4, <2>1 DEF Inicializar, InitSensor, sensorVars
    <2>3. PICK l \in {"st_flag", "id", "cap"} : Seguir(h, l) /\ (h # e => l # "cap")
      BY <1>4, <2>1, <2>2 DEF Inicializar
    <2> QED
      BY <2>1, <2>2, <2>3, AlDiaInofensivo DEF Seguir, locales
  <1>5. ASSUME NEW exito \in BOOLEAN, DistinguirFallo(h, exito)
        PROVE  Meta
    <2>1. pc[h] = "id_fallo" /\ inicializado /\ huellasCargadas
      BY <1>5, LlamadaEnCurso DEF DistinguirFallo
    <2>2. UNCHANGED <<sensorVars, tabla, huellasCargadas>> /\ Terminar(h, "ruido")
      BY <1>5, <2>1 DEF DistinguirFallo, InitSensor, sensorVars
    <2> QED
      BY <1>1, <2>1, <2>2, AlDiaInofensivo DEF Terminar, Tipos, LocalesOK
  <1>6. CASE ConsultarFlag(h)
    BY <1>1, <1>6, LlamadaEnCurso, AlDiaInofensivo DEF ConsultarFlag, Terminar, Tipos, LocalesOK
  <1>7. CASE VerificarOcupado(h)
    BY <1>1, <1>7, AlDiaInofensivo DEF VerificarOcupado, Terminar, Tipos, LocalesOK
  <1>8. ASSUME NEW f \in Huellas, Capturar(h, f)
        PROVE  Meta
    <2>1. pc[h] = "cap_sdk" /\ (h # e => op[h] \notin {"enrolar", "editar"})
      BY <1>8, LlamadaEnCurso DEF Capturar, Lectoras
    <2> QED
      BY <1>1, <1>8, <2>1, AlDiaInofensivo DEF Capturar, Tipos, LocalesOK
  <1>9. CASE CapturaFallida(h)
    BY <1>1, <1>9, AlDiaInofensivo DEF CapturaFallida, Seguir, Terminar, Tipos, LocalesOK, locales
  <1>10. CASE Identificar(h)
    BY <1>1, <1>10, AlDiaInofensivo DEF Identificar, Terminar, Tipos, LocalesOK
  <1>11. CASE UpsertLeer(h)
    BY <1>1, <1>11, LlamadaEnCurso, AlDiaInofensivo DEF UpsertLeer, Tipos, LocalesOK
  <1>12. CASE UpsertFalla(h)
    BY <1>1, <1>12, AlDiaInofensivo DEF UpsertFalla, Terminar, Tipos, LocalesOK
  <1>13. CASE VincularFalla(h)
    BY <1>1, <1>13, AlDiaInofensivo DEF VincularFalla, Terminar, Tipos, LocalesOK
  <1> QED
    BY <1>2, <1>3, <1>4, <1>5, <1>6, <1>7, <1>8, <1>9, <1>10, <1>11, <1>12, <1>13

(* The service seen as a gallery.                                          *)
G == INSTANCE Galeria WITH inscritas <- sqlite, activas <- ram

PasoGaleria == [G!GaleriaNext]_<<sqlite, ram>>

LEMMA GaleriaVacia == G!Vacia = RamVacia
  BY DEF G!Vacia, RamVacia

(* The steps of whoever loads, refreshes or writes.                        *)
Recarga(h) ==
  \/ TomarInit(h) /\ (h = Principal \/ pc[h] = "rf_init")
  \/ TomarCaptura(h) /\ pc[h] \notin {"vf_capture", "cap", "id"}
  \/ h = Principal /\ \E exito \in BOOLEAN : Inicializar(h, exito)
  \/ \E exito \in BOOLEAN : VerificarAbre(h, exito) \/ RefrescarAbre(h, exito)
  \/ VerificarCierra(h) \/ RefrescarCierra(h)
  \/ UpsertCommit(h) \/ VincularCommit(h) \/ GuardarEnBD(h)
  \/ CargarLeer(h) \/ CargarSuelta(h) \/ CargarMarca(h)
  \/ \E u \in Usuarios : CargarUna(h, u)

LEMMA PuntoRecarga ==
  ASSUME NEW h \in Hilos, Recarga(h)
  PROVE  pc[h] \notin {"vf_capture", "cap", "id"} /\ (pc[h] \in {"ini", "vf_init"} => h = Principal)
  <1>1. CASE TomarInit(h) /\ (h = Principal \/ pc[h] = "rf_init")
    BY <1>1 DEF TomarInit, EsperaInit
  <1>2. CASE TomarCaptura(h) /\ pc[h] \notin {"vf_capture", "cap", "id"}
    BY <1>2 DEF TomarCaptura, EsperaCaptura
  <1> QED
    BY <1>1, <1>2
    DEF Recarga, Inicializar, VerificarAbre, RefrescarAbre, VerificarCierra, RefrescarCierra,
        UpsertCommit, VincularCommit, GuardarEnBD, CargarLeer, CargarSuelta, CargarMarca, CargarUna

LEMMA QuienRecarga ==
  ASSUME NEW e, UnEscritor(e), AlDia(e), NEW h \in Hilos, Recarga(h)
  PROVE  /\ h \in {Principal, e} /\ pc[h] # "libre"
         /\ h = Principal => pc[h] \in {"ini", "ini_sdk", "cg_leer", "cg_lock", "cg_add", "cg_flag"}
         /\ h = e => h # Principal /\ pc[Principal] = "libre" /\ huellasCargadas
         /\ inicializado <=> pc[h] \notin Abriendo /\ (h = Principal => pc[h] \notin {"ini", "ini_sdk"})
  <1>1. /\ pc[h] # "libre"
        /\ h = Principal \/ pc[h] \notin PuntosLectora
    BY DEF Recarga, TomarInit, TomarCaptura, EsperaInit, EsperaCaptura, Inicializar,
           VerificarAbre, RefrescarAbre, VerificarCierra, RefrescarCierra, UpsertCommit,
           VincularCommit, GuardarEnBD, CargarLeer, CargarSuelta, CargarMarca, CargarUna,
           PuntosLectora
  <1>2. h \in {Principal, e}
    BY <1>1 DEF AlDia, Reparto
  <1>3. CASE h = Principal
    <2>1. pc[e] = "libre" /\ pc[h] \in PuntosArranque
      BY <1>1, <1>3 DEF AlDia, Reparto, UnEscritor
    <2> QED
      BY <1>1, <1>3, <2>1 DEF AlDia, Encendido, UnEscritor, Abriendo, PuntosArranque
  <1>4. CASE h = e
    <2>1. h # Principal /\ pc[Principal] = "libre"
      BY <1>1, <1>4 DEF AlDia, Reparto, UnEscritor
    <2> QED
      BY <1>1, <1>4, <2>1 DEF AlDia, Encendido
  <1> QED
    BY <1>2, <1>3, <1>4

LEMMA AlDiaRecarga ==
  ASSUME NEW e, UnEscritor(e), AlDia(e), NEW h \in Hilos, Recarga(h),
         NEW l, Ir(h, l), UNCHANGED <<op, conectado, huerfanas>>,
         h = Principal => l \in PuntosArranque,
         huellasCargadas => huellasCargadas', l = "libre" => huellasCargadas',
         inicializado' <=> l \notin Abriendo /\ (h = Principal => l \notin {"ini", "ini_sdk"}),
         Cargando(h)',
         inicializado' /\ l \notin Recargando => ram' = sqlite'
  PROVE  Reparto(e)' /\ Encendido(e)' /\ Contenido(e)'
  <1>1. Tipos /\ Reparto(e) /\ h \in {Principal, e} /\ pc[h] # "libre" /\ Principal \in Hilos /\ e \in Hilos
    BY QuienRecarga, ConstantesOK DEF AlDia, UnEscritor
  <1>2. Reparto(e)'
    BY <1>1, RepartoPaso
  <1>3. Contenido(e)'
    BY <1>1, AlDiaPropio
  <1>4. Encendido(e)'
    <2>1. CASE h = Principal
      <3>1. e # h /\ pc[e] = "libre"
        BY <1>1, <2>1 DEF Reparto, UnEscritor
      <3>2. pc'[e] = "libre" /\ pc'[Principal] = l
        BY <1>1, <2>1, <3>1 DEF Ir, Tipos, LocalesOK
      <3> QED
        BY <2>1, <3>2 DEF AlDia, Encendido, Abriendo, PuntosArranque
    <2>2. CASE h = e
      <3>1. h # Principal /\ pc[Principal] = "libre" /\ huellasCargadas
        BY <2>2, QuienRecarga
      <3>2. pc'[Principal] = "libre" /\ pc'[e] = l
        BY <1>1, <2>2, <3>1 DEF Ir, Tipos, LocalesOK
      <3> QED
        BY <3>1, <3>2 DEF AlDia, Encendido
    <2> QED
      BY <1>1, <2>1, <2>2
  <1> QED
    BY <1>2, <1>3, <1>4

Sigue(e) == Reparto(e)' /\ Encendido(e)' /\ Contenido(e)' /\ PasoGaleria

(* The locks on the way to a load, and the opening of the driver.          *)
LEMMA SigueTomar ==
  ASSUME NEW e, UnEscritor(e), AlDia(e), NEW h \in Hilos, Recarga(h),
         TomarInit(h) \/ TomarCaptura(h)
  PROVE  Sigue(e)
  <1>1. Tipos /\ Contenido(e) /\ h \in {Principal, e}
    BY QuienRecarga DEF AlDia
  <1>2. Cargando(h)
    BY <1>1 DEF Contenido
  <1>3. CASE TomarInit(h)
    <2>1. CASE h = Principal
      <3>1. pc[h] = "ini" /\ Seguir(h, "ini_sdk") /\ ~inicializado
        BY <1>3, <2>1, QuienRecarga DEF TomarInit, EsperaInit, TrasInit, Abriendo
      <3>2. /\ UNCHANGED <<op, conectado, huerfanas, huellasCargadas, inicializado, ram, sqlite>>
            /\ Ir(h, "ini_sdk") /\ pc'[h] = "ini_sdk"
        BY <1>1, <1>3, <3>1 DEF TomarInit, Seguir, Ir, sensorVars, tabla, Tipos, LocalesOK
      <3>3. Cargando(h)'
        BY <3>2 DEF Cargando
      <3> QED
        BY <2>1, <3>1, <3>2, <3>3, AlDiaRecarga
        DEF Sigue, PasoGaleria, PuntosArranque, Abriendo
    <2>2. CASE h # Principal
      <3>1. pc[h] = "rf_init" /\ Seguir(h, "rf_capture") /\ inicializado
        <4>1. pc[h] = "rf_init"
          BY <1>3, <2>2, PuntoRecarga DEF TomarInit, EsperaInit
        <4> QED
          BY <1>3, <2>2, <4>1, QuienRecarga DEF TomarInit, TrasInit, Abriendo
      <3>2. /\ UNCHANGED <<op, conectado, huerfanas, huellasCargadas, inicializado, ram, sqlite>>
            /\ Ir(h, "rf_capture") /\ pc'[h] = "rf_capture"
        BY <1>1, <1>3, <3>1 DEF TomarInit, Seguir, Ir, sensorVars, tabla, Tipos, LocalesOK
      <3>3. Cargando(h)'
        BY <3>2 DEF Cargando
      <3> QED
        BY <2>2, <3>1, <3>2, <3>3, AlDiaRecarga
        DEF Sigue, PasoGaleria, Abriendo, Recargando
    <2> QED
      BY <2>1, <2>2
  <1>4. CASE TomarCaptura(h)
    <2>1. /\ pc[h] \in {"rf_capture", "gb", "cg_lock"} /\ inicializado
          /\ h = Principal => pc[h] = "cg_lock"
      <3>1. pc[h] \in {"rf_capture", "gb", "cg_lock"}
        BY <1>4, PuntoRecarga DEF TomarCaptura, EsperaCaptura
      <3> QED
        BY <3>1, QuienRecarga DEF Abriendo
    <2>2. PICK l \in {"rf_close", "gb_sdk", "cg_add"} :
            /\ l = TrasCaptura(pc[h])
            /\ pc[h] = "cg_lock" <=> l = "cg_add"
            /\ pc[h] = "gb" <=> l = "gb_sdk"
      BY <2>1 DEF TrasCaptura
    <2>3. /\ UNCHANGED <<op, conectado, huerfanas, huellasCargadas, inicializado, ram, sqlite>>
          /\ UNCHANGED locales /\ Ir(h, l) /\ pc'[h] = l
      BY <1>1, <1>4, <2>2 DEF TomarCaptura, Seguir, Ir, sensorVars, tabla, Tipos, LocalesOK
    <2>4. Cargando(h)'
      BY <1>1, <1>2, <2>1, <2>2, <2>3 DEF Cargando, RamVacia, locales
    <2> QED
      BY <2>1, <2>2, <2>3, <2>4, AlDiaRecarga
      DEF Sigue, PasoGaleria, PuntosArranque, Abriendo, Recargando
  <1> QED
    BY <1>3, <1>4

LEMMA SigueAbre ==
  ASSUME NEW e, UnEscritor(e), AlDia(e), NEW h \in Hilos, Recarga(h), NEW exito \in BOOLEAN,
         \/ h = Principal /\ Inicializar(h, exito)
         \/ VerificarAbre(h, exito) \/ RefrescarAbre(h, exito)
  PROVE  Sigue(e)
  <1>1. Tipos /\ h \in {Principal, e} /\ conectado /\ "fallo_sdk" \notin Entorno
    BY QuienRecarga DEF AlDia, Encendido, UnEscritor
  <1>2. /\ ~inicializado /\ InitSensor(exito) /\ exito
        /\ UNCHANGED <<conectado, sqlite, huerfanas>>
    BY <1>1, QuienRecarga DEF Inicializar, VerificarAbre, RefrescarAbre, Abriendo, tabla
  <1>3. Seguir(h, "cg_leer")
    <2>1. CASE h = Principal /\ Inicializar(h, exito)
      BY <1>2, <2>1 DEF Inicializar, AlDia, Reparto
    <2> QED
      BY <1>2, <2>1 DEF VerificarAbre, RefrescarAbre
  <1>4. inicializado' /\ ram' = RamVacia
    BY <1>2 DEF InitSensor
  <1>5. huellasCargadas => huellasCargadas'
    BY <1>2 DEF Inicializar, VerificarAbre, RefrescarAbre
  <1>6. Ir(h, "cg_leer") /\ UNCHANGED op /\ pc'[h] = "cg_leer"
    BY <1>1, <1>3 DEF Seguir, Ir, Tipos, LocalesOK
  <1>7. Cargando(h)'
    BY <1>4, <1>6 DEF Cargando
  <1>8. PasoGaleria
    BY <1>2, <1>4, GaleriaVacia DEF PasoGaleria, G!GaleriaNext, G!Vaciar
  <1> QED
    BY <1>2, <1>4, <1>5, <1>6, <1>7, <1>8, AlDiaRecarga
    DEF Sigue, PuntosArranque, Abriendo, Recargando

LEMMA SigueCierra ==
  ASSUME NEW e, UnEscritor(e), AlDia(e), NEW h \in Hilos, Recarga(h),
         VerificarCierra(h) \/ RefrescarCierra(h)
  PROVE  Sigue(e)
  <1>1. Tipos /\ h # Principal
    BY QuienRecarga DEF AlDia, VerificarCierra, RefrescarCierra
  <1>2. PICK l \in Abriendo : Seguir(h, l)
    BY DEF VerificarCierra, RefrescarCierra, Abriendo
  <1>3. /\ UNCHANGED <<op, conectado, huerfanas, huellasCargadas, sqlite>>
        /\ ~inicializado' /\ ram' = RamVacia /\ Ir(h, l) /\ pc'[h] = l
    BY <1>1, <1>2
    DEF VerificarCierra, RefrescarCierra, CloseSensor, Seguir, Ir, tabla, Tipos, LocalesOK
  <1>4. Cargando(h)'
    BY <1>3 DEF Cargando, Abriendo
  <1>5. PasoGaleria
    BY <1>3, GaleriaVacia DEF PasoGaleria, G!GaleriaNext, G!Vaciar
  <1> QED
    BY <1>1, <1>3, <1>4, <1>5, AlDiaRecarga DEF Sigue, Abriendo

(* What e writes: the two commits, and the db_add of guardar_en_bd.        *)
LEMMA QuienEscribe ==
  ASSUME NEW e, UnEscritor(e), AlDia(e), NEW h \in Hilos, Recarga(h),
         UpsertCommit(h) \/ VincularCommit(h) \/ GuardarEnBD(h)
  PROVE  /\ Tipos /\ h # Principal /\ inicializado /\ huerfanas = {} /\ Cargando(h)
         /\ pc[h] \notin Recargando /\ pc[h] # "cg_flag" => ram = sqlite
         /\ uid[h] \in Usuarios /\ muestra[h] \in Huellas
  <1>1. pc[h] \in {"up_commit", "vi", "gb_sdk"}
    BY DEF UpsertCommit, VincularCommit, GuardarEnBD
  <1>2. /\ Tipos /\ Encendido(e) /\ Contenido(e) /\ h # Principal /\ h = e
        /\ inicializado /\ pc[Principal] = "libre"
    BY <1>1, QuienRecarga DEF AlDia, Abriendo
  <1>3. uid[h] \in Usuarios /\ muestra[h] \in Huellas
    BY <1>1, <1>2
    DEF Tipos, LocalesOK, OperacionCoherente, Corresponde, ConMuestra, ConUsuario
  <1> QED
    BY <1>2, <1>3 DEF Encendido, Contenido, Recargando

LEMMA PasoInscribir ==
  ASSUME NEW u \in Usuarios, NEW f \in Huellas,
         sqlite' = [sqlite EXCEPT ![u] = f], ram' = ram
  PROVE  PasoGaleria
  BY DEF PasoGaleria, G!GaleriaNext, G!Inscribir

LEMMA PasoActivar ==
  ASSUME NEW u \in Usuarios, ram[u] = SinHuella, sqlite[u] # SinHuella,
         ram' = [ram EXCEPT ![u] = sqlite[u]], sqlite' = sqlite
  PROVE  PasoGaleria
  BY DEF PasoGaleria, G!GaleriaNext, G!Activar

LEMMA SigueUpsert ==
  ASSUME NEW e, UnEscritor(e), AlDia(e), NEW h \in Hilos, Recarga(h), UpsertCommit(h)
  PROVE  Sigue(e)
  <1>1. /\ Tipos /\ h # Principal /\ inicializado /\ huerfanas = {}
        /\ uid[h] \in Usuarios /\ muestra[h] \in Huellas
    BY QuienEscribe
  <1>2. /\ sqlite' = [sqlite EXCEPT ![uid[h]] = muestra[h]]
        /\ UNCHANGED <<op, conectado, huerfanas, huellasCargadas, inicializado, ram>>
        /\ Ir(h, "rf_init")
    BY <1>1 DEF UpsertCommit, Seguir, sensorVars
  <1>3. pc'[h] = "rf_init"
    BY <1>1, <1>2 DEF Ir, Tipos, LocalesOK
  <1>4. Cargando(h)'
    BY <1>3 DEF Cargando
  <1>5. PasoGaleria
    BY <1>1, <1>2, PasoInscribir
  <1> QED
    BY <1>1, <1>2, <1>4, <1>5, AlDiaRecarga DEF Sigue, Abriendo, Recargando

LEMMA SigueVincular ==
  ASSUME NEW e, UnEscritor(e), AlDia(e), NEW h \in Hilos, Recarga(h), VincularCommit(h)
  PROVE  Sigue(e)
  <1>1. /\ Tipos /\ h # Principal /\ inicializado /\ huerfanas = {} /\ ram = sqlite
        /\ uid[h] \in Usuarios /\ muestra[h] \in Huellas
    BY QuienEscribe DEF VincularCommit, Recargando
  <1>2. /\ sqlite' = [sqlite EXCEPT ![uid[h]] = muestra[h]] /\ huerfanas' = huerfanas
        /\ UNCHANGED <<op, conectado, huellasCargadas, inicializado, ram, uid, muestra>>
        /\ Ir(h, "gb")
    BY <1>1 DEF VincularCommit, Seguir, sensorVars, locales
  <1>3. pc'[h] = "gb"
    BY <1>1, <1>2 DEF Ir, Tipos, LocalesOK
  <1>4. Cargando(h)'
    BY <1>1, <1>2, <1>3 DEF Cargando
  <1>5. PasoGaleria
    BY <1>1, <1>2, PasoInscribir
  <1> QED
    BY <1>1, <1>2, <1>4, <1>5, AlDiaRecarga DEF Sigue, Abriendo, Recargando

LEMMA SigueGuardar ==
  ASSUME NEW e, UnEscritor(e), AlDia(e), NEW h \in Hilos, Recarga(h), GuardarEnBD(h)
  PROVE  Sigue(e)
  <1>1. /\ Tipos /\ h # Principal /\ inicializado /\ huerfanas = {} /\ Cargando(h)
        /\ uid[h] \in Usuarios /\ muestra[h] \in Huellas /\ pc[h] = "gb_sdk"
    BY QuienEscribe DEF GuardarEnBD
  <1>2. huellasCargadas
    BY <1>1, QuienRecarga
  <1>3. /\ sqlite = [ram EXCEPT ![uid[h]] = muestra[h]]
        /\ ram \in [Usuarios -> Plantillas]
    BY <1>1 DEF Cargando, Tipos, SensorTypeOK
  <1>4. UNCHANGED <<op, conectado, huerfanas, huellasCargadas, inicializado, sqlite>>
    BY DEF GuardarEnBD, Terminar, Seguir, tabla
  <1>5. CASE ram[uid[h]] = SinHuella
    <2>1. Ir(h, "libre") /\ ram' = sqlite
      BY <1>1, <1>3, <1>5 DEF GuardarEnBD, DBAdd, AceptaDBAdd, Terminar
    <2>2. pc'[h] = "libre"
      BY <1>1, <2>1 DEF Ir, Tipos, LocalesOK
    <2>3. Cargando(h)'
      BY <2>2 DEF Cargando
    <2>4. PasoGaleria
      <3>1. sqlite[uid[h]] = muestra[h] /\ muestra[h] # SinHuella
        BY <1>1, <1>3, SinHuellaNoEsHuella
      <3> QED
        BY <1>1, <1>3, <1>4, <1>5, <2>1, <3>1, PasoActivar
    <2> QED
      BY <1>1, <1>2, <1>4, <2>1, <2>3, <2>4, AlDiaRecarga DEF Sigue, Abriendo
  <1>6. CASE ram[uid[h]] # SinHuella
    <2>1. Ir(h, "rf_init") /\ ram' = ram
      BY <1>6 DEF GuardarEnBD, DBAdd, AceptaDBAdd, Seguir
    <2>2. pc'[h] = "rf_init"
      BY <1>1, <2>1 DEF Ir, Tipos, LocalesOK
    <2>3. Cargando(h)'
      BY <2>2 DEF Cargando
    <2>4. PasoGaleria
      BY <1>4, <2>1 DEF PasoGaleria
    <2> QED
      BY <1>1, <1>4, <2>1, <2>3, <2>4, AlDiaRecarga DEF Sigue, Abriendo, Recargando
  <1> QED
    BY <1>5, <1>6

(* The load, step by step.                                                 *)
LEMMA SigueLeer ==
  ASSUME NEW e, UnEscritor(e), AlDia(e), NEW h \in Hilos, Recarga(h), CargarLeer(h)
  PROVE  Sigue(e)
  <1>1. /\ Tipos /\ h \in {Principal, e} /\ Contenido(e) /\ huerfanas = {}
        /\ pc[h] = "cg_leer" /\ inicializado
    BY QuienRecarga DEF AlDia, Encendido, CargarLeer, Abriendo
  <1>2. ram = RamVacia
    BY <1>1 DEF Contenido, Cargando
  <1>3. /\ UNCHANGED <<op, conectado, huerfanas, huellasCargadas, inicializado, ram, sqlite>>
        /\ Ir(h, "cg_lock") /\ pc'[h] = "cg_lock"
        /\ pend'[h] = sqlite /\ cuenta'[h] = {}
    BY <1>1 DEF CargarLeer, Ir, sensorVars, tabla, Tipos, LocalesOK
  <1>4. Cargando(h)'
    BY <1>2, <1>3 DEF Cargando, RamVacia
  <1> QED
    BY <1>1, <1>3, <1>4, AlDiaRecarga
    DEF Sigue, PasoGaleria, PuntosArranque, Abriendo, Recargando

LEMMA SigueUna ==
  ASSUME NEW e, UnEscritor(e), AlDia(e), NEW h \in Hilos, Recarga(h),
         NEW u \in Usuarios, CargarUna(h, u)
  PROVE  Sigue(e)
  <1>1. /\ Tipos /\ h \in {Principal, e} /\ Contenido(e)
        /\ pc[h] = "cg_add" /\ inicializado /\ pend[h][u] # SinHuella
    BY QuienRecarga DEF AlDia, CargarUna, Abriendo
  <1>2. /\ "fallida" \notin cuenta[h]
        /\ \A v \in Usuarios : \/ pend[h][v] = SinHuella /\ ram[v] = sqlite[v]
                               \/ pend[h][v] = sqlite[v] /\ ram[v] = SinHuella
    BY <1>1 DEF Contenido, Cargando
  <1>3. ram[u] = SinHuella /\ sqlite[u] = pend[h][u]
    BY <1>1, <1>2
  <1>4. /\ ram \in [Usuarios -> Plantillas] /\ pend \in [Hilos -> [Usuarios -> Plantillas]]
        /\ cuenta \in [Hilos -> SUBSET {"cargada", "fallida"}]
        /\ pc \in [Hilos -> Puntos]
    BY <1>1 DEF Tipos, LocalesOK, SensorTypeOK
  <1>5. /\ ram' = [ram EXCEPT ![u] = sqlite[u]]
        /\ cuenta'[h] = cuenta[h] \cup {"cargada"}
        /\ pend'[h] = [pend[h] EXCEPT ![u] = SinHuella]
        /\ UNCHANGED <<op, pc, conectado, huerfanas, huellasCargadas, inicializado, sqlite>>
    BY <1>1, <1>3, <1>4 DEF CargarUna, DBAdd, AceptaDBAdd, tabla
  <1>6. Ir(h, "cg_add") /\ pc'[h] = "cg_add"
    BY <1>1, <1>4, <1>5 DEF Ir
  <1>7. \A v \in Usuarios : \/ pend'[h][v] = SinHuella /\ ram'[v] = sqlite[v]
                            \/ pend'[h][v] = sqlite[v] /\ ram'[v] = SinHuella
    BY <1>2, <1>4, <1>5
  <1>8. Cargando(h)'
    BY <1>2, <1>5, <1>6, <1>7 DEF Cargando
  <1>9. PasoGaleria
    BY <1>1, <1>3, <1>5, PasoActivar
  <1> QED
    BY <1>1, <1>5, <1>6, <1>8, <1>9, AlDiaRecarga
    DEF Sigue, PuntosArranque, Abriendo, Recargando

LEMMA SigueSuelta ==
  ASSUME NEW e, UnEscritor(e), AlDia(e), NEW h \in Hilos, Recarga(h), CargarSuelta(h)
  PROVE  Sigue(e)
  <1>1. /\ Tipos /\ h \in {Principal, e} /\ Contenido(e)
        /\ pc[h] = "cg_add" /\ inicializado /\ pend[h] = RamVacia
    BY QuienRecarga DEF AlDia, CargarSuelta, Abriendo
  <1>2. "fallida" \notin cuenta[h] /\ \A v \in Usuarios : ram[v] = sqlite[v]
    BY <1>1 DEF Contenido, Cargando, RamVacia
  <1>3. ram = sqlite
    BY <1>1, <1>2 DEF Tipos, SensorTypeOK, CompartidoOK
  <1>4. /\ UNCHANGED <<op, conectado, huerfanas, huellasCargadas, inicializado, ram, sqlite, cuenta>>
        /\ Ir(h, "cg_flag") /\ pc'[h] = "cg_flag"
    BY <1>1 DEF CargarSuelta, Seguir, Ir, sensorVars, tabla, locales, Tipos, LocalesOK
  <1>5. Cargando(h)'
    BY <1>2, <1>4 DEF Cargando
  <1> QED
    BY <1>1, <1>3, <1>4, <1>5, AlDiaRecarga
    DEF Sigue, PasoGaleria, PuntosArranque, Abriendo

LEMMA SigueMarca ==
  ASSUME NEW e, UnEscritor(e), AlDia(e), NEW h \in Hilos, Recarga(h), CargarMarca(h)
  PROVE  Sigue(e)
  <1>1. /\ Tipos /\ h \in {Principal, e} /\ Contenido(e)
        /\ pc[h] = "cg_flag" /\ inicializado
    BY QuienRecarga DEF AlDia, CargarMarca, Abriendo
  <1>2. "fallida" \notin cuenta[h] /\ ram = sqlite
    <2>1. pc[Principal] \notin Recargando /\ pc[e] \notin Recargando
      BY <1>1 DEF AlDia, Reparto, UnEscritor, Recargando
    <2> QED
      BY <1>1, <2>1 DEF Contenido, Cargando
  <1>3. /\ UNCHANGED <<op, conectado, huerfanas, inicializado, ram, sqlite>> /\ huellasCargadas'
        /\ Ir(h, "libre") /\ pc'[h] = "libre"
    BY <1>1, <1>2 DEF CargarMarca, Terminar, Ir, sensorVars, tabla, Tipos, LocalesOK
  <1>4. Cargando(h)'
    BY <1>3 DEF Cargando
  <1> QED
    BY <1>1, <1>2, <1>3, <1>4, AlDiaRecarga
    DEF Sigue, PasoGaleria, PuntosArranque, Abriendo

LEMMA SiguePaso ==
  ASSUME NEW e, UnEscritor(e), AlDia(e), NEW h \in Hilos, Paso(h)
  PROVE  Sigue(e)
  <1>1. CASE Recarga(h)
    <2>1. \/ TomarInit(h) \/ TomarCaptura(h)
          \/ \E exito \in BOOLEAN :
               \/ h = Principal /\ Inicializar(h, exito)
               \/ VerificarAbre(h, exito) \/ RefrescarAbre(h, exito)
          \/ VerificarCierra(h) \/ RefrescarCierra(h)
          \/ UpsertCommit(h) \/ VincularCommit(h) \/ GuardarEnBD(h)
          \/ CargarLeer(h) \/ CargarSuelta(h) \/ CargarMarca(h)
          \/ \E u \in Usuarios : CargarUna(h, u)
      BY <1>1 DEF Recarga
    <2> QED
      BY <1>1, <2>1, SigueTomar, SigueAbre, SigueCierra, SigueUpsert, SigueVincular,
         SigueGuardar, SigueLeer, SigueUna, SigueSuelta, SigueMarca
  <1>2. CASE ~Recarga(h)
    <2>1. h # Principal
      <3>1. SUFFICES ASSUME h = Principal PROVE FALSE
        OBVIOUS
      <3>2. pc[h] \in PuntosArranque
        BY <3>1 DEF AlDia, Reparto
      <3> QED
        BY <1>2, <3>1, <3>2
        DEF Paso, Recarga, PuntosArranque, DistinguirFallo, TomarCaptura, ConsultarFlag,
            VerificarOcupado, Capturar, CapturaFallida, Identificar, UpsertLeer, UpsertFalla,
            VincularFalla
    <2>2. \/ TomarInit(h) /\ pc[h] # "rf_init"
          \/ TomarCaptura(h) /\ pc[h] \in {"vf_capture", "cap", "id"}
          \/ \E exito \in BOOLEAN : Inicializar(h, exito) \/ DistinguirFallo(h, exito)
          \/ ConsultarFlag(h) \/ VerificarOcupado(h)
          \/ \E f \in Huellas : Capturar(h, f)
          \/ CapturaFallida(h) \/ Identificar(h)
          \/ UpsertLeer(h) \/ UpsertFalla(h) \/ VincularFalla(h)
      BY <1>2 DEF Paso, Recarga
    <2> QED
      BY <2>1, <2>2, AlDiaConsulta DEF Sigue, PasoGaleria
  <1> QED
    BY <1>1, <1>2

(* The requests, the death of the process and the first start.             *)
LEMMA SigueLlegada ==
  ASSUME NEW e, UnEscritor(e), AlDia(e), Llegada
  PROVE  Sigue(e)
  <1>1. PICK h \in Hilos \ {Principal}, o \in Operaciones,
             u \in Usuarios \cup {Nadie}, f \in Plantillas : Llamar(h, o, u, f)
    BY DEF Llegada
  <1>2. /\ Tipos /\ Reparto(e) /\ Encendido(e) /\ Contenido(e)
        /\ pc[Principal] = "libre" /\ pc[h] = "libre" /\ o \in OperacionesDe[h]
        /\ UNCHANGED <<sensorVars, tabla, huellasCargadas, pend, cuenta>>
        /\ Ir(h, Entrada(o)) /\ op' = [op EXCEPT ![h] = o]
    BY <1>1 DEF AlDia, Llamar
  <1>3. /\ o \in Operaciones \ {"arranque"}
        /\ h # e => o \in Lectoras
    BY <1>2, ConstantesOK DEF UnEscritor
  <1>4. Entrada(o) \notin Delicados /\ (h # e => Entrada(o) \in PuntosLectora)
    BY <1>3 DEF Entrada, Operaciones, Lectoras, Delicados, Recargando, Abriendo, PuntosLectora
  <1>5. \A k \in Hilos \ {h} : /\ uid'[k] = uid[k] /\ muestra'[k] = muestra[k]
                               /\ pend'[k] = pend[k] /\ cuenta'[k] = cuenta[k]
    BY <1>1, <1>2 DEF Llamar, Tipos, LocalesOK
  <1>6. Encendido(e)' /\ Contenido(e)'
    BY <1>2, <1>4, <1>5, AlDiaAjeno DEF Delicados, Recargando, Abriendo
  <1>7. Reparto(e)'
    <2>1. /\ Principal \in Hilos /\ h # Principal
          /\ \A k \in Hilos : pc'[k] = (IF k = h THEN Entrada(o) ELSE pc[k])
          /\ \A k \in Hilos : op'[k] = (IF k = h THEN o ELSE op[k])
      BY <1>2, ConstantesOK DEF Ir, Tipos, LocalesOK
    <2> HIDE DEF Entrada
    <2> QED
      BY <1>2, <1>4, <2>1 DEF Reparto
  <1> QED
    BY <1>2, <1>6, <1>7 DEF Sigue, PasoGaleria, sensorVars, tabla

LEMMA SigueExterno ==
  ASSUME NEW e, UnEscritor(e), AlDia(e), Externo
  PROVE  Sigue(e)
  <1>1. Reinicio /\ Encendido(e)
    BY DEF AlDia, UnEscritor, Externo, Usb, EliminarTodos, EliminarUsuario, SyncImport
  <1>2. /\ conectado' /\ huerfanas' = {} /\ inicializado' = FALSE /\ ram' = RamVacia
        /\ ProcesoNuevo' /\ sqlite' = sqlite
    BY <1>1 DEF Reinicio, CloseSensor, Encendido, ProcesoNuevo, PcInicial, tabla
  <1>3. Reparto(e)' /\ Encendido(e)' /\ Contenido(e)'
    BY <1>2, ConstantesOK
    DEF UnEscritor, ProcesoNuevo, PcInicial, Reparto, PuntosLectora, PuntosArranque,
        Encendido, Abriendo, Contenido, Cargando, Recargando
  <1>4. PasoGaleria
    BY <1>2, GaleriaVacia DEF PasoGaleria, G!GaleriaNext, G!Vaciar
  <1> QED
    BY <1>3, <1>4 DEF Sigue

LEMMA SigueQuieto ==
  ASSUME NEW e, UnEscritor(e), AlDia(e), UNCHANGED vars
  PROVE  Sigue(e)
  <1>1. Reparto(e) /\ Encendido(e) /\ Contenido(e)
    BY DEF AlDia
  <1>2. UNCHANGED <<sensorVars, tabla, huellasCargadas, pc, op, locales>>
    BY DEF vars
  <1> QED
    BY <1>1, <1>2
    DEF Sigue, PasoGaleria, Reparto, Encendido, Contenido, Cargando, sensorVars, tabla, locales

LEMMA SigueNext ==
  ASSUME NEW e, UnEscritor(e), AlDia(e), [Next]_vars
  PROVE  AlDia(e)' /\ PasoGaleria
  <1>1. Sigue(e)
    BY SiguePaso, SigueLlegada, SigueExterno, SigueQuieto DEF Next
  <1>2. Tipos /\ CandadosCoherentes
    BY DEF AlDia
  <1>3. Tipos'
    BY <1>2, TiposPaso, TiposLlamar, TiposExterno, TiposStutter DEF Next, Llegada
  <1>4. CandadosCoherentes'
    BY <1>2, CandadosNext
  <1> QED
    BY <1>1, <1>3, <1>4 DEF Sigue, AlDia

LEMMA SigueInit ==
  ASSUME NEW e, UnEscritor(e), Init
  PROVE  AlDia(e) /\ G!GaleriaInit
  <1>1. conectado /\ huerfanas = {} /\ inicializado = FALSE /\ ram = RamVacia /\ ProcesoNuevo
    BY DEF Init, SensorInit, UnEscritor
  <1>2. Reparto(e) /\ Encendido(e) /\ Contenido(e)
    BY <1>1, AlDiaNuevo
  <1>3. CandadosCoherentes
    BY <1>1, ConstantesOK DEF ProcesoNuevo, PcInicial, CandadosCoherentes, TieneInit, TieneCaptura
  <1>4. G!GaleriaInit
    BY <1>1, GaleriaVacia DEF Init, G!GaleriaInit, Plantillas
  <1> QED
    BY <1>2, <1>3, <1>4, TiposInit DEF AlDia

LEMMA AlDiaSiempre ==
  ASSUME NEW e, UnEscritor(e)
  PROVE  Spec => []AlDia(e)
  <1>1. Init => AlDia(e)
    BY SigueInit
  <1>2. AlDia(e) /\ [Next]_vars => AlDia(e)'
    BY SigueNext
  <1> QED
    BY <1>1, <1>2, PTL DEF Spec

(* Except while somebody is between a commit and the end of its load, the  *)
(* reader holds exactly the table, whatever the number of readers that     *)
(* identify meanwhile, whenever the process dies and whichever commits     *)
(* fail: the interrupted way to the RAM is done again by the next start    *)
(* (huellaController.py:120-121).                                          *)
THEOREM AlDiaInvariante ==
  ASSUME NEW e, UnEscritor(e)
  PROVE  Spec => []RamAlDia
  <1>1. AlDia(e) => RamAlDia
    BY ConstantesOK DEF AlDia, Contenido, RamAlDia, UnEscritor
  <1> QED
    BY <1>1, AlDiaSiempre, PTL

(* The service is a gallery that follows the register: under a single      *)
(* writer every step that touches the table or the RAM enrols one student, *)
(* empties the RAM, or fills in one missing student with the template      *)
(* registered at that moment; it never activates a template of another     *)
(* moment, nor replaces one in place (HuellaService.py:200-269).           *)
THEOREM SigueGaleria ==
  ASSUME NEW e, UnEscritor(e)
  PROVE  Spec => G!GaleriaInit /\ [][G!GaleriaNext]_<<sqlite, ram>>
  <1>1. Init => G!GaleriaInit
    BY SigueInit
  <1>2. AlDia(e) /\ [Next]_vars => [G!GaleriaNext]_<<sqlite, ram>>
    BY SigueNext DEF PasoGaleria
  <1> QED
    BY <1>1, <1>2, AlDiaSiempre, PTL DEF Spec

-------------------------------------------------------------------------------
(* The two sides of the driver's interface.                                *)

LEMMA SensorSinTocar ==
  ASSUME UNCHANGED sensorVars
  PROVE  [SensorNext]_sensorVars
  OBVIOUS

LEMMA SensorAbre ==
  ASSUME NEW exito \in BOOLEAN, InitSensor(exito), UNCHANGED conectado
  PROVE  [SensorNext]_sensorVars
  BY DEF SensorNext

LEMMA SensorCierra ==
  ASSUME CloseSensor, UNCHANGED conectado
  PROVE  [SensorNext]_sensorVars
  BY DEF SensorNext

LEMMA SensorAgrega ==
  ASSUME NEW u \in Usuarios, NEW f \in Huellas, DBAdd(u, f), UNCHANGED <<conectado, inicializado>>
  PROVE  [SensorNext]_sensorVars
  BY DEF SensorNext

LEMMA SensorPaso ==
  ASSUME Tipos, NEW h \in Hilos, Paso(h)
  PROVE  [SensorNext]_sensorVars
  <1>1. ASSUME NEW exito \in BOOLEAN,
               \/ Inicializar(h, exito) \/ VerificarAbre(h, exito)
               \/ RefrescarAbre(h, exito) \/ DistinguirFallo(h, exito)
        PROVE  [SensorNext]_sensorVars
    BY <1>1, SensorAbre DEF Inicializar, VerificarAbre, RefrescarAbre, DistinguirFallo
  <1>2. CASE VerificarCierra(h) \/ RefrescarCierra(h)
    BY <1>2, SensorCierra DEF VerificarCierra, RefrescarCierra
  <1>3. CASE GuardarEnBD(h)
    <2>1. uid[h] \in Usuarios /\ muestra[h] \in Huellas
      BY <1>3 DEF GuardarEnBD, Tipos, LocalesOK, OperacionCoherente, Corresponde,
                  ConMuestra, ConUsuario
    <2> QED
      BY <1>3, <2>1, SensorAgrega DEF GuardarEnBD
  <1>4. ASSUME NEW u \in Usuarios, CargarUna(h, u)
        PROVE  [SensorNext]_sensorVars
    <2>1. pend[h][u] \in Huellas
      BY <1>4 DEF CargarUna, Tipos, LocalesOK, Plantillas
    <2> QED
      BY <1>4, <2>1, SensorAgrega DEF CargarUna
  <1>5. CASE UNCHANGED sensorVars
    BY <1>5, SensorSinTocar
  <1>6. \/ UNCHANGED sensorVars \/ VerificarCierra(h) \/ RefrescarCierra(h) \/ GuardarEnBD(h)
        \/ \E u \in Usuarios : CargarUna(h, u)
        \/ \E exito \in BOOLEAN : \/ Inicializar(h, exito) \/ VerificarAbre(h, exito)
                                  \/ RefrescarAbre(h, exito) \/ DistinguirFallo(h, exito)
    BY DEF Paso, TomarInit, TomarCaptura, ConsultarFlag, VerificarOcupado, Capturar,
           CapturaFallida, Identificar, UpsertLeer, UpsertCommit, UpsertFalla, VincularCommit,
           VincularFalla, CargarLeer, CargarSuelta, CargarMarca
  <1> QED
    BY <1>1, <1>2, <1>3, <1>4, <1>5, <1>6

LEMMA SensorExterno ==
  ASSUME Externo
  PROVE  [SensorNext]_sensorVars
  <1>1. CASE Usb
    BY <1>1 DEF Usb, SensorNext
  <1>2. CASE Reinicio
    BY <1>2, SensorCierra DEF Reinicio
  <1>3. CASE UNCHANGED sensorVars
    BY <1>3, SensorSinTocar
  <1> QED
    BY <1>1, <1>2, <1>3 DEF Externo, EliminarTodos, EliminarUsuario, SyncImport

(* Whatever its threads do and whoever dies, the service drives the reader *)
(* only in the ways of Sensor, which is what the C++ object implements:    *)
(* opening, closing, and adding the template of a student, one at a time   *)
(* (HuellaService.py:87-269, sensorWrapper.cpp).                           *)
THEOREM UsaSensor == Spec => SensorSpec
  <1>1. Init => SensorInit
    BY DEF Init
  <1>2. Tipos /\ [Next]_vars => [SensorNext]_sensorVars
    <2> SUFFICES ASSUME Tipos, [Next]_vars PROVE [SensorNext]_sensorVars
      OBVIOUS
    <2>1. CASE Llegada
      BY <2>1, SensorSinTocar DEF Llegada, Llamar
    <2>2. CASE UNCHANGED vars
      BY <2>2, SensorSinTocar DEF vars
    <2> QED
      BY <2>1, <2>2, SensorPaso, SensorExterno DEF Next
  <1> QED
    BY <1>1, <1>2, TiposInvariante, PTL DEF Spec, SensorSpec

===============================================================================
