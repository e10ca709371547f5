----------------------------- MODULE Kiosco_proofs -----------------------------
(***************************************************************************)
(* Theorems about Kiosco for every value of its bounds, checked by TLAPS.  *)
(***************************************************************************)
EXTENDS Kiosco, TLAPS

-------------------------------------------------------------------------------
(* Sockets.                                                                *)

Vivas == {v \in [Tipos -> Nat] : \A t \in Tipos : v[t] <= Cota[t]}

(* The type invariant split by the groups of variables that the actions    *)
(* leave alone together.                                                   *)
EscuchaOK ==
  /\ pantalla \in {"waiting", "resultado", "sinSensor", "fuera"}
  /\ autoReturn \in BOOLEAN
  /\ activeWs \in BOOLEAN
  /\ vivos \in Vivas
  /\ abortados \in [Tipos -> 0..1]
  /\ activeWs => vivos["totem"] > 0

VueltasOK ==
  /\ cierres \in 0..2
  /\ reconexiones \in 0..TopeVueltas
  /\ verificando \in 0..TopeVueltas
  /\ esperando \in BOOLEAN
  /\ inicio \in BOOLEAN

RegistroOK ==
  /\ paso \in {"ninguno", "elige", "dedo", "exito"}
  /\ enrollWs \in BOOLEAN
  /\ consultas \in 0..TopeConsultas
  /\ vinculos \in 0..TopeRegistro
  /\ exitos \in 0..TopeRegistro
  /\ enrollWs => vivos["enrolar"] > 0

RestoOK ==
  /\ servidor \in {"listo", "sin_sensor", "caido"}
  /\ fugas \in 0..TopeVueltas

TypeOKPorPartes == EscuchaOK /\ VueltasOK /\ RegistroOK /\ RestoOK

LEMMA TypeOKPartido == TypeOK <=> TypeOKPorPartes
  BY DEF TypeOK, TypeOKPorPartes, EscuchaOK, VueltasOK, RegistroOK, RestoOK, Vivas

(* Both invariants together: neither needs anything else.                  *)
IInv == TypeOKPorPartes /\ ConSalida

LEMMA CotaPositiva == \A t \in Tipos : Cota[t] \in Nat \ {0}
  BY TopesOK DEF Cota, Tipos

LEMMA CerosTipo ==
  /\ TopeVueltas \in Nat \ {0} /\ TopeRegistro \in Nat \ {0} /\ TopeConsultas \in Nat
  /\ 0 \in 0..2 /\ 0 \in 0..TopeVueltas /\ 0 \in 0..TopeRegistro /\ 0 \in 0..TopeConsultas
  BY TopesOK DEF TopeConsultas

LEMMA MasTipo ==
  ASSUME NEW n \in 0..TopeVueltas
  PROVE  Mas(n) \in 0..TopeVueltas /\ Mas(n) > 0
  BY TopesOK DEF Mas, MasHasta

LEMMA NaceTipo ==
  ASSUME NEW v \in Vivas, NEW t \in Tipos
  PROVE  /\ Nace(v, t) \in Vivas
         /\ Nace(v, t)[t] > 0
         /\ \A s \in Tipos \ {t} : Nace(v, t)[s] = v[s]
  <1> DEFINE n == MasHasta(v[t], Cota[t])
  <1>1. v \in [Tipos -> Nat] /\ v[t] \in Nat /\ v[t] <= Cota[t] /\ Cota[t] \in Nat \ {0}
    BY CotaPositiva DEF Vivas
  <1>2. n \in Nat /\ n <= Cota[t] /\ n > 0
    BY <1>1 DEF MasHasta
  <1>3. Nace(v, t) = [v EXCEPT ![t] = n]
    BY DEF Nace
  <1> HIDE DEF n
  <1>4. Nace(v, t) \in [Tipos -> Nat] /\ Nace(v, t)[t] = n
        /\ \A s \in Tipos \ {t} : Nace(v, t)[s] = v[s]
    BY <1>1, <1>2, <1>3
  <1> QED
    BY <1>1, <1>2, <1>4 DEF Vivas

LEMMA MuereTipo ==
  ASSUME NEW v \in Vivas, NEW t \in Tipos, v[t] > 0
  PROVE  /\ Muere(v, t) \in Vivas
         /\ \A s \in Tipos \ {t} : Muere(v, t)[s] = v[s]
  <1>1. v \in [Tipos -> Nat] /\ v[t] \in Nat /\ v[t] <= Cota[t] /\ Cota[t] \in Nat
    BY CotaPositiva DEF Vivas
  <1>2. Muere(v, t) \in [Tipos -> Nat] /\ Muere(v, t)[t] = v[t] - 1
        /\ \A s \in Tipos \ {t} : Muere(v, t)[s] = v[s]
    BY <1>1 DEF Muere
  <1> QED
    BY <1>1, <1>2 DEF Vivas

LEMMA AbortadosTipo ==
  ASSUME NEW ab \in [Tipos -> 0..1], NEW t \in Tipos
  PROVE  /\ [ab EXCEPT ![t] = 0] \in [Tipos -> 0..1]
         /\ [ab EXCEPT ![t] = 1] \in [Tipos -> 0..1]
  OBVIOUS

LEMMA CerradoTipo ==
  ASSUME NEW ab \in [Tipos -> 0..1], NEW t \in Tipos
  PROVE  Cerrado(ab, t) \subseteq [Tipos -> 0..1]
  BY DEF Cerrado

(* After activarSensor the page waits, and on a socket.                    *)
LEMMA ActivarTipo ==
  ASSUME NEW v \in Vivas, NEW ab \in [Tipos -> 0..1],
         activeWs \in BOOLEAN, activeWs => v["totem"] > 0, Activar(v, ab)
  PROVE  /\ EscuchaOK'
         /\ pantalla' = "waiting"
         /\ vivos'["totem"] > 0
         /\ vivos'["enrolar"] = v["enrolar"]
  <1>1. vivos' \in Vivas /\ vivos'["totem"] > 0 /\ vivos'["enrolar"] = v["enrolar"]
    <2>1. "totem" \in Tipos /\ "enrolar" \in Tipos \ {"totem"}
      BY DEF Tipos
    <2>2. CASE activeWs
      BY <2>2 DEF Activar
    <2>3. CASE ~activeWs
      BY <2>1, <2>3, NaceTipo DEF Activar
    <2> QED
      BY <2>2, <2>3
  <1>2. abortados' \in [Tipos -> 0..1]
    BY CerradoTipo DEF Activar, Tipos
  <1>3. /\ pantalla' = "waiting" /\ autoReturn' \in BOOLEAN /\ activeWs' = TRUE
    BY DEF Activar, Mostrar
  <1>4. Vivas' = Vivas
    BY DEF Vivas, Cota
  <1> QED
    BY <1>1, <1>2, <1>3, <1>4 DEF EscuchaOK

(* The end of the registration: the page waits on a socket.                *)
LEMMA CancelarNuloTipo ==
  ASSUME NEW v \in Vivas, NEW ab \in [Tipos -> 0..1],
         activeWs \in BOOLEAN, activeWs => v["totem"] > 0, CancelarNulo(v, ab)
  PROVE  /\ EscuchaOK'
         /\ pantalla' = "waiting"
         /\ vivos'["totem"] > 0
         /\ paso' = "ninguno"
         /\ enrollWs' = FALSE
  BY ActivarTipo DEF CancelarNulo, Ir

LEMMA CancelarRegistroTipo ==
  ASSUME EscuchaOK, enrollWs \in BOOLEAN, enrollWs => vivos["enrolar"] > 0,
         CancelarRegistro
  PROVE  /\ EscuchaOK'
         /\ pantalla' = "waiting"
         /\ vivos'["totem"] > 0
         /\ paso' = "ninguno"
         /\ enrollWs' = FALSE
  <1>1. "totem" \in Tipos \ {"enrolar"} /\ "enrolar" \in Tipos
    BY DEF Tipos
  <1>2. CASE enrollWs
    <2>1. PICK ab \in Cerrado(abortados, "enrolar") : CancelarNulo(Muere(vivos, "enrolar"), ab)
      BY <1>2 DEF CancelarRegistro
    <2>2. ab \in [Tipos -> 0..1]
      BY <1>1, <2>1, CerradoTipo DEF EscuchaOK
    <2>3. Muere(vivos, "enrolar") \in Vivas
          /\ Muere(vivos, "enrolar")["totem"] = vivos["totem"]
      BY <1>1, <1>2, MuereTipo DEF EscuchaOK
    <2> QED
      BY <2>1, <2>2, <2>3, CancelarNuloTipo DEF EscuchaOK
  <1>3. CASE ~enrollWs
    BY <1>3, CancelarNuloTipo DEF CancelarRegistro, EscuchaOK
  <1> QED
    BY <1>2, <1>3

-------------------------------------------------------------------------------
(* One lemma per group of actions.                                         *)

LEMMA IInvInit == Init => IInv
  <1> SUFFICES ASSUME Init PROVE IInv
    OBVIOUS
  <1>1. Ninguno \in Vivas /\ Ninguno \in [Tipos -> 0..1]
    BY CotaPositiva DEF Ninguno, Vivas
  <1>2. TypeOKPorPartes
    <2>1. EscuchaOK
      BY <1>1 DEF Init, EscuchaOK
    <2>2. VueltasOK /\ RegistroOK /\ RestoOK
      BY CerosTipo DEF Init, VueltasOK, RegistroOK, RestoOK
    <2> QED
      BY <2>1, <2>2 DEF TypeOKPorPartes
  <1>3. ConSalida
    BY DEF Init, ConSalida
  <1> QED
    BY <1>2, <1>3 DEF IInv

LEMMA IrseTipo ==
  ASSUME RestoOK, Irse
  PROVE  IInv'
  <1>1. Ninguno \in Vivas /\ Ninguno \in [Tipos -> 0..1] /\ Vivas' = Vivas
    BY CotaPositiva DEF Ninguno, Vivas, Cota
  <1>2. TypeOKPorPartes'
    <2>1. EscuchaOK'
      BY <1>1 DEF Irse, EscuchaOK
    <2>2. VueltasOK' /\ RegistroOK' /\ RestoOK'
      BY CerosTipo DEF Irse, VueltasOK, RegistroOK, RestoOK
    <2> QED
      BY <2>1, <2>2 DEF TypeOKPorPartes
  <1>3. ConSalida'
    BY DEF Irse, ConSalida
  <1> QED
    BY <1>2, <1>3 DEF IInv

(* The sockets of the totem: an answer or a close leaves a timer behind.   *)
LEMMA IInvTotem ==
  ASSUME IInv, MensajeTotem \/ MensajeFuga \/ CierreTotem \/ AbortoTotem \/ Salir \/ Volver
  PROVE  IInv'
  <1> USE DEF IInv, TypeOKPorPartes
  <1>1. "totem" \in Tipos /\ "enrolar" \in Tipos \ {"totem"} /\ Vivas' = Vivas
    BY DEF Tipos, Vivas, Cota
  <1>2. ASSUME NEW v \in Vivas, NEW f \in 0..TopeVueltas, Contestar(v, f),
               v["enrolar"] = vivos["enrolar"]
        PROVE  IInv'
    <2>1. CASE Irse
      BY <2>1, IrseTipo
    <2>2. CASE ~Irse
      <3>1. EscuchaOK'
        BY <1>1, <1>2, <2>2 DEF Contestar, Mostrar, EscuchaOK
      <3>2. VueltasOK' /\ RegistroOK' /\ RestoOK'
        BY <1>2, <2>2 DEF Contestar, VueltasOK, RegistroOK, RestoOK, registro
      <3>3. ConSalida'
        BY <1>2, <2>2 DEF Contestar, Mostrar, ConSalida, registro
      <3> QED
        BY <3>1, <3>2, <3>3
    <2> QED
      BY <2>1, <2>2
  <1>3. CASE MensajeTotem
    <2>1. Muere(vivos, "totem") \in Vivas
          /\ Muere(vivos, "totem")["enrolar"] = vivos["enrolar"]
      BY <1>1, <1>3, MuereTipo DEF MensajeTotem, EscuchaOK
    <2>2. Mas(fugas) \in 0..TopeVueltas
      BY MasTipo DEF RestoOK
    <2> QED
      BY <1>2, <1>3, <2>1, <2>2 DEF MensajeTotem
  <1>4. CASE MensajeFuga
    BY <1>2, <1>4 DEF MensajeFuga, EscuchaOK, RestoOK
  <1>5. CASE CierreTotem
    <2>1. vivos' \in Vivas /\ vivos'["enrolar"] = vivos["enrolar"]
      BY <1>1, <1>5, MuereTipo DEF CierreTotem, EscuchaOK
    <2>2. /\ cierres' \in 0..2
          /\ reconexiones' \in 0..TopeVueltas /\ verificando' \in 0..TopeVueltas
          /\ reconexiones' > 0 \/ verificando' > 0
      BY <1>5, MasTipo DEF CierreTotem, AlCerrar, VueltasOK
    <2>3. TypeOKPorPartes'
      BY <1>1, <1>5, <2>1, <2>2
      DEF CierreTotem, Mostrar, EscuchaOK, VueltasOK, RegistroOK, RestoOK, registro
    <2>4. ConSalida'
      <3>1. CASE Mostrar("resultado")
        BY <1>5, <2>1, <2>2, <3>1 DEF CierreTotem, Mostrar, ConSalida, registro
      <3>2. CASE UNCHANGED <<pantalla, autoReturn>>
        BY <1>5, <2>1, <2>2, <3>2 DEF CierreTotem, ConSalida, registro
      <3> QED
        BY <1>5, <3>1, <3>2 DEF CierreTotem
    <2> QED
      BY <2>3, <2>4
  <1>6. CASE AbortoTotem
    <2>1. TypeOKPorPartes'
      <3>1. abortados' \in [Tipos -> 0..1]
        BY <1>1, <1>6, AbortadosTipo DEF AbortoTotem, EscuchaOK
      <3>2. EscuchaOK'
        BY <1>1, <1>6, <3>1 DEF AbortoTotem, Mostrar, EscuchaOK
      <3> QED
        BY <1>6, <3>2 DEF AbortoTotem, VueltasOK, RegistroOK, RestoOK, registro, vueltas
    <2>2. ConSalida'
      BY <1>6 DEF AbortoTotem, Mostrar, ConSalida, registro, vueltas
    <2> QED
      BY <2>1, <2>2
  <1>7. CASE Salir
    BY <1>7, IrseTipo DEF Salir
  <1>8. CASE Volver
    <2>1. TypeOKPorPartes'
      BY <1>1, <1>8 DEF Volver, EscuchaOK, VueltasOK, RegistroOK, RestoOK, registro
    <2>2. ConSalida'
      BY <1>8 DEF Volver, ConSalida, registro
    <2> QED
      BY <2>1, <2>2
  <1> QED
    BY <1>3, <1>4, <1>5, <1>6, <1>7, <1>8

(* The ways back: each passes the page on to a socket, to another timer or *)
(* to the loop that asks for the reader.                                   *)
LEMMA IInvRetorno ==
  ASSUME IInv, Retorno
  PROVE  IInv'
  <1> USE DEF IInv, TypeOKPorPartes
  <1>1. Vivas' = Vivas /\ "enrolar" \in Tipos
    BY DEF Tipos, Vivas, Cota
  <1>2. ASSUME Activar(vivos, abortados)
        PROVE  /\ EscuchaOK' /\ pantalla' = "waiting"
               /\ vivos'["totem"] > 0 /\ vivos'["enrolar"] = vivos["enrolar"]
    BY <1>2, ActivarTipo DEF EscuchaOK
  <1>3. CASE AutoReturn
    <2>1. VueltasOK' /\ RegistroOK' /\ RestoOK'
      BY <1>2, <1>3 DEF AutoReturn, VueltasOK, RegistroOK, RestoOK, vueltas, registro
    <2>2. ConSalida'
      BY <1>2, <1>3 DEF AutoReturn, ConSalida, vueltas, registro
    <2> QED
      BY <1>2, <1>3, <2>1, <2>2 DEF AutoReturn
  <1>4. CASE Reconectar
    <2>1. VueltasOK' /\ RegistroOK' /\ RestoOK'
      BY <1>2, <1>4, CerosTipo DEF Reconectar, VueltasOK, RegistroOK, RestoOK, registro
    <2>2. ConSalida'
      BY <1>2, <1>4 DEF Reconectar, ConSalida, registro
    <2> QED
      BY <1>2, <1>4, <2>1, <2>2 DEF Reconectar
  <1>5. CASE VerificarFin
    <2>1. CASE servidor = "listo"
      <3>1. reconexiones' \in 0..TopeVueltas /\ reconexiones' > 0
        BY <1>5, <2>1, MasTipo DEF VerificarFin, VueltasOK
      <3>2. EscuchaOK'
        BY <1>1, <1>5, <2>1 DEF VerificarFin, EscuchaOK
      <3>3. VueltasOK' /\ RegistroOK' /\ RestoOK'
        BY <1>5, <2>1, <3>1, CerosTipo DEF VerificarFin, VueltasOK, RegistroOK, RestoOK, registro
      <3>4. ConSalida'
        BY <1>5, <2>1, <3>1 DEF VerificarFin, ConSalida, registro
      <3> QED
        BY <3>2, <3>3, <3>4
    <2>2. CASE servidor # "listo"
      <3>1. EscuchaOK'
        BY <1>1, <1>5, <2>2 DEF VerificarFin, SinSensor, Mostrar, EscuchaOK
      <3>2. VueltasOK' /\ RegistroOK' /\ RestoOK'
        BY <1>5, <2>2, CerosTipo DEF VerificarFin, SinSensor, VueltasOK, RegistroOK, RestoOK, registro
      <3>3. ConSalida'
        BY <1>5, <2>2 DEF VerificarFin, SinSensor, Mostrar, ConSalida, registro
      <3> QED
        BY <3>1, <3>2, <3>3
    <2> QED
      BY <2>1, <2>2
  <1>6. CASE Sondear
    <2>1. VueltasOK' /\ RegistroOK' /\ RestoOK'
      BY <1>2, <1>6 DEF Sondear, VueltasOK, RegistroOK, RestoOK, registro
    <2>2. ConSalida'
      BY <1>2, <1>6 DEF Sondear, ConSalida, registro
    <2> QED
      BY <1>2, <1>6, <2>1, <2>2 DEF Sondear
  <1>7. CASE Inicializar
    <2>1. inicio' = FALSE
          /\ UNCHANGED <<servidor, fugas, cierres, reconexiones, verificando, registro>>
      BY <1>7 DEF Inicializar
    <2>2. CASE Activar(vivos, abortados) /\ UNCHANGED esperando
      <3>1. VueltasOK' /\ RegistroOK' /\ RestoOK'
        BY <1>2, <2>1, <2>2 DEF VueltasOK, RegistroOK, RestoOK, registro
      <3>2. ConSalida'
        BY <1>2, <2>1, <2>2 DEF ConSalida, registro
      <3> QED
        BY <1>2, <2>2, <3>1, <3>2
    <2>3. CASE SinSensor /\ UNCHANGED <<activeWs, vivos, abortados>>
      <3>1. EscuchaOK'
        BY <1>1, <2>3 DEF SinSensor, Mostrar, EscuchaOK
      <3>2. VueltasOK' /\ RegistroOK' /\ RestoOK'
        BY <2>1, <2>3 DEF SinSensor, VueltasOK, RegistroOK, RestoOK, registro
      <3>3. ConSalida'
        BY <2>1, <2>3 DEF SinSensor, Mostrar, ConSalida, registro
      <3> QED
        BY <3>1, <3>2, <3>3
    <2>4. CASE Mostrar("resultado") /\ UNCHANGED <<activeWs, vivos, abortados, esperando>>
      <3>1. EscuchaOK'
        BY <1>1, <2>4 DEF Mostrar, EscuchaOK
      <3>2. VueltasOK' /\ RegistroOK' /\ RestoOK'
        BY <2>1, <2>4 DEF VueltasOK, RegistroOK, RestoOK, registro
      <3>3. ConSalida'
        BY <2>1, <2>4 DEF Mostrar, ConSalida, registro
      <3> QED
        BY <3>1, <3>2, <3>3
    <2> QED
      BY <1>7, <2>2, <2>3, <2>4 DEF Inicializar
  <1> QED
    BY <1>3, <1>4, <1>5, <1>6, <1>7 DEF Retorno

(* What the end of the registration leaves, whatever else the step does    *)
(* with its counters.                                                      *)
LEMMA IInvCancelado ==
  ASSUME IInv, EscuchaOK', pantalla' = "waiting", vivos'["totem"] > 0,
         paso' = "ninguno", enrollWs' = FALSE,
         UNCHANGED <<servidor, fugas, vueltas>>,
         consultas' \in 0..TopeConsultas,
         vinculos' \in 0..TopeRegistro, exitos' \in 0..TopeRegistro
  PROVE  IInv'
  <1>1. VueltasOK' /\ RegistroOK' /\ RestoOK'
    BY DEF IInv, TypeOKPorPartes, VueltasOK, RegistroOK, RestoOK, vueltas
  <1>2. ConSalida'
    BY DEF ConSalida
  <1> QED
    BY <1>1, <1>2 DEF IInv, TypeOKPorPartes

(* A step of the registration that leaves the screen and the ways back as  *)
(* they are, and keeps the socket of the totem.                            *)
LEMMA IInvEnrolando ==
  ASSUME IInv, vivos' \in Vivas, vivos'["totem"] = vivos["totem"],
         UNCHANGED <<servidor, pantalla, autoReturn, activeWs, abortados, fugas, vueltas>>,
         RegistroOK', paso' # "ninguno",
         paso' = "dedo" => vivos'["enrolar"] > 0 \/ vinculos' > 0 \/ exitos' > 0,
         paso' = "exito" => exitos' > 0
  PROVE  IInv'
  <1>1. Vivas' = Vivas
    BY DEF Vivas, Cota
  <1>2. EscuchaOK'
    BY <1>1 DEF IInv, TypeOKPorPartes, EscuchaOK
  <1>3. VueltasOK' /\ RestoOK'
    BY DEF IInv, TypeOKPorPartes, VueltasOK, RestoOK, vueltas
  <1>4. ConSalida'
    BY DEF IInv, ConSalida, vueltas
  <1> QED
    BY <1>2, <1>3, <1>4 DEF IInv, TypeOKPorPartes

(* The registration, while it has the page.                                *)
LEMMA IInvRegistro ==
  ASSUME IInv, IniciarIdentificacion \/ Cancelar \/ Consultar \/ AbortoEnrolar
  PROVE  IInv'
  <1> USE DEF IInv, TypeOKPorPartes
  <1>1. "totem" \in Tipos /\ "enrolar" \in Tipos \ {"totem"} /\ Vivas' = Vivas
    BY DEF Tipos, Vivas, Cota
  <1>2. CASE IniciarIdentificacion
    <2>1. vivos' \in Vivas /\ vivos'["enrolar"] = vivos["enrolar"]
          /\ abortados' \in [Tipos -> 0..1]
      BY <1>1, <1>2, MuereTipo, CerradoTipo DEF IniciarIdentificacion, EscuchaOK
    <2>2. EscuchaOK'
      BY <1>1, <1>2, <2>1 DEF IniciarIdentificacion, EscuchaOK
    <2>3. VueltasOK' /\ RegistroOK' /\ RestoOK'
      BY <1>2, <2>1 DEF IniciarIdentificacion, VueltasOK, RegistroOK, RestoOK, vueltas
    <2>4. ConSalida'
      BY <1>2 DEF IniciarIdentificacion, ConSalida, vueltas
    <2> QED
      BY <2>2, <2>3, <2>4
  <1>3. CASE Cancelar
    <2>1. consultas' \in 0..TopeConsultas
      BY <1>3, CerosTipo DEF Cancelar, RegistroOK
    <2> QED
      BY <1>3, <2>1, CancelarRegistroTipo, IInvCancelado DEF Cancelar, RegistroOK
  <1>4. CASE Consultar
    <2>1. consultas' \in 0..TopeConsultas
      BY <1>4, CerosTipo DEF Consultar, RegistroOK
    <2>2. EscuchaOK' /\ VueltasOK' /\ RestoOK'
      BY <1>1, <1>4 DEF Consultar, escucha, vueltas, EscuchaOK, VueltasOK, RestoOK
    <2>3. RegistroOK'
      BY <1>4, <2>1 DEF Consultar, escucha, RegistroOK
    <2>4. ConSalida'
      BY <1>4 DEF Consultar, escucha, vueltas, ConSalida
    <2> QED
      BY <2>2, <2>3, <2>4
  <1>5. CASE AbortoEnrolar
    <2>1. [abortados EXCEPT !["enrolar"] = 0] \in [Tipos -> 0..1]
      BY <1>1, AbortadosTipo DEF EscuchaOK
    <2> QED
      BY <1>5, <2>1, CancelarNuloTipo, IInvCancelado DEF AbortoEnrolar, EscuchaOK, RegistroOK
  <1> QED
    BY <1>2, <1>3, <1>4, <1>5

(* A request, a link or an enrolment ends: the registration goes on with   *)
(* something pending, or gives the page back.                              *)
LEMMA IInvFinConsulta ==
  ASSUME IInv, FinConsulta
  PROVE  IInv'
  <1> USE DEF IInv, TypeOKPorPartes
  <1>1. "totem" \in Tipos \ {"enrolar"} /\ "enrolar" \in Tipos /\ Vivas' = Vivas
    BY DEF Tipos, Vivas, Cota
  <1>2. /\ consultas' \in 0..TopeConsultas
        /\ UNCHANGED <<servidor, fugas, cierres, reconexiones, verificando, inicio, exitos>>
    BY CerosTipo DEF FinConsulta, RegistroOK
  <1>3. CASE Ir("elige", enrollWs) /\ UNCHANGED <<escucha, esperando, vinculos>>
    <2>1. RegistroOK'
      BY <1>2, <1>3 DEF Ir, RegistroOK, escucha
    <2> QED
      BY <1>1, <1>2, <1>3, <2>1, IInvEnrolando DEF Ir, EscuchaOK, escucha, vueltas
  <1>4. CASE CancelarRegistro /\ UNCHANGED <<esperando, vinculos>>
    BY <1>2, <1>4, CancelarRegistroTipo, IInvCancelado DEF RegistroOK, vueltas
  <1>5. CASE /\ SinSensor
             /\ UNCHANGED <<activeWs, vivos, abortados, paso, enrollWs, vinculos>>
    <2>1. EscuchaOK'
      BY <1>1, <1>5 DEF SinSensor, Mostrar, EscuchaOK
    <2>2. VueltasOK' /\ RegistroOK' /\ RestoOK'
      BY <1>2, <1>5 DEF SinSensor, VueltasOK, RegistroOK, RestoOK
    <2>3. ConSalida'
      BY <1>2, <1>5 DEF SinSensor, Mostrar, ConSalida
    <2> QED
      BY <2>1, <2>2, <2>3
  <1>6. CASE Conectar /\ UNCHANGED <<esperando, vinculos>>
    <2>1. /\ vivos' \in Vivas /\ vivos'["enrolar"] > 0
          /\ vivos'["totem"] = vivos["totem"]
      BY <1>1, <1>6, NaceTipo DEF Conectar, EscuchaOK
    <2>2. RegistroOK'
      BY <1>2, <1>6, <2>1 DEF Conectar, Ir, RegistroOK
    <2> QED
      BY <1>1, <1>2, <1>6, <2>1, <2>2, IInvEnrolando DEF Conectar, Ir, vueltas
  <1>7. CASE /\ vinculos < TopeRegistro /\ vinculos' = vinculos + 1
             /\ Ir("dedo", enrollWs) /\ UNCHANGED <<escucha, esperando>>
    <2>1. vinculos' \in 0..TopeRegistro /\ vinculos' > 0
      BY <1>7, CerosTipo DEF RegistroOK
    <2>2. RegistroOK'
      BY <1>2, <1>7, <2>1 DEF Ir, RegistroOK, escucha
    <2> QED
      BY <1>1, <1>2, <1>7, <2>1, <2>2, IInvEnrolando DEF Ir, EscuchaOK, escucha, vueltas
  <1> QED
    BY <1>3, <1>4, <1>5, <1>6, <1>7 DEF FinConsulta

LEMMA ExitoTipo ==
  ASSUME RegistroOK, NEW e, Exito(e)
  PROVE  exitos' \in 0..TopeRegistro /\ exitos' > 0 /\ paso' = "exito" /\ enrollWs' = e
  BY CerosTipo DEF Exito, Ir, RegistroOK

LEMMA IInvFin ==
  ASSUME IInv, Fin
  PROVE  IInv'
  <1> USE DEF IInv, TypeOKPorPartes
  <1>1. "totem" \in Tipos \ {"enrolar"} /\ "enrolar" \in Tipos /\ Vivas' = Vivas
    BY DEF Tipos, Vivas, Cota
  <1>2. CASE FinVinculo
    <2>1. /\ vinculos' \in 0..TopeRegistro
          /\ UNCHANGED <<servidor, fugas, vueltas, consultas>>
      BY <1>2, CerosTipo DEF FinVinculo, RegistroOK
    <2>2. CASE Exito(enrollWs) /\ UNCHANGED escucha
      <3>1. RegistroOK'
        BY <2>1, <2>2, ExitoTipo DEF RegistroOK, escucha
      <3> QED
        BY <1>1, <2>1, <2>2, <3>1, ExitoTipo, IInvEnrolando DEF EscuchaOK, escucha
    <2>3. CASE Conectar /\ UNCHANGED exitos
      <3>1. /\ vivos' \in Vivas /\ vivos'["enrolar"] > 0
            /\ vivos'["totem"] = vivos["totem"]
        BY <1>1, <2>3, NaceTipo DEF Conectar, EscuchaOK
      <3>2. RegistroOK'
        BY <2>1, <2>3, <3>1 DEF Conectar, Ir, RegistroOK
      <3> QED
        BY <1>1, <2>1, <2>3, <3>1, <3>2, IInvEnrolando DEF Conectar, Ir
    <2> QED
      BY <1>2, <2>2, <2>3 DEF FinVinculo
  <1>3. CASE FinExito
    <2>1. exitos' \in 0..TopeRegistro
      BY <1>3, CerosTipo DEF FinExito, RegistroOK
    <2> QED
      BY <1>3, <2>1, CancelarRegistroTipo, IInvCancelado DEF FinExito, RegistroOK
  <1>4. CASE FinEnrolar
    <2> DEFINE v == Muere(vivos, "enrolar")
    <2>1. v \in Vivas /\ v["totem"] = vivos["totem"]
      BY <1>1, <1>4, MuereTipo DEF FinEnrolar, EscuchaOK
    <2>2. UNCHANGED <<servidor, fugas, vueltas, consultas, vinculos>>
      BY <1>4 DEF FinEnrolar
    <2>3. [abortados EXCEPT !["totem"] = 1] \in [Tipos -> 0..1]
      BY <1>1, AbortadosTipo DEF EscuchaOK
    <2>4. CASE /\ Exito(FALSE) /\ vivos' = v
               /\ UNCHANGED <<pantalla, autoReturn, activeWs, abortados>>
      <3>1. RegistroOK'
        BY <2>2, <2>4, ExitoTipo DEF RegistroOK
      <3> QED
        BY <2>1, <2>2, <2>4, <3>1, ExitoTipo, IInvEnrolando
    <2>5. CASE UNCHANGED exitos /\ CancelarNulo(v, abortados)
      BY <2>1, <2>2, <2>5, CancelarNuloTipo, IInvCancelado DEF EscuchaOK, RegistroOK
    <2>6. CASE UNCHANGED exitos /\ CancelarNulo(v, [abortados EXCEPT !["totem"] = 1])
      BY <2>1, <2>2, <2>3, <2>6, CancelarNuloTipo, IInvCancelado DEF EscuchaOK, RegistroOK
    <2> QED
      BY <1>4, <2>4, <2>5, <2>6 DEF FinEnrolar
  <1> QED
    BY <1>2, <1>3, <1>4, IInvFinConsulta DEF Fin

(* The server and the reader: the page has not seen anything yet.          *)
LEMMA IInvServidor ==
  ASSUME IInv, Caer \/ Arrancar \/ Enchufar \/ UNCHANGED vars
  PROVE  IInv'
  <1>1. UNCHANGED <<escucha, vueltas, registro>>
    BY DEF Caer, Arrancar, Enchufar, vars
  <1>2. RestoOK'
    BY CerosTipo DEF IInv, TypeOKPorPartes, RestoOK, Caer, Arrancar, Enchufar, vars
  <1>3. Vivas' = Vivas
    BY DEF Vivas, Cota
  <1>4. EscuchaOK' /\ VueltasOK' /\ RegistroOK'
    BY <1>1, <1>3 DEF IInv, TypeOKPorPartes, EscuchaOK, VueltasOK, RegistroOK,
                      escucha, vueltas, registro
  <1>5. ConSalida'
    BY <1>1 DEF IInv, ConSalida, escucha, vueltas, registro
  <1> QED
    BY <1>2, <1>4, <1>5 DEF IInv, TypeOKPorPartes

LEMMA IInvNext == IInv /\ [Next]_vars => IInv'
  BY IInvTotem, IInvRetorno, IInvFin, IInvRegistro, IInvServidor DEF Next

LEMMA IInvSiempre == Spec => []IInv
  BY IInvInit, IInvNext, PTL DEF Spec

(* Every counter of sockets, timers and requests stays within its bound,   *)
(* and the page never points to a socket that is not there: activeWs and   *)
(* enrollWs are set to null wherever their socket ends                     *)
(* (renderer.js:68-183).                                                   *)
THEOREM TiposInvariante == Spec => []TypeOK
  <1>1. IInv => TypeOK
    BY TypeOKPartido DEF IInv
  <1> QED
    BY <1>1, IInvSiempre, PTL

(* The page is never dead: whatever the order of answers, closes, timers   *)
(* and cancelled registrations, every screen without a button has a timer, *)
(* a request, a loop or a socket pending (renderer.js:62-81, 109-183,      *)
(* 190-206, 315-330).                                                      *)
THEOREM SalidaInvariante == Spec => []ConSalida
  <1>1. IInv => ConSalida
    BY DEF IInv
  <1> QED
    BY <1>1, IInvSiempre, PTL

===============================================================================
