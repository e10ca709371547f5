--------------------------- MODULE ColaHuellas_proofs ---------------------------
(***************************************************************************)
(* Theorems about ColaHuellas for every set of handlers and students, any  *)
(* number of readings and every environment, checked by TLAPS.             *)
(***************************************************************************)
EXTENDS ColaHuellas, FiniteSetTheorems, TLAPS

-------------------------------------------------------------------------------
(* The inductive invariant.                                                *)

Lugares == {"cerrado", "listo", "espera"}

ColaOK ==
  /\ cola \in Seq(Mensajes) /\ esperan \in Seq(Manejadores)
  /\ loc \in [Manejadores -> Lugares]

SensorOK ==
  /\ modo \in {"ASISTENCIA", "ENROLAR"}
  /\ objetivo \in Alumnos \cup {Nadie}
  /\ trabajador \in {"pausa", "identificando", "enrolando"}
  /\ orden \in Alumnos \cup {Nadie}
  /\ (modo = "ENROLAR") <=> (objetivo # Nadie)
  /\ (trabajador = "enrolando") <=> (orden # Nadie)

ClientesOK ==
  /\ viva \in [Manejadores -> BOOLEAN]
  /\ pedido \in [Admins -> Alumnos \cup {Nadie}]
  /\ respuesta \in [Admins -> Alumnos \cup {Nadie}]

LecturasOK == usadas \subseteq Lecturas /\ atendidas \subseteq usadas

(* The getters that wait are the handlers that sleep in get, once each:    *)
(* the one that a put wakes does not go on waiting in another turn.        *)
Turnos ==
  /\ \A i, j \in 1..Len(esperan) : esperan[i] = esperan[j] => i = j
  /\ \A c \in Manejadores : loc[c] = "espera" <=> \E i \in 1..Len(esperan) : esperan[i] = c

(* The queue holds each reading once, whatever its kind, and only readings *)
(* made and not yet processed.                                             *)
Pendientes ==
  /\ \A i \in 1..Len(cola) : cola[i].tipo \in DeLectura => cola[i].de \in usadas \ atendidas
  /\ \A i, j \in 1..Len(cola) :
       cola[i].tipo \in DeLectura /\ cola[j].tipo \in DeLectura /\ cola[i].de = cola[j].de
         => i = j

ListosEn(l) == {c \in Manejadores : l[c] = "listo"}

(* While somebody waits there is a handler awake for each message: one is  *)
(* not enough, because a handler may end with the message it takes.        *)
BastanEn(q, l) ==
  /\ IsFiniteSet(ListosEn(l))
  /\ esperan # <<>> => Len(q) <= Cardinality(ListosEn(l))

Despiertos ==
  /\ IsFiniteSet(ListosEn(loc))
  /\ esperan # <<>> => Len(cola) <= Cardinality(ListosEn(loc))

IInv ==
  /\ ColaOK /\ SensorOK /\ ClientesOK /\ LecturasOK
  /\ Turnos /\ Pendientes /\ Despiertos

-------------------------------------------------------------------------------
(* What the operations on the queue do to those who wait for it.           *)

(* Counting handlers, one more or one less.                                *)
LEMMA UnoMas ==
  ASSUME NEW S, NEW x, IsFiniteSet(S)
  PROVE  /\ IsFiniteSet(S \cup {x})
         /\ Cardinality(S) \in Nat /\ Cardinality(S \cup {x}) \in Nat
         /\ Cardinality(S \cup {x}) >= Cardinality(S)
  <1>1. Cardinality(S) \in Nat
    BY FS_CardinalityType
  <1>2. IsFiniteSet(S \cup {x})
    BY FS_AddElement
  <1>3. Cardinality(S \cup {x}) = Cardinality(S) \/ Cardinality(S \cup {x}) = Cardinality(S) + 1
    BY FS_AddElement
  <1> QED
    BY <1>1, <1>2, <1>3

LEMMA UnoMenos ==
  ASSUME NEW S, NEW x, IsFiniteSet(S)
  PROVE  /\ IsFiniteSet(S \ {x})
         /\ Cardinality(S) \in Nat /\ Cardinality(S \ {x}) \in Nat
         /\ Cardinality(S \ {x}) >= Cardinality(S) - 1
  <1>1. Cardinality(S) \in Nat
    BY FS_CardinalityType
  <1>2. IsFiniteSet(S \ {x})
    BY FS_RemoveElement
  <1>3. Cardinality(S \ {x}) = Cardinality(S) \/ Cardinality(S \ {x}) = Cardinality(S) - 1
    BY FS_RemoveElement
  <1>4. Cardinality(S \ {x}) \in Nat
    BY <1>2, FS_CardinalityType
  <1> QED
    BY <1>1, <1>2, <1>3, <1>4

(* put: the oldest getter is awake, and there is one more awake for the    *)
(* message there is more.                                                  *)
LEMMA PonerDespierta ==
  ASSUME ColaOK, Turnos, NEW q \in Seq(Mensajes), NEW m \in Mensajes,
         NEW l \in [Manejadores -> Lugares],
         \A c \in Manejadores : l[c] = "espera" <=> loc[c] = "espera",
         BastanEn(q, l), Poner(q, m, l)
  PROVE  /\ cola' = Append(q, m)
         /\ ColaOK' /\ Turnos' /\ Despiertos'
  <1>1. cola' = Append(q, m) /\ cola' \in Seq(Mensajes) /\ Len(cola') = Len(q) + 1
    BY DEF Poner
  <1>2. CASE esperan = <<>>
    <2>1. loc' = l /\ esperan' = esperan
      BY <1>2 DEF Poner
    <2> QED
      BY <1>1, <1>2, <2>1 DEF ColaOK, Turnos, Despiertos, BastanEn, ListosEn
  <1>3. CASE esperan # <<>>
    <2> DEFINE d == Head(esperan)
    <2>1. /\ loc' = [l EXCEPT ![d] = "listo"] /\ esperan' = Tail(esperan)
          /\ d = esperan[1] /\ d \in Manejadores /\ l[d] = "espera"
          /\ esperan \in Seq(Manejadores) /\ Len(esperan) \in Nat \ {0}
      BY <1>3 DEF Poner, ColaOK, Turnos
    <2>2. /\ esperan' \in Seq(Manejadores) /\ Len(esperan') = Len(esperan) - 1
          /\ \A i \in 1..Len(esperan') : i + 1 \in 1..Len(esperan) /\ esperan'[i] = esperan[i + 1]
      BY <1>3, <2>1
    <2> HIDE DEF d
    <2>3. ColaOK'
      BY <1>1, <2>1, <2>2 DEF ColaOK, Lugares
    <2>4. Turnos'
      <3>1. \A i, j \in 1..Len(esperan') : esperan'[i] = esperan'[j] => i = j
        BY <2>1, <2>2 DEF Turnos
      <3>2. ASSUME NEW c \in Manejadores
            PROVE  loc'[c] = "espera" <=> \E i \in 1..Len(esperan') : esperan'[i] = c
        <4>1. CASE c = d
          <5>1. loc'[c] = "listo"
            BY <2>1, <4>1
          <5>2. \A i \in 1..Len(esperan') : esperan'[i] # c
            BY <2>1, <2>2, <4>1 DEF Turnos
          <5> QED
            BY <5>1, <5>2
        <4>2. CASE c # d
          <5>1. loc'[c] = "espera" <=> loc[c] = "espera"
            BY <2>1, <4>2
          <5>2. ASSUME NEW i \in 1..Len(esperan), esperan[i] = c
                PROVE  \E j \in 1..Len(esperan') : esperan'[j] = c
            <6>1. i - 1 \in 1..Len(esperan')
              BY <2>1, <2>2, <4>2, <5>2
            <6>2. esperan'[i - 1] = c
              BY <2>2, <5>2, <6>1
            <6> QED
              BY <6>1, <6>2
          <5>3. (\E j \in 1..Len(esperan') : esperan'[j] = c) => \E i \in 1..Len(esperan) : esperan[i] = c
            BY <2>2
          <5> QED
            BY <5>1, <5>2, <5>3 DEF Turnos
        <4> QED
          BY <4>1, <4>2
      <3> QED
        BY <3>1, <3>2 DEF Turnos
    <2>5. Despiertos'
      <3>1. ListosEn(loc') = ListosEn(l) \cup {d} /\ d \notin ListosEn(l)
        BY <2>1 DEF ListosEn
      <3>2. /\ IsFiniteSet(ListosEn(loc'))
            /\ Cardinality(ListosEn(loc')) = Cardinality(ListosEn(l)) + 1
        BY <3>1, FS_AddElement DEF BastanEn
      <3>3. Len(q) <= Cardinality(ListosEn(l)) /\ Cardinality(ListosEn(l)) \in Nat /\ Len(q) \in Nat
        BY <1>3, FS_CardinalityType DEF BastanEn
      <3>4. Len(cola') <= Cardinality(ListosEn(loc'))
        BY <1>1, <3>2, <3>3
      <3> QED
        BY <3>2, <3>4 DEF Despiertos, ListosEn
    <2> QED
      BY <1>1, <2>3, <2>4, <2>5
  <1> QED
    BY <1>2, <1>3

(* get on an empty queue.                                                  *)
LEMMA EsperarTurno ==
  ASSUME ColaOK, Turnos, Despiertos, NEW c \in Manejadores, loc[c] # "espera",
         cola' = <<>>, loc' = [loc EXCEPT ![c] = "espera"], esperan' = Append(esperan, c)
  PROVE  ColaOK' /\ Turnos' /\ Despiertos'
  <1>1. /\ esperan' \in Seq(Manejadores) /\ Len(esperan') = Len(esperan) + 1
        /\ Len(esperan) \in Nat
        /\ \A i \in 1..Len(esperan) : esperan'[i] = esperan[i]
        /\ esperan'[Len(esperan) + 1] = c
    BY DEF ColaOK
  <1>2. \A i \in 1..Len(esperan) : esperan[i] # c
    BY DEF Turnos
  <1>3. ColaOK'
    BY <1>1 DEF ColaOK, Lugares
  <1>4. Turnos'
    <2>1. \A i, j \in 1..Len(esperan') : esperan'[i] = esperan'[j] => i = j
      <3>1. \A i \in 1..Len(esperan') : i \in 1..Len(esperan) \/ i = Len(esperan) + 1
        BY <1>1
      <3> QED
        BY <1>1, <1>2, <3>1 DEF Turnos
    <2>2. ASSUME NEW d \in Manejadores
          PROVE  loc'[d] = "espera" <=> \E i \in 1..Len(esperan') : esperan'[i] = d
      <3>1. CASE d = c
        <4>1. Len(esperan) + 1 \in 1..Len(esperan')
          BY <1>1
        <4> QED
          BY <1>1, <3>1, <4>1 DEF ColaOK
      <3>2. CASE d # c
        <4>1. loc'[d] = loc[d]
          BY <3>2 DEF ColaOK
        <4>2. \A i \in 1..Len(esperan') : esperan'[i] = d => i \in 1..Len(esperan)
          BY <1>1, <3>2
        <4>3. 1..Len(esperan) \subseteq 1..Len(esperan')
          BY <1>1
        <4> QED
          BY <1>1, <4>1, <4>2, <4>3 DEF Turnos
      <3> QED
        BY <3>1, <3>2
    <2> QED
      BY <2>1, <2>2 DEF Turnos
  <1>5. Despiertos'
    <2>1. ListosEn(loc') = ListosEn(loc) \ {c}
      BY DEF ListosEn, ColaOK
    <2>2. IsFiniteSet(ListosEn(loc'))
      BY <2>1, FS_RemoveElement DEF Despiertos
    <2>3. Len(cola') = 0 /\ Cardinality(ListosEn(loc')) \in Nat
      BY <2>2, FS_CardinalityType
    <2> QED
      BY <2>2, <2>3 DEF Despiertos, ListosEn
  <1> QED
    BY <1>3, <1>4, <1>5

(* get of a message that the handler consumes: it may end with it.         *)
LEMMA TomarTurno ==
  ASSUME ColaOK, Turnos, Despiertos, NEW c \in Manejadores, loc[c] # "espera",
         NEW x \in {"listo", "cerrado"},
         cola # <<>>, cola' = Tail(cola), loc' = [loc EXCEPT ![c] = x], UNCHANGED esperan
  PROVE  ColaOK' /\ Turnos' /\ Despiertos'
  <1>1. cola' \in Seq(Mensajes) /\ Len(cola') = Len(cola) - 1 /\ Len(cola) \in Nat \ {0}
    BY DEF ColaOK
  <1>2. ColaOK'
    BY <1>1 DEF ColaOK, Lugares
  <1>3. Turnos'
    BY DEF ColaOK, Turnos
  <1>4. Despiertos'
    <2>1. ListosEn(loc) \ {c} \subseteq ListosEn(loc') /\ ListosEn(loc') \subseteq ListosEn(loc) \cup {c}
      BY DEF ListosEn, ColaOK
    <2>2. /\ IsFiniteSet(ListosEn(loc')) /\ IsFiniteSet(ListosEn(loc) \ {c})
          /\ Cardinality(ListosEn(loc)) \in Nat
          /\ Cardinality(ListosEn(loc) \ {c}) >= Cardinality(ListosEn(loc)) - 1
      <3>1. IsFiniteSet(ListosEn(loc) \cup {c})
        BY FS_AddElement DEF Despiertos
      <3>2. IsFiniteSet(ListosEn(loc'))
        BY <2>1, <3>1, FS_Subset
      <3>3. Cardinality(ListosEn(loc)) \in Nat
        BY FS_CardinalityType DEF Despiertos
      <3>4. IsFiniteSet(ListosEn(loc) \ {c}) /\ Cardinality(ListosEn(loc) \ {c}) >= Cardinality(ListosEn(loc)) - 1
        BY UnoMenos DEF Despiertos
      <3> QED
        BY <3>2, <3>3, <3>4
    <2>3. Cardinality(ListosEn(loc) \ {c}) <= Cardinality(ListosEn(loc'))
      BY <2>1, <2>2, FS_Subset
    <2>4. /\ Cardinality(ListosEn(loc')) \in Nat
          /\ Cardinality(ListosEn(loc) \ {c}) \in Nat
      BY <2>2, FS_CardinalityType
    <2>5. esperan # <<>> => Len(cola') <= Cardinality(ListosEn(loc'))
      BY <1>1, <2>2, <2>3, <2>4 DEF Despiertos
    <2> QED
      BY <2>2, <2>5 DEF Despiertos, ListosEn
  <1> QED
    BY <1>2, <1>3, <1>4

(* get of a message for somebody else, put back.                           *)
LEMMA DevolverTurno ==
  ASSUME ColaOK, Turnos, Despiertos, NEW c \in Manejadores, loc[c] # "espera",
         NEW tipos, Devolver(c, tipos)
  PROVE  /\ cola # <<>> /\ cola' = Append(Tail(cola), Head(cola))
         /\ ColaOK' /\ Turnos' /\ Despiertos'
  <1> DEFINE l == [loc EXCEPT ![c] = "listo"]
  <1>1. /\ cola # <<>> /\ cola \in Seq(Mensajes)
        /\ Poner(Tail(cola), Head(cola), l)
    BY DEF Devolver, HayDe, ColaOK
  <1>2. /\ Head(cola) \in Mensajes /\ Tail(cola) \in Seq(Mensajes)
        /\ Len(Tail(cola)) = Len(cola) - 1 /\ Len(cola) \in Nat
    BY <1>1
  <1>3. /\ l \in [Manejadores -> Lugares]
        /\ \A d \in Manejadores : l[d] = "espera" <=> loc[d] = "espera"
    BY DEF ColaOK, Lugares
  <1>4. BastanEn(Tail(cola), l)
    <2>1. ListosEn(l) = ListosEn(loc) \cup {c}
      BY DEF ListosEn, ColaOK
    <2>2. /\ IsFiniteSet(ListosEn(l)) /\ Cardinality(ListosEn(loc)) \in Nat
          /\ Cardinality(ListosEn(l)) \in Nat
          /\ Cardinality(ListosEn(l)) >= Cardinality(ListosEn(loc))
      BY <2>1, UnoMas DEF Despiertos
    <2> QED
      BY <1>2, <2>2 DEF BastanEn, Despiertos
  <1> HIDE DEF l
  <1> QED
    BY <1>1, <1>2, <1>3, <1>4, PonerDespierta

-------------------------------------------------------------------------------
(* What they do to the messages.                                           *)

LEMMA MensajeTipo ==
  /\ \A t \in DeLectura, r \in Lecturas : [tipo |-> t, de |-> r] \in Mensajes
  /\ \A u \in Alumnos : [tipo |-> "ENROLAMIENTO_LISTO", de |-> u] \in Mensajes
  /\ \A m \in Mensajes : m.tipo = "ENROLAMIENTO_LISTO" => m.de \in Alumnos
  /\ "ENROLAMIENTO_LISTO" \notin DeLectura
  BY DEF Mensajes, DeLectura

LEMMA PendientesPoner ==
  ASSUME ColaOK, LecturasOK, Pendientes, NEW m \in Mensajes, cola' = Append(cola, m),
         usadas \subseteq usadas', atendidas' = atendidas,
         m.tipo \in DeLectura => m.de \in usadas' \ usadas
  PROVE  Pendientes'
  <1>1. /\ Len(cola') = Len(cola) + 1 /\ Len(cola) \in Nat
        /\ \A i \in 1..Len(cola) : cola'[i] = cola[i]
        /\ cola'[Len(cola) + 1] = m
    BY DEF ColaOK
  <1>2. \A i \in 1..Len(cola') : i \in 1..Len(cola) \/ i = Len(cola) + 1
    BY <1>1
  <1>3. \A i \in 1..Len(cola') : cola'[i].tipo \in DeLectura => cola'[i].de \in usadas' \ atendidas'
    BY <1>1, <1>2 DEF Pendientes, LecturasOK
  <1>4. \A i \in 1..Len(cola) : cola[i].tipo \in DeLectura => cola[i].de \in usadas
    BY DEF Pendientes
  <1>5. ASSUME NEW i \in 1..Len(cola'), NEW j \in 1..Len(cola'),
               cola'[i].tipo \in DeLectura, cola'[j].tipo \in DeLectura,
               cola'[i].de = cola'[j].de
        PROVE  i = j
    <2>1. CASE i \in 1..Len(cola) /\ j \in 1..Len(cola)
      BY <1>1, <1>5, <2>1 DEF Pendientes
    <2>2. CASE i = Len(cola) + 1 /\ j = Len(cola) + 1
      BY <2>2
    <2>3. CASE i \in 1..Len(cola) /\ j = Len(cola) + 1
      BY <1>1, <1>4, <1>5, <2>3
    <2>4. CASE j \in 1..Len(cola) /\ i = Len(cola) + 1
      BY <1>1, <1>4, <1>5, <2>4
    <2> QED
      BY <1>2, <2>1, <2>2, <2>3, <2>4
  <1> QED
    BY <1>3, <1>5 DEF Pendientes

LEMMA PendientesTomar ==
  ASSUME ColaOK, LecturasOK, Pendientes, cola # <<>>, cola' = Tail(cola), usadas' = usadas,
         \/ atendidas' = atendidas
         \/ Head(cola).tipo \in DeLectura /\ atendidas' = atendidas \cup {Head(cola).de}
  PROVE  Pendientes'
  <1>1. /\ Len(cola') = Len(cola) - 1 /\ Len(cola) \in Nat \ {0} /\ Head(cola) = cola[1]
        /\ \A i \in 1..Len(cola') : i + 1 \in 1..Len(cola) /\ cola'[i] = cola[i + 1]
        /\ 1 \in 1..Len(cola)
    BY DEF ColaOK
  <1>2. ASSUME NEW i \in 1..Len(cola'), cola'[i].tipo \in DeLectura
        PROVE  cola'[i].de \in usadas' \ atendidas'
    <2>1. cola'[i] = cola[i + 1] /\ i + 1 \in 1..Len(cola) /\ i + 1 # 1
      BY <1>1
    <2>2. cola[i + 1].de \in usadas \ atendidas
      BY <1>2, <2>1 DEF Pendientes
    <2>3. Head(cola).tipo \in DeLectura => cola[i + 1].de # Head(cola).de
      BY <1>1, <1>2, <2>1 DEF Pendientes
    <2> QED
      BY <2>1, <2>2, <2>3
  <1>3. ASSUME NEW i \in 1..Len(cola'), NEW j \in 1..Len(cola'),
               cola'[i].tipo \in DeLectura, cola'[j].tipo \in DeLectura,
               cola'[i].de = cola'[j].de
        PROVE  i = j
    <2>1. i + 1 = j + 1
      BY <1>1, <1>3 DEF Pendientes
    <2> QED
      BY <2>1
  <1> QED
    BY <1>2, <1>3 DEF Pendientes

LEMMA AntesDelUltimo ==
  ASSUME NEW n \in Nat, NEW i \in 1..n, i # n
  PROVE  i \in 1..(n - 1) /\ i + 1 \in 1..n
  OBVIOUS

LEMMA PendientesDevolver ==
  ASSUME ColaOK, Pendientes, cola # <<>>, cola' = Append(Tail(cola), Head(cola)),
         usadas' = usadas, atendidas' = atendidas
  PROVE  Pendientes'
  <1> DEFINE k(i) == IF i = Len(cola) THEN 1 ELSE i + 1
  <1>1. /\ Len(cola') = Len(cola) /\ Len(cola) \in Nat \ {0} /\ 1 \in 1..Len(cola)
    BY DEF ColaOK
  <1>2. ASSUME NEW i \in 1..Len(cola)
        PROVE  k(i) \in 1..Len(cola) /\ cola'[i] = cola[k(i)]
    <2> DEFINE q == Tail(cola)
    <2>1. /\ q \in Seq(Mensajes) /\ Len(q) = Len(cola) - 1 /\ Head(cola) = cola[1]
          /\ \A j \in 1..Len(q) : q[j] = cola[j + 1]
      BY DEF ColaOK
    <2>2. Head(cola) \in Mensajes /\ cola' = Append(q, Head(cola))
      BY DEF ColaOK
    <2> HIDE DEF q
    <2>3. CASE i = Len(cola)
      BY <1>1, <2>1, <2>2, <2>3
    <2>4. CASE i # Len(cola)
      <3>1. i \in 1..Len(q) /\ i + 1 \in 1..Len(cola)
        BY <1>1, <2>1, <2>4, AntesDelUltimo
      <3>2. cola'[i] = q[i]
        BY <2>1, <2>2, <3>1
      <3> QED
        BY <2>1, <2>4, <3>1, <3>2
    <2> QED
      BY <2>3, <2>4
  <1>3. ASSUME NEW i \in 1..Len(cola), NEW j \in 1..Len(cola), k(i) = k(j)
        PROVE  i = j
    BY <1>3 DEF ColaOK
  <1> HIDE DEF k
  <1>4. \A i \in 1..Len(cola') : cola'[i].tipo \in DeLectura => cola'[i].de \in usadas' \ atendidas'
    BY <1>1, <1>2 DEF Pendientes
  <1>5. ASSUME NEW i \in 1..Len(cola'), NEW j \in 1..Len(cola'),
               cola'[i].tipo \in DeLectura, cola'[j].tipo \in DeLectura,
               cola'[i].de = cola'[j].de
        PROVE  i = j
    <2>1. i \in 1..Len(cola) /\ j \in 1..Len(cola)
      BY <1>1
    <2>2. k(i) \in 1..Len(cola) /\ k(j) \in 1..Len(cola) /\ cola'[i] = cola[k(i)] /\ cola'[j] = cola[k(j)]
      BY <1>2, <2>1
    <2>3. k(i) = k(j)
      BY <1>5, <2>2 DEF Pendientes
    <2> QED
      BY <1>3, <2>1, <2>3
  <1> QED
    BY <1>4, <1>5 DEF Pendientes

-------------------------------------------------------------------------------
(* The steps.                                                              *)

LEMMA IInvInit == Init => IInv
  <1> SUFFICES ASSUME Init PROVE IInv
    OBVIOUS
  <1>1. ColaOK /\ Turnos /\ Pendientes
    BY DEF Init, ColaOK, Turnos, Pendientes, Lugares
  <1>2. SensorOK /\ ClientesOK /\ LecturasOK
    BY ConstantesOK DEF Init, SensorOK, ClientesOK, LecturasOK
  <1>3. Despiertos
    <2>1. ListosEn(loc) = {}
      BY DEF Init, ListosEn
    <2> QED
      BY <2>1, FS_EmptySet DEF Init, Despiertos
  <1> QED
    BY <1>1, <1>2, <1>3 DEF IInv

(* A step that leaves the queue and those who wait for it alone.           *)
LEMMA IInvQuieta ==
  ASSUME IInv, UNCHANGED <<cola, esperan, loc, usadas, atendidas>>, SensorOK', ClientesOK'
  PROVE  IInv'
  BY DEF IInv, ColaOK, LecturasOK, Turnos, Pendientes, Despiertos, ListosEn

LEMMA SensorQuieto ==
  ASSUME SensorOK, UNCHANGED <<buzon, worker>>
  PROVE  SensorOK'
  BY DEF SensorOK, buzon, worker

(* The worker copies the order of the mailbox.                             *)
LEMMA DespacharOK ==
  ASSUME SensorOK, Despachar(modo, objetivo), UNCHANGED buzon
  PROVE  SensorOK'
  BY DEF SensorOK, Despachar, buzon

LEMMA IInvTrabajador ==
  ASSUME IInv, Trabajador
  PROVE  IInv'
  <1> USE DEF IInv
  <1>1. CASE FinPausa
    <2>1. SensorOK'
      BY <1>1, DespacharOK DEF FinPausa
    <2>2. ClientesOK'
      BY <1>1 DEF FinPausa, ClientesOK
    <2> QED
      BY <1>1, <2>1, <2>2, IInvQuieta DEF FinPausa
  <1>2. CASE FinSinLectura
    <2>1. SensorOK' /\ ClientesOK'
      BY <1>2 DEF FinSinLectura, SensorOK, ClientesOK, buzon
    <2> QED
      BY <1>2, <2>1, IInvQuieta DEF FinSinLectura
  <1>3. CASE Excepcion
    <2>1. SensorOK' /\ ClientesOK'
      BY <1>3 DEF Excepcion, SensorOK, ClientesOK, buzon
    <2> QED
      BY <1>3, <2>1, IInvQuieta DEF Excepcion
  <1>4. BastanEn(cola, loc) /\ cola \in Seq(Mensajes) /\ loc \in [Manejadores -> Lugares]
    BY DEF BastanEn, Despiertos, ColaOK
  <1>5. CASE FinEnrolar
    <2> DEFINE m == [tipo |-> "ENROLAMIENTO_LISTO", de |-> orden]
    <2>1. m \in Mensajes /\ m.tipo \notin DeLectura
      BY <1>5, MensajeTipo DEF FinEnrolar, SensorOK
    <2>2. Poner(cola, m, loc) /\ UNCHANGED <<viva, pedido, respuesta, usadas, atendidas>>
      BY <1>5 DEF FinEnrolar
    <2> HIDE DEF m
    <2>3. cola' = Append(cola, m) /\ ColaOK' /\ Turnos' /\ Despiertos'
      BY <1>4, <2>1, <2>2, PonerDespierta
    <2>4. Pendientes'
      BY <2>1, <2>2, <2>3, PendientesPoner
    <2>5. SensorOK'
      BY <1>5 DEF FinEnrolar, Despachar, SensorOK
    <2>6. ClientesOK' /\ LecturasOK'
      BY <2>2 DEF ClientesOK, LecturasOK
    <2> QED
      BY <2>3, <2>4, <2>5, <2>6
  <1>6. ASSUME NEW r \in Lecturas, NEW t \in DeLectura, FinIdentificar(r, t)
        PROVE  IInv'
    <2> DEFINE m == [tipo |-> t, de |-> r]
    <2>1. m \in Mensajes /\ m.de \notin usadas /\ m.de = r
      BY <1>6, MensajeTipo DEF FinIdentificar
    <2>2. /\ Poner(cola, m, loc) /\ usadas' = usadas \cup {r}
          /\ UNCHANGED <<buzon, viva, pedido, respuesta, atendidas>>
      BY <1>6 DEF FinIdentificar
    <2> HIDE DEF m
    <2>3. cola' = Append(cola, m) /\ ColaOK' /\ Turnos' /\ Despiertos'
      BY <1>4, <2>1, <2>2, PonerDespierta
    <2>4. Pendientes'
      BY <2>1, <2>2, <2>3, PendientesPoner
    <2>5. SensorOK'
      BY <1>6, <2>2, DespacharOK DEF FinIdentificar
    <2>6. ClientesOK' /\ LecturasOK'
      BY <2>2 DEF ClientesOK, LecturasOK
    <2> QED
      BY <2>3, <2>4, <2>5, <2>6
  <1> QED
    BY <1>1, <1>2, <1>3, <1>5, <1>6 DEF Trabajador

(* get, for the handler that finds the queue empty or a message that is    *)
(* not for it.                                                             *)
LEMMA SeguirTurno ==
  ASSUME IInv, NEW c \in Manejadores, loc[c] # "espera", NEW tipos,
         Esperar(c) \/ Devolver(c, tipos), UNCHANGED <<usadas, atendidas>>
  PROVE  ColaOK' /\ Turnos' /\ Despiertos' /\ Pendientes' /\ LecturasOK'
  <1>1. LecturasOK'
    BY DEF IInv, LecturasOK
  <1>2. CASE Esperar(c)
    <2>1. cola' = <<>> /\ loc' = [loc EXCEPT ![c] = "espera"] /\ esperan' = Append(esperan, c)
      BY <1>2 DEF Esperar
    <2>2. Pendientes'
      BY <2>1 DEF Pendientes
    <2> QED
      BY <1>1, <2>1, <2>2, EsperarTurno DEF IInv
  <1>3. CASE Devolver(c, tipos)
    BY <1>1, <1>3, DevolverTurno, PendientesDevolver DEF IInv
  <1> QED
    BY <1>2, <1>3

LEMMA IInvManejador ==
  ASSUME IInv, NEW c \in Manejadores, Manejador(c)
  PROVE  IInv'
  <1> USE DEF IInv
  <1>1. CASE TotemAtiende(c)
    <2>1. /\ loc[c] # "espera" /\ cola # <<>> /\ Head(cola).tipo \in DeLectura
          /\ cola' = Tail(cola) /\ atendidas' = atendidas \cup {Head(cola).de}
          /\ UNCHANGED <<esperan, buzon, worker, viva, pedido, respuesta, usadas>>
      BY <1>1 DEF TotemAtiende, HayDe
    <2>2. PICK x \in {"listo", "cerrado"} : loc' = [loc EXCEPT ![c] = x]
      BY <1>1 DEF TotemAtiende
    <2>3. ColaOK' /\ Turnos' /\ Despiertos'
      BY <2>1, <2>2, TomarTurno
    <2>4. Pendientes'
      BY <2>1, PendientesTomar
    <2>5. LecturasOK'
      <3>1. Head(cola) = cola[1] /\ 1 \in 1..Len(cola)
        BY <2>1 DEF ColaOK
      <3> QED
        BY <2>1, <3>1 DEF Pendientes, LecturasOK
    <2>6. SensorOK' /\ ClientesOK'
      BY <2>1, SensorQuieto DEF ClientesOK
    <2> QED
      BY <2>3, <2>4, <2>5, <2>6
  <1>2. CASE TotemSigue(c) \/ AdminSigue(c)
    <2>1. PICK tipos \in {DeLectura, {"ENROLAMIENTO_LISTO"}} : Esperar(c) \/ Devolver(c, tipos)
      BY <1>2 DEF TotemSigue, AdminSigue
    <2>2. /\ loc[c] # "espera"
          /\ UNCHANGED <<buzon, worker, viva, pedido, respuesta, usadas, atendidas>>
      BY <1>2 DEF TotemSigue, AdminSigue
    <2>3. ColaOK' /\ Turnos' /\ Despiertos' /\ Pendientes' /\ LecturasOK'
      BY <2>1, <2>2, SeguirTurno
    <2>4. SensorOK' /\ ClientesOK'
      BY <2>2, SensorQuieto DEF ClientesOK
    <2> QED
      BY <2>3, <2>4
  <1>3. CASE AdminRecibe(c)
    <2>1. /\ c \in Admins /\ loc[c] # "espera" /\ cola # <<>>
          /\ Head(cola).tipo = "ENROLAMIENTO_LISTO"
          /\ cola' = Tail(cola) /\ loc' = [loc EXCEPT ![c] = "cerrado"]
          /\ UNCHANGED <<esperan, worker, pedido, usadas, atendidas>>
      BY <1>3 DEF AdminRecibe, HayDe
    <2>2. ColaOK' /\ Turnos' /\ Despiertos'
      BY <2>1, TomarTurno
    <2>3. Pendientes' /\ LecturasOK'
      BY <2>1, PendientesTomar DEF LecturasOK
    <2>4. Head(cola).de \in Alumnos
      BY <2>1, MensajeTipo DEF ColaOK
    <2>5. ClientesOK'
      BY <1>3, <2>4 DEF AdminRecibe, ClientesOK
    <2>6. SensorOK'
      BY <1>3 DEF AdminRecibe, SensorOK, buzon, worker
    <2> QED
      BY <2>2, <2>3, <2>5, <2>6
  <1> QED
    BY <1>1, <1>2, <1>3 DEF Manejador

LEMMA IInvClientes ==
  ASSUME IInv, Clientes
  PROVE  IInv'
  <1> USE DEF IInv
  <1>1. ASSUME NEW c \in Manejadores, Desconectar(c)
        PROVE  IInv'
    <2>1. SensorOK' /\ ClientesOK'
      BY <1>1, SensorQuieto DEF Desconectar, ClientesOK
    <2> QED
      BY <1>1, <2>1, IInvQuieta DEF Desconectar
  <1>2. ASSUME NEW c \in Manejadores, ConectarTotem(c)
        PROVE  IInv'
    <2>1. /\ loc[c] # "espera" /\ cola' = <<>> /\ loc' = [loc EXCEPT ![c] = "espera"]
          /\ esperan' = Append(esperan, c)
          /\ UNCHANGED <<buzon, worker, usadas, atendidas>>
      BY <1>2 DEF ConectarTotem
    <2>2. ColaOK' /\ Turnos' /\ Despiertos'
      BY <2>1, EsperarTurno
    <2>3. Pendientes' /\ LecturasOK' /\ SensorOK'
      BY <2>1, SensorQuieto DEF Pendientes, LecturasOK
    <2>4. ClientesOK'
      BY <1>2 DEF ConectarTotem, ClientesOK
    <2> QED
      BY <2>2, <2>3, <2>4
  <1>3. ASSUME NEW c \in Manejadores, NEW u \in Alumnos, ConectarAdmin(c, u)
        PROVE  IInv'
    <2>1. /\ c \in Admins /\ loc[c] = "cerrado" /\ modo' = "ENROLAR" /\ objetivo' = u
          /\ pedido' = [pedido EXCEPT ![c] = u]
          /\ UNCHANGED <<worker, usadas, atendidas>>
      BY <1>3 DEF ConectarAdmin
    <2>2. SensorOK'
      BY <2>1, ConstantesOK DEF SensorOK, worker
    <2>3. CASE /\ Esperar(c) \/ Devolver(c, DeLectura)
               /\ viva' = [viva EXCEPT ![c] = TRUE]
               /\ respuesta' = [respuesta EXCEPT ![c] = Nadie]
      <3>1. ColaOK' /\ Turnos' /\ Despiertos' /\ Pendientes' /\ LecturasOK'
        BY <2>1, <2>3, SeguirTurno
      <3>2. ClientesOK'
        BY <2>1, <2>3 DEF ClientesOK
      <3> QED
        BY <2>2, <3>1, <3>2
    <2>4. CASE /\ HayDe({"ENROLAMIENTO_LISTO"}) /\ cola' = Tail(cola)
               /\ respuesta' = [respuesta EXCEPT ![c] = Head(cola).de]
               /\ UNCHANGED <<esperan, loc, viva>>
      <3>1. cola # <<>> /\ loc' = [loc EXCEPT ![c] = "cerrado"]
        BY <2>1, <2>4 DEF HayDe, ColaOK
      <3>2. ColaOK' /\ Turnos' /\ Despiertos'
        BY <2>1, <2>4, <3>1, TomarTurno
      <3>3. Pendientes' /\ LecturasOK'
        BY <2>1, <2>4, <3>1, PendientesTomar DEF LecturasOK
      <3>4. Head(cola).de \in Alumnos
        BY <2>4, <3>1, MensajeTipo DEF HayDe, ColaOK
      <3>5. ClientesOK'
        BY <2>1, <2>4, <3>4 DEF ClientesOK
      <3> QED
        BY <2>2, <3>2, <3>3, <3>5
    <2> QED
      BY <1>3, <2>3, <2>4 DEF ConectarAdmin
  <1> QED
    BY <1>1, <1>2, <1>3 DEF Clientes

LEMMA IInvNext == IInv /\ [Next]_vars => IInv'
  <1> SUFFICES ASSUME IInv, [Next]_vars PROVE IInv'
    OBVIOUS
  <1>1. CASE UNCHANGED vars
    <2>1. SensorOK' /\ ClientesOK' /\ UNCHANGED <<cola, esperan, loc, usadas, atendidas>>
      BY <1>1 DEF vars, buzon, worker, IInv, SensorOK, ClientesOK
    <2> QED
      BY <2>1, IInvQuieta
  <1> QED
    BY <1>1, IInvTrabajador, IInvManejador, IInvClientes DEF Next

LEMMA IInvSiempre == Spec => []IInv
  BY IInvInit, IInvNext, PTL DEF Spec

-------------------------------------------------------------------------------
(* Every message of the queue is well formed, the mailbox and the worker   *)
(* agree with their targets, and the handlers that wait are the getters of *)
(* the queue.                                                              *)
THEOREM TiposInvariante == Spec => []TypeOK
  <1>1. IInv => TypeOK
    <2> SUFFICES ASSUME IInv PROVE TypeOK
      OBVIOUS
    <2>1. DOMAIN esperan = 1..Len(esperan)
      BY DEF IInv, ColaOK
    <2>2. {esperan[i] : i \in DOMAIN esperan} = {c \in Manejadores : loc[c] = "espera"}
      <3>1. \A i \in 1..Len(esperan) : esperan[i] \in Manejadores
        BY DEF IInv, ColaOK
      <3> QED
        BY <2>1, <3>1 DEF IInv, Turnos
    <2> QED
      BY <2>2 DEF IInv, TypeOK, ColaOK, SensorOK, ClientesOK, LecturasOK, Lugares
  <1> QED
    BY <1>1, IInvSiempre, PTL

(* Whatever number of kiosks and enrolments give messages back to the      *)
(* queue, and whoever goes away, a finger read once is never in the queue  *)
(* twice, nor again after a kiosk processed it (main.py:853-857, 940-944). *)
THEOREM LecturaUnaVezInvariante == Spec => []LecturaUnaVez
  <1>1. IInv => LecturaUnaVez
    <2> SUFFICES ASSUME IInv PROVE LecturaUnaVez
      OBVIOUS
    <2>1. DOMAIN cola = 1..Len(cola)
      BY DEF IInv, ColaOK
    <2> QED
      BY <2>1 DEF IInv, Pendientes, LecturaUnaVez
  <1> QED
    BY <1>1, IInvSiempre, PTL

(* With any number of handlers, no message stays in the queue while all of *)
(* them sleep in get (main.py:853-857, 940-944).                           *)
THEOREM SinMensajeOlvidadoInvariante == Spec => []SinMensajeOlvidado
  <1>1. IInv => SinMensajeOlvidado
    <2> SUFFICES ASSUME IInv, cola # <<>>, esperan # <<>>
                 PROVE  \E c \in Manejadores : loc[c] = "listo"
      BY DEF SinMensajeOlvidado
    <2>1. Len(cola) \in Nat \ {0} /\ Len(cola) <= Cardinality(ListosEn(loc))
      BY DEF IInv, ColaOK, Despiertos
    <2>2. IsFiniteSet(ListosEn(loc)) /\ Cardinality(ListosEn(loc)) \in Nat
      BY FS_CardinalityType DEF IInv, Despiertos
    <2>3. ListosEn(loc) # {}
      BY <2>1, <2>2, FS_EmptySet
    <2> QED
      BY <2>3 DEF ListosEn
  <1> QED
    BY <1>1, IInvSiempre, PTL

================================================================================
