------------------------- MODULE Sincronizacion_proofs -------------------------
(***************************************************************************)
(* Theorems about Sincronizacion for every set of totems, students and     *)
(* templates and any number of requests, checked by TLAPS.                 *)
(***************************************************************************)
EXTENDS Sincronizacion, TLAPS

-------------------------------------------------------------------------------
(* The inductive invariant.                                                *)

Filas  == Fila \cup {Ausente}
Tabla  == [Ruts -> Filas]
Lectura == [Ruts -> Hallado]

(* What an import has decided to write it can write: a new or different    *)
(* student is in the payload, a new or different template too.             *)
Hallazgos ==
  \A c \in Canales, r \in Ruts :
    /\ alumno[c][r] \in {"nuevo", "distinto"} => carga[c][r] # Ausente
    /\ plantilla[c][r] \in {"nuevo", "distinto"} =>
         carga[c][r] # Ausente /\ carga[c][r].huella # SinHuella
    /\ plantilla[c][r] # "sin_leer" => alumno[c][r] # "sin_leer"

IInv == TypeOK /\ Hallazgos

LEMMA SinLeerTipo == SinLeer \in Lectura /\ \A r \in Ruts : SinLeer[r] = "sin_leer"
  BY DEF SinLeer, Lectura, Hallado

LEMMA FilaPresente ==
  ASSUME NEW f \in Filas
  PROVE  f # Ausente <=> f \in Fila
  BY DEF Filas, Fila, Ausente

LEMMA IInvInit == Init => IInv
  <1> SUFFICES ASSUME Init PROVE IInv
    OBVIOUS
  <1>1. TypeOK
    BY SincronizacionOK DEF Init, TypeOK, Vacia, SinLeer, Hallado
  <1>2. Hallazgos
    BY DEF Init, Hallazgos, SinLeer
  <1> QED
    BY <1>1, <1>2 DEF IInv

(* A row can be written on a totem at any time: the requests only notice   *)
(* it when they commit.                                                    *)
LEMMA IInvTabla ==
  ASSUME IInv, tabla' \in [Totems -> Tabla], abiertos' \subseteq Totems, quieto' \in BOOLEAN,
         UNCHANGED pedidos
  PROVE  IInv'
  BY DEF IInv, TypeOK, Hallazgos, pedidos, Tabla, Filas, Fila, Ausente, SinLeer, Hallado

-------------------------------------------------------------------------------
(* The administrators.                                                     *)

LEMMA TablaTipo ==
  ASSUME IInv
  PROVE  /\ tabla \in [Totems -> Tabla]
         /\ \A t \in Totems, r \in Ruts : tabla[t][r] \in Filas
         /\ carga \in [Canales -> Tabla]
         /\ \A c \in Canales, r \in Ruts : carga[c][r] \in Filas
         /\ destino \in [Canales -> Totems]
  BY DEF IInv, TypeOK, Tabla, Filas

(* What an administrator leaves in the row she writes.                     *)
LEMMA GuardarFila ==
  ASSUME IInv, NEW t \in Totems, NEW r \in Ruts, NEW n \in Nombres, Guardar(t, r, n)
  PROVE  /\ tabla' \in [Totems -> Tabla]
         /\ tabla'[t][r] # Ausente
         /\ tabla[t][r] # Ausente => tabla'[t][r].huella = tabla[t][r].huella
         /\ \A u \in Totems, q \in Ruts : (u # t \/ q # r) => tabla'[u][q] = tabla[u][q]
  <1> DEFINE x == [nombre |-> n, huella |-> IF tabla[t][r] = Ausente THEN SinHuella
                                            ELSE tabla[t][r].huella]
  <1>1. tabla[t][r] \in Filas
    BY TablaTipo
  <1>2. x \in Fila
    BY <1>1, FilaPresente DEF Fila
  <1>3. x # Ausente /\ x \in Filas /\ (tabla[t][r] # Ausente => x.huella = tabla[t][r].huella)
    BY <1>2 DEF Filas, Fila, Ausente
  <1>4. tabla' = [tabla EXCEPT ![t] = [tabla[t] EXCEPT ![r] = x]]
    BY TablaTipo DEF Guardar, Tabla
  <1> HIDE DEF x
  <1> QED
    BY <1>3, <1>4, TablaTipo DEF Tabla

LEMMA EnrolarFila ==
  ASSUME IInv, NEW t \in Totems, NEW r \in Ruts, NEW f \in Huellas, Enrolar(t, r, f)
  PROVE  /\ tabla' \in [Totems -> Tabla]
         /\ tabla'[t][r] # Ausente /\ tabla'[t][r].huella # SinHuella
         /\ \A u \in Totems, q \in Ruts : (u # t \/ q # r) => tabla'[u][q] = tabla[u][q]
  <1> DEFINE x == [tabla[t][r] EXCEPT !.huella = f]
  <1>1. tabla[t][r] \in Fila
    BY TablaTipo, FilaPresente DEF Enrolar
  <1>2. x \in Fila /\ x.huella = f
    BY <1>1 DEF Fila
  <1>3. x # Ausente /\ x \in Filas /\ f # SinHuella
    BY <1>2, SincronizacionOK DEF Filas, Fila, Ausente
  <1>4. tabla' = [tabla EXCEPT ![t] = [tabla[t] EXCEPT ![r] = x]]
    BY TablaTipo DEF Enrolar, Tabla
  <1> HIDE DEF x
  <1> QED
    BY <1>2, <1>3, <1>4, TablaTipo DEF Tabla

LEMMA EliminarFila ==
  ASSUME IInv, NEW t \in Totems, NEW r \in Ruts, Eliminar(t, r)
  PROVE  /\ tabla' \in [Totems -> Tabla]
         /\ \A u \in Totems, q \in Ruts : (u # t \/ q # r) => tabla'[u][q] = tabla[u][q]
  <1>1. tabla' = [tabla EXCEPT ![t] = [tabla[t] EXCEPT ![r] = Ausente]]
    BY TablaTipo DEF Eliminar, Tabla
  <1> QED
    BY <1>1, TablaTipo DEF Tabla, Filas

LEMMA IInvAdministrar ==
  ASSUME IInv, Administrar \/ Terminar
  PROVE  IInv'
  <1>1. CASE Terminar
    BY <1>1, IInvTabla, TablaTipo, SincronizacionOK DEF Terminar
  <1>2. CASE Administrar
    <2>1. tabla' \in [Totems -> Tabla]
      BY <1>2, GuardarFila, EnrolarFila, EliminarFila DEF Administrar
    <2>2. UNCHANGED <<abiertos, quieto, pedidos>>
      BY <1>2 DEF Administrar, Guardar, Enrolar, Eliminar, Administra
    <2> QED
      BY <2>1, <2>2, IInvTabla DEF IInv, TypeOK
  <1> QED
    BY <1>1, <1>2

-------------------------------------------------------------------------------
(* The requests.                                                           *)

(* A session is empty while the import has not begun.                      *)
LEMMA SinSesion ==
  ASSUME IInv, NEW c \in Canales, NEW r \in Ruts, paso[c] # "import"
  PROVE  alumno[c][r] = "sin_leer" /\ plantilla[c][r] = "sin_leer"
  BY SinLeerTipo DEF IInv, TypeOK, Hallazgos

LEMMA IInvLibre ==
  ASSUME IInv, NEW c \in Canales, Libre(c), tabla' \in [Totems -> Tabla],
         UNCHANGED <<abiertos, quieto>>
  PROVE  IInv'
  <1>1. /\ paso' \in [Canales -> {"libre", "viaje", "import"}]
        /\ destino' \in [Canales -> Totems]
        /\ carga' \in [Canales -> Tabla]
        /\ alumno' \in [Canales -> Lectura]
        /\ plantilla' \in [Canales -> Lectura]
    BY SincronizacionOK, SinLeerTipo
    DEF Libre, IInv, TypeOK, Vacia, Tabla, Filas, Lectura
  <1>2. \A d \in Canales : paso'[d] # "import" => alumno'[d] = SinLeer
    BY DEF Libre, IInv, TypeOK
  <1>3. TypeOK'
    BY <1>1, <1>2 DEF IInv, TypeOK, Tabla, Filas, Fila, Ausente, Lectura, Hallado, SinLeer
  <1>4. Hallazgos'
    <2>1. ASSUME NEW d \in Canales, NEW r \in Ruts
          PROVE  \/ alumno'[d][r] = "sin_leer" /\ plantilla'[d][r] = "sin_leer"
                 \/ /\ alumno'[d][r] = alumno[d][r] /\ plantilla'[d][r] = plantilla[d][r]
                    /\ carga'[d][r] = carga[d][r]
      BY SinLeerTipo DEF Libre, IInv, TypeOK
    <2> QED
      BY <2>1 DEF IInv, Hallazgos, Ausente
  <1> QED
    BY <1>3, <1>4 DEF IInv

LEMMA IInvDifundir ==
  ASSUME IInv, NEW p \in Totems, Difundir(p)
  PROVE  IInv'
  <1>1. PICK canal \in [Totems \ {p} -> {c \in Canales : paso[c] = "libre"}] :
          LET Usados == {canal[t] : t \in Totems \ {p}}
              De(c)  == CHOOSE t \in Totems \ {p} : canal[t] = c
          IN /\ paso' = [c \in Canales |-> IF c \in Usados THEN "viaje" ELSE paso[c]]
             /\ destino' = [c \in Canales |-> IF c \in Usados THEN De(c) ELSE destino[c]]
             /\ carga' = [c \in Canales |-> IF c \in Usados THEN tabla[p] ELSE carga[c]]
    BY DEF Difundir
  <1> DEFINE Usados == {canal[t] : t \in Totems \ {p}}
             De(c)  == CHOOSE t \in Totems \ {p} : canal[t] = c
  <1>2. UNCHANGED <<tabla, abiertos, quieto, alumno, plantilla>>
    BY DEF Difundir
  <1>3. \A c \in Usados : c \in Canales /\ paso[c] = "libre" /\ De(c) \in Totems
    OBVIOUS
  <1>4. /\ paso' = [c \in Canales |-> IF c \in Usados THEN "viaje" ELSE paso[c]]
        /\ destino' = [c \in Canales |-> IF c \in Usados THEN De(c) ELSE destino[c]]
        /\ carga' = [c \in Canales |-> IF c \in Usados THEN tabla[p] ELSE carga[c]]
    BY <1>1
  <1> HIDE DEF Usados, De
  <1>5. /\ paso' \in [Canales -> {"libre", "viaje", "import"}]
        /\ destino' \in [Canales -> Totems]
        /\ carga' \in [Canales -> Tabla]
    BY <1>3, <1>4, TablaTipo DEF IInv, TypeOK
  <1>6. \A c \in Canales : paso'[c] # "import" => paso[c] # "import"
    BY <1>3, <1>4 DEF IInv, TypeOK
  <1>7. TypeOK'
    BY <1>2, <1>5, <1>6
    DEF IInv, TypeOK, Tabla, Filas, Fila, Ausente, Lectura, Hallado, SinLeer
  <1>8. Hallazgos'
    <2>1. ASSUME NEW c \in Canales, NEW r \in Ruts
          PROVE  \/ alumno'[c][r] = "sin_leer" /\ plantilla'[c][r] = "sin_leer"
                 \/ carga'[c][r] = carga[c][r]
      <3>1. CASE c \in Usados
        BY <1>2, <1>3, <3>1, SinSesion
      <3>2. CASE c \notin Usados
        BY <1>4, <3>2
      <3> QED
        BY <3>1, <3>2
    <2> QED
      BY <1>2, <2>1 DEF IInv, Hallazgos, Ausente
  <1> QED
    BY <1>7, <1>8 DEF IInv

LEMMA IInvLlegar ==
  ASSUME IInv, NEW c \in Canales, Llegar(c)
  PROVE  IInv'
  BY DEF Llegar, IInv, TypeOK, Hallazgos, Fila, Ausente, Hallado, SinLeer

LEMMA IInvImportar ==
  ASSUME IInv, NEW c \in Canales, Importar(c)
  PROVE  IInv'
  <1>1. PICK r \in Ruts : BuscarAlumno(c, r) \/ BuscarHuella(c, r)
    BY DEF Importar
  <1>2. UNCHANGED <<tabla, abiertos, quieto, paso, destino, carga>>
    BY <1>1 DEF BuscarAlumno, BuscarHuella
  <1>3. alumno \in [Canales -> Lectura] /\ plantilla \in [Canales -> Lectura]
    BY DEF IInv, TypeOK, Lectura
  <1>4. CASE BuscarAlumno(c, r)
    <2>1. PICK x \in Hallado : /\ alumno' = [alumno EXCEPT ![c][r] = x]
                               /\ x \in {"nuevo", "distinto"} => carga[c][r] # Ausente
                               /\ x # "sin_leer"
      BY <1>4 DEF BuscarAlumno, Hallado
    <2>2. paso[c] = "import" /\ plantilla' = plantilla
      BY <1>4 DEF BuscarAlumno
    <2>3. /\ alumno' \in [Canales -> Lectura] /\ alumno'[c][r] = x
          /\ \A d \in Canales : d # c => alumno'[d] = alumno[d]
          /\ \A d \in Canales, q \in Ruts : (d # c \/ q # r) => alumno'[d][q] = alumno[d][q]
      BY <1>3, <2>1 DEF Lectura
    <2>4. TypeOK'
      BY <1>2, <2>2, <2>3 DEF IInv, TypeOK, Lectura, Hallado, Fila, Ausente, SinLeer
    <2>5. Hallazgos'
      BY <1>2, <2>1, <2>2, <2>3 DEF IInv, Hallazgos, Ausente
    <2> QED
      BY <2>4, <2>5 DEF IInv
  <1>5. CASE BuscarHuella(c, r)
    <2>1. PICK x \in Hallado : /\ plantilla' = [plantilla EXCEPT ![c][r] = x]
                               /\ x \in {"nuevo", "distinto"} =>
                                    carga[c][r] # Ausente /\ carga[c][r].huella # SinHuella
      BY <1>5 DEF BuscarHuella, Hallado
    <2>2. alumno[c][r] # "sin_leer" /\ alumno' = alumno
      BY <1>5 DEF BuscarHuella
    <2>3. /\ plantilla' \in [Canales -> Lectura] /\ plantilla'[c][r] = x
          /\ \A d \in Canales, q \in Ruts : (d # c \/ q # r) => plantilla'[d][q] = plantilla[d][q]
      BY <1>3, <2>1 DEF Lectura
    <2>4. TypeOK'
      BY <1>2, <2>2, <2>3 DEF IInv, TypeOK, Lectura, Hallado, Fila, Ausente, SinLeer
    <2>5. Hallazgos'
      BY <1>2, <2>1, <2>2, <2>3 DEF IInv, Hallazgos, Ausente
    <2> QED
      BY <2>4, <2>5 DEF IInv
  <1> QED
    BY <1>1, <1>4, <1>5

(* The row that the commit leaves is a row, and has all the old one had.   *)
LEMMA FusionConserva ==
  ASSUME IInv, NEW c \in Canales, NEW r \in Ruts, Leido(c), ~Choca(c, r)
  PROVE  /\ Fusion(c, r) \in Filas
         /\ LET fila == tabla[destino[c]][r] IN
            fila # Ausente =>
              /\ Fusion(c, r) # Ausente
              /\ fila.huella # SinHuella => Fusion(c, r).huella # SinHuella
  <1> DEFINE fila == tabla[destino[c]][r]
  <1>1. fila \in Filas /\ carga[c][r] \in Filas
    BY TablaTipo
  <1>2. plantilla[c][r] # "sin_leer" /\ alumno[c][r] \in Hallado
    BY DEF Leido, IInv, TypeOK
  <1>3. CASE alumno[c][r] = "nuevo"
    BY <1>1, <1>3 DEF Fusion, Choca
  <1>4. CASE alumno[c][r] # "nuevo" /\ fila = Ausente
    BY <1>1, <1>4 DEF Fusion
  <1>5. CASE alumno[c][r] # "nuevo" /\ fila # Ausente
    <2> DEFINE n == IF alumno[c][r] = "distinto" THEN carga[c][r].nombre ELSE fila.nombre
               h == IF plantilla[c][r] \in {"nuevo", "distinto"}
                    THEN carga[c][r].huella ELSE fila.huella
    <2>1. Fusion(c, r) = [nombre |-> n, huella |-> h]
      BY <1>5 DEF Fusion
    <2>2. fila \in Fila
      BY <1>1, <1>5, FilaPresente
    <2>3. alumno[c][r] = "distinto" => carga[c][r] \in Fila
      BY <1>1, FilaPresente DEF IInv, Hallazgos
    <2>4. plantilla[c][r] \in {"nuevo", "distinto"} =>
            carga[c][r] \in Fila /\ carga[c][r].huella # SinHuella
      BY <1>1, FilaPresente DEF IInv, Hallazgos
    <2>5. n \in Nombres /\ h \in Huellas \cup {SinHuella}
          /\ (fila.huella # SinHuella => h # SinHuella)
      BY <2>2, <2>3, <2>4 DEF Fila
    <2> HIDE DEF n, h
    <2>6. Fusion(c, r) \in Fila /\ Fusion(c, r).huella = h
      BY <2>1, <2>5 DEF Fila
    <2> QED
      BY <2>5, <2>6, FilaPresente DEF Filas
  <1> QED
    BY <1>3, <1>4, <1>5

LEMMA ConfirmarFilas ==
  ASSUME IInv, NEW c \in Canales, Confirmar(c)
  PROVE  /\ tabla' \in [Totems -> Tabla]
         /\ \A r \in Ruts : tabla'[destino[c]][r] = Fusion(c, r)
         /\ \A t \in Totems \ {destino[c]} : tabla'[t] = tabla[t]
  <1>1. [r \in Ruts |-> Fusion(c, r)] \in Tabla
    BY FusionConserva DEF Confirmar, Tabla
  <1> QED
    BY <1>1, TablaTipo DEF Confirmar

LEMMA IInvNext == IInv /\ [Next]_vars => IInv'
  <1> SUFFICES ASSUME IInv, [Next]_vars PROVE IInv'
    OBVIOUS
  <1>1. ASSUME NEW c \in Canales, Perder(c) \/ Fallar(c)
        PROVE  IInv'
    BY <1>1, TablaTipo, IInvLibre DEF Perder, Fallar
  <1>2. ASSUME NEW c \in Canales, Confirmar(c)
        PROVE  IInv'
    BY <1>2, ConfirmarFilas, IInvLibre DEF Confirmar
  <1>3. CASE UNCHANGED vars
    BY <1>3, TablaTipo, IInvTabla DEF vars, IInv, TypeOK
  <1> QED
    BY <1>1, <1>2, <1>3, IInvAdministrar, IInvDifundir, IInvLlegar, IInvImportar DEF Next

LEMMA IInvSiempre == Spec => []IInv
  BY IInvInit, IInvNext, PTL DEF Spec

(* Rows and payloads are always whole: an import never writes a row made   *)
(* of parts that no totem had.                                             *)
THEOREM TiposInvariante == Spec => []TypeOK
  <1>1. IInv => TypeOK
    BY DEF IInv
  <1> QED
    BY <1>1, IInvSiempre, PTL

(* Between any number of totems, however old the payload and whatever      *)
(* happens between the reads of an import and its commit, a broadcast      *)
(* takes no student and no template away (main.py:1383-1421).              *)
THEOREM NadaSePierdeSiempre == Spec => NadaSePierde
  <1> DEFINE Conserva ==
        \A t \in Totems, r \in Ruts :
          tabla[t][r] # Ausente =>
            \/ Eliminar(t, r)
            \/ /\ tabla'[t][r] # Ausente
               /\ tabla[t][r].huella # SinHuella => tabla'[t][r].huella # SinHuella
  <1>1. IInv /\ [Next]_vars => Conserva
    <2> SUFFICES ASSUME IInv, [Next]_vars PROVE Conserva
      OBVIOUS
    <2>1. CASE tabla' = tabla
      BY <2>1
    <2>2. CASE Administrar
      <3>1. PICK t \in Totems, r \in Ruts :
              \/ Eliminar(t, r)
              \/ \E n \in Nombres : Guardar(t, r, n)
              \/ \E f \in Huellas : Enrolar(t, r, f)
        BY <2>2 DEF Administrar
      <3>2. CASE Eliminar(t, r)
        BY <3>2, EliminarFila
      <3>3. ASSUME NEW n \in Nombres, Guardar(t, r, n)
            PROVE  Conserva
        BY <3>3, GuardarFila
      <3>4. ASSUME NEW f \in Huellas, Enrolar(t, r, f)
            PROVE  Conserva
        BY <3>4, EnrolarFila
      <3> QED
        BY <3>1, <3>2, <3>3, <3>4
    <2>3. ASSUME NEW c \in Canales, Confirmar(c)
          PROVE  Conserva
      BY <2>3, ConfirmarFilas, FusionConserva DEF Confirmar
    <2> QED
      BY <2>1, <2>2, <2>3
      DEF Next, Terminar, Difundir, Perder, Llegar, Importar, BuscarAlumno, BuscarHuella,
          Fallar, vars
  <1> QED
    BY <1>1, IInvSiempre, PTL DEF Spec, NadaSePierde

===============================================================================
