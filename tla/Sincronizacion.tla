---------------------------- MODULE Sincronizacion ----------------------------
(***************************************************************************)
(* The copies of the register of students on several totems.  A panel is   *)
(* open on the totem that serves it; it exports that totem's students and  *)
(* posts them to every other totem (broadcastSync), every five minutes and *)
(* after what its administrator does.  Nothing travels in the other        *)
(* direction, deletions do not travel, and an import merges each student   *)
(* by RUT, writing only the columns that differ from what it had read.     *)
(*                                                                         *)
(* nombre stands for the columns every export carries (nombre, es_pae);    *)
(* huella for those an export may lack, which then stay as they are        *)
(* (huella, curso, observaciones).                                         *)
(***************************************************************************)
EXTENDS Naturals, FiniteSets

CONSTANTS
  Totems,
  Fuente,     \* the totem whose panel stays open
  Ruts, Nombres, Huellas, SinHuella,
  Canales     \* bound: requests on their way or being served, numbered

ASSUME SincronizacionOK ==
  /\ Fuente \in Totems
  /\ SinHuella \notin Huellas
  /\ Canales \subseteq Nat

VARIABLES
  tabla,      \* by totem: its students, by RUT
  abiertos,   \* totems with a panel open
  quieto,     \* the administrators have finished
  paso,       \* by request: where it is
  destino, carga,
  alumno,     \* what the import found for each student ...
  plantilla   \* ... and for her template

pedidos == <<paso, destino, carga, alumno, plantilla>>
vars == <<tabla, abiertos, quieto, pedidos>>

Ausente == [nombre |-> "ausente"]
Fila    == [nombre : Nombres, huella : Huellas \cup {SinHuella}]

Vacia    == [r \in Ruts |-> Ausente]
Hallado  == {"sin_leer", "nuevo", "distinto", "igual"}
SinLeer  == [r \in Ruts |-> "sin_leer"]

TypeOK ==
  /\ tabla \in [Totems -> [Ruts -> Fila \cup {Ausente}]]
  /\ abiertos \subseteq Totems
  /\ quieto \in BOOLEAN
  /\ paso \in [Canales -> {"libre", "viaje", "import"}]
  /\ destino \in [Canales -> Totems]
  /\ carga \in [Canales -> [Ruts -> Fila \cup {Ausente}]]
  /\ alumno \in [Canales -> [Ruts -> Hallado]]
  /\ plantilla \in [Canales -> [Ruts -> Hallado]]
  /\ \A c \in Canales : paso[c] # "import" => alumno[c] = SinLeer

Init ==
  /\ tabla = [t \in Totems |-> Vacia]
  /\ abiertos = Totems /\ quieto = FALSE
  /\ paso = [c \in Canales |-> "libre"]
  /\ destino = [c \in Canales |-> Fuente]
  /\ carga = [c \in Canales |-> Vacia]
  /\ alumno = [c \in Canales |-> SinLeer]
  /\ plantilla = [c \in Canales |-> SinLeer]

-------------------------------------------------------------------------------
(* What the administrators do on one totem.                                *)

Administra == ~quieto /\ UNCHANGED <<abiertos, quieto, pedidos>>

(* POST and PUT /api/usuarios, and the rows with RUN of an Excel.          *)
Guardar(t, r, n) ==
  /\ Administra
  /\ tabla' = [tabla EXCEPT ![t][r] =
       [nombre |-> n, huella |-> IF @ = Ausente THEN SinHuella ELSE @.huella]]

Enrolar(t, r, f) ==
  /\ Administra /\ tabla[t][r] # Ausente
  /\ tabla' = [tabla EXCEPT ![t][r].huella = f]

Eliminar(t, r) ==
  /\ Administra /\ tabla[t][r] # Ausente
  /\ tabla' = [tabla EXCEPT ![t][r] = Ausente]

(* The administrators have finished; one panel remains open, on a totem    *)
(* whose students all have a RUT: an export with a null one, which an      *)
(* Excel without RUN leaves behind, is refused whole by every receiver     *)
(* (SyncAlumno.rut is a string).                                           *)
Terminar ==
  /\ ~quieto
  /\ abiertos' = {Fuente} /\ quieto' = TRUE
  /\ UNCHANGED <<tabla, pedidos>>

-------------------------------------------------------------------------------
(* Mutant: the session of an import is used for the next one.              *)
LibreConSesion(c) ==
  /\ paso' = [paso EXCEPT ![c] = "libre"]
  /\ destino' = [destino EXCEPT ![c] = Fuente]
  /\ carga' = [carga EXCEPT ![c] = Vacia]
  /\ UNCHANGED <<alumno, plantilla>>

Libre(c) == /\ paso' = [paso EXCEPT ![c] = "libre"]
            /\ destino' = [destino EXCEPT ![c] = Fuente]
            /\ carga' = [carga EXCEPT ![c] = Vacia]
            /\ alumno' = [alumno EXCEPT ![c] = SinLeer]
            /\ plantilla' = [plantilla EXCEPT ![c] = SinLeer]

(* broadcastSync of the panel of p: one export, then a POST to each other  *)
(* totem, without waiting for their answers.                               *)
Difundir(p) ==
  /\ p \in abiertos
  /\ \E canal \in [Totems \ {p} -> {c \in Canales : paso[c] = "libre"}] :
       LET Usados == {canal[t] : t \in Totems \ {p}}
           De(c)  == CHOOSE t \in Totems \ {p} : canal[t] = c
       IN /\ Cardinality(Usados) = Cardinality(Totems) - 1
          /\ \A c \in Usados, d \in Canales \ Usados : paso[d] = "libre" => c < d
          /\ paso' = [c \in Canales |-> IF c \in Usados THEN "viaje" ELSE paso[c]]
          /\ destino' = [c \in Canales |-> IF c \in Usados THEN De(c) ELSE destino[c]]
          /\ carga' = [c \in Canales |-> IF c \in Usados THEN tabla[p] ELSE carga[c]]
  /\ UNCHANGED <<tabla, abiertos, quieto, alumno, plantilla>>

(* The network loses the request, or the totem is off.                     *)
Perder(c) ==
  /\ paso[c] = "viaje"
  /\ Libre(c)
  /\ UNCHANGED <<tabla, abiertos, quieto>>

Llegar(c) ==
  /\ paso[c] = "viaje"
  /\ paso' = [paso EXCEPT ![c] = "import"]
  /\ UNCHANGED <<tabla, abiertos, quieto, destino, carga, alumno, plantilla>>

(* api_sync_import, student by student: SELECT by RUT ...                  *)
BuscarAlumno(c, r) ==
  /\ paso[c] = "import" /\ alumno[c][r] = "sin_leer"
  /\ LET fila == tabla[destino[c]][r]
     IN alumno' = [alumno EXCEPT ![c][r] =
          IF carga[c][r] = Ausente THEN "igual"
          ELSE IF fila = Ausente THEN "nuevo"
          ELSE IF fila.nombre # carga[c][r].nombre THEN "distinto" ELSE "igual"]
  /\ UNCHANGED <<tabla, abiertos, quieto, paso, destino, carga, plantilla>>

(* Mutant: the template is overwritten also when the export has none.      *)
BuscarHuellaSiempre(c, r) ==
  /\ alumno[c][r] # "sin_leer" /\ plantilla[c][r] = "sin_leer"
  /\ LET fila == tabla[destino[c]][r]
     IN plantilla' = [plantilla EXCEPT ![c][r] =
          IF carga[c][r] = Ausente THEN "igual"
          ELSE IF fila = Ausente \/ fila.huella = SinHuella THEN "nuevo"
          ELSE IF fila.huella # carga[c][r].huella THEN "distinto" ELSE "igual"]
  /\ UNCHANGED <<tabla, abiertos, quieto, paso, destino, carga, alumno>>

(* ... and, if the export brings a template, SELECT of hers.               *)
BuscarHuella(c, r) ==
  /\ alumno[c][r] # "sin_leer" /\ plantilla[c][r] = "sin_leer"
  /\ LET fila == tabla[destino[c]][r]
     IN plantilla' = [plantilla EXCEPT ![c][r] =
          IF carga[c][r] = Ausente THEN "igual"
          ELSE IF carga[c][r].huella = SinHuella THEN "igual"
          ELSE IF fila = Ausente \/ fila.huella = SinHuella THEN "nuevo"
          ELSE IF fila.huella # carga[c][r].huella THEN "distinto" ELSE "igual"]
  /\ UNCHANGED <<tabla, abiertos, quieto, paso, destino, carga, alumno>>

(* The commit would insert a RUT or a template that is there by now        *)
(* (UNIQUE), or update a student or a template that is gone: it raises,    *)
(* and nothing of the payload stays.                                       *)
Choca(c, r) ==
  LET fila == tabla[destino[c]][r]
  IN \/ alumno[c][r] = "nuevo" /\ fila # Ausente
     \/ alumno[c][r] = "distinto" /\ fila = Ausente
     \/ /\ alumno[c][r] # "nuevo" /\ plantilla[c][r] = "distinto"
        /\ (fila = Ausente \/ fila.huella = SinHuella)
     \/ /\ alumno[c][r] # "nuevo" /\ plantilla[c][r] = "nuevo"
        /\ fila # Ausente /\ fila.huella # SinHuella

(* The row after the commit: only the columns found different are written. *)
Fusion(c, r) ==
  LET fila == tabla[destino[c]][r]
  IN CASE alumno[c][r] = "nuevo" -> carga[c][r]
       [] alumno[c][r] # "nuevo" /\ fila = Ausente -> Ausente
       [] OTHER -> [nombre |-> IF alumno[c][r] = "distinto"
                               THEN carga[c][r].nombre ELSE fila.nombre,
                    huella |-> IF plantilla[c][r] \in {"nuevo", "distinto"}
                               THEN carga[c][r].huella ELSE fila.huella]

Leido(c) == paso[c] = "import" /\ \A r \in Ruts : plantilla[c][r] # "sin_leer"

(* Mutant: students that the totem already had stay as they were.          *)
ConfirmarSoloNuevos(c) ==
  /\ Leido(c) /\ \A r \in Ruts : ~Choca(c, r)
  /\ tabla' = [tabla EXCEPT ![destino[c]] = [r \in Ruts |->
                 IF alumno[c][r] = "nuevo" THEN Fusion(c, r) ELSE @[r]]]
  /\ Libre(c)
  /\ UNCHANGED <<abiertos, quieto>>

Confirmar(c) ==
  /\ Leido(c) /\ \A r \in Ruts : ~Choca(c, r)
  /\ tabla' = [tabla EXCEPT ![destino[c]] = [r \in Ruts |-> Fusion(c, r)]]
  /\ Libre(c)
  /\ UNCHANGED <<abiertos, quieto>>

(* The transaction is rolled back: a collision, a locked base, a process   *)
(* that dies.  Wherever the import fails, nothing was committed before.    *)
Fallar(c) ==
  /\ Leido(c)
  /\ Libre(c)
  /\ UNCHANGED <<tabla, abiertos, quieto>>

-------------------------------------------------------------------------------
Administrar ==
  \E t \in Totems :
     \E r \in Ruts : \/ Eliminar(t, r)
                     \/ \E n \in Nombres : Guardar(t, r, n)
                     \/ \E f \in Huellas : Enrolar(t, r, f)

Importar(c) == \E r \in Ruts : BuscarAlumno(c, r) \/ BuscarHuella(c, r)

Next ==
  \/ Administrar \/ Terminar
  \/ \E p \in Totems : Difundir(p)
  \/ \E c \in Canales : \/ Perder(c) \/ Llegar(c) \/ Importar(c)
                        \/ Confirmar(c) \/ Fallar(c)

Spec == Init /\ [][Next]_vars

(* setInterval(broadcastSync, 5 min); a request posted again and again     *)
(* arrives now and then, and now and then an import does not fail.         *)
FairSpec ==
  /\ Spec
  /\ WF_vars(Difundir(Fuente))
  /\ SF_vars(\E c \in Canales : Llegar(c))
  /\ WF_vars(\E c \in Canales : Importar(c))
  /\ WF_vars(\E c \in Canales : Confirmar(c) \/ Fallar(c))
  /\ SF_vars(\E c \in Canales : Confirmar(c))

-------------------------------------------------------------------------------
(* A broadcast adds and corrects but never takes away: a student or a      *)
(* template only disappears from a totem when it is deleted there, however *)
(* old the payload is and whatever happens between the reads of the import *)
(* and its commit (main.py:1383-1421).                                     *)
NadaSePierde ==
  [][\A t \in Totems, r \in Ruts :
       tabla[t][r] # Ausente =>
         \/ Eliminar(t, r)
         \/ /\ tabla'[t][r] # Ausente
            /\ tabla[t][r].huella # SinHuella => tabla'[t][r].huella # SinHuella]_vars

(* Another totem has all that the panel's totem has.                       *)
Refleja(t) ==
  \A r \in Ruts :
     LET fila == tabla[Fuente][r] IN
     fila # Ausente =>
        /\ tabla[t][r] # Ausente
        /\ tabla[t][r].nombre = fila.nombre
        /\ fila.huella # SinHuella => tabla[t][r].huella = fila.huella

(* Once the administrators have finished and one panel remains open, every *)
(* totem ends up with the students of that panel's totem, and stays so,    *)
(* although requests are lost, overlap, arrive late and collide, and       *)
(* although broadcasts of the other panels were on their way               *)
(* (app.js:97-98, 1402-1422, main.py:1376-1431).                           *)
Converge == quieto ~> [](\A t \in Totems : Refleja(t))

===============================================================================
