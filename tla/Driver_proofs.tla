----------------------------- MODULE Driver_proofs -----------------------------
(***************************************************************************)
(* Theorems about Driver for every set of threads, users, templates and    *)
(* handles and every timeout, checked by TLAPS: its invariants, and that   *)
(* the object behaves as the atomic one of Sensor.                         *)
(***************************************************************************)
EXTENDS Driver, FiniteSetTheorems, TLAPS

-------------------------------------------------------------------------------
(* The inductive invariant.                                                *)

Dentro == EnInit \cup EnClose

(* The methods of HuellaService that reach each point.                     *)
Corresponde(l, o) ==
  /\ l \in {"ini"} \cup EnInit => o \in {"inicializar", "identificar", "refrescar"}
  /\ l \in {"cer"} \cup EnClose => o = "refrescar"
  /\ l \in {"tomar", "t_plazo", "t_sdk", "t_dormir", "buscar", "s_sdk"}
       => o \in {"identificar", "capturar"}
  /\ l \in {"agregar", "a_sdk"} => o = "guardar"

(* A thread inside a method has the locks of that method, and the GIL is   *)
(* held exactly while it is inside init_sensor or close_sensor.            *)
Control ==
  /\ gil \in Hilos \cup {Nadie}
  /\ initLock \in Hilos \cup {Nadie}
  /\ captureLock \in Hilos \cup {Nadie}
  /\ pc \in [Hilos -> Puntos]
  /\ op \in [Hilos -> Operaciones]
  /\ plazo \in [Hilos -> 0..Plazo]
  /\ manejo \in [Hilos -> Manejos \cup {Nulo}]
  /\ \A h \in Hilos :
       /\ Corresponde(pc[h], op[h])
       /\ pc[h] # "libre" /\ UsaInit(op[h]) => initLock = h
       /\ pc[h] # "libre" /\ UsaCaptura(op[h]) => captureLock = h
       /\ pc[h] \in Dentro <=> gil = h

(* Where the thread that changes the object is.                            *)
Fase == IF gil = Nadie THEN "fuera" ELSE pc[gil]

(* What the members are at each of those points: a partly built or partly  *)
(* undone object is never mistaken for another one.                        *)
Objeto ==
  /\ m_deviceHandle \in Manejos \cup {Nulo}
  /\ m_dbCacheHandle \in Manejos \cup {Nulo}
  /\ m_isInitialized \in BOOLEAN
  /\ Fase \in EnInit \ {"i_fin"} => ~m_isInitialized
  /\ Fase \in EnClose \cup {"i_fin"} => m_isInitialized
  /\ m_imageBuffer = (m_isInitialized \/ Fase \in {"i_db", "i_listo"})
  /\ zkfp = IF m_isInitialized \/ Fase \in EnInit \ {"i_init"} THEN 1 ELSE 0
  /\ m_deviceHandle # Nulo <=>
       \/ m_isInitialized /\ Fase # "c_term"
       \/ Fase \in {"i_params", "i_db", "i_listo"}
  /\ m_dbCacheHandle # Nulo <=>
       \/ m_isInitialized /\ Fase \notin {"c_disp", "c_term"}
       \/ Fase = "i_listo"
  /\ vivos = {m_deviceHandle, m_dbCacheHandle} \ {Nulo}
  /\ m_deviceHandle = m_dbCacheHandle => m_deviceHandle = Nulo

Cache ==
  /\ conectado \in BOOLEAN
  /\ contenido \in [Usuarios -> Huellas \cup {SinHuella}]
  /\ Fase = "i_listo" => contenido = RamVacia

(* A capture and a call on the cache found the object up, which nobody     *)
(* closes while they hold capture_lock.                                    *)
Usando == {"t_plazo", "t_sdk", "t_dormir", "a_sdk", "s_sdk"}

EnUso ==
  \A h \in Hilos :
    /\ pc[h] \in Usando => m_isInitialized
    /\ pc[h] = "t_sdk" => manejo[h] = m_deviceHandle
    /\ pc[h] \in {"a_sdk", "s_sdk"} => manejo[h] = m_dbCacheHandle

IInv == Control /\ Objeto /\ Cache /\ EnUso

-------------------------------------------------------------------------------
(* Lemmas about control.                                                   *)

LEMMA DentroTiene ==
  ASSUME Control, NEW h \in Hilos
  PROVE  /\ pc[h] \in Dentro => gil = h /\ Fase = pc[h]
         /\ pc[h] \notin Dentro => gil # h
         /\ gil # Nadie => gil \in Hilos /\ Fase \in Dentro
  BY DriverOK DEF Control, Fase

LEMMA DentroBien ==
  /\ ~("libre" \in Dentro) /\ ~("fuera" \in Dentro) /\ Dentro \subseteq Puntos
  BY DEF Dentro, EnInit, EnClose, Puntos

(* A thread goes on in its method, and takes or leaves the GIL.            *)
LEMMA ControlMover ==
  ASSUME Control, NEW h \in Hilos, NEW l \in Puntos, pc[h] # "libre", Ir(h, l),
         Corresponde(l, op[h]), UNCHANGED <<op, initLock, captureLock>>,
         plazo' \in [Hilos -> 0..Plazo], manejo' \in [Hilos -> Manejos \cup {Nulo}],
         gil' = IF l \in Dentro THEN h ELSE IF gil = h THEN Nadie ELSE gil,
         l \in Dentro => gil \in {h, Nadie}
  PROVE  /\ Control'
         /\ Fase' = IF l \in Dentro THEN l
                    ELSE IF pc[h] \in Dentro THEN "fuera" ELSE Fase
  <1>1. /\ pc' \in [Hilos -> Puntos] /\ pc'[h] = l
        /\ \A k \in Hilos \ {h} : pc'[k] = pc[k]
    BY DEF Ir, Control
  <1>2. gil' \in Hilos \cup {Nadie} /\ Dentro' = Dentro
    BY DEF Control, Dentro, EnInit, EnClose
  <1>3. \A k \in Hilos : pc'[k] \in Dentro <=> gil' = k
    BY <1>1, DriverOK DEF Control
  <1>4. \A k \in Hilos :
          /\ Corresponde(pc'[k], op'[k])
          /\ pc'[k] # "libre" /\ UsaInit(op'[k]) => initLock' = k
          /\ pc'[k] # "libre" /\ UsaCaptura(op'[k]) => captureLock' = k
    BY <1>1 DEF Control
  <1>5. Control'
    BY <1>1, <1>2, <1>3, <1>4 DEF Control, Corresponde, UsaInit, UsaCaptura
  <1>6. Fase' = IF l \in Dentro THEN l
                ELSE IF pc[h] \in Dentro THEN "fuera" ELSE Fase
    BY <1>1, DriverOK, DentroTiene DEF Control, Fase
  <1> QED
    BY <1>5, <1>6

(* A method ends, wherever the thread was.                                 *)
LEMMA ControlVolver ==
  ASSUME Control, NEW h \in Hilos, Volver(h), gil' = IF gil = h THEN Nadie ELSE gil
  PROVE  /\ Control'
         /\ Fase' = IF pc[h] \in Dentro THEN "fuera" ELSE Fase
  <1>1. /\ pc' \in [Hilos -> Puntos] /\ pc'[h] = "libre"
        /\ \A k \in Hilos \ {h} : pc'[k] = pc[k]
    BY DEF Volver, Ir, Control, Puntos
  <1>2. /\ gil' \in Hilos \cup {Nadie}
        /\ initLock' \in Hilos \cup {Nadie} /\ captureLock' \in Hilos \cup {Nadie}
    BY DEF Volver, Control
  <1>3. /\ plazo' \in [Hilos -> 0..Plazo] /\ manejo' \in [Hilos -> Manejos \cup {Nulo}]
        /\ op' = op
    BY DriverOK DEF Volver, Control
  <1>4. \A k \in Hilos : pc'[k] \in Dentro <=> gil' = k
    BY <1>1, DriverOK, DentroBien DEF Control
  <1>5. Corresponde("libre", op[h])
    BY DEF Corresponde, EnInit, EnClose
  <1>6. \A k \in Hilos :
          /\ Corresponde(pc'[k], op'[k])
          /\ pc'[k] # "libre" /\ UsaInit(op'[k]) => initLock' = k
          /\ pc'[k] # "libre" /\ UsaCaptura(op'[k]) => captureLock' = k
    <2> TAKE k \in Hilos
    <2>1. CASE k = h
      BY <1>1, <1>3, <1>5, <2>1
    <2>2. CASE k # h
      BY <1>1, <1>3, <2>2 DEF Control, Volver
    <2> QED
      BY <2>1, <2>2
  <1>7. Control'
    BY <1>1, <1>2, <1>3, <1>4, <1>6
    DEF Control, Corresponde, UsaInit, UsaCaptura, Dentro, EnInit, EnClose
  <1>8. Fase' = IF pc[h] \in Dentro THEN "fuera" ELSE Fase
    BY <1>1, DriverOK, DentroTiene, DentroBien DEF Control, Fase
  <1> QED
    BY <1>7, <1>8

(* Two threads never hold capture_lock, so that nobody is closing the      *)
(* reader while another one captures or looks up.                          *)
LEMMA SinCierre ==
  ASSUME Control, NEW h \in Hilos,
         pc[h] \in Usando \cup {"tomar", "agregar", "buscar"}
  PROVE  Fase \notin EnClose /\ \A k \in Hilos : pc[k] \notin EnClose \cup {"cer"}
  <1>1. op[h] # "inicializar" /\ captureLock = h /\ pc[h] \notin EnClose \cup {"cer"}
    BY DEF Control, Corresponde, UsaCaptura, EnClose, Usando
  <1>2. ASSUME NEW k \in Hilos, pc[k] \in EnClose \cup {"cer"}
        PROVE  FALSE
    <2>1. op[k] = "refrescar" /\ pc[k] # "libre"
      BY <1>2 DEF Control, Corresponde, EnClose
    <2>2. captureLock = k
      BY <2>1 DEF Control, UsaCaptura
    <2> QED
      BY <1>1, <1>2, <2>2
  <1>3. Fase \notin EnClose
    BY <1>2 DEF Fase, Control, EnClose
  <1> QED
    BY <1>2, <1>3

-------------------------------------------------------------------------------
(* Lemmas about the object and its users.                                  *)

LEMMA ObjetoQuieto ==
  ASSUME Objeto, Cache, UNCHANGED <<sdk, miembros>>, Fase' = Fase, conectado' \in BOOLEAN
  PROVE  Objeto' /\ Cache'
  <1>1. Objeto'
    BY DEF Objeto, sdk, miembros, EnInit, EnClose
  <1>2. Cache'
    BY DEF Cache, sdk, RamVacia
  <1> QED
    BY <1>1, <1>2

(* A step that leaves the handles and does not take the flag away.         *)
LEMMA EnUsoQuieto ==
  ASSUME Control, EnUso, NEW h \in Hilos, NEW l, Ir(h, l), l \notin Usando,
         m_isInitialized => m_isInitialized',
         UNCHANGED <<m_deviceHandle, m_dbCacheHandle>>,
         \A k \in Hilos \ {h} : manejo'[k] = manejo[k]
  PROVE  EnUso'
  BY DEF Control, EnUso, Usando, Ir

(* A step while nobody uses the object.                                    *)
LEMMA EnUsoVacio ==
  ASSUME Control, \A k \in Hilos : pc[k] \notin Usando,
         NEW h \in Hilos, NEW l, Ir(h, l), l \notin Usando
  PROVE  EnUso'
  BY DEF Control, EnUso, Usando, Ir

(* A step of a thread that is outside init_sensor and close_sensor, and    *)
(* stays outside, which does not touch the object.                         *)
LEMMA AparteMover ==
  ASSUME IInv, NEW h \in Hilos, NEW l \in Puntos \ Dentro, pc[h] \notin Dentro \cup {"libre"},
         Ir(h, l), Corresponde(l, op[h]), UNCHANGED <<conectado, candados, op, sdk, miembros>>,
         plazo' \in [Hilos -> 0..Plazo], manejo' \in [Hilos -> Manejos \cup {Nulo}]
  PROVE  Control' /\ Objeto' /\ Cache'
  <1>1. Control' /\ Fase' = Fase
    BY ControlMover, DentroTiene DEF IInv, candados
  <1> QED
    BY <1>1, ObjetoQuieto DEF IInv, Cache

LEMMA AparteSeguir ==
  ASSUME IInv, NEW h \in Hilos, NEW l \in Puntos \ Dentro, pc[h] \notin Dentro \cup {"libre"},
         Seguir(h, l), Corresponde(l, op[h]), UNCHANGED <<sdk, miembros>>,
         l \in Usando => pc[h] \in {"t_plazo", "t_sdk", "t_dormir"} /\ l \in {"t_plazo", "t_dormir"}
  PROVE  IInv'
  <1>1. Control' /\ Objeto' /\ Cache'
    BY AparteMover DEF Seguir, locales, IInv, Control
  <1>2. EnUso'
    BY DEF IInv, Control, EnUso, Usando, Seguir, Ir, locales, miembros
  <1> QED
    BY <1>1, <1>2 DEF IInv

LEMMA AparteVolver ==
  ASSUME IInv, NEW h \in Hilos, pc[h] \notin Dentro, Volver(h),
         UNCHANGED <<gil, sdk, miembros>>
  PROVE  IInv'
  <1>1. gil # h
    BY DentroTiene DEF IInv
  <1>2. Control' /\ Fase' = Fase
    BY <1>1, ControlVolver DEF IInv
  <1>3. Objeto' /\ Cache'
    BY <1>2, ObjetoQuieto DEF IInv, Cache, Volver
  <1>4. \A k \in Hilos \ {h} : manejo'[k] = manejo[k]
    BY DEF Volver, IInv, Control
  <1>5. EnUso'
    BY <1>4, EnUsoQuieto DEF Volver, IInv, Usando, miembros
  <1> QED
    BY <1>2, <1>3, <1>5 DEF IInv

(* A step inside init_sensor or close_sensor, to another point of them.    *)
LEMMA DentroSeguir ==
  ASSUME IInv, NEW h \in Hilos, pc[h] \in Dentro, NEW l \in Dentro,
         Seguir(h, l), Corresponde(l, op[h])
  PROVE  Control' /\ Fase = pc[h] /\ Fase' = l
  <1>1. gil = h /\ Fase = pc[h] /\ pc[h] # "libre" /\ l \in Puntos
    BY DentroTiene, DentroBien DEF IInv
  <1> QED
    BY <1>1, ControlMover DEF IInv, Seguir, candados, locales, Control

LEMMA DentroRetornar ==
  ASSUME IInv, NEW h \in Hilos, pc[h] \in Dentro, Retornar(h)
  PROVE  /\ Control' /\ Fase = pc[h] /\ Fase' = "fuera"
         /\ \A k \in Hilos \ {h} : manejo'[k] = manejo[k]
         /\ Ir(h, "libre") /\ conectado' = conectado
  <1>1. Fase = pc[h]
    BY DentroTiene DEF IInv
  <1>2. Control' /\ Fase' = "fuera"
    BY ControlVolver DEF IInv, Retornar
  <1> QED
    BY <1>1, <1>2 DEF Retornar, Volver, IInv, Control

-------------------------------------------------------------------------------
(* The invariant, action by action.                                        *)

LEMMA IInvInit == Init => IInv
  <1> SUFFICES ASSUME Init PROVE IInv
    OBVIOUS
  <1>1. Control
    BY DriverOK DEF Init, Control, Corresponde, Puntos, Operaciones, Dentro, EnInit, EnClose
  <1>2. Objeto /\ Cache
    BY DEF Init, Objeto, Cache, Fase, RamVacia, EnInit, EnClose
  <1>3. EnUso
    BY DEF Init, EnUso, Usando
  <1> QED
    BY <1>1, <1>2, <1>3 DEF IInv

LEMMA IInvEntrar ==
  ASSUME IInv, NEW h \in Hilos, NEW o \in Operaciones, Entrar(h, o)
  PROVE  IInv'
  <1>1. /\ pc' \in [Hilos -> Puntos] /\ pc'[h] = Primera(o) /\ op'[h] = o
        /\ op' \in [Hilos -> Operaciones]
        /\ \A k \in Hilos \ {h} : pc'[k] = pc[k] /\ op'[k] = op[k]
        /\ Primera(o) \in Puntos \ (Dentro \cup Usando)
        /\ Corresponde(Primera(o), o)
    BY DEF Entrar, Ir, IInv, Control, Primera, Operaciones, Puntos, Dentro, EnInit,
           EnClose, Usando, Corresponde
  <1>2. /\ gil' = gil /\ plazo' = plazo /\ manejo' = manejo /\ pc[h] = "libre" /\ gil # h
        /\ initLock' \in Hilos \cup {Nadie} /\ captureLock' \in Hilos \cup {Nadie}
    BY DentroTiene, DentroBien DEF Entrar, locales, IInv, Control
  <1>3. \A k \in Hilos : pc'[k] \in Dentro <=> gil' = k
    BY <1>1, <1>2 DEF IInv, Control
  <1>4. \A k \in Hilos :
          /\ Corresponde(pc'[k], op'[k])
          /\ pc'[k] # "libre" /\ UsaInit(op'[k]) => initLock' = k
          /\ pc'[k] # "libre" /\ UsaCaptura(op'[k]) => captureLock' = k
    <2> TAKE k \in Hilos
    <2>1. CASE k = h
      BY <1>1, <2>1 DEF Entrar
    <2>2. CASE k # h
      BY <1>1, <2>2, DriverOK DEF Entrar, IInv, Control
    <2> QED
      BY <2>1, <2>2
  <1>5. Control'
    BY <1>1, <1>2, <1>3, <1>4
    DEF IInv, Control, Corresponde, UsaInit, UsaCaptura, Dentro, EnInit, EnClose
  <1>6. Fase' = Fase
    BY <1>1, <1>2, DriverOK DEF IInv, Control, Fase
  <1>7. Objeto' /\ Cache'
    BY <1>6, ObjetoQuieto DEF IInv, Cache, Entrar
  <1>8. EnUso'
    BY <1>1, <1>2, EnUsoQuieto DEF IInv, Entrar, miembros
  <1> QED
    BY <1>5, <1>7, <1>8 DEF IInv

(* The captures and the calls on the cache: the object stays as it is.     *)
LEMMA IInvFallar ==
  ASSUME IInv, NEW h \in Hilos, pc[h] \in {"tomar", "t_plazo"}, Fallar(h),
         UNCHANGED <<sdk, miembros>>
  PROVE  IInv'
  <1>1. pc[h] \notin Dentro \cup {"libre"}
        /\ "ini" \in Puntos \ (Dentro \cup Usando)
    BY DEF Dentro, EnInit, EnClose, Puntos, Usando
  <1>2. CASE op[h] = "identificar"
    BY <1>1, <1>2, AparteSeguir DEF Fallar, Corresponde, EnClose
  <1>3. CASE op[h] # "identificar"
    BY <1>1, <1>3, AparteVolver DEF Fallar
  <1> QED
    BY <1>2, <1>3

LEMMA IInvCaptura ==
  ASSUME IInv, NEW h \in Hilos, EnCaptura(h)
  PROVE  IInv'
  <1>1. pc[h] \in {"tomar", "t_plazo", "t_sdk", "t_dormir"}
    BY DEF EnCaptura, Tomar, VerPlazo, Acquire, Dormir
  <1>2. pc[h] \notin Dentro \cup {"libre"} /\ op[h] \in {"identificar", "capturar"}
    BY <1>1 DEF Dentro, EnInit, EnClose, IInv, Control, Corresponde
  <1>3. {"t_plazo", "t_sdk", "t_dormir", "buscar"} \subseteq Puntos \ Dentro
        /\ \A l \in {"t_plazo", "t_sdk", "t_dormir", "buscar"} : Corresponde(l, op[h])
    BY <1>2 DEF Dentro, EnInit, EnClose, EnSDK, Puntos, Corresponde
  <1>4. ASSUME Tomar(h), ~Fallar(h)
        PROVE  IInv'
    <2>1. /\ Ir(h, "t_plazo") /\ plazo' = [plazo EXCEPT ![h] = Plazo]
          /\ UNCHANGED <<conectado, candados, op, manejo, sdk, miembros>>
          /\ m_isInitialized
      BY <1>4 DEF Tomar
    <2>2. plazo' \in [Hilos -> 0..Plazo]
      BY <2>1, DriverOK DEF IInv, Control
    <2>3. Control' /\ Objeto' /\ Cache'
      BY <1>2, <1>3, <2>1, <2>2, AparteMover DEF IInv, Control
    <2>4. EnUso'
      BY <2>1 DEF IInv, Control, EnUso, Ir, miembros
    <2> QED
      BY <2>3, <2>4 DEF IInv
  <1>5. ASSUME VerPlazo(h), ~Fallar(h)
        PROVE  IInv'
    <2>1. /\ Ir(h, "t_sdk") /\ manejo' = [manejo EXCEPT ![h] = m_deviceHandle]
          /\ UNCHANGED <<conectado, candados, op, plazo, sdk, miembros>>
          /\ pc[h] = "t_plazo"
      BY <1>5 DEF VerPlazo
    <2>2. manejo' \in [Hilos -> Manejos \cup {Nulo}]
      BY <2>1 DEF IInv, Control, Objeto
    <2>3. Control' /\ Objeto' /\ Cache'
      BY <1>2, <1>3, <2>1, <2>2, AparteMover DEF IInv, Control
    <2>4. EnUso'
      BY <2>1 DEF IInv, Control, EnUso, Usando, Ir, miembros
    <2> QED
      BY <2>3, <2>4 DEF IInv
  <1>6. CASE Acquire(h)
    BY <1>1, <1>2, <1>3, <1>6, AparteSeguir, AparteVolver DEF Acquire, Usando
  <1>7. CASE Dormir(h)
    BY <1>1, <1>2, <1>3, <1>7, AparteSeguir DEF Dormir, Usando
  <1>8. ASSUME Tomar(h) \/ VerPlazo(h), Fallar(h)
        PROVE  IInv'
    BY <1>8, IInvFallar DEF Tomar, VerPlazo
  <1> QED
    BY <1>4, <1>5, <1>6, <1>7, <1>8 DEF EnCaptura

LEMMA IInvUsarCache ==
  ASSUME IInv, NEW h \in Hilos,
         UsarCache(h, "agregar", "a_sdk") \/ UsarCache(h, "buscar", "s_sdk")
  PROVE  IInv'
  <1>1. PICK l \in {"a_sdk", "s_sdk"} :
               \/ l = "a_sdk" /\ UsarCache(h, "agregar", l)
               \/ l = "s_sdk" /\ UsarCache(h, "buscar", l)
    OBVIOUS
  <1>2. pc[h] \notin Dentro \cup {"libre"} /\ l \in Puntos \ Dentro /\ Corresponde(l, op[h])
    BY <1>1 DEF UsarCache, Dentro, EnInit, EnClose, EnSDK, Puntos, IInv, Control, Corresponde
  <1>3. UNCHANGED <<sdk, miembros>>
    BY <1>1 DEF UsarCache
  <1>4. CASE m_isInitialized /\ m_dbCacheHandle # Nulo
    <2>1. /\ Ir(h, l) /\ manejo' = [manejo EXCEPT ![h] = m_dbCacheHandle]
          /\ UNCHANGED <<conectado, candados, op, plazo>>
      BY <1>1, <1>4 DEF UsarCache
    <2>2. manejo' \in [Hilos -> Manejos \cup {Nulo}]
      BY <2>1 DEF IInv, Control, Objeto
    <2>3. Control' /\ Objeto' /\ Cache'
      BY <1>2, <1>3, <2>1, <2>2, AparteMover DEF IInv, Control
    <2>4. EnUso'
      BY <1>3, <1>4, <2>1 DEF IInv, Control, EnUso, Usando, Ir, miembros
    <2> QED
      BY <2>3, <2>4 DEF IInv
  <1>5. CASE ~(m_isInitialized /\ m_dbCacheHandle # Nulo)
    BY <1>1, <1>2, <1>3, <1>5, AparteVolver DEF UsarCache
  <1> QED
    BY <1>4, <1>5

LEMMA IInvCache ==
  ASSUME IInv, NEW h \in Hilos, EnCache(h)
  PROVE  IInv'
  <1>1. CASE DBIdentify(h)
    <2>1. pc[h] \notin Dentro
      BY <1>1 DEF DBIdentify, Dentro, EnInit, EnClose
    <2> QED
      BY <1>1, <2>1, AparteVolver DEF DBIdentify
  <1>2. ASSUME NEW u \in Usuarios, NEW f \in Huellas, DBAdd(h, u, f)
        PROVE  IInv'
    <2>1. pc[h] = "a_sdk" /\ pc[h] \in Usando /\ pc[h] \notin Dentro
      BY <1>2 DEF DBAdd, Dentro, EnInit, EnClose, Usando
    <2>2. Control' /\ Fase' = Fase
      BY <1>2, <2>1, ControlVolver, DentroTiene DEF IInv, DBAdd
    <2>3. contenido' \in [Usuarios -> Huellas \cup {SinHuella}]
      BY <1>2 DEF DBAdd, IInv, Cache
    <2>4. Fase # "i_listo"
      BY <2>1 DEF IInv, EnUso, Objeto, EnInit
    <2>5. Objeto'
      BY <1>2, <2>2 DEF DBAdd, IInv, Objeto, miembros, EnInit, EnClose
    <2>6. Cache'
      BY <1>2, <2>2, <2>3, <2>4 DEF DBAdd, Volver, IInv, Cache
    <2>7. EnUso'
      BY <1>2, EnUsoQuieto DEF DBAdd, Volver, IInv, Control, Usando, miembros
    <2> QED
      BY <2>2, <2>5, <2>6, <2>7 DEF IInv
  <1> QED
    BY <1>1, <1>2, IInvUsarCache DEF EnCache

(* Nobody uses the object while it is built or undone.                     *)
LEMMA NadieUsa ==
  ASSUME IInv, NEW h \in Hilos, pc[h] \in Dentro \ {"i_fin"}
  PROVE  \A k \in Hilos : pc[k] \notin Usando
  <1>1. CASE pc[h] \in EnInit \ {"i_fin"}
    BY <1>1, DentroTiene DEF IInv, Objeto, EnUso, Dentro
  <1>2. CASE pc[h] \in EnClose
    BY <1>2, SinCierre DEF IInv
  <1> QED
    BY <1>1, <1>2 DEF Dentro

LEMMA IInvIniEntrar ==
  ASSUME IInv, NEW h \in Hilos, IniEntrar(h)
  PROVE  IInv'
  <1>1. pc[h] = "ini" /\ gil = Nadie /\ pc[h] \notin Dentro
    BY DEF IniEntrar, Dentro, EnInit, EnClose
  <1>2. CASE m_isInitialized
    BY <1>1, <1>2, AparteVolver DEF IniEntrar
  <1>3. CASE ~m_isInitialized
    <2>1. /\ gil' = h /\ Ir(h, "i_init")
          /\ UNCHANGED <<conectado, op, locales, initLock, captureLock, sdk, miembros>>
      BY <1>3 DEF IniEntrar
    <2>2. Corresponde("i_init", op[h]) /\ "i_init" \in Dentro /\ "i_init" \in Puntos
      BY <1>1 DEF IInv, Control, Corresponde, Dentro, EnInit, EnClose, Puntos
    <2>3. Control' /\ Fase' = "i_init" /\ Fase = "fuera"
      BY <1>1, <2>1, <2>2, ControlMover DEF IInv, Control, locales, Fase
    <2>4. Objeto' /\ Cache'
      BY <1>3, <2>1, <2>3 DEF IInv, Objeto, Cache, sdk, miembros, EnInit, EnClose, RamVacia
    <2>5. EnUso'
      BY <2>1, EnUsoQuieto DEF IInv, miembros, locales, Usando
    <2> QED
      BY <2>3, <2>4, <2>5 DEF IInv
  <1> QED
    BY <1>2, <1>3

LEMMA IInvZkInit ==
  ASSUME IInv, NEW h \in Hilos, ZkInit(h) \/ ContarEquipos(h)
  PROVE  IInv'
  <1>1. /\ pc[h] \in {"i_init", "i_cuenta"} /\ UNCHANGED <<vivos, contenido, miembros>>
        /\ pc[h] \in Dentro \ {"i_fin"}
    BY DEF ZkInit, ContarEquipos, Dentro, EnInit
  <1>2. CASE ZkInit(h) /\ zkfp' = zkfp + 1 /\ Seguir(h, "i_cuenta")
    <2>1. Control' /\ Fase = "i_init" /\ Fase' = "i_cuenta"
      BY <1>1, <1>2, DentroSeguir DEF ZkInit, IInv, Control, Corresponde, Dentro, EnInit, EnClose
    <2>2. Objeto' /\ Cache'
      BY <1>1, <1>2, <2>1 DEF IInv, Objeto, Cache, miembros, EnInit, EnClose, Seguir
    <2>3. EnUso'
      BY <1>1, <1>2, NadieUsa, EnUsoVacio DEF IInv, Seguir, Usando
    <2> QED
      BY <2>1, <2>2, <2>3 DEF IInv
  <1>3. CASE ContarEquipos(h) /\ Seguir(h, "i_abrir") /\ UNCHANGED zkfp
    <2>1. Control' /\ Fase = "i_cuenta" /\ Fase' = "i_abrir"
      BY <1>1, <1>3, DentroSeguir DEF ContarEquipos, IInv, Control, Corresponde, Dentro, EnInit, EnClose
    <2>2. Objeto' /\ Cache'
      BY <1>1, <1>3, <2>1 DEF IInv, Objeto, Cache, miembros, EnInit, EnClose, Seguir
    <2>3. EnUso'
      BY <1>1, <1>3, NadieUsa, EnUsoVacio DEF IInv, Seguir, Usando
    <2> QED
      BY <2>1, <2>2, <2>3 DEF IInv
  <1>4. CASE /\ Retornar(h)
             /\ \/ ZkInit(h) /\ UNCHANGED zkfp
                \/ ContarEquipos(h) /\ zkfp' = zkfp - 1
    <2>1. Control' /\ Fase = pc[h] /\ Fase' = "fuera" /\ Ir(h, "libre") /\ conectado' = conectado
      BY <1>1, <1>4, DentroRetornar
    <2>2. Objeto' /\ Cache'
      BY <1>1, <1>4, <2>1 DEF IInv, Objeto, Cache, miembros, EnInit, EnClose, ZkInit, ContarEquipos
    <2>3. EnUso'
      BY <1>1, <2>1, NadieUsa, EnUsoVacio DEF IInv, Usando
    <2> QED
      BY <2>1, <2>2, <2>3 DEF IInv
  <1> QED
    BY <1>2, <1>3, <1>4 DEF ZkInit, ContarEquipos

LEMMA IInvOpenDevice ==
  ASSUME IInv, NEW h \in Hilos, OpenDevice(h)
  PROVE  IInv'
  <1>1. /\ pc[h] = "i_abrir" /\ pc[h] \in Dentro \ {"i_fin"}
        /\ UNCHANGED <<contenido, m_dbCacheHandle, m_imageBuffer, m_isInitialized>>
    BY DEF OpenDevice, Dentro, EnInit
  <1>2. ASSUME NEW d \in Manejos \ vivos, m_deviceHandle' = d, vivos' = vivos \cup {d},
               Seguir(h, "i_params"), UNCHANGED zkfp
        PROVE  IInv'
    <2>1. Control' /\ Fase = "i_abrir" /\ Fase' = "i_params"
      BY <1>1, <1>2, DentroSeguir DEF IInv, Control, Corresponde, Dentro, EnInit, EnClose
    <2>2. Objeto'
      BY <1>1, <1>2, <2>1, DriverOK DEF IInv, Objeto, EnInit, EnClose
    <2>3. Cache'
      BY <1>1, <1>2, <2>1 DEF IInv, Cache, Seguir
    <2>4. EnUso'
      BY <1>1, <1>2, NadieUsa, EnUsoVacio DEF IInv, Seguir, Usando
    <2> QED
      BY <2>1, <2>2, <2>3, <2>4 DEF IInv
  <1>3. CASE /\ m_deviceHandle' = Nulo /\ zkfp' = zkfp - 1
             /\ Retornar(h) /\ UNCHANGED vivos
    <2>1. Control' /\ Fase = pc[h] /\ Fase' = "fuera" /\ Ir(h, "libre") /\ conectado' = conectado
      BY <1>1, <1>3, DentroRetornar
    <2>2. Objeto' /\ Cache'
      BY <1>1, <1>3, <2>1 DEF IInv, Objeto, Cache, EnInit, EnClose
    <2>3. EnUso'
      BY <1>1, <2>1, NadieUsa, EnUsoVacio DEF IInv, Usando
    <2> QED
      BY <2>1, <2>2, <2>3 DEF IInv
  <1> QED
    BY <1>2, <1>3 DEF OpenDevice

LEMMA IInvDBInit ==
  ASSUME IInv, NEW h \in Hilos, DBInit(h)
  PROVE  IInv'
  <1>1. pc[h] = "i_db" /\ pc[h] \in Dentro \ {"i_fin"} /\ UNCHANGED m_isInitialized
    BY DEF DBInit, Dentro, EnInit
  <1>2. ASSUME NEW c \in Manejos \ vivos, m_dbCacheHandle' = c, vivos' = vivos \cup {c},
               contenido' = RamVacia, Seguir(h, "i_listo"),
               UNCHANGED <<zkfp, m_deviceHandle, m_imageBuffer>>
        PROVE  IInv'
    <2>1. Control' /\ Fase = "i_db" /\ Fase' = "i_listo"
      BY <1>1, <1>2, DentroSeguir DEF IInv, Control, Corresponde, Dentro, EnInit, EnClose
    <2>2. Objeto'
      BY <1>1, <1>2, <2>1, DriverOK DEF IInv, Objeto, EnInit, EnClose
    <2>3. Cache'
      BY <1>1, <1>2, <2>1 DEF IInv, Cache, Seguir, RamVacia
    <2>4. EnUso'
      BY <1>1, <1>2, NadieUsa, EnUsoVacio DEF IInv, Seguir, Usando
    <2> QED
      BY <2>1, <2>2, <2>3, <2>4 DEF IInv
  <1>3. CASE /\ m_imageBuffer' = FALSE /\ vivos' = vivos \ {m_deviceHandle}
             /\ m_deviceHandle' = Nulo /\ zkfp' = zkfp - 1
             /\ Retornar(h) /\ UNCHANGED <<contenido, m_dbCacheHandle>>
    <2>1. Control' /\ Fase = pc[h] /\ Fase' = "fuera" /\ Ir(h, "libre") /\ conectado' = conectado
      BY <1>1, <1>3, DentroRetornar
    <2>2. Objeto'
      <3>1. /\ ~m_isInitialized /\ m_dbCacheHandle = Nulo /\ zkfp = 1
            /\ vivos = {m_deviceHandle, Nulo} \ {Nulo}
        BY <1>1, <2>1 DEF IInv, Objeto, EnInit, EnClose
      <3>2. /\ vivos' = {} /\ zkfp' = 0 /\ m_deviceHandle' = Nulo /\ m_dbCacheHandle' = Nulo
            /\ m_imageBuffer' = FALSE /\ m_isInitialized' = FALSE
        BY <1>1, <1>3, <3>1 DEF IInv, Objeto
      <3> QED
        BY <2>1, <3>2 DEF Objeto, EnInit, EnClose
    <2>3. Cache'
      BY <1>1, <1>3, <2>1 DEF IInv, Cache
    <2>4. EnUso'
      BY <1>1, <2>1, NadieUsa, EnUsoVacio DEF IInv, Usando
    <2> QED
      BY <2>1, <2>2, <2>3, <2>4 DEF IInv
  <1> QED
    BY <1>2, <1>3 DEF DBInit

LEMMA IInvInitSensor ==
  ASSUME IInv, NEW h \in Hilos, EnInitSensor(h)
  PROVE  IInv'
  <1>1. CASE CaptureParams(h)
    <2>1. Control' /\ Fase = "i_params" /\ Fase' = "i_db" /\ pc[h] \in Dentro \ {"i_fin"}
      BY <1>1, DentroSeguir DEF CaptureParams, IInv, Control, Corresponde, Dentro, EnInit, EnClose
    <2>2. Objeto' /\ Cache'
      BY <1>1, <2>1 DEF CaptureParams, IInv, Objeto, Cache, sdk, EnInit, EnClose, Seguir
    <2>3. EnUso'
      BY <1>1, <2>1, NadieUsa, EnUsoVacio DEF CaptureParams, IInv, Seguir, Usando
    <2> QED
      BY <2>1, <2>2, <2>3 DEF IInv
  <1>2. CASE Listo(h)
    <2>1. Control' /\ Fase = "i_listo" /\ Fase' = "i_fin" /\ pc[h] \in Dentro \ {"i_fin"}
      BY <1>2, DentroSeguir DEF Listo, IInv, Control, Corresponde, Dentro, EnInit, EnClose
    <2>2. Objeto' /\ Cache'
      BY <1>2, <2>1 DEF Listo, IInv, Objeto, Cache, sdk, EnInit, EnClose, Seguir
    <2>3. EnUso'
      BY <1>2, <2>1, NadieUsa, EnUsoVacio DEF Listo, IInv, Seguir, Usando
    <2> QED
      BY <2>1, <2>2, <2>3 DEF IInv
  <1>3. CASE IniSalir(h)
    <2>1. pc[h] = "i_fin" /\ pc[h] \in Dentro /\ UNCHANGED <<sdk, miembros>>
      BY <1>3 DEF IniSalir, Dentro, EnInit
    <2>2. /\ Control' /\ Fase = pc[h] /\ Fase' = "fuera" /\ Ir(h, "libre")
          /\ conectado' = conectado /\ \A k \in Hilos \ {h} : manejo'[k] = manejo[k]
      BY <1>3, <2>1, DentroRetornar DEF IniSalir
    <2>3. Objeto' /\ Cache'
      BY <2>1, <2>2 DEF IInv, Objeto, Cache, sdk, miembros, EnInit, EnClose
    <2>4. EnUso'
      BY <2>1, <2>2, EnUsoQuieto DEF IInv, miembros, Usando
    <2> QED
      BY <2>2, <2>3, <2>4 DEF IInv
  <1> QED
    BY <1>1, <1>2, <1>3, IInvIniEntrar, IInvZkInit, IInvOpenDevice, IInvDBInit
    DEF EnInitSensor

LEMMA IInvCloseSensor ==
  ASSUME IInv, NEW h \in Hilos, EnCloseSensor(h)
  PROVE  IInv'
  <1>1. CASE CerEntrar(h)
    <2>1. /\ pc[h] = "cer" /\ gil = Nadie
          /\ UNCHANGED <<conectado, sdk, miembros, initLock, captureLock, op, locales>>
          /\ op[h] = "refrescar"
      BY <1>1 DEF CerEntrar, IInv, Control, Corresponde
    <2>2. CASE m_isInitialized
      <3>1. gil' = h /\ Ir(h, "c_free") /\ Fase = "fuera"
        BY <1>1, <2>1, <2>2 DEF CerEntrar, Fase
      <3>2. Control' /\ Fase' = "c_free"
        BY <2>1, <3>1, ControlMover DEF IInv, Control, Corresponde, locales, Dentro, EnInit, EnClose, Puntos
      <3>3. Objeto' /\ Cache'
        BY <2>1, <2>2, <3>1, <3>2 DEF IInv, Objeto, Cache, sdk, miembros, EnInit, EnClose, RamVacia
      <3>4. EnUso'
        BY <2>1, <3>1, EnUsoQuieto DEF IInv, miembros, locales, Usando
      <3> QED
        BY <3>2, <3>3, <3>4 DEF IInv
    <2>3. CASE ~m_isInitialized
      <3>1. Ir(h, "ini") /\ gil' = gil
        BY <1>1, <2>3 DEF CerEntrar
      <3>2. Seguir(h, "ini") /\ UNCHANGED <<sdk, miembros>>
        BY <2>1, <3>1 DEF Seguir, candados
      <3> QED
        BY <2>1, <3>2, AparteSeguir DEF Corresponde, Dentro, EnInit, EnClose, Puntos, Usando
    <2> QED
      BY <2>2, <2>3
  <1>2. CASE DBFree(h)
    <2>1. Control' /\ Fase = "c_free" /\ Fase' = "c_disp" /\ pc[h] \in Dentro \ {"i_fin"}
      BY <1>2, DentroSeguir DEF DBFree, IInv, Control, Corresponde, Dentro, EnInit, EnClose
    <2>2. Objeto' /\ Cache'
      BY <1>2, <2>1 DEF DBFree, IInv, Objeto, Cache, EnInit, EnClose, Seguir, RamVacia
    <2>3. EnUso'
      BY <1>2, <2>1, NadieUsa, EnUsoVacio DEF DBFree, IInv, Seguir, Usando
    <2> QED
      BY <2>1, <2>2, <2>3 DEF IInv
  <1>3. CASE CloseDevice(h)
    <2>1. Control' /\ Fase = "c_disp" /\ Fase' = "c_term" /\ pc[h] \in Dentro \ {"i_fin"}
      BY <1>3, DentroSeguir DEF CloseDevice, IInv, Control, Corresponde, Dentro, EnInit, EnClose
    <2>2. Objeto' /\ Cache'
      BY <1>3, <2>1 DEF CloseDevice, IInv, Objeto, Cache, EnInit, EnClose, Seguir
    <2>3. EnUso'
      BY <1>3, <2>1, NadieUsa, EnUsoVacio DEF CloseDevice, IInv, Seguir, Usando
    <2> QED
      BY <2>1, <2>2, <2>3 DEF IInv
  <1>4. CASE Terminate(h)
    <2>1. pc[h] = "c_term" /\ pc[h] \in Dentro \ {"i_fin"} /\ gil = h /\ Fase = "c_term"
      BY <1>4, DentroTiene DEF Terminate, IInv, Dentro, EnInit, EnClose
    <2>2. Corresponde("ini", op[h]) /\ "ini" \in Puntos \ (Dentro \cup Usando)
      BY <2>1 DEF IInv, Control, Corresponde, Dentro, EnInit, EnClose, Puntos, Usando
    <2>3. Control' /\ Fase' = "fuera"
      BY <1>4, <2>1, <2>2, ControlMover DEF Terminate, locales, IInv, Control
    <2>4. /\ m_deviceHandle = Nulo /\ m_dbCacheHandle = Nulo /\ zkfp = 1 /\ vivos = {}
      BY <2>1 DEF IInv, Objeto, EnInit, EnClose
    <2>5. Objeto'
      <3>1. /\ m_deviceHandle' = Nulo /\ m_dbCacheHandle' = Nulo /\ zkfp' = 0 /\ vivos' = {}
            /\ m_imageBuffer' = FALSE /\ m_isInitialized' = FALSE
        BY <1>4, <2>4 DEF Terminate
      <3> QED
        BY <2>3, <3>1 DEF Objeto, EnInit, EnClose
    <2>6. Cache'
      BY <1>4, <2>3 DEF Terminate, IInv, Cache
    <2>7. EnUso'
      BY <1>4, <2>1, <2>2, NadieUsa, EnUsoVacio DEF Terminate, IInv
    <2> QED
      BY <2>3, <2>5, <2>6, <2>7 DEF IInv
  <1> QED
    BY <1>1, <1>2, <1>3, <1>4 DEF EnCloseSensor

LEMMA IInvEntorno ==
  ASSUME IInv, Usb \/ Tic \/ UNCHANGED vars
  PROVE  IInv'
  <1>1. /\ UNCHANGED <<sdk, miembros, candados, pc, op, manejo>>
        /\ conectado' \in BOOLEAN
    BY DEF Usb, Tic, vars, locales, IInv, Cache
  <1>2. plazo' \in [Hilos -> 0..Plazo]
    <2>1. CASE Tic
      <3>1. \A k \in Hilos : (IF plazo[k] > 0 THEN plazo[k] - 1 ELSE 0) \in 0..Plazo
        BY DriverOK DEF IInv, Control
      <3> QED
        BY <2>1, <3>1 DEF Tic
    <2>2. CASE ~Tic
      BY <2>2 DEF Usb, vars, locales, IInv, Control
    <2> QED
      BY <2>1, <2>2
  <1>3. Control'
    BY <1>1, <1>2 DEF IInv, Control, candados, Corresponde, UsaInit, UsaCaptura,
                      Dentro, EnInit, EnClose
  <1>4. Fase' = Fase
    BY <1>1 DEF Fase, candados
  <1>5. Objeto' /\ Cache'
    BY <1>1, <1>4, ObjetoQuieto DEF IInv
  <1>6. EnUso'
    BY <1>1 DEF IInv, EnUso, miembros
  <1> QED
    BY <1>3, <1>5, <1>6 DEF IInv

LEMMA IInvNext == IInv /\ [Next]_vars => IInv'
  BY IInvEntrar, IInvCaptura, IInvCache, IInvInitSensor, IInvCloseSensor, IInvEntorno
  DEF Next, Paso

LEMMA IInvSiempre == Spec => []IInv
  BY IInvInit, IInvNext, PTL DEF Spec

-------------------------------------------------------------------------------
(* The members, the locks and the handles keep their types; a count of     *)
(* ZKFPM_Init that goes below zero is one of the ways to break it.         *)
THEOREM TiposInvariante == Spec => []TypeOK
  <1>1. IInv => TypeOK
    <2> SUFFICES ASSUME IInv PROVE TypeOK
      OBVIOUS
    <2>1. zkfp \in Nat /\ m_imageBuffer \in BOOLEAN
      BY DEF IInv, Objeto
    <2>2. vivos \subseteq Manejos
      BY DEF IInv, Objeto
    <2> QED
      BY <2>1, <2>2 DEF TypeOK, IInv, Control, Objeto, Cache
  <1> QED
    BY <1>1, IInvSiempre, PTL

(* Every failure path of initSensor and every close gives back what was    *)
(* taken, whatever the SDK answers and however the threads interleave      *)
(* (Sensor.cpp:27-89, 91-148).                                             *)
THEOREM SinFugasInvariante == Spec => []SinFugas
  <1>1. IInv => SinFugas
    <2> SUFFICES ASSUME IInv, \A h \in Hilos : pc[h] \notin EnInit \cup EnClose
                 PROVE  /\ m_imageBuffer = m_isInitialized
                        /\ zkfp = IF m_isInitialized THEN 1 ELSE 0
                        /\ vivos = {m_deviceHandle, m_dbCacheHandle} \ {Nulo}
                        /\ Cardinality(vivos) = IF m_isInitialized THEN 2 ELSE 0
      BY DEF SinFugas
    <2>1. Fase = "fuera"
      BY DEF IInv, Control, Fase, Dentro
    <2>2. /\ m_imageBuffer = m_isInitialized
          /\ zkfp = IF m_isInitialized THEN 1 ELSE 0
          /\ vivos = {m_deviceHandle, m_dbCacheHandle} \ {Nulo}
      BY <2>1 DEF IInv, Objeto, EnInit, EnClose
    <2>3. CASE m_isInitialized
      <3>1. /\ m_deviceHandle # m_dbCacheHandle
            /\ vivos = {m_deviceHandle} \cup {m_dbCacheHandle}
        BY <2>1, <2>2, <2>3 DEF IInv, Objeto, EnInit, EnClose
      <3>2. Cardinality(vivos) = 2
        <4>1. IsFiniteSet({m_deviceHandle}) /\ Cardinality({m_deviceHandle}) = 1
          BY FS_Singleton
        <4>2. Cardinality({m_deviceHandle} \cup {m_dbCacheHandle}) = 1 + 1
          BY <3>1, <4>1, FS_AddElement
        <4> QED
          BY <3>1, <4>2
      <3> QED
        BY <2>2, <2>3, <3>2
    <2>4. CASE ~m_isInitialized
      <3>1. vivos = {}
        BY <2>1, <2>2, <2>4 DEF IInv, Objeto, EnInit, EnClose
      <3> QED
        BY <2>2, <2>4, <3>1, FS_EmptySet
    <2> QED
      BY <2>3, <2>4 DEF IInv, Objeto
  <1> QED
    BY <1>1, IInvSiempre, PTL

(* capture_lock alone keeps the calls that run without the GIL             *)
(* (sensorWrapper.cpp:14, 32, 41) away from a freed handle.                *)
THEOREM ManejoVivoInvariante == Spec => []ManejoVivo
  <1>1. IInv => ManejoVivo
    <2> SUFFICES ASSUME IInv, NEW h \in Hilos, pc[h] \in EnSDK
                 PROVE  manejo[h] \in vivos
      BY DEF ManejoVivo
    <2>1. pc[h] \in Usando /\ m_isInitialized
      BY DEF IInv, EnUso, Usando, EnSDK
    <2>2. Fase \notin EnClose
      BY <2>1, SinCierre DEF IInv
    <2>3. {m_deviceHandle, m_dbCacheHandle} \subseteq vivos
      BY <2>1, <2>2 DEF IInv, Objeto, EnClose
    <2> QED
      BY <2>3 DEF IInv, EnUso, EnSDK
  <1> QED
    BY <1>1, IInvSiempre, PTL

-------------------------------------------------------------------------------
(* The object seen from outside is the atomic one.                         *)

Construyendo == {"i_params", "i_db", "i_listo", "i_fin"}

(* The variables of Sensor under the refinement mapping.                   *)
Conectado == conectado \/ \E h \in Hilos : pc[h] \in Construyendo

Ram == IF Abierto THEN contenido ELSE RamVacia

LEMMA MapeoInit == Init => S!SensorInit
  <1> SUFFICES ASSUME Init PROVE S!SensorInit
    OBVIOUS
  <1>1. Abierto = FALSE
    BY DEF Init, Abierto
  <1> QED
    BY <1>1 DEF S!SensorInit, RamVacia, S!RamVacia

(* The steps that the outside can see, by their effect.                    *)
LEMMA MapeoQuieto ==
  ASSUME Conectado' = Conectado, Abierto' = Abierto, Ram' = Ram
  PROVE  UNCHANGED S!sensorVars
  BY DEF S!sensorVars, Conectado, Construyendo, Ram, RamVacia

LEMMA MapeoEnchufe ==
  ASSUME conectado \in BOOLEAN, conectado' \in BOOLEAN, Abierto' = Abierto, Ram' = Ram
  PROVE  S!SensorNext \/ UNCHANGED S!sensorVars
  <1>1. CASE Conectado' = Conectado
    BY <1>1, MapeoQuieto
  <1>2. CASE Conectado' # Conectado
    <2>1. Conectado' = ~Conectado
      BY <1>2 DEF Conectado
    <2> QED
      BY <2>1 DEF S!SensorNext, Conectado, Construyendo, Ram, RamVacia
  <1> QED
    BY <1>1, <1>2

(* A step that leaves the flag, the cache and its contents is not seen,    *)
(* except that leaving init_sensor may show an unplugging.                 *)
LEMMA MapeoAjeno ==
  ASSUME IInv, IInv', UNCHANGED <<m_dbCacheHandle, m_isInitialized, contenido>>
  PROVE  S!SensorNext \/ UNCHANGED S!sensorVars
  BY MapeoEnchufe DEF IInv, Cache, Abierto, Ram, RamVacia

LEMMA MapeoDBInit ==
  ASSUME IInv, IInv', NEW h \in Hilos, DBInit(h)
  PROVE  S!SensorNext \/ UNCHANGED S!sensorVars
  <1>1. ~m_isInitialized /\ ~m_isInitialized'
    BY DentroTiene DEF DBInit, IInv, Objeto, Dentro, EnInit
  <1>2. Abierto' = Abierto /\ Ram' = Ram
    BY <1>1 DEF Abierto, Ram, RamVacia
  <1> QED
    BY <1>2, MapeoEnchufe DEF IInv, Cache

(* The last write of init_sensor makes the object appear, with an empty    *)
(* cache and a reader that has answered.                                   *)
LEMMA MapeoListo ==
  ASSUME IInv, IInv', NEW h \in Hilos, Listo(h)
  PROVE  S!SensorNext
  <1>1. pc[h] = "i_listo" /\ Fase = "i_listo" /\ pc'[h] = "i_fin"
    BY DentroTiene DEF Listo, Seguir, Ir, IInv, Control, Dentro, EnInit
  <1>2. ~m_isInitialized /\ m_isInitialized' /\ m_dbCacheHandle' # Nulo
    BY <1>1 DEF Listo, IInv, Objeto, EnInit
  <1>3. Abierto = FALSE /\ Abierto' = TRUE
    BY <1>2 DEF Abierto
  <1>4. Ram = RamVacia /\ Ram' = RamVacia
    BY <1>1, <1>3 DEF Ram, RamVacia, Listo, sdk, IInv, Cache
  <1>5. Conectado = TRUE /\ Conectado' = TRUE
    BY <1>1 DEF Conectado, Construyendo
  <1> QED
    BY <1>3, <1>4, <1>5
    DEF S!SensorNext, S!InitSensor, S!RamVacia, Conectado, Construyendo, Ram, RamVacia

(* Freeing the cache is what closes it for everybody else.                 *)
LEMMA MapeoDBFree ==
  ASSUME IInv, IInv', NEW h \in Hilos, DBFree(h)
  PROVE  S!SensorNext
  <1>1. Abierto' = FALSE
    BY DEF DBFree, Abierto
  <1>2. Ram' = RamVacia
    BY <1>1 DEF Ram, RamVacia
  <1>3. Conectado' = Conectado
    BY DEF DBFree, Seguir, Ir, Conectado, Construyendo, IInv, Control
  <1> QED
    BY <1>1, <1>2, <1>3
    DEF S!SensorNext, S!CloseSensor, S!RamVacia, Conectado, Construyendo, Ram, RamVacia

LEMMA MapeoTerminate ==
  ASSUME IInv, IInv', NEW h \in Hilos, Terminate(h)
  PROVE  S!SensorNext \/ UNCHANGED S!sensorVars
  <1>1. m_dbCacheHandle = Nulo /\ m_dbCacheHandle' = Nulo
    BY DentroTiene DEF Terminate, IInv, Objeto, Dentro, EnClose
  <1>2. Abierto' = Abierto /\ Ram' = Ram
    BY <1>1 DEF Abierto, Ram, RamVacia
  <1> QED
    BY <1>2, MapeoEnchufe DEF IInv, Cache

(* A template is added to the open cache, and to no other one.             *)
LEMMA MapeoDBAdd ==
  ASSUME IInv, IInv', NEW h \in Hilos, NEW u \in Usuarios, NEW f \in Huellas, DBAdd(h, u, f)
  PROVE  S!SensorNext
  <1>1. pc[h] = "a_sdk" /\ pc[h] \in Usando /\ pc'[h] = "libre"
        /\ \A k \in Hilos \ {h} : pc'[k] = pc[k]
    BY DEF DBAdd, Volver, Ir, Usando, IInv, Control
  <1>2. m_isInitialized /\ m_dbCacheHandle # Nulo
        /\ UNCHANGED <<m_isInitialized, m_dbCacheHandle, conectado>>
    BY <1>1, SinCierre DEF DBAdd, Volver, miembros, IInv, EnUso, Objeto, EnClose
  <1>3. Abierto = TRUE /\ Abierto' = TRUE /\ Ram = contenido /\ Ram' = contenido'
    BY <1>2 DEF Abierto, Ram
  <1>4. Conectado' = Conectado
    BY <1>1, <1>2 DEF Conectado, Construyendo
  <1>5. S!DBAdd(u, f)
    BY <1>3 DEF DBAdd, S!DBAdd, S!AceptaDBAdd, Ram, RamVacia
  <1> QED
    BY <1>3, <1>4, <1>5 DEF S!SensorNext, Conectado, Construyendo, Ram, RamVacia

LEMMA MapeoNext == IInv /\ IInv' /\ [Next]_vars => [S!SensorNext]_S!sensorVars
  <1> SUFFICES ASSUME IInv, IInv', [Next]_vars
               PROVE  S!SensorNext \/ UNCHANGED S!sensorVars
    OBVIOUS
  <1>1. ASSUME NEW h \in Hilos, NEW o \in Operaciones, Entrar(h, o)
        PROVE  S!SensorNext \/ UNCHANGED S!sensorVars
    BY <1>1, MapeoAjeno DEF Entrar, sdk, miembros
  <1>2. ASSUME NEW h \in Hilos, EnInitSensor(h)
        PROVE  S!SensorNext \/ UNCHANGED S!sensorVars
    BY <1>2, MapeoAjeno, MapeoDBInit, MapeoListo
    DEF EnInitSensor, IniEntrar, ZkInit, ContarEquipos, OpenDevice, CaptureParams, IniSalir,
        sdk, miembros
  <1>3. ASSUME NEW h \in Hilos, EnCloseSensor(h)
        PROVE  S!SensorNext \/ UNCHANGED S!sensorVars
    BY <1>3, MapeoAjeno, MapeoDBFree, MapeoTerminate
    DEF EnCloseSensor, CerEntrar, CloseDevice, sdk, miembros
  <1>4. ASSUME NEW h \in Hilos, EnCaptura(h)
        PROVE  S!SensorNext \/ UNCHANGED S!sensorVars
    BY <1>4, MapeoAjeno DEF EnCaptura, Tomar, VerPlazo, Acquire, Dormir, sdk, miembros
  <1>5. ASSUME NEW h \in Hilos, EnCache(h)
        PROVE  S!SensorNext \/ UNCHANGED S!sensorVars
    BY <1>5, MapeoAjeno, MapeoDBAdd DEF EnCache, UsarCache, DBIdentify, sdk, miembros
  <1>6. ASSUME Usb \/ Tic \/ UNCHANGED vars
        PROVE  S!SensorNext \/ UNCHANGED S!sensorVars
    BY <1>6, MapeoAjeno DEF Usb, Tic, vars, sdk, miembros
  <1> QED
    BY <1>1, <1>2, <1>3, <1>4, <1>5, <1>6 DEF Next, Paso

(* Call by call and thread by thread, the object behaves as the atomic one *)
(* that HuellaService is modelled with: opening and closing happen at one  *)
(* write each, and no template reaches a cache that is being built or      *)
(* undone (Sensor.cpp:27-175).                                              *)
THEOREM RefinaSensor == Spec => ImplementaSensor
  BY MapeoInit, MapeoNext, IInvSiempre, PTL DEF Spec, ImplementaSensor, S!SensorSpec

===============================================================================
