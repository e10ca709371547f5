-------------------------------- MODULE Comedor -------------------------------
(***************************************************************************)
(* What the meal service promises: on each day a beneficiary is served at  *)
(* most Limite(t) rations of kind t, and no more rations of a kind are     *)
(* served than the kitchen has; except for Margen of them, the rations     *)
(* that were being served together with the last one.                      *)
(***************************************************************************)
EXTENDS Integers, FiniteSets

CONSTANTS Alumnos, Tipos, Limite(_), Margen

VARIABLES
  dia,
  beneficiarios,  \* students with the right to a ration
  cupo,           \* rations of each kind that the kitchen has, 0 = no limit
  servidas        \* the rations served today: pairs <<n, u, t>>, the n-th of u

comedorVars == <<dia, beneficiarios, cupo, servidas>>

DeTipo(t) == {s \in servidas : s[3] = t}

ComedorInit ==
  /\ dia = 1 /\ servidas = {}
  /\ beneficiarios \in SUBSET Alumnos
  /\ cupo \in [Tipos -> Nat]

Servir(u, t) ==
  /\ u \in beneficiarios
  /\ cupo[t] > 0 => Cardinality(DeTipo(t)) < cupo[t] + Margen
  /\ \E n \in 1..(Limite(t) + Margen) :
       /\ \A m \in 1..(Limite(t) + Margen) : <<m, u, t>> \in servidas <=> m < n
       /\ servidas' = servidas \cup {<<n, u, t>>}
  /\ UNCHANGED <<dia, beneficiarios, cupo>>

NuevoDia ==
  /\ dia' = dia + 1 /\ servidas' = {}
  /\ UNCHANGED <<beneficiarios, cupo>>

ComedorNext == NuevoDia \/ \E u \in Alumnos, t \in Tipos : Servir(u, t)

ComedorSpec == ComedorInit /\ [][ComedorNext]_comedorVars
===============================================================================
