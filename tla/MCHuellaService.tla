---------------------------- MODULE MCHuellaService ---------------------------
(***************************************************************************)
(* Instances of HuellaService for TLC: the thread main runs lifespan, the  *)
(* thread worker is the executor thread of sensor_worker, the thread api   *)
(* serves endpoints, background tasks and WebSocket handlers.              *)
(***************************************************************************)
EXTENDS HuellaService

CONSTANTS main, worker, api, OpsWorker, OpsApi

MCHilos == {main, worker, api}

MCOperaciones == [h \in {worker, api} |-> IF h = worker THEN OpsWorker ELSE OpsApi]

(* The service seen as a gallery: SQLite is the register, the RAM of the   *)
(* reader the active templates.                                            *)
G == INSTANCE Galeria WITH inscritas <- sqlite, activas <- ram

(* With a single writer and a reader that does not fail, HuellaService     *)
(* implements the gallery, also when commits fail and the process dies at  *)
(* any step: a load never brings a template that is no longer the          *)
(* registered one, and an enrolled finger becomes active.                  *)
ImplementaGaleria == G!GaleriaSpec
===============================================================================
