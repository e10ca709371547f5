SPECIFICATION FairSpec
CONSTANTS
  main = main
  worker = worker
  api = api
  Principal = main
  Nadie = Nadie
  SinHuella = SinHuella
  Usuarios = {u1}
  Huellas = {f1}
  Hilos <- MCHilos
  OperacionesDe <- MCOperaciones
  OpsWorker = {"identificar", "enrolar"}
  OpsApi = {"verificar"}
  Entorno = {}
PROPERTY TodaOperacionTermina
CHECK_DEADLOCK FALSE
