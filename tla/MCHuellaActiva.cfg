SPECIFICATION EstableSpec
CONSTANTS
  main = main
  worker = worker
  api = api
  Principal = main
  Nadie = Nadie
  SinHuella = SinHuella
  Usuarios = {u1, u2}
  Huellas = {f1, f2}
  Hilos <- MCHilos
  OperacionesDe <- MCOperaciones
  OpsWorker = {"identificar", "enrolar", "vincular"}
  OpsApi = {"status", "acceso", "capturar_identificar"}
  Entorno = {"fallo_sqlite", "reinicio"}
INVARIANTS
  RamRespaldada
  RamAlDia
PROPERTY ImplementaGaleria
