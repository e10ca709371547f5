SPECIFICATION Spec
CONSTANTS
  main = main
  worker = worker
  api = api
  Principal = main
  Nadie = Nadie
  SinHuella = SinHuella
  Usuarios = {u1}
  Huellas = {f1}
  Hilos <- MCHilos
  OperacionesDe <- MCOperaciones
  OpsWorker = {"identificar", "enrolar"}
  OpsApi = {"status", "acceso", "editar", "verificar", "identificar", "capturar_identificar", "vincular"}
  Entorno = {"usb", "fallo_sdk", "fallo_sqlite", "reinicio", "eliminar", "eliminar_todos", "sync"}
INVARIANTS
  TypeOK
  CandadosCoherentes
PROPERTY
  SinCierreDuranteSDK
CHECK_DEADLOCK TRUE
