SPECIFICATION FairSpecSondeo
CONSTANTS
  main = main
  worker = worker
  api = api
  Principal = main
  Nadie = Nadie
  SinHuella = SinHuella
  Usuarios = {u1}
  Huellas = {f1}
  Hilos <- MCHilos
  OperacionesDe <- MCOperaciones
  OpsWorker = {"identificar", "enrolar"}
  OpsApi = {"status", "acceso", "editar", "capturar_identificar", "vincular"}
  Entorno = {"usb"}
PROPERTIES
  TodaOperacionTermina
  RecuperaLectorTardio
