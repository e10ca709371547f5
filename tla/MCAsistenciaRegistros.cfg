SPECIFICATION Spec
CONSTANTS
  bucle = bucle
  api = api
  a1 = a1
  a2 = a2
  Bucle = bucle
  Nadie = Nadie
  Hilos = {bucle, api}
  Alumnos = {a1, a2}
  Administradores = {a2}
  Horas = {12}
  Totales = {3}
  MaxDia = 2
  MaxRegistro = 8
  Entorno = {}
INVARIANTS
  UnTicketPorRegistro
  ExcesoAcotado
PROPERTY ImplementaComedor
