SPECIFICATION Spec
CONSTANTS
  bucle = bucle
  api = api
  a1 = a1
  a2 = a2
  Bucle = bucle
  Nadie = Nadie
  Hilos = {bucle}
  Alumnos = {a1}
  Administradores = {}
  Horas = {8, 12, 20}
  Totales = {0, 1}
  MaxDia = 2
  MaxRegistro = 3
  Entorno = {"fallo_sqlite", "reinicio", "eliminar_registros", "eliminar_alumno", "eliminar_todos", "pae", "raciones"}
INVARIANTS
  TypeOK
  LimiteDiario
PROPERTY RacionesRespetadas
