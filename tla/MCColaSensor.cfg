SPECIFICATION EstableSpec
CONSTANTS
  k1 = k1
  k2 = k2
  c1 = c1
  c2 = c2
  u1 = u1
  u2 = u2
  r1 = r1
  r2 = r2
  Nadie = Nadie
  Totems = {k1, k2}
  Admins = {c1, c2}
  Alumnos = {u1, u2}
  Lecturas = {r1}
  Entorno = {"desconexion", "fallo"}
INVARIANTS
  TypeOK
  LecturaUnaVez
  SinMensajeOlvidado
PROPERTIES
  VuelveAAsistencia
  OrdenesDeUnaEnUna
