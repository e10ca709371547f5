SPECIFICATION FairSpec
CONSTANTS
  h1 = h1
  h2 = h2
  u1 = u1
  f1 = f1
  f2 = f2
  d1 = d1
  d2 = d2
  d3 = d3
  Nadie = Nadie
  SinHuella = SinHuella
  Nulo = Nulo
  Hilos = {h1, h2}
  Usuarios = {u1}
  Huellas = {f1, f2}
  Manejos = {d1, d2, d3}
  Plazo = 2
INVARIANTS
  TypeOK
  SinFugas
  ManejoVivo
PROPERTIES
  ImplementaSensor
  TodaLlamadaVuelve
