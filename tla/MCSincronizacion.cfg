SPECIFICATION FairSpec
CONSTANTS
  ta = ta
  tb = tb
  r1 = r1
  n1 = n1
  n2 = n2
  f1 = f1
  Totems = {ta, tb}
  Fuente = ta
  Ruts = {r1}
  Nombres = {n1, n2}
  Huellas = {f1}
  SinHuella = SinHuella
  Canales = {1, 2}
INVARIANT TypeOK
PROPERTIES
  NadaSePierde
  Converge
