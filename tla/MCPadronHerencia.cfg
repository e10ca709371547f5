SPECIFICATION Spec
CONSTANTS
  ana = ana
  beto = beto
  p1 = p1
  Nadie = Nadie
  Personas = {ana, beto}
  Paneles = {p1}
  MaxId = 2
  Entorno = {"eliminar_todos"}
INVARIANT
  HuellaPropia
