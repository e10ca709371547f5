SPECIFICATION Spec
CONSTANTS
  ana = ana
  beto = beto
  p1 = p1
  Nadie = Nadie
  Personas = {ana, beto}
  Paneles = {p1}
  MaxId = 2
  Entorno = {"importar", "recarga_ram", "eliminar_todos", "eliminar", "perdidas"}
SYMMETRY Simetria
INVARIANTS
  TypeOK
  
PROPERTY
  BorradoPropio
