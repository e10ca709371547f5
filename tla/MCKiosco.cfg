SPECIFICATION FairSpec
CONSTANTS
  Tope = 2
  TopeVueltas = 1
  TopeRegistro = 1
INVARIANTS
  TypeOK
  ConSalida
PROPERTY
  VuelveAEscuchar
