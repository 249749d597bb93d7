SPECIFICATION Spec
CONSTANTS
  Funciones <- TresFunciones
  Programas <- Ambos
  MaxCortes = 4
CHECK_DEADLOCK FALSE
INVARIANTS
  TypeOK
  OrdenEnDosNiveles
  PilaEncadenada
  NadaSePierde
