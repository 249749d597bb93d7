SPECIFICATION Spec
CONSTANTS
  Imagenes = {1, 2, 3, 4}
  Claves = {1, 2, 3}
CHECK_DEADLOCK FALSE
INVARIANTS
  OrdenEstable
  InsercionFiel
