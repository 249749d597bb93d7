SPECIFICATION SpecJusta
CONSTANTS
  Ancho = 3
  TamHeader = 2
  TamPriority = 1
  Tamanos = {1, 5, 7, 10}
  MaxTextos = 2
CHECK_DEADLOCK FALSE
INVARIANTS
  TypeOK
  EntregaFiel
  SinMezcla
PROPERTIES
  TodoLeido
