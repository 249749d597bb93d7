SPECIFICATION Spec
CONSTANTS
  Nadie = Nadie
  Clientes = {c1, c2, c3}
  MPS = 2
  MMP = 1
  MaxPasos = 0
  MaxSenales = 2
  MaxCaidas = 1
SYMMETRY Simetria
CHECK_DEADLOCK FALSE
INVARIANTS
  TypeOK
  LugaresExactos
  RespuestaPrimero
  AvisosPropios
  RAtendible
  NadieDesconectado
PROPERTIES
  DecisionFundada
