SPECIFICATION SpecJusta
CONSTANTS
  Nadie = Nadie
  Clientes = {c1, c2}
  MPS = 2
  MMP = 1
  MaxPasos = 1
  MaxSenales = 2
  MaxCaidas = 1
CHECK_DEADLOCK FALSE
PROPERTIES
  ClienteAtendido
