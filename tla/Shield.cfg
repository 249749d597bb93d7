SPECIFICATION SpecJusta
CONSTANTS
  Contenidos = {{0, 1}, {1, 2}}
  MaxCambios = 2
  MaxPedidos = 1
CHECK_DEADLOCK FALSE
INVARIANTS
  TypeOK
  SinCambioPerdido
  UnTrabajo
  PeriodicosListos
PROPERTIES
  CambioAplicado
