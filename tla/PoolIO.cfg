SPECIFICATION Spec
CONSTANTS
  p1 = p1
  p2 = p2
  p3 = p3
  h1 = h1
  h2 = h2
  Nadie = Nadie
  Procs = {p1, p2}
  Hilos = {h1, h2}
  MPS = 2
  MMP = 2
  Quantum = 1
  Algs = {"RR"}
  PrioColas <- DosOrdenes
  Script <- ScriptIO
  Etiqueta <- AlFinal
  prioridad <- Prioridades
  TANT = 1
  AlfaNum = 1
  AlfaDen = 1
  Escala = 1
  MaxSenales = 0
  MaxCambios = 1
SYMMETRY HilosIguales
CHECK_DEADLOCK FALSE
INVARIANTS
  HiloParaNoBloqueante
  BloqueadoHastaFinIO
  ArregloOrdenado
