SPECIFICATION Spec
CONSTANTS
  p1 = p1
  p2 = p2
  p3 = p3
  h1 = h1
  h2 = h2
  Nadie = Nadie
  Procs = {p1, p2, p3}
  Hilos = {h1}
  MPS = 3
  MMP = 3
  Quantum = 1
  Algs = {"PRI"}
  PrioColas <- UnOrden
  Script <- ScriptPRI
  Etiqueta <- AlFinal
  prioridad <- Prioridades
  TANT = 1
  AlfaNum = 1
  AlfaDen = 1
  Escala = 1
  MaxSenales = 0
  MaxCambios = 0
CHECK_DEADLOCK FALSE
INVARIANTS
  NingunNULL
