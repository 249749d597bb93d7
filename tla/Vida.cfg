SPECIFICATION SpecJusta
CONSTANTS
  p1 = p1
  p2 = p2
  p3 = p3
  h1 = h1
  h2 = h2
  Nadie = Nadie
  Procs = {p1, p2}
  Hilos = {h1}
  MPS = 2
  MMP = 1
  Quantum = 1
  Algs = {"RR"}
  PrioColas <- UnCambio
  Script <- ScriptConfig
  Etiqueta <- AlFinal
  prioridad <- Prioridades
  TANT = 1
  AlfaNum = 1
  AlfaDen = 1
  Escala = 1
  MaxSenales = 1
  MaxCambios = 1
CHECK_DEADLOCK FALSE
PROPERTIES
  TodoTermina
