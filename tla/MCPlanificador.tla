--------------------------- MODULE MCPlanificador ---------------------------
(***************************************************************************)
(* Instances of Planificador for TLC: up to three processes with scripts   *)
(* of two or three statements, chosen so that between them they block,     *)
(* start non-blocking I/O, jump and use up their quantum.                  *)
(***************************************************************************)
EXTENDS Planificador, TLC
CONSTANTS p1, p2, p3, h1, h2

(* The I/O threads all run the same code.                                  *)
HilosIguales == Permutations(Hilos)

UnOrden     == {[q \in Entradas |-> 0]}
DosOrdenes  == {[LPN |-> 1, LPR |-> 2, LFQ |-> 3, LFIO |-> 4],
                [LPN |-> 1, LPR |-> 3, LFQ |-> 4, LFIO |-> 2]}
UnCambio    == {[LPN |-> 1, LPR |-> 2, LFQ |-> 3, LFIO |-> 3],
                [LPN |-> 2, LPR |-> 1, LFQ |-> 3, LFIO |-> 3]}

AlFinal     == [p \in Procs |-> Len(Script[p]) - 1]
Prioridades == [p \in Procs |-> CASE p = p1 -> 2 [] p = p2 -> 1 [] OTHER -> 2]

ScriptNucleo == [p \in Procs |->
    CASE p = p1 -> <<"xio1", "fin">>
      [] p = p2 -> <<"asignar", "imprimir", "fin">>
      [] OTHER  -> <<"io0", "fin">>]
ScriptConfig == [p \in Procs |->
    CASE p = p1 -> <<"io1", "fin">>
      [] OTHER  -> <<"asignar", "fin">>]
ScriptPRI == [p \in Procs |->
    CASE p = p1 -> <<"saltar", "io1", "fin">>
      [] p = p2 -> <<"io1", "fin">>
      [] OTHER  -> <<"asignar", "fin">>]
ScriptIO == [p \in Procs |->
    CASE p = p1 -> <<"io0", "io1", "fin">>
      [] OTHER  -> <<"fxio0", "xio0", "fin">>]
=============================================================================
