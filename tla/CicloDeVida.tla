----------------------------- MODULE CicloDeVida -----------------------------
(***************************************************************************)
(* What the PP promises of the life of a process, with no threads, queues  *)
(* or semaphores: the states it goes through, in the order in which the    *)
(* log LSCH records them, at most MPS processes in the system, at most MMP *)
(* in memory and at most one in execution.  The states are the Destino of  *)
(* the calls of logWriteLSCH.                                              *)
(***************************************************************************)
EXTENDS Integers, FiniteSets

CONSTANTS Procs, MPS, MMP
VARIABLE estado

EnMemoria == {"Nuevos", "Reanudados", "Fin de Quantum", "Fin I/O",
              "Listos", "Ejecucion", "Bloqueado"}
EnSistema == EnMemoria \cup {"FIFO", "Suspendido"}

Cuantos(E) == Cardinality({p \in Procs : estado[p] \in E})

Pasa(p, E, e) == estado[p] \in E /\ estado' = [estado EXCEPT ![p] = e]

Init == estado = [p \in Procs |-> "Afuera"]

HayLugar == Cuantos(EnMemoria) < MMP

Demora(p)     == Cuantos(EnSistema) < MPS /\ Pasa(p, {"Afuera"}, "FIFO")
Carga(p)      == /\ Cuantos(EnSistema) < MPS /\ HayLugar
                 /\ Pasa(p, {"Afuera"}, "Nuevos")
Admite(p)     == HayLugar /\ Pasa(p, {"FIFO"}, "Nuevos")
Reanuda(p)    == HayLugar /\ Pasa(p, {"Suspendido"}, "Reanudados")
Prepara(p)    == Pasa(p, {"Nuevos", "Reanudados", "Fin de Quantum", "Fin I/O"},
                      "Listos")
Despacha(p)   == Cuantos({"Ejecucion"}) = 0 /\ Pasa(p, {"Listos"}, "Ejecucion")
Expropia(p)   == Pasa(p, {"Ejecucion"}, "Fin de Quantum")
Suspende(p)   == Pasa(p, {"Ejecucion"}, "Suspendido")
Bloquea(p)    == Pasa(p, {"Ejecucion"}, "Bloqueado")
Desbloquea(p) == Pasa(p, {"Bloqueado"}, "Fin I/O")
Finaliza(p)   == Pasa(p, {"Ejecucion"}, "Finalizado")

Next == \E p \in Procs :
            \/ Demora(p) \/ Carga(p) \/ Admite(p) \/ Reanuda(p) \/ Prepara(p)
            \/ Despacha(p) \/ Expropia(p) \/ Suspende(p) \/ Bloquea(p)
            \/ Desbloquea(p) \/ Finaliza(p)

Spec == Init /\ [][Next]_estado
=============================================================================
