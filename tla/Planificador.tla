---------------------------- MODULE Planificador ----------------------------
(***************************************************************************)
(* The core of the PP (Proceso Planificador): the threads LTSconex,        *)
(* LTSnew, STS, PROCER, the pool of I/O threads, the configuration watcher *)
(* and the signal handler, moving process images between queues that are   *)
(* guarded by one counting semaphore each, plus the PI at the other end of *)
(* every connection.                                                       *)
(*                                                                         *)
(* A step is what a thread does between two points at which another thread *)
(* can tell the difference.  A producer of an entry queue posts X_empty    *)
(* and then STS_in_empty with the queue's mutex held; the STS can act      *)
(* between the two posts, so they are two steps and the mutex is taken     *)
(* (MutexLibre) from one to the other.  Every other critical section is    *)
(* one step.                                                               *)
(***************************************************************************)
EXTENDS ListaOrden, FiniteSets

CONSTANTS
    Procs,          \* the process images (each with the PI that sent it)
    Hilos,          \* the I/O threads: IO_THREADS = Cardinality(Hilos)
    Nadie,          \* no image: NULL
    MPS, MMP,       \* processes in the system, processes in memory
    Quantum,        \* QUANTUM
    Algs,           \* the values ALG takes in pp.config
    PrioColas,      \* the priorities of the entry queues in pp.config
    Script,         \* the statements of each script, the last one "fin"
    Etiqueta,       \* the line of the label that ssc and snc jump to
    prioridad,      \* processImage->priority
    TANT, AlfaNum, AlfaDen, Escala, \* Tspn in fixed point: ALFA = Num/Den
    MaxSenales,     \* bound: SIGUSR1 received
    MaxCambios      \* bound: modifications of pp.config

(* The four queues the STS reads.                                          *)
Entradas == {"LPN", "LPR", "LFQ", "LFIO"}
Colas    == Entradas \cup {"LFIFO", "LPL"}

Sentencias == {"nada", "asignar", "saltar", "imprimir", "io1", "xio1",
               "io0", "xio0", "fxio0", "fin"}

ASSUME ProcsAssumption  == Nadie \notin Procs
ASSUME HilosAssumption  == IsFiniteSet(Hilos)
ASSUME CuposAssumption  == MPS \in Nat /\ MMP \in Nat
ASSUME QuantumAssumption == Quantum \in Nat \ {0}
ASSUME AlgsAssumption   == Algs \subseteq {"FIFO", "RR", "PRI", "SPN"}
ASSUME ScriptAssumption ==
    /\ Script \in [Procs -> Seq(Sentencias)]
    /\ \A p \in Procs : /\ Len(Script[p]) > 0
                        /\ Script[p][Len(Script[p])] = "fin"
                        /\ \A i \in 1 .. Len(Script[p]) - 1 :
                               Script[p][i] # "fin"
    /\ Etiqueta \in [Procs -> Nat]
    /\ \A p \in Procs : Etiqueta[p] < Len(Script[p])
ASSUME PrioAssumption ==
    /\ prioridad \in [Procs -> Int]
    /\ PrioColas \subseteq [Entradas -> Int]
ASSUME TspnAssumption ==
    /\ TANT \in Nat /\ Escala \in Nat \ {0}
    /\ AlfaDen \in Nat \ {0} /\ AlfaNum \in 0 .. AlfaDen
ASSUME CotasAssumption == MaxSenales \in Nat /\ MaxCambios \in Nat

VARIABLES
    pi,           \* what the PI of each script is doing
    lsch,         \* the last state logWriteLSCH wrote for each image
    PC, Tspn,     \* processImage->PC and ->Tspn
    cola,         \* the queues of images
    LPB,          \* the queue of I/O requests
    LPS,          \* the suspended images
    sem,          \* every semaphore
    sendingList,  \* the messages waiting for each client
    lts,          \* LTSconex
    lnew,         \* LTSnew
    sts,          \* STS
    procer,       \* PROCER
    io,           \* the I/O threads
    conf,         \* configure
    SUSPEND, senales,
    ALG, queuesArray

vars == <<pi, lsch, PC, Tspn, cola, LPB, LPS, sem, sendingList, lts, lnew,
          sts, procer, io, conf, SUSPEND, senales, ALG, queuesArray>>

imagenes == <<lsch, PC, Tspn>>
hilosPP  == <<lts, lnew, sts, procer, io, conf>>
config   == <<conf, ALG, queuesArray>>

(***************************************************************************)
(* The states a process goes through, as the LSCH log names them.          *)
(***************************************************************************)
EnMemoria == {"Nuevos", "Reanudados", "Fin de Quantum", "Fin I/O",
              "Listos", "Ejecucion", "Bloqueado"}
EnSistema == EnMemoria \cup {"FIFO", "Suspendido"}
Estados   == EnSistema \cup {"Afuera", "Finalizado"}

Semaforos == Colas \cup {"LPB", "STS_in", "MPS", "MMP", "io"}

Pedidos == [img : Procs, nb : BOOLEAN]

(* The array main builds, after the first configurationReader has sorted   *)
(* it: by priority, and in the order of main among equals.                 *)
Puesto == [LPN |-> 0, LPR |-> 1, LFQ |-> 2, LFIO |-> 3]
Ordenados(pr) ==
    {a \in [1 .. 4 -> Entradas] : \A i, j \in 1 .. 4 :
        i < j => \/ pr[a[i]] < pr[a[j]]
                 \/ pr[a[i]] = pr[a[j]] /\ Puesto[a[i]] < Puesto[a[j]]}

Init ==
    /\ pi = [p \in Procs |-> "afuera"]
    /\ lsch = [p \in Procs |-> "Afuera"]
    /\ PC = [p \in Procs |-> 0]
    /\ Tspn = [p \in Procs |-> TANT * Escala]
    /\ cola = [q \in Colas |-> <<>>]
    /\ LPB = <<>>
    /\ LPS = {}
    /\ sem = [s \in Semaforos |->
                 IF s = "MPS" THEN MPS ELSE IF s = "MMP" THEN MMP
                 ELSE IF s = "io" THEN Cardinality(Hilos) ELSE 0]
    /\ sendingList = [p \in Procs |-> <<>>]
    /\ lts = [pc |-> "epoll", img |-> Nadie, q |-> "LPN"]
    /\ lnew = [pc |-> "espera", img |-> Nadie]
    /\ sts = [pc |-> "espera", i |-> 1, q |-> "LPN", img |-> Nadie,
              alg |-> "FIFO", prioList |-> <<>>]
    /\ procer = [pc |-> "espera", img |-> Nadie, quantumCount |-> 0,
                 rafaga |-> 0, ioBlock |-> FALSE]
    /\ io = [h \in Hilos |-> [pc |-> "espera", img |-> Nadie, nb |-> FALSE]]
    /\ SUSPEND = FALSE
    /\ senales = 0
    /\ ALG \in Algs
    /\ \E pr \in PrioColas :
          /\ queuesArray \in Ordenados(pr)
          /\ conf = [pc |-> "espera", n |-> 0, i |-> 1, prio |-> pr,
                      aux |-> "LPN"]

(* The mutex of an entry queue is held from a producer's push to its       *)
(* post of STS_in_empty.                                                   *)
MutexLibre(q) ==
    /\ ~ (lts.pc = "avisa" /\ lts.q = q)
    /\ ~ (lnew.pc = "avisa" /\ q = "LPN")
    /\ ~ (procer.pc = "avisa" /\ q = "LFQ")
    /\ \A h \in Hilos : ~ (io[h].pc = "avisa" /\ q = "LFIO")

(* Operators named Mal... are plausible bugs in the definition that        *)
(* follows them; the properties are shown to notice them.                  *)

(* The post repeated, and the post forgotten.                              *)
MalEncolaDoble(q, p) ==
    /\ MutexLibre(q)
    /\ cola' = [cola EXCEPT ![q] = Append(@, p)]
    /\ sem' = [sem EXCEPT ![q] = @ + 2]
MalEncolaSinPost(q, p) ==
    /\ MutexLibre(q)
    /\ cola' = [cola EXCEPT ![q] = Append(@, p)]
    /\ UNCHANGED sem

(* lock(X_mutex); queue_push(X, p); sem_post(X_empty).                     *)
Encola(q, p) ==
    /\ MutexLibre(q)
    /\ cola' = [cola EXCEPT ![q] = Append(@, p)]
    /\ sem' = [sem EXCEPT ![q] = @ + 1]

(* The second post forgotten.                                              *)
MalAvisa == UNCHANGED sem

(* sem_post(STS_in_empty); unlock(X_mutex).                                *)
Avisa == sem' = [sem EXCEPT !["STS_in"] = @ + 1]

Envia(p, tipo) == sendingList' = [sendingList EXCEPT ![p] = Append(@, tipo)]

-----------------------------------------------------------------------------
(***************************************************************************)
(* LTSconex.  lts.pc: "epoll" between events; "demora" before the push to  *)
(* LFIFO; "encola" before the push to lts.q; "avisa" between the posts.    *)
(***************************************************************************)

(* One process too many in memory.                                         *)
MalHayMMP == sem["MMP"] >= 0

(* sem_trywait(MMP_sem) would succeed.                                     *)
HayMMP == sem["MMP"] > 0

(* A PI connects and sends its script: refused if MPS is exhausted,        *)
(* delayed if MMP is, otherwise loaded.                                    *)
LTSAcepta(p) ==
    /\ lts.pc = "epoll"
    /\ pi[p] \in {"afuera", "rechazado"}
    /\ IF sem["MPS"] = 0
       THEN /\ pi' = [pi EXCEPT ![p] = "rechazado"]
            /\ UNCHANGED <<lsch, sem, lts>>
       ELSE /\ pi' = [pi EXCEPT ![p] = "conectado"]
            /\ sem' = [sem EXCEPT !["MPS"] = @ - 1,
                                  !["MMP"] = IF HayMMP THEN @ - 1 ELSE @]
            /\ lsch' = [lsch EXCEPT ![p] = IF HayMMP THEN "Nuevos"
                                                     ELSE "FIFO"]
            /\ lts' = [pc |-> IF HayMMP THEN "encola" ELSE "demora",
                       img |-> p, q |-> "LPN"]
    /\ UNCHANGED <<PC, Tspn, cola, LPB, LPS, sendingList, lnew, sts, procer,
                   io, conf, SUSPEND, senales, ALG, queuesArray>>

LTSDemora ==
    /\ lts.pc = "demora"
    /\ Encola("LFIFO", lts.img)
    /\ lts' = [lts EXCEPT !.pc = "epoll", !.img = Nadie]
    /\ UNCHANGED <<pi, imagenes, LPB, LPS, sendingList, lnew, sts, procer, io,
                   SUSPEND, senales, config>>

LTSEncola ==
    /\ lts.pc = "encola"
    /\ Encola(lts.q, lts.img)
    /\ lts' = [lts EXCEPT !.pc = "avisa", !.img = Nadie]
    /\ UNCHANGED <<pi, imagenes, LPB, LPS, sendingList, lnew, sts, procer, io,
                   SUSPEND, senales, config>>

LTSAvisa ==
    /\ lts.pc = "avisa"
    /\ Avisa
    /\ lts' = [lts EXCEPT !.pc = "epoll"]
    /\ UNCHANGED <<pi, imagenes, cola, LPB, LPS, sendingList, lnew, sts,
                   procer, io, SUSPEND, senales, config>>

(* The image found but not taken out of the list.                          *)
MalRestoreSuspended(p) == UNCHANGED LPS

restoreSuspended(p) == LPS' = LPS \ {p}

(* EPOLLIN of a client: its R is read only once MMP has been taken.  An    *)
(* image that is not in LPS is an error: MMP is returned, the fd closed.   *)
LTSReanuda(p) ==
    /\ lts.pc = "epoll"
    /\ pi[p] = "reanudar"
    /\ HayMMP
    /\ IF p \in LPS
       THEN /\ pi' = [pi EXCEPT ![p] = "conectado"]
            /\ sem' = [sem EXCEPT !["MMP"] = @ - 1]
            /\ lsch' = [lsch EXCEPT ![p] = "Reanudados"]
            /\ restoreSuspended(p)
            /\ lts' = [pc |-> "encola", img |-> p, q |-> "LPR"]
       ELSE /\ pi' = [pi EXCEPT ![p] = "cerrado"]
            /\ UNCHANGED <<sem, lsch, LPS, lts>>
    /\ UNCHANGED <<PC, Tspn, cola, LPB, sendingList, lnew, sts, procer, io,
                   SUSPEND, senales, config>>

(* EPOLLOUT of a client with no input pending: the oldest of its messages  *)
(* is taken from sendingList and written; the PI acts on its type.         *)
LTSEnvia(p) ==
    /\ lts.pc = "epoll"
    /\ pi[p] = "conectado"
    /\ sendingList[p] # <<>>
    /\ sendingList' = [sendingList EXCEPT ![p] = Tail(@)]
    /\ pi' = [pi EXCEPT ![p] = IF Head(sendingList[p]) = "S" THEN "suspendido"
                               ELSE IF Head(sendingList[p]) = "T" THEN "fin"
                               ELSE @]
    /\ UNCHANGED <<imagenes, cola, LPB, LPS, sem, hilosPP, SUSPEND, senales,
                   ALG, queuesArray>>

(* The user of a suspended PI presses enter and the PI sends R.            *)
PIReanuda(p) ==
    /\ pi[p] = "suspendido"
    /\ pi' = [pi EXCEPT ![p] = "reanudar"]
    /\ UNCHANGED <<imagenes, cola, LPB, LPS, sem, sendingList, hilosPP,
                   SUSPEND, senales, ALG, queuesArray>>

-----------------------------------------------------------------------------
(***************************************************************************)
(* LTSnew: a delayed process enters when there is one and MMP allows it.   *)
(* Only LTSnew takes LFIFO_empty, so waiting for it and then for MMP_sem   *)
(* is one step.                                                            *)
(***************************************************************************)
NewToma ==
    /\ lnew.pc = "espera"
    /\ sem["LFIFO"] > 0
    /\ HayMMP
    /\ sem' = [sem EXCEPT !["LFIFO"] = @ - 1, !["MMP"] = @ - 1]
    /\ IF cola["LFIFO"] = <<>>
       THEN /\ lnew' = [lnew EXCEPT !.pc = "segv"]
            /\ UNCHANGED <<cola, lsch>>
       ELSE /\ lnew' = [pc |-> "encola", img |-> Head(cola["LFIFO"])]
            /\ cola' = [cola EXCEPT !["LFIFO"] = Tail(@)]
            /\ lsch' = [lsch EXCEPT ![Head(cola["LFIFO"])] = "Nuevos"]
    /\ UNCHANGED <<pi, PC, Tspn, LPB, LPS, sendingList, lts, sts, procer, io,
                   SUSPEND, senales, config>>

NewEncola ==
    /\ lnew.pc = "encola"
    /\ Encola("LPN", lnew.img)
    /\ lnew' = [pc |-> "avisa", img |-> Nadie]
    /\ UNCHANGED <<pi, imagenes, LPB, LPS, sendingList, lts, sts, procer, io,
                   SUSPEND, senales, config>>

NewAvisa ==
    /\ lnew.pc = "avisa"
    /\ Avisa
    /\ lnew' = [lnew EXCEPT !.pc = "espera"]
    /\ UNCHANGED <<pi, imagenes, cola, LPB, LPS, sendingList, lts, sts,
                   procer, io, SUSPEND, senales, config>>

-----------------------------------------------------------------------------
(***************************************************************************)
(* STS.  sts.pc: "espera" on STS_in_empty; "cola" before reading the name  *)
(* of queuesArray[i]; "toma" before sem_trywait of that queue; "pop" with  *)
(* the token in hand; "push" with the image in hand (ordenarFIFO);         *)
(* "inserta" with the batch complete (ordenarPRI, ordenarSPN).             *)
(***************************************************************************)
PorLotes(alg) == alg \in {"PRI", "SPN"}

(* The routine of SPN left with the field of the one it was copied from.   *)
MalClave(alg) == prioridad

(* The field orderInsertPrioList and orderInsertSPNList sort by.           *)
Clave(alg) == IF alg = "PRI" THEN prioridad ELSE Tspn

(* sem_wait and sem_post of STS_in_empty, and the copy of ALG.             *)
STSEspera ==
    /\ sts.pc = "espera"
    /\ sem["STS_in"] > 0
    /\ sts' = [sts EXCEPT !.pc = "cola", !.i = 1, !.alg = ALG]
    /\ UNCHANGED <<pi, imagenes, cola, LPB, LPS, sem, sendingList, lts, lnew,
                   procer, io, SUSPEND, senales, config>>

STSCola ==
    /\ sts.pc = "cola"
    /\ sts' = [sts EXCEPT !.pc = "toma", !.q = queuesArray[sts.i]]
    /\ UNCHANGED <<pi, imagenes, cola, LPB, LPS, sem, sendingList, lts, lnew,
                   procer, io, SUSPEND, senales, config>>

(* The token of a queue and, if there is one, a token of STS_in_empty.     *)
STSToma ==
    /\ sts.pc = "toma"
    /\ sem[sts.q] > 0
    /\ sem' = [sem EXCEPT ![sts.q] = @ - 1,
                          !["STS_in"] = IF @ > 0 THEN @ - 1 ELSE @]
    /\ sts' = [sts EXCEPT !.pc = "pop"]
    /\ UNCHANGED <<pi, imagenes, cola, LPB, LPS, sendingList, lts, lnew,
                   procer, io, SUSPEND, senales, config>>

(* sem_trywait fails: on to the next queue, or the end of the pass.        *)
STSAvanza ==
    /\ sts.pc = "toma"
    /\ sem[sts.q] = 0
    /\ sts' = [sts EXCEPT
                 !.pc = IF sts.i < 4 THEN "cola"
                        ELSE IF PorLotes(sts.alg) THEN "inserta" ELSE "espera",
                 !.i = IF @ < 4 THEN @ + 1 ELSE 1]
    /\ UNCHANGED <<pi, imagenes, cola, LPB, LPS, sem, sendingList, lts, lnew,
                   procer, io, SUSPEND, senales, config>>

STSPop ==
    /\ sts.pc = "pop"
    /\ MutexLibre(sts.q)
    /\ IF cola[sts.q] = <<>>
       THEN /\ sts' = [sts EXCEPT !.pc = "segv"]
            /\ UNCHANGED <<cola, lsch>>
       ELSE LET p == Head(cola[sts.q]) IN
            /\ cola' = [cola EXCEPT ![sts.q] = Tail(@)]
            /\ lsch' = [lsch EXCEPT ![p] = "Listos"]
            /\ sts' = IF PorLotes(sts.alg)
                      THEN [sts EXCEPT !.pc = "toma",
                                       !.prioList = Append(@, p)]
                      ELSE [sts EXCEPT !.pc = "push", !.img = p]
    /\ UNCHANGED <<pi, PC, Tspn, LPB, LPS, sem, sendingList, lts, lnew,
                   procer, io, SUSPEND, senales, config>>

STSPush ==
    /\ sts.pc = "push"
    /\ Encola("LPL", sts.img)
    /\ sts' = [sts EXCEPT !.pc = "toma", !.img = Nadie]
    /\ UNCHANGED <<pi, imagenes, LPB, LPS, sendingList, lts, lnew, procer, io,
                   SUSPEND, senales, config>>

(* orderInsertPrioList or orderInsertSPNList of a batch.                   *)
Inserta(prioList, alg) ==
    LET r == orderInsert(prioList, cola["LPL"], sem["LPL"], Clave(alg)) IN
    /\ cola' = [cola EXCEPT !["LPL"] = r.LPL]
    /\ sem' = [sem EXCEPT !["LPL"] = r.sem]

STSInserta ==
    /\ sts.pc = "inserta"
    /\ Inserta(sts.prioList, sts.alg)
    /\ sts' = [sts EXCEPT !.pc = "espera", !.prioList = <<>>]
    /\ UNCHANGED <<pi, imagenes, LPB, LPS, sendingList, lts, lnew, procer, io,
                   SUSPEND, senales, config>>

-----------------------------------------------------------------------------
(***************************************************************************)
(* PROCER.  procer.pc: "espera" on LPL_empty; "pop" with its token;        *)
(* "ejecuta" in the loop of processExecution; "decide" after it; "libera", *)
(* "suspende", "avisa" in the middle of what it decided; "colgado" waiting *)
(* for a mutex it holds itself; "segv" after dereferencing a NULL image.   *)
(* A call of functionExecution runs the same statements with the same loop *)
(* condition, so its body counts as statements of the script; "fxio0" is   *)
(* the one statement that behaves differently inside a function.           *)
(***************************************************************************)
img == procer.img

ProcerEspera ==
    /\ procer.pc = "espera"
    /\ sem["LPL"] > 0
    /\ sem' = [sem EXCEPT !["LPL"] = @ - 1]
    /\ procer' = [procer EXCEPT !.pc = "pop"]
    /\ UNCHANGED <<pi, imagenes, cola, LPB, LPS, sendingList, lts, lnew, sts,
                   io, SUSPEND, senales, config>>

ProcerPop ==
    /\ procer.pc = "pop"
    /\ IF cola["LPL"] = <<>>
       THEN /\ procer' = [procer EXCEPT !.pc = "segv"]
            /\ UNCHANGED <<cola, lsch, SUSPEND>>
       ELSE /\ cola' = [cola EXCEPT !["LPL"] = Tail(@)]
            /\ lsch' = [lsch EXCEPT ![Head(cola["LPL"])] = "Ejecucion"]
            /\ SUSPEND' = FALSE
            /\ procer' = [pc |-> "ejecuta", img |-> Head(cola["LPL"]),
                          quantumCount |-> 0, rafaga |-> 0,
                          ioBlock |-> FALSE]
    /\ UNCHANGED <<pi, PC, Tspn, LPB, LPS, sem, sendingList, lts, lnew, sts,
                   io, senales, config>>

EnFin == PC[img] = Len(Script[img])

(* The condition of the while loops of processExecution and                *)
(* functionExecution.                                                      *)
Sigue ==
    /\ ~ EnFin
    /\ ~ SUSPEND
    /\ ~ procer.ioBlock
    /\ procer.quantumCount < Quantum

(* The statement at PC + 1 is one of tipos.                                *)
Ejecuta(tipos) ==
    /\ procer.pc = "ejecuta"
    /\ Sigue
    /\ Script[img][PC[img] + 1] \in tipos

(* The statements that use up quantum (only under RR) and burst.           *)
Cuenta == {"asignar", "saltar", "xio1", "xio0", "fxio0"}
Gasta  == IF Script[img][PC[img] + 1] \in Cuenta THEN 1 ELSE 0
GastaQuantum == IF ALG = "RR" THEN Gasta ELSE 0

(* The statement accounted for and ioBlockInterrupt not set.               *)
MalComputa(bloquea) ==
    procer' = [procer EXCEPT !.quantumCount = @ + GastaQuantum,
                             !.rafaga = @ + Gasta]

Computa(bloquea) ==
    procer' = [procer EXCEPT !.quantumCount = @ + GastaQuantum,
                             !.rafaga = @ + Gasta,
                             !.ioBlock = bloquea]

PCMas1 == PC' = [PC EXCEPT ![img] = @ + 1]

(* Declarations, labels and blank lines, assignments, imprimir, and the    *)
(* line fin_programa itself.                                               *)
EjecutaSimple ==
    /\ Ejecuta({"nada", "asignar", "imprimir", "fin"})
    /\ PCMas1
    /\ Computa(FALSE)
    /\ IF Script[img][PC[img] + 1] = "imprimir" THEN Envia(img, "N")
                                                ELSE UNCHANGED sendingList
    /\ UNCHANGED <<pi, lsch, Tspn, cola, LPB, LPS, sem, lts, lnew, sts, io,
                   SUSPEND, senales, config>>

(* ssc and snc: the variable, which is not modelled, decides the jump.     *)
EjecutaSalto ==
    /\ Ejecuta({"saltar"})
    /\ PC' \in {[PC EXCEPT ![img] = n] : n \in {PC[img] + 1, Etiqueta[img]}}
    /\ Computa(FALSE)
    /\ UNCHANGED <<pi, lsch, Tspn, cola, LPB, LPS, sem, sendingList, lts, lnew,
                   sts, io, SUSPEND, senales, config>>

PideIO(nb) ==
    /\ LPB' = Append(LPB, [img |-> img, nb |-> nb])
    /\ sem' = [sem EXCEPT !["LPB"] = @ + 1]

(* io(n,1) and x=io(n,1).                                                  *)
EjecutaIOBloqueante ==
    /\ Ejecuta({"io1", "xio1"})
    /\ PCMas1
    /\ PideIO(FALSE)
    /\ lsch' = [lsch EXCEPT ![img] = "Bloqueado"]
    /\ Computa(TRUE)
    /\ UNCHANGED <<pi, Tspn, cola, LPS, sendingList, lts, lnew, sts, io,
                   SUSPEND, senales, config>>

(* The last thread promised twice.                                         *)
MalHayHilo == Len(LPB) <= sem["io"]

(* queue_size(LPB) < the number of free I/O threads.                       *)
HayHilo == Len(LPB) < sem["io"]

(* io(n,0), and x=io(n,0) inside a function: a request if a thread is      *)
(* free, otherwise an error for the client; it goes on in both cases.      *)
EjecutaIONoBloqueante ==
    /\ Ejecuta({"io0", "fxio0"})
    /\ PCMas1
    /\ Computa(FALSE)
    /\ IF HayHilo THEN PideIO(TRUE) /\ UNCHANGED sendingList
                  ELSE Envia(img, "N") /\ UNCHANGED <<LPB, sem>>
    /\ UNCHANGED <<pi, lsch, Tspn, cola, LPS, lts, lnew, sts, io, SUSPEND,
                   senales, config>>

(* x=io(n,0) in the main program: when a thread is free LPB_mutex, already *)
(* locked, is locked again, and PROCER waits for itself for ever.          *)
EjecutaXIO0 ==
    /\ Ejecuta({"xio0"})
    /\ PCMas1
    /\ IF HayHilo THEN /\ procer' = [procer EXCEPT !.pc = "colgado"]
                       /\ UNCHANGED sendingList
                  ELSE /\ Computa(FALSE)
                       /\ Envia(img, "N")
    /\ UNCHANGED <<pi, lsch, Tspn, cola, LPB, LPS, sem, lts, lnew, sts, io,
                   SUSPEND, senales, config>>

(* The loop ends and the estimate of the next burst is written.            *)
ProcerSale ==
    /\ procer.pc = "ejecuta"
    /\ ~ Sigue
    /\ Tspn' = [Tspn EXCEPT ![img] =
                   (@ * AlfaNum + procer.rafaga * Escala * (AlfaDen - AlfaNum))
                       \div AlfaDen]
    /\ procer' = [procer EXCEPT !.pc = "decide", !.rafaga = 0]
    /\ UNCHANGED <<pi, lsch, PC, cola, LPB, LPS, sem, sendingList, lts, lnew,
                   sts, io, SUSPEND, senales, config>>

(* continue: the locals are dead until the next pop resets them.           *)
ProcerVuelve == procer' = [pc |-> "espera", img |-> Nadie, quantumCount |-> 0,
                           rafaga |-> 0, ioBlock |-> FALSE]

ProcerFinaliza ==
    /\ procer.pc = "decide"
    /\ EnFin
    /\ lsch' = [lsch EXCEPT ![img] = "Finalizado"]
    /\ SUSPEND' = FALSE
    /\ Envia(img, "T")
    /\ procer' = [procer EXCEPT !.pc = "libera"]
    /\ UNCHANGED <<pi, PC, Tspn, cola, LPB, LPS, sem, lts, lnew, sts, io,
                   senales, config>>

(* Only the place in memory is returned.                                   *)
MalProcerLibera ==
    /\ procer.pc = "libera"
    /\ sem' = [sem EXCEPT !["MMP"] = @ + 1]
    /\ ProcerVuelve
    /\ UNCHANGED <<pi, imagenes, cola, LPB, LPS, sendingList, lts, lnew, sts,
                   io, SUSPEND, senales, config>>

ProcerLibera ==
    /\ procer.pc = "libera"
    /\ sem' = [sem EXCEPT !["MMP"] = @ + 1, !["MPS"] = @ + 1]
    /\ ProcerVuelve
    /\ UNCHANGED <<pi, imagenes, cola, LPB, LPS, sendingList, lts, lnew, sts,
                   io, SUSPEND, senales, config>>

ProcerBloqueado ==
    /\ procer.pc = "decide"
    /\ ~ EnFin
    /\ procer.ioBlock
    /\ SUSPEND' = FALSE
    /\ ProcerVuelve
    /\ UNCHANGED <<pi, imagenes, cola, LPB, LPS, sem, sendingList, lts, lnew,
                   sts, io, senales, config>>

(* The signal has priority over the blocking I/O.                          *)
MalProcerSuspende ==
    /\ procer.pc = "decide"
    /\ ~ EnFin
    /\ SUSPEND
    /\ lsch' = [lsch EXCEPT ![img] = "Suspendido"]
    /\ LPS' = LPS \cup {img}
    /\ sem' = [sem EXCEPT !["MMP"] = @ + 1]
    /\ procer' = [procer EXCEPT !.pc = "suspende"]
    /\ UNCHANGED <<pi, PC, Tspn, cola, LPB, sendingList, lts, lnew, sts, io,
                   SUSPEND, senales, config>>

ProcerSuspende ==
    /\ procer.pc = "decide"
    /\ ~ EnFin
    /\ ~ procer.ioBlock
    /\ SUSPEND
    /\ lsch' = [lsch EXCEPT ![img] = "Suspendido"]
    /\ LPS' = LPS \cup {img}
    /\ sem' = [sem EXCEPT !["MMP"] = @ + 1]
    /\ procer' = [procer EXCEPT !.pc = "suspende"]
    /\ UNCHANGED <<pi, PC, Tspn, cola, LPB, sendingList, lts, lnew, sts, io,
                   SUSPEND, senales, config>>

ProcerAvisaPI ==
    /\ procer.pc = "suspende"
    /\ Envia(img, "S")
    /\ SUSPEND' = FALSE
    /\ ProcerVuelve
    /\ UNCHANGED <<pi, imagenes, cola, LPB, LPS, sem, lts, lnew, sts, io,
                   senales, config>>

ProcerFinQuantum ==
    /\ procer.pc = "decide"
    /\ ~ EnFin
    /\ ~ procer.ioBlock
    /\ ~ SUSPEND
    /\ procer.quantumCount = Quantum
    /\ lsch' = [lsch EXCEPT ![img] = "Fin de Quantum"]
    /\ Encola("LFQ", img)
    /\ procer' = [procer EXCEPT !.pc = "avisa", !.img = Nadie]
    /\ UNCHANGED <<pi, PC, Tspn, LPB, LPS, sendingList, lts, lnew, sts, io,
                   SUSPEND, senales, config>>

ProcerAvisa ==
    /\ procer.pc = "avisa"
    /\ Avisa
    /\ ProcerVuelve
    /\ UNCHANGED <<pi, imagenes, cola, LPB, LPS, sendingList, lts, lnew, sts,
                   io, SUSPEND, senales, config>>

-----------------------------------------------------------------------------
(***************************************************************************)
(* ioThread.  io[h].pc: "espera" on LPB_empty and io_threads; "pop" with   *)
(* both; "es" during a blocking I/O; "avisa" between the posts; "fin"      *)
(* before io_threads is returned.                                          *)
(***************************************************************************)
IOToma(h) ==
    /\ io[h].pc = "espera"
    /\ sem["LPB"] > 0
    /\ sem["io"] > 0
    /\ sem' = [sem EXCEPT !["LPB"] = @ - 1, !["io"] = @ - 1]
    /\ io' = [io EXCEPT ![h].pc = "pop"]
    /\ UNCHANGED <<pi, imagenes, cola, LPB, LPS, sendingList, lts, lnew, sts,
                   procer, SUSPEND, senales, config>>

(* LPB_mutex is free unless PROCER hangs holding it.                       *)
IOPop(h) ==
    /\ io[h].pc = "pop"
    /\ procer.pc # "colgado"
    /\ IF LPB = <<>>
       THEN /\ io' = [io EXCEPT ![h].pc = "segv"]
            /\ UNCHANGED LPB
       ELSE /\ io' = [io EXCEPT ![h] =
                         [pc  |-> IF Head(LPB).nb THEN "fin" ELSE "es",
                          img |-> Head(LPB).img, nb |-> Head(LPB).nb]]
            /\ LPB' = Tail(LPB)
    /\ UNCHANGED <<pi, imagenes, cola, LPS, sem, sendingList, lts, lnew, sts,
                   procer, SUSPEND, senales, config>>

IOEncola(h) ==
    /\ io[h].pc = "es"
    /\ Encola("LFIO", io[h].img)
    /\ lsch' = [lsch EXCEPT ![io[h].img] = "Fin I/O"]
    /\ io' = [io EXCEPT ![h].pc = "avisa"]
    /\ UNCHANGED <<pi, PC, Tspn, LPB, LPS, sendingList, lts, lnew, sts,
                   procer, SUSPEND, senales, config>>

IOAvisa(h) ==
    /\ io[h].pc = "avisa"
    /\ Avisa
    /\ io' = [io EXCEPT ![h].pc = "fin"]
    /\ UNCHANGED <<pi, imagenes, cola, LPB, LPS, sendingList, lts, lnew, sts,
                   procer, SUSPEND, senales, config>>

IOFin(h) ==
    /\ io[h].pc = "fin"
    /\ sem' = [sem EXCEPT !["io"] = @ + 1]
    /\ io' = [io EXCEPT ![h] = [pc |-> "espera", img |-> Nadie, nb |-> FALSE]]
    /\ UNCHANGED <<pi, imagenes, cola, LPB, LPS, sendingList, lts, lnew, sts,
                   procer, SUSPEND, senales, config>>

-----------------------------------------------------------------------------
(***************************************************************************)
(* configure: pp.config was modified.  ALG is replaced and, for PRI and    *)
(* SPN, the ready queue reordered with an empty batch; then queuesArray is *)
(* sorted in place, two assignments an exchange, while the STS reads it.   *)
(***************************************************************************)
ConfLee(alg, pr) ==
    /\ conf.pc = "espera"
    /\ conf.n < MaxCambios
    /\ ALG' = alg
    /\ IF PorLotes(alg) THEN Inserta(<<>>, alg) ELSE UNCHANGED <<cola, sem>>
    /\ conf' = [conf EXCEPT !.pc = "ordena", !.n = @ + 1, !.i = 1, !.prio = pr]
    /\ UNCHANGED <<pi, imagenes, LPB, LPS, sendingList, lts, lnew, sts,
                   procer, io, SUSPEND, senales, queuesArray>>

(* The last pair of the array never compared.                              *)
MalInvertidos == {i \in 1 .. 2 : conf.prio[queuesArray[i]]
                                     > conf.prio[queuesArray[i + 1]]}

Invertidos == {i \in 1 .. 3 : conf.prio[queuesArray[i]]
                                  > conf.prio[queuesArray[i + 1]]}

(* The scan goes on from conf.i, and from the start when it is done.       *)
Proximos == LET resto == {i \in Invertidos : i >= conf.i}
            IN  IF resto # {} THEN resto ELSE Invertidos

(* aux = a[i+1]; a[i+1] = a[i].  The element a[i+1] is in conf.aux until   *)
(* ConfCierra writes it: for a moment a queue is in the array twice and    *)
(* another one is not in it.                                               *)
ConfCopia ==
    /\ conf.pc = "ordena"
    /\ \E i \in Proximos :
          /\ \A j \in Proximos : i <= j
          /\ queuesArray' = [queuesArray EXCEPT ![i + 1] = queuesArray[i]]
          /\ conf' = [conf EXCEPT !.pc = "cierra", !.i = i,
                                  !.aux = queuesArray[i + 1]]
    /\ UNCHANGED <<pi, imagenes, cola, LPB, LPS, sem, sendingList, lts, lnew,
                   sts, procer, io, SUSPEND, senales, ALG>>

(* The second half of the exchange forgotten.                              *)
MalConfCierra ==
    /\ conf.pc = "cierra"
    /\ conf' = [conf EXCEPT !.pc = "ordena", !.i = @ + 1]
    /\ UNCHANGED <<pi, imagenes, cola, LPB, LPS, sem, sendingList, lts, lnew,
                   sts, procer, io, SUSPEND, senales, ALG, queuesArray>>

ConfCierra ==
    /\ conf.pc = "cierra"
    /\ queuesArray' = [queuesArray EXCEPT ![conf.i] = conf.aux]
    /\ conf' = [conf EXCEPT !.pc = "ordena", !.i = @ + 1]
    /\ UNCHANGED <<pi, imagenes, cola, LPB, LPS, sem, sendingList, lts, lnew,
                   sts, procer, io, SUSPEND, senales, ALG>>

ConfFin ==
    /\ conf.pc = "ordena"
    /\ Invertidos = {}
    /\ conf' = [conf EXCEPT !.pc = "espera"]
    /\ UNCHANGED <<pi, imagenes, cola, LPB, LPS, sem, sendingList, lts, lnew,
                   sts, procer, io, SUSPEND, senales, ALG, queuesArray>>

(* signal_handler.                                                         *)
SIGUSR1 ==
    /\ senales < MaxSenales
    /\ senales' = senales + 1
    /\ SUSPEND' = TRUE
    /\ UNCHANGED <<pi, imagenes, cola, LPB, LPS, sem, sendingList, hilosPP,
                   ALG, queuesArray>>

-----------------------------------------------------------------------------
LTSconex == \/ LTSDemora \/ LTSEncola \/ LTSAvisa
            \/ \E p \in Procs : LTSAcepta(p) \/ LTSReanuda(p) \/ LTSEnvia(p)
LTSnew   == NewToma \/ NewEncola \/ NewAvisa
STS      == \/ STSEspera \/ STSCola \/ STSToma \/ STSAvanza
            \/ STSPop \/ STSPush \/ STSInserta
processExecution == \/ EjecutaSimple \/ EjecutaSalto \/ EjecutaIOBloqueante
                    \/ EjecutaIONoBloqueante \/ EjecutaXIO0
PROCER   == \/ ProcerEspera \/ ProcerPop \/ processExecution \/ ProcerSale
            \/ ProcerFinaliza \/ ProcerLibera \/ ProcerBloqueado
            \/ ProcerSuspende \/ ProcerAvisaPI \/ ProcerFinQuantum
            \/ ProcerAvisa
ioThread(h) == IOToma(h) \/ IOPop(h) \/ IOEncola(h) \/ IOAvisa(h) \/ IOFin(h)
configure == \/ \E alg \in Algs, pr \in PrioColas : ConfLee(alg, pr)
             \/ ConfCopia \/ ConfCierra \/ ConfFin

Next == \/ LTSconex \/ LTSnew \/ STS \/ PROCER \/ configure \/ SIGUSR1
        \/ \E h \in Hilos : ioThread(h)
        \/ \E p \in Procs : PIReanuda(p)

Spec == Init /\ [][Next]_vars

-----------------------------------------------------------------------------
(***************************************************************************)
(* Properties.                                                             *)
(***************************************************************************)
UnoSi(b) == IF b THEN 1 ELSE 0

TipoImagenes ==
    /\ pi \in [Procs -> {"afuera", "rechazado", "conectado", "suspendido",
                         "reanudar", "fin", "cerrado"}]
    /\ lsch \in [Procs -> Estados]
    /\ PC \in [Procs -> Nat]
    /\ \A p \in Procs : PC[p] <= Len(Script[p])
    /\ Tspn \in [Procs -> Nat]
    /\ sendingList \in [Procs -> Seq({"N", "S", "T"})]
TipoColas ==
    /\ cola \in [Colas -> Seq(Procs)]
    /\ LPB \in Seq(Pedidos)
    /\ LPS \in SUBSET Procs
TipoSem == sem \in [Semaforos -> Nat]
TipoLTS ==
    /\ lts \in [pc : {"epoll", "demora", "encola", "avisa"},
                img : Procs \cup {Nadie}, q : {"LPN", "LPR"}]
    /\ lts.pc \in {"demora", "encola"} => lts.img \in Procs
TipoNew ==
    /\ lnew \in [pc : {"espera", "encola", "avisa", "segv"},
                 img : Procs \cup {Nadie}]
    /\ lnew.pc = "encola" => lnew.img \in Procs
LocalesSTS ==
    [pc : {"espera", "cola", "toma", "pop", "push", "inserta", "segv"},
     i : 1 .. 4, q : Entradas, img : Procs \cup {Nadie},
     alg : Algs \cup {"FIFO"}, prioList : Seq(Procs)]
TipoSTS ==
    /\ sts \in LocalesSTS
    /\ sts.pc = "push" => sts.img \in Procs
LocalesPROCER ==
    [pc : {"espera", "pop", "ejecuta", "decide", "libera", "suspende",
           "avisa", "colgado", "segv"},
     img : Procs \cup {Nadie}, quantumCount : Nat, rafaga : Nat,
     ioBlock : BOOLEAN]
TipoPROCER ==
    /\ procer \in LocalesPROCER
    /\ procer.pc \in {"ejecuta", "decide", "libera", "suspende", "colgado"}
          => procer.img \in Procs
LocalesIO ==
    [pc : {"espera", "pop", "es", "avisa", "fin", "segv"},
     img : Procs \cup {Nadie}, nb : BOOLEAN]
TipoIO ==
    /\ io \in [Hilos -> LocalesIO]
    /\ \A h \in Hilos : io[h].pc = "es" => io[h].img \in Procs
LocalesConf ==
    [pc : {"espera", "ordena", "cierra"}, n : Nat, i : 1 .. 4,
     prio : PrioColas, aux : Entradas]
TipoConf ==
    /\ conf \in LocalesConf
    /\ conf.pc = "cierra" => conf.i < 4
    /\ ALG \in Algs
    /\ queuesArray \in [1 .. 4 -> Entradas]
TipoSenales == SUSPEND \in BOOLEAN /\ senales \in Nat

(* Every variable has its type: the images the threads hold and the queues *)
(* contain are images of processes, no semaphore is negative and no PC is  *)
(* past the end of its script.                                             *)
TypeOK == /\ TipoImagenes /\ TipoColas /\ TipoSem
          /\ TipoLTS /\ TipoNew /\ TipoSTS /\ TipoPROCER /\ TipoIO
          /\ TipoConf /\ TipoSenales

(* The I/O threads between taking a token of LPB_empty and their pop, and  *)
(* those with no request.                                                  *)
EnPop   == {h \in Hilos : io[h].pc = "pop"}
Ociosos == {h \in Hilos : io[h].pc = "espera"}

SemEntradas == \A q \in Entradas :
    Len(cola[q]) = sem[q] + UnoSi(sts.pc = "pop" /\ sts.q = q)
SemLFIFO == Len(cola["LFIFO"]) = sem["LFIFO"]
SemLPL   == Len(cola["LPL"]) = sem["LPL"] + UnoSi(procer.pc = "pop")
SemLPB   == Len(LPB) = sem["LPB"] + Cardinality(EnPop)
SemIO    == sem["io"] = Cardinality(Ociosos)

(* Every counting semaphore counts its queue: what X_empty says plus the   *)
(* tokens its consumers hold before their pop is the length of the queue,  *)
(* and io_threads counts the threads that have no request.                 *)
SemaforosFieles == SemEntradas /\ SemLFIFO /\ SemLPL /\ SemLPB /\ SemIO

(* Under FIFO and RR the STS moves the images one at a time.               *)
SinLotes == sts.pc # "inserta" /\ ~ PorLotes(sts.alg)

(* No thread dereferences the NULL that queue_pop returns for an empty     *)
(* queue: the image it pops is always there.                               *)
NingunNULL ==
    /\ lnew.pc # "segv" /\ sts.pc # "segv" /\ procer.pc # "segv"
    /\ \A h \in Hilos : io[h].pc # "segv"

(* MMP_sem and MPS_sem are what is left after the processes in memory and  *)
(* in the system, one step of PROCER (between the log of the end and the   *)
(* two posts) apart: no path leaks a place or returns one twice.           *)
CuposExactos ==
    LET Cuantos(E) == Cardinality({p \in Procs : lsch[p] \in E})
        porLiberar == UnoSi(procer.pc = "libera")
    IN  /\ sem["MMP"] + Cuantos(EnMemoria) + porLiberar = MMP
        /\ sem["MPS"] + Cuantos(EnSistema) + porLiberar = MPS

Veces(s, p) == Cardinality({i \in DOMAIN s : s[i] = p})

(* How many times the image is in a queue or in the hands of a thread.  A  *)
(* non-blocking request does not own its image, and PROCER stops owning it *)
(* as soon as it has queued a blocking one.                                *)
Apariciones(p) ==
    Veces(cola["LPN"], p) + Veces(cola["LPR"], p) + Veces(cola["LFQ"], p)
    + Veces(cola["LFIO"], p) + Veces(cola["LFIFO"], p) + Veces(cola["LPL"], p)
    + Veces(LPB, [img |-> p, nb |-> FALSE])
    + UnoSi(p \in LPS)
    + UnoSi(lts.img = p) + UnoSi(lnew.img = p) + UnoSi(sts.img = p)
    + Veces(sts.prioList, p)
    + UnoSi(/\ procer.img = p
            /\ procer.pc \in {"ejecuta", "decide", "colgado"}
            /\ ~ procer.ioBlock)
    + Cardinality({h \in Hilos : io[h].pc = "es" /\ io[h].img = p})

(* An image in the system is in exactly one place, and one that is not is  *)
(* nowhere: no hand-over between threads loses or duplicates a process.    *)
UnSoloLugar ==
    \A p \in Procs : Apariciones(p) = UnoSi(lsch[p] \in EnSistema)

(* No lost wake-up: the STS sleeps on STS_in_empty only when no entry      *)
(* queue has a token, except for those of producers about to post it.      *)
SinDespertarPerdido ==
    sem["LPN"] + sem["LPR"] + sem["LFQ"] + sem["LFIO"]
        <= sem["STS_in"] + UnoSi(lts.pc = "avisa") + UnoSi(lnew.pc = "avisa")
           + UnoSi(procer.pc = "avisa")
           + Cardinality({h \in Hilos : io[h].pc = "avisa"})

(* A non-blocking request is accepted only if it does not have to wait: at *)
(* any time the threads with no I/O under way are enough for it and the    *)
(* requests before it, whoever took tokens in the meantime.                *)
HiloParaNoBloqueante ==
    \A i \in DOMAIN LPB :
        LPB[i].nb => i <= Cardinality({h \in Hilos :
                                          io[h].pc \in {"espera", "pop"}})

(* A blocking request keeps its process blocked from the moment it is      *)
(* queued until the I/O thread returns the image: nobody runs, suspends or *)
(* frees the image the thread is going to read and to put in LFIO.  (The   *)
(* image of a non-blocking request has no such guarantee.)                 *)
BloqueadoHastaFinIO ==
    /\ \A i \in DOMAIN LPB : ~ LPB[i].nb => lsch[LPB[i].img] = "Bloqueado"
    /\ \A h \in Hilos : io[h].pc = "es" => lsch[io[h].img] = "Bloqueado"
    /\ \A p \in Procs : lsch[p] = "Bloqueado" /\ p = img => procer.ioBlock

(* The client of a suspended process has exactly one way of learning of it *)
(* at each moment: PROCER about to queue the S, the S at the end of its    *)
(* messages, or the PI that has read it.  So the R of a PI always finds    *)
(* its image in LPS (the error branch of LTSconex is never taken), and T   *)
(* is the last message of a client, for a process that has ended.          *)
AvisosCoherentes ==
    \A p \in Procs :
        LET m == sendingList[p]
            ultimo(t) == m # <<>> /\ m[Len(m)] = t
        IN  /\ \A i \in 1 .. Len(m) - 1 : m[i] = "N"
            /\ UnoSi(p \in LPS) = UnoSi(ultimo("S"))
                                  + UnoSi(pi[p] \in {"suspendido", "reanudar"})
                                  + UnoSi(procer.pc = "suspende" /\ img = p)
            /\ UnoSi(lsch[p] = "Finalizado")
                   = UnoSi(ultimo("T")) + UnoSi(pi[p] = "fin")
            /\ pi[p] # "cerrado"

(* Under PRI the ready queue is always in order of priority, whatever      *)
(* PROCER takes while the STS is inserting.                                *)
OrdenPRI ==
    ALG = "PRI" => \A i \in 1 .. Len(cola["LPL"]) - 1 :
        prioridad[cola["LPL"][i]] <= prioridad[cola["LPL"][i + 1]]

(* LPL is in the order of the estimates.                                   *)
EnOrdenSPN == \A i \in 1 .. Len(cola["LPL"]) - 1 :
                  Tspn[cola["LPL"][i]] <= Tspn[cola["LPL"][i + 1]]

(* Under SPN the insertion of a batch always leaves the ready queue in the *)
(* order of the estimates, and only PROCER puts it out of order: writing   *)
(* Tspn after it queued a blocking request, when that I/O is over and the  *)
(* image already in LPL.  PROCER's pops never do, nor does the end of a    *)
(* process that did not block.                                             *)
OrdenSPN ==
    [][ALG = "SPN" =>
          /\ sts.pc = "inserta" /\ sts'.pc = "espera" => EnOrdenSPN'
          /\ EnOrdenSPN /\ ~ EnOrdenSPN' =>
                 /\ procer.ioBlock /\ procer'.pc = "decide"
                 /\ \E i \in DOMAIN cola["LPL"] : cola["LPL"][i] = img]_vars

(* The sort of queuesArray loses no queue: between two exchanges the array *)
(* holds the four of them, and it is in order when configure is done,      *)
(* although the STS never waits for it.                                    *)
ArregloOrdenado ==
    /\ conf.pc # "cierra" => {queuesArray[i] : i \in 1 .. 4} = Entradas
    /\ conf.pc = "espera" => \A i \in 1 .. 3 :
           conf.prio[queuesArray[i]] <= conf.prio[queuesArray[i + 1]]

(* The states of the processes follow the life cycle.                      *)
Ciclo == INSTANCE CicloDeVida WITH estado <- lsch
CumpleCiclo == Ciclo!Spec

-----------------------------------------------------------------------------
(***************************************************************************)
(* Fairness: every thread that can go on does so eventually (the kernel    *)
(* schedules it; mutexes and semaphores are held for a bounded time);      *)
(* LTSconex serves every event of the set epoll returns; the user of a     *)
(* suspended PI eventually presses enter.  Connections, SIGUSR1 and        *)
(* changes of pp.config are not fair: they need not happen.                *)
(***************************************************************************)
Justicia ==
    /\ WF_vars(LTSDemora \/ LTSEncola \/ LTSAvisa)
    /\ \A p \in Procs : /\ WF_vars(LTSReanuda(p))
                        /\ WF_vars(LTSEnvia(p))
                        /\ WF_vars(PIReanuda(p))
    /\ WF_vars(LTSnew)
    /\ WF_vars(STS)
    /\ WF_vars(PROCER)
    /\ \A h \in Hilos : WF_vars(ioThread(h))
    /\ WF_vars(ConfCopia \/ ConfCierra \/ ConfFin)

SpecJusta == Spec /\ Justicia

(* Every admitted process is eventually executed to its end and its client *)
(* told, whatever delays, suspensions and I/O it goes through.             *)
TodoTermina ==
    \A p \in Procs : lsch[p] \in EnSistema ~> pi[p] = "fin"
=============================================================================
