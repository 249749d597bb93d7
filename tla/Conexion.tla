------------------------------ MODULE Conexion ------------------------------
(***************************************************************************)
(* The connections between the PIs and the PP: handshake, script, answer,  *)
(* messages, resumption and close, as LTSconex and the PI carry them out,  *)
(* with clients that vanish at any moment, file descriptors that accept    *)
(* hands out again, and the end of the PP by SIGINT.                       *)
(*                                                                         *)
(* A client c is one run of the PI; its process image has the same name.   *)
(* Nothing of a process is kept by connection but the number of its file   *)
(* descriptor, in the image (fd) and in every queued message, and LTSconex *)
(* looks images and messages up by that number.                            *)
(*                                                                         *)
(* The threads of Planificador appear here by what they do to clients: a   *)
(* process in memory may be taken by PROCER, print, go back to the queues, *)
(* be suspended or end.                                                    *)
(***************************************************************************)
EXTENDS Naturals, SequencesExt

CONSTANTS
    Clientes,    \* the runs of the PI, each with one script
    Nadie,       \* no client
    MPS, MMP,    \* processes in the system, processes in memory
    MaxPasos,    \* bound: messages and ends of quantum of each process
    MaxSenales,  \* bound: SIGUSR1 that suspend a process
    MaxCaidas    \* bound: clients that vanish

ASSUME ClientesAssumption == IsFiniteSet(Clientes) /\ Nadie \notin Clientes
ASSUME CuposAssumption == MPS \in Nat /\ MMP \in Nat
ASSUME CotasAssumption ==
    MaxPasos \in Nat /\ MaxSenales \in Nat /\ MaxCaidas \in Nat

(* Descriptors of clients, enough of them never to run out; 0 is serverfd. *)
Fds == 1 .. Cardinality(Clientes)
serverfd == 0

VARIABLES
    pi,          \* what each PI is doing
    aPI, aPP,    \* the bytes in flight to the PI and to the PP
    backlog,     \* clients connected and not yet accepted
    conex,       \* the client each descriptor is open to
    fd,          \* processImage->clientfd, 0 if there is no image
    proc,        \* where each process is
    pasos,       \* messages it has printed and turns it has ended
    LFIFO, LPS,  \* delayed and suspended images
    sendingList, \* messages to send, each with a descriptor
    sem,         \* MPS_sem and MMP_sem
    eventos,     \* the events of the last epoll_wait not yet handled
    lts,         \* LTSconex
    procer,      \* PROCER
    pp,          \* "vivo", "sale" once SIGINT has decided the end, "fin"
    senales, caidas

red   == <<aPI, aPP, backlog>>
plan  == <<proc, pasos, LFIFO, LPS, sem, procer, senales>>
vars  == <<pi, red, conex, fd, plan, sendingList, eventos, lts, pp, caidas>>

(* The PIs whose socket is closed at their end.                            *)
Idos == {"fin", "rechazado", "error", "caido"}
Ido(c) == pi[c] \in Idos

(* The PP's end of the connection of c is open.                            *)
Abierta(c) == \/ \E f \in Fds : conex[f] = c
              \/ \E i \in DOMAIN backlog : backlog[i] = c

Msg(tipo, c) == [tipo |-> tipo, de |-> c]
Respuestas == {"C", "D", "F"}   \* loaded (type 0), delayed (N), refused

Init ==
    /\ pi = [c \in Clientes |-> "afuera"]
    /\ aPI = [c \in Clientes |-> <<>>]
    /\ aPP = [c \in Clientes |-> <<>>]
    /\ backlog = <<>>
    /\ conex = [f \in Fds |-> Nadie]
    /\ fd = [c \in Clientes |-> 0]
    /\ proc = [c \in Clientes |-> "afuera"]
    /\ pasos = [c \in Clientes |-> 0]
    /\ LFIFO = <<>> /\ LPS = <<>> /\ sendingList = <<>>
    /\ sem = [MPS |-> MPS, MMP |-> MMP]
    /\ eventos = [f \in Fds \cup {serverfd} |-> "no"]
    /\ lts = [pc |-> "epoll", cl |-> Nadie, fd |-> serverfd]
    /\ procer = [pc |-> "espera", img |-> Nadie]
    /\ pp = "vivo"
    /\ senales = 0 /\ caidas = 0

-----------------------------------------------------------------------------
(***************************************************************************)
(* The PI.                                                                 *)
(***************************************************************************)
PIConecta(c) ==
    /\ pi[c] = "afuera"
    /\ pp # "fin"
    /\ pi' = [pi EXCEPT ![c] = "conecta"]
    /\ backlog' = Append(backlog, c)
    /\ UNCHANGED <<aPI, aPP, conex, fd, plan, sendingList, eventos, lts, pp,
                   caidas>>

(* Whatever is sent to a socket that the other end has closed is lost.     *)
Manda(c, m) == aPP' = [aPP EXCEPT ![c] = IF Abierta(c) THEN Append(@, m)
                                                       ELSE @]

PISaluda(c) ==
    /\ pi[c] = "conecta"
    /\ pi' = [pi EXCEPT ![c] = "hand"]
    /\ Manda(c, "#")
    /\ UNCHANGED <<aPI, backlog, conex, fd, plan, sendingList, eventos, lts,
                   pp, caidas>>

(* The ! arrives and the script goes out with its priority.                *)
PIScript(c) ==
    /\ pi[c] = "hand"
    /\ aPI[c] # <<>>
    /\ pi' = [pi EXCEPT ![c] = "resp"]
    /\ aPI' = [aPI EXCEPT ![c] = Tail(@)]
    /\ Manda(c, "N")
    /\ UNCHANGED <<backlog, conex, fd, plan, sendingList, eventos, lts, pp,
                   caidas>>

(* Whatever is read first is taken for the answer to the script; only its  *)
(* type F is looked at.                                                    *)
PIRespuesta(c) ==
    /\ pi[c] = "resp"
    /\ aPI[c] # <<>>
    /\ LET refused == Head(aPI[c]).tipo = "F"
       IN  /\ pi' = [pi EXCEPT ![c] = IF refused THEN "rechazado" ELSE "lee"]
           /\ aPI' = [aPI EXCEPT ![c] = IF refused THEN <<>> ELSE Tail(@)]
    /\ UNCHANGED <<aPP, backlog, conex, fd, plan, sendingList, eventos, lts,
                   pp, caidas>>

(* N is shown, S waits for enter, T ends; any other type is ignored.       *)
PILee(c) ==
    /\ pi[c] = "lee"
    /\ aPI[c] # <<>>
    /\ LET t == Head(aPI[c]).tipo
       IN  /\ pi' = [pi EXCEPT ![c] = IF t = "S" THEN "enter"
                                      ELSE IF t = "T" THEN "fin" ELSE @]
           /\ aPI' = [aPI EXCEPT ![c] = IF t = "T" THEN <<>> ELSE Tail(@)]
    /\ UNCHANGED <<aPP, backlog, conex, fd, plan, sendingList, eventos, lts,
                   pp, caidas>>

(* The user presses enter.  The write may fail if the PP has closed.       *)
PIReanuda(c) ==
    /\ pi[c] = "enter"
    /\ \/ /\ pi' = [pi EXCEPT ![c] = "lee"]
          /\ Manda(c, "R")
          /\ UNCHANGED aPI
       \/ /\ ~ Abierta(c)
          /\ pi' = [pi EXCEPT ![c] = "error"]
          /\ aPI' = [aPI EXCEPT ![c] = <<>>]
          /\ UNCHANGED aPP
    /\ UNCHANGED <<backlog, conex, fd, plan, sendingList, eventos, lts, pp,
                   caidas>>

(* A read of the PI finds the connection closed.                           *)
PIDesconectado(c) ==
    /\ pi[c] \in {"hand", "resp", "lee"}
    /\ aPI[c] = <<>>
    /\ ~ Abierta(c)
    /\ pi' = [pi EXCEPT ![c] = "error"]
    /\ UNCHANGED <<red, conex, fd, plan, sendingList, eventos, lts, pp, caidas>>

(* The PI masks every signal, so only SIGKILL, a crash or the loss of its  *)
(* machine take it away before its script has ended.                       *)
PICae(c) ==
    /\ pi[c] \in {"conecta", "hand", "resp", "lee", "enter"}
    /\ caidas < MaxCaidas
    /\ caidas' = caidas + 1
    /\ pi' = [pi EXCEPT ![c] = "caido"]
    /\ aPI' = [aPI EXCEPT ![c] = <<>>]
    /\ UNCHANGED <<aPP, backlog, conex, fd, plan, sendingList, eventos, lts,
                   pp>>

-----------------------------------------------------------------------------
(***************************************************************************)
(* LTSconex.  lts.pc: "epoll" between events; "hand" and "script" blocked  *)
(* in the recv of a client just accepted; "push" with an answered image    *)
(* that is not yet in LPN or LFIFO.                                        *)
(***************************************************************************)

(* What epoll_wait would report.  Of the events of a descriptor LTSconex   *)
(* looks at the close first, then at input, and at output only without.    *)
Listo(f) ==
    IF f = serverfd THEN IF backlog = <<>> THEN "no" ELSE "in"
    ELSE IF conex[f] = Nadie THEN "no"
    ELSE IF Ido(conex[f]) THEN "hup"
    ELSE IF aPP[conex[f]] # <<>> THEN "in"
    ELSE "out"

EpollWait ==
    /\ pp # "fin"
    /\ lts.pc = "epoll"
    /\ \A f \in DOMAIN eventos : eventos[f] = "no"
    /\ \E f \in DOMAIN eventos : Listo(f) # "no"
    /\ eventos' = [f \in DOMAIN eventos |-> Listo(f)]
    /\ UNCHANGED <<pi, red, conex, fd, plan, sendingList, lts, pp, caidas>>

Evento(f, tipo) ==
    /\ pp # "fin"
    /\ lts.pc = "epoll"
    /\ eventos[f] = tipo
    /\ eventos' = [eventos EXCEPT ![f] = "no"]

(* close(f): what the client had sent and was not read is gone.            *)
Cierra(f) ==
    /\ conex' = [conex EXCEPT ![f] = Nadie]
    /\ aPP' = [aPP EXCEPT ![conex[f]] = <<>>]

(* The place of the vanished client given back at once.                    *)
MalLTSCierra(f) ==
    /\ Evento(f, "hup")
    /\ Cierra(f)
    /\ sem' = [sem EXCEPT !.MPS = @ + 1]
    /\ UNCHANGED <<pi, aPI, backlog, fd, proc, pasos, LFIFO, LPS, procer,
                   senales, sendingList, lts, pp, caidas>>

(* The client has closed: close, and nothing else.  Its process goes on,   *)
(* and its messages stay where they are.                                   *)
LTSCierra(f) ==
    /\ Evento(f, "hup")
    /\ Cierra(f)
    /\ UNCHANGED <<pi, aPI, backlog, fd, plan, sendingList, lts, pp, caidas>>

(* accept gives the lowest descriptor that is free.                        *)
Libre(f) == conex[f] = Nadie /\ \A g \in Fds : g < f => conex[g] # Nadie

LTSAcepta ==
    /\ Evento(serverfd, "in")
    /\ \E f \in Fds :
          /\ Libre(f)
          /\ conex' = [conex EXCEPT ![f] = Head(backlog)]
          /\ lts' = [pc |-> "hand", cl |-> Head(backlog), fd |-> f]
    /\ backlog' = Tail(backlog)
    /\ UNCHANGED <<pi, aPI, aPP, fd, plan, sendingList, pp, caidas>>

EnEpoll == [pc |-> "epoll", cl |-> Nadie, fd |-> serverfd]

Escribe(c, m) == aPI' = [aPI EXCEPT ![c] = IF Ido(c) THEN @ ELSE Append(@, m)]

(* The end of the connection not told from a code.                         *)
MalLTSHandshake ==
    /\ pp # "fin"
    /\ lts.pc = "hand"
    /\ aPP[lts.cl] # <<>>
    /\ aPP' = [aPP EXCEPT ![lts.cl] = Tail(@)]
    /\ Escribe(lts.cl, Msg("!", lts.cl))
    /\ lts' = [lts EXCEPT !.pc = "script"]
    /\ UNCHANGED <<pi, backlog, conex, fd, plan, sendingList, eventos, pp,
                   caidas>>

(* makeHandshake.  If the client is gone recv returns 0 and code is not    *)
(* initialised: it may look right or wrong.                                *)
LTSHandshake ==
    /\ pp # "fin"
    /\ lts.pc = "hand"
    /\ \/ /\ aPP[lts.cl] # <<>>
          /\ aPP' = [aPP EXCEPT ![lts.cl] = Tail(@)]
          /\ Escribe(lts.cl, Msg("!", lts.cl))
          /\ lts' = [lts EXCEPT !.pc = "script"]
          /\ UNCHANGED conex
       \/ /\ aPP[lts.cl] = <<>> /\ Ido(lts.cl)
          /\ lts' = [lts EXCEPT !.pc = "script"]
          /\ UNCHANGED <<aPI, aPP, conex>>
       \/ /\ aPP[lts.cl] = <<>> /\ Ido(lts.cl)
          /\ Cierra(lts.fd)
          /\ lts' = EnEpoll
          /\ UNCHANGED aPI
    /\ UNCHANGED <<pi, backlog, fd, plan, sendingList, eventos, pp, caidas>>

(* readStreamPri fails: the client is gone.                                *)
LTSSinScript ==
    /\ pp # "fin"
    /\ lts.pc = "script"
    /\ aPP[lts.cl] = <<>> /\ Ido(lts.cl)
    /\ Cierra(lts.fd)
    /\ lts' = EnEpoll
    /\ UNCHANGED <<pi, aPI, backlog, fd, plan, sendingList, eventos, pp,
                   caidas>>

(* sem_trywait(MPS_sem) fails: the refusal is written and the fd closed.   *)
LTSRechaza ==
    /\ pp # "fin"
    /\ lts.pc = "script"
    /\ aPP[lts.cl] # <<>>
    /\ sem.MPS = 0
    /\ Escribe(lts.cl, Msg("F", lts.cl))
    /\ Cierra(lts.fd)
    /\ lts' = EnEpoll
    /\ UNCHANGED <<pi, backlog, fd, plan, sendingList, eventos, pp, caidas>>

(* The answer queued behind the other messages of that descriptor.         *)
MalResponde(c, f, tipo) ==
    /\ sendingList' = Append(sendingList, [fd |-> f, tipo |-> tipo, de |-> c])
    /\ UNCHANGED aPI

(* The answer is written at once, not queued.                              *)
Responde(c, f, tipo) ==
    /\ Escribe(c, Msg(tipo, c))
    /\ UNCHANGED sendingList

(* The image is made, delayed or loaded, and the client told so.           *)
LTSAdmite ==
    /\ pp # "fin"
    /\ lts.pc = "script"
    /\ aPP[lts.cl] # <<>>
    /\ sem.MPS > 0
    /\ aPP' = [aPP EXCEPT ![lts.cl] = Tail(@)]
    /\ fd' = [fd EXCEPT ![lts.cl] = lts.fd]
    /\ LET hayMMP == sem.MMP > 0
       IN  /\ sem' = [MPS |-> sem.MPS - 1,
                      MMP |-> IF hayMMP THEN sem.MMP - 1 ELSE 0]
           /\ Responde(lts.cl, lts.fd, IF hayMMP THEN "C" ELSE "D")
           /\ lts' = [lts EXCEPT !.pc = IF hayMMP THEN "push" ELSE "demora"]
    /\ UNCHANGED <<pi, backlog, conex, proc, pasos, LFIFO, LPS, procer,
                   senales, eventos, pp, caidas>>

LTSPush ==
    /\ pp # "fin"
    /\ \/ /\ lts.pc = "push"
          /\ proc' = [proc EXCEPT ![lts.cl] = "memoria"]
          /\ UNCHANGED LFIFO
       \/ /\ lts.pc = "demora"
          /\ proc' = [proc EXCEPT ![lts.cl] = "demorado"]
          /\ LFIFO' = Append(LFIFO, lts.cl)
    /\ lts' = EnEpoll
    /\ UNCHANGED <<pi, red, conex, fd, pasos, LPS, sem, procer, senales,
                   sendingList, eventos, pp, caidas>>

(* The image of another client taken, and its message.                     *)
MalRestoreSuspended(f) == {i \in DOMAIN LPS : i = 1}
MalList_fd_msg_get(f)  == {i \in DOMAIN sendingList : i = 1}

(* The place of the first image of LPS, and of the first message, whose    *)
(* descriptor is f, if there is one.                                       *)
restoreSuspended(f) ==
    {i \in DOMAIN LPS : /\ fd[LPS[i]] = f
                        /\ \A j \in 1 .. i - 1 : fd[LPS[j]] # f}
list_fd_msg_get(f) ==
    {i \in DOMAIN sendingList :
        /\ sendingList[i].fd = f
        /\ \A j \in 1 .. i - 1 : sendingList[j].fd # f}

(* A resumption that has to wait is dropped.                               *)
MalLTSPosterga(f) ==
    /\ Evento(f, "in")
    /\ sem.MMP = 0
    /\ Cierra(f)
    /\ UNCHANGED <<pi, aPI, backlog, fd, plan, sendingList, lts, pp, caidas>>

(* Input, and MMP exhausted: it stays in the socket for the next time.     *)
LTSPosterga(f) ==
    /\ Evento(f, "in")
    /\ sem.MMP = 0
    /\ UNCHANGED <<pi, red, conex, fd, plan, sendingList, lts, pp, caidas>>

(* Input, and MMP taken: the R is read and the image looked up in LPS.  If *)
(* it is not there MMP is given back and f closed; if LPS is empty a       *)
(* pointer that was never given a value is used.                           *)
LTSReanuda(f) ==
    /\ Evento(f, "in")
    /\ sem.MMP > 0
    /\ IF restoreSuspended(f) # {}
       THEN /\ \E i \in restoreSuspended(f) :
                  /\ LPS' = RemoveAt(LPS, i)
                  /\ proc' = [proc EXCEPT ![LPS[i]] = "memoria"]
            /\ sem' = [sem EXCEPT !.MMP = @ - 1]
            /\ aPP' = [aPP EXCEPT ![conex[f]] = Tail(@)]
            /\ UNCHANGED <<conex, lts>>
       ELSE /\ Cierra(f)
            /\ lts' = [lts EXCEPT !.pc = IF LPS = <<>> THEN "segv" ELSE @]
            /\ UNCHANGED <<LPS, proc, sem>>
    /\ UNCHANGED <<pi, aPI, backlog, fd, pasos, LFIFO, procer, senales,
                   sendingList, pp, caidas>>

(* Output: the oldest message for f, if any.  A client that has gone since *)
(* epoll_wait loses it, and the write may fail.                            *)
LTSEnvia(f) ==
    /\ Evento(f, "out")
    /\ IF list_fd_msg_get(f) = {}
       THEN UNCHANGED <<aPI, aPP, conex, sendingList>>
       ELSE \E i \in list_fd_msg_get(f) :
              /\ sendingList' = RemoveAt(sendingList, i)
              /\ Escribe(conex[f], Msg(sendingList[i].tipo, sendingList[i].de))
              /\ \/ UNCHANGED <<aPP, conex>>
                 \/ Ido(conex[f]) /\ Cierra(f)
    /\ UNCHANGED <<pi, backlog, fd, plan, lts, pp, caidas>>

-----------------------------------------------------------------------------
(***************************************************************************)
(* The other threads of the PP.                                            *)
(***************************************************************************)
(* A delayed process brought in without waiting for a place in memory.     *)
MalLTSnew ==
    /\ pp # "fin"
    /\ LFIFO # <<>>
    /\ sem' = [sem EXCEPT !.MMP = @ - 1]
    /\ proc' = [proc EXCEPT ![Head(LFIFO)] = "memoria"]
    /\ LFIFO' = Tail(LFIFO)
    /\ UNCHANGED <<pi, red, conex, fd, pasos, LPS, procer, senales,
                   sendingList, eventos, lts, pp, caidas>>

(* A delayed process enters when MMP allows it.                            *)
LTSnew ==
    /\ pp # "fin"
    /\ LFIFO # <<>>
    /\ sem.MMP > 0
    /\ sem' = [sem EXCEPT !.MMP = @ - 1]
    /\ proc' = [proc EXCEPT ![Head(LFIFO)] = "memoria"]
    /\ LFIFO' = Tail(LFIFO)
    /\ UNCHANGED <<pi, red, conex, fd, pasos, LPS, procer, senales,
                   sendingList, eventos, lts, pp, caidas>>

(* The STS and the queues decide which process in memory comes next.       *)
ProcerToma(p) ==
    /\ pp # "fin"
    /\ procer.pc = "espera"
    /\ proc[p] = "memoria"
    /\ procer' = [pc |-> "ejecuta", img |-> p]
    /\ proc' = [proc EXCEPT ![p] = "ejecuta"]
    /\ UNCHANGED <<pi, red, conex, fd, pasos, LFIFO, LPS, sem, senales,
                   sendingList, eventos, lts, pp, caidas>>

Encola(p, tipo) ==
    sendingList' = Append(sendingList, [fd |-> fd[p], tipo |-> tipo, de |-> p])

(* imprimir.                                                               *)
ProcerImprime ==
    /\ pp # "fin"
    /\ procer.pc = "ejecuta"
    /\ pasos[procer.img] < MaxPasos
    /\ pasos' = [pasos EXCEPT ![procer.img] = @ + 1]
    /\ Encola(procer.img, "N")
    /\ UNCHANGED <<pi, red, conex, fd, proc, LFIFO, LPS, sem, procer, senales,
                   eventos, lts, pp, caidas>>

(* The quantum ends, or a blocking I/O starts: the process stays in memory *)
(* and comes back by the queues.                                           *)
ProcerDeja ==
    /\ pp # "fin"
    /\ procer.pc = "ejecuta"
    /\ pasos[procer.img] < MaxPasos
    /\ pasos' = [pasos EXCEPT ![procer.img] = @ + 1]
    /\ procer' = [pc |-> "espera", img |-> Nadie]
    /\ proc' = [proc EXCEPT ![procer.img] = "memoria"]
    /\ UNCHANGED <<pi, red, conex, fd, LFIFO, LPS, sem, senales, sendingList,
                   eventos, lts, pp, caidas>>

ProcerSuspende ==
    /\ pp # "fin"
    /\ procer.pc = "ejecuta"
    /\ senales < MaxSenales
    /\ senales' = senales + 1
    /\ LPS' = Append(LPS, procer.img)
    /\ proc' = [proc EXCEPT ![procer.img] = "suspendido"]
    /\ sem' = [sem EXCEPT !.MMP = @ + 1]
    /\ procer' = [procer EXCEPT !.pc = "avisa"]
    /\ UNCHANGED <<pi, red, conex, fd, pasos, LFIFO, sendingList, eventos,
                   lts, pp, caidas>>

ProcerAvisaPI ==
    /\ pp # "fin"
    /\ procer.pc = "avisa"
    /\ Encola(procer.img, "S")
    /\ procer' = [pc |-> "espera", img |-> Nadie]
    /\ UNCHANGED <<pi, red, conex, fd, proc, pasos, LFIFO, LPS, sem, senales,
                   eventos, lts, pp, caidas>>

(* T is queued; the image is freed and the places given back after it.     *)
ProcerFinaliza ==
    /\ pp # "fin"
    /\ procer.pc = "ejecuta"
    /\ Encola(procer.img, "T")
    /\ proc' = [proc EXCEPT ![procer.img] = "finalizado"]
    /\ procer' = [procer EXCEPT !.pc = "libera"]
    /\ UNCHANGED <<pi, red, conex, fd, pasos, LFIFO, LPS, sem, senales,
                   eventos, lts, pp, caidas>>

ProcerLibera ==
    /\ pp # "fin"
    /\ procer.pc = "libera"
    /\ sem' = [MPS |-> sem.MPS + 1, MMP |-> sem.MMP + 1]
    /\ procer' = [pc |-> "espera", img |-> Nadie]
    /\ UNCHANGED <<pi, red, conex, fd, proc, pasos, LFIFO, LPS, senales,
                   sendingList, eventos, lts, pp, caidas>>

(* The semaphore of memory looked at instead.                              *)
MalSIGINT ==
    /\ pp = "vivo"
    /\ sem.MMP = MMP
    /\ pp' = "sale"
    /\ UNCHANGED <<pi, red, conex, fd, plan, sendingList, eventos, lts, caidas>>

(* signal_handler: MPS_sem is read once; if it is at its maximum the       *)
(* thread ends, which is what main waits for.                              *)
SIGINT ==
    /\ pp = "vivo"
    /\ sem.MPS = MPS
    /\ pp' = "sale"
    /\ UNCHANGED <<pi, red, conex, fd, plan, sendingList, eventos, lts, caidas>>

(* main cancels the threads and exits: every socket is closed, and what    *)
(* was in flight to a client with unread input may be lost.                *)
PPTermina ==
    /\ pp = "sale"
    /\ pp' = "fin"
    /\ conex' = [f \in Fds |-> Nadie]
    /\ backlog' = <<>>
    /\ aPP' = [c \in Clientes |-> <<>>]
    /\ \E perdidos \in SUBSET {c \in Clientes : aPP[c] # <<>>} :
          aPI' = [c \in Clientes |-> IF c \in perdidos THEN <<>> ELSE aPI[c]]
    /\ eventos' = [f \in DOMAIN eventos |-> "no"]
    /\ UNCHANGED <<pi, fd, plan, sendingList, lts, caidas>>

-----------------------------------------------------------------------------
PI(c) == \/ PISaluda(c) \/ PIScript(c) \/ PIRespuesta(c) \/ PILee(c)
         \/ PIReanuda(c) \/ PIDesconectado(c)
LTSconex == \/ EpollWait \/ LTSAcepta \/ LTSHandshake \/ LTSSinScript
            \/ LTSRechaza \/ LTSAdmite \/ LTSPush
            \/ \E f \in Fds : \/ LTSCierra(f) \/ LTSPosterga(f)
                              \/ LTSReanuda(f) \/ LTSEnvia(f)
PROCER == \/ ProcerImprime \/ ProcerDeja \/ ProcerSuspende \/ ProcerAvisaPI
          \/ ProcerFinaliza \/ ProcerLibera
          \/ \E p \in Clientes : ProcerToma(p)

Next == \/ LTSconex \/ LTSnew \/ PROCER \/ SIGINT \/ PPTermina
        \/ \E c \in Clientes : PIConecta(c) \/ PI(c) \/ PICae(c)

Spec == Init /\ [][Next]_vars

-----------------------------------------------------------------------------
(***************************************************************************)
(* Properties.                                                             *)
(***************************************************************************)
EnSistema == {"memoria", "ejecuta", "demorado", "suspendido"}
Cuantos(E) == Cardinality({c \in Clientes : proc[c] \in E})
UnoSi(b) == IF b THEN 1 ELSE 0

TipoPI ==
    /\ pi \in [Clientes -> {"afuera", "conecta", "hand", "resp", "lee",
                            "enter"} \cup Idos]
    /\ aPI \in [Clientes -> Seq([tipo : {"!", "N", "S", "T"} \cup Respuestas,
                                 de : Clientes])]
    /\ aPP \in [Clientes -> Seq({"#", "N", "R"})]
    /\ backlog \in Seq(Clientes)
TipoPP ==
    /\ conex \in [Fds -> Clientes \cup {Nadie}]
    /\ fd \in [Clientes -> Fds \cup {0}]
    /\ proc \in [Clientes -> EnSistema \cup {"afuera", "finalizado"}]
    /\ pasos \in [Clientes -> Nat]
    /\ LFIFO \in Seq(Clientes) /\ LPS \in Seq(Clientes)
    /\ sendingList \in Seq([fd : Fds, tipo : {"N", "S", "T"} \cup Respuestas,
                            de : Clientes])
    /\ sem \in [MPS : Nat, MMP : Nat]
TipoHilos ==
    /\ eventos \in [Fds \cup {serverfd} -> {"no", "hup", "in", "out"}]
    /\ lts \in [pc : {"epoll", "hand", "script", "push", "demora", "segv"},
                cl : Clientes \cup {Nadie}, fd : Fds \cup {serverfd}]
    /\ procer \in [pc : {"espera", "ejecuta", "avisa", "libera"},
                   img : Clientes \cup {Nadie}]
    /\ pp \in {"vivo", "sale", "fin"}
    /\ senales \in Nat /\ caidas \in Nat

(* Every variable has its type.                                            *)
TypeOK == TipoPI /\ TipoPP /\ TipoHilos

(* No place is lost or given back twice whenever clients come and go: what *)
(* MPS_sem and MMP_sem leave is what the processes occupy, the orphans and *)
(* the one LTSconex is about to queue included.                            *)
LugaresExactos ==
    LET entra == UnoSi(lts.pc \in {"push", "demora"})
        sale  == UnoSi(procer.pc = "libera")
    IN  /\ sem.MPS + Cuantos(EnSistema) + entra + sale = MPS
        /\ sem.MMP + Cuantos({"memoria", "ejecuta"})
               + UnoSi(lts.pc = "push") + sale = MMP

(* The PI takes whatever it reads first for the answer to its script: that *)
(* is what it is, even on a descriptor with old messages waiting for it,   *)
(* and no other message is an answer, nor any the answer to another PI.    *)
RespuestaPrimero ==
    \A c \in Clientes : \A i \in DOMAIN aPI[c] :
        /\ (aPI[c][i].tipo \in Respuestas) <=> (pi[c] = "resp" /\ i = 1)
        /\ (aPI[c][i].tipo \in Respuestas) => aPI[c][i].de = c

(* A descriptor is dirty when the client of an admitted process vanished   *)
(* from it.                                                                *)
Sucio(f) == \E d \in Clientes : pi[d] = "caido" /\ fd[d] = f

(* Reusing descriptors is safe as long as nobody vanishes: a client reads  *)
(* messages of another process only on a descriptor left by a client that  *)
(* vanished, never on one whose client was told of the end and closed.     *)
AvisosPropios ==
    \A c \in Clientes : \A i \in DOMAIN aPI[c] :
        aPI[c][i].de # c => Sucio(fd[c])

(* The resumptions on their way: each S that c has not answered or that is *)
(* still queued for f, and each R that LTSconex has not read.              *)
Pendientes(c, f) ==
    Cardinality({i \in DOMAIN aPI[c] : aPI[c][i].tipo = "S"})
    + Cardinality({i \in DOMAIN sendingList : /\ sendingList[i].fd = f
                                              /\ sendingList[i].tipo = "S"})
    + Cardinality({i \in DOMAIN aPP[c] : aPP[c][i] = "R"})
    + UnoSi(pi[c] = "enter")

(* Every R finds an image to resume: for each one on its way, or that a    *)
(* message will bring about, there is an image of that descriptor in LPS.  *)
(* So LTSconex never takes the branch "no va a pasar nunca se supone", nor *)
(* uses the image of an empty LPS, not even when clients vanish.           *)
RAtendible ==
    /\ lts.pc # "segv"
    /\ \A f \in Fds : conex[f] # Nadie =>
           Pendientes(conex[f], f)
               <= Cardinality({i \in DOMAIN LPS : fd[LPS[i]] = f})

(* The PP disconnects a client that is there only by refusing its script   *)
(* or by ending itself.                                                    *)
NadieDesconectado == \A c \in Clientes : pi[c] = "error" => pp = "fin"

(* T has been queued or sent, or its client is gone.                       *)
Avisado(c) ==
    \/ \E i \in DOMAIN sendingList :
           sendingList[i] = [fd |-> fd[c], tipo |-> "T", de |-> c]
    \/ \E i \in DOMAIN aPI[c] : aPI[c][i] = Msg("T", c)
    \/ Ido(c)

(* When SIGINT decides the end, from one reading of MPS_sem, no script has *)
(* been admitted that has not ended, with its client told or about to be.  *)
(* (LTSconex may still admit one, and the T be lost, before main exits.)   *)
DecisionFundada ==
    [][pp = "vivo" /\ pp' = "sale" =>
          \A c \in Clientes : fd[c] # 0 =>
              proc[c] = "finalizado" /\ Avisado(c)]_vars

(***************************************************************************)
(* Fairness: the kernel runs every thread and every PI; LTSconex handles   *)
(* all the events of an epoll_wait before the next; the user of a          *)
(* suspended PI presses enter some time.  Connecting, vanishing, printing, *)
(* SIGUSR1 and SIGINT need not happen.                                     *)
(***************************************************************************)
Justicia ==
    /\ WF_vars(LTSconex) /\ WF_vars(LTSnew) /\ WF_vars(PROCER)
    /\ WF_vars(PPTermina)
    /\ \A c \in Clientes : WF_vars(PI(c))

SpecJusta == Spec /\ Justicia

(* Every PI that connects ends: it is refused, reads a T, vanishes, or the *)
(* PP ends; a client that vanishes in the middle of its handshake or with  *)
(* its process suspended does not leave the others waiting.                *)
ClienteAtendido == \A c \in Clientes : pi[c] = "conecta" ~> Ido(c)
=============================================================================
