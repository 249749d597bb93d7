# A TLA+ model of the AnSISOP process scheduler and of SHIELD

The repository holds two programs. **PROCER** is a client/server scheduler in C:
the server, *PP* (Proceso Planificador), receives AnSISOP scripts from clients,
*PI* (Procesos Intérpretes), and runs them as simulated processes under FIFO,
RR, PRI or SPN. **SHIELD** is a restricted shell in bash with pluggable modules.
This directory models the PP (the queues, the semaphores that guard them, the
threads that move process images between them, the life cycle of a process, the
calls of functions), its connections with the PIs from the handshake to the end,
the bytes of its messages, and the reload protocol of SHIELD.

Names follow the source (`LPL`, `orderInsert`, `restoreSuspended`...); the rest
are Spanish like the code's own.

## 1. Inventory

### The threads of the PP and what they share

```
 PI --script--> LTSconex --MPS?--MMP?--> LPN --+
                   |  no MMP                   |
                   +--> LFIFO --> LTSnew --> LPN
 PI --R-------> LTSconex --LPS--> LPR ---------+--> STS --> LPL --> PROCER
                                     LFQ ------+                     |
                                     LFIO -----+                     |
                                      ^   ^--- fin de quantum -------+
   I/O threads <-- LPB <------------- | ------ io(n,b) --------------+
        +-----------------------------+        SIGUSR1: LPS + "S" ---+
                                               fin_programa: "T" ----+
```

| Component | State it keeps | Operations | Talks to | What makes it correct |
|---|---|---|---|---|
| `LTSconex` (LTS.c) | epoll set, pid counter, the image being built | accept, handshake, receive a script; refuse (MPS), delay (MMP) or load it; resume on `R`; send one message per EPOLLOUT; close on EPOLLRDHUP | PI by sockets; LFIFO, LPN, LPR, LPS, sendingList, `MPS_sem`, `MMP_sem` | places are never leaked; a delayed or suspended process comes back; a client gets its own messages, and one that vanishes hurts nobody else |
| `LTSnew` (LTS.c) | the image being moved | wait for LFIFO and `MMP_sem`, move it to LPN | LFIFO, LPN | a delayed process enters when there is room |
| `STS` (STS.c) | index in queuesArray, batch for PRI/SPN | wait on `STS_in_empty`, empty the four entry queues in order of priority, put images in LPL (in order, for PRI/SPN) | LPN, LPR, LFQ, LFIO, LPL, ALG, queuesArray | no lost wake-up, no image lost or duplicated, LPL in order |
| `PROCER` (PROCER.c, procer_defs.c) | image in execution, quantumCount, rafaga, ioBlockInterrupt | run statements until end, signal, blocking I/O or quantum; then end, suspend or requeue the process | LPL, LPB, LPS, LFQ, sendingList, MPS/MMP, SUSPEND, ALG | exactly one of the four outcomes, image handed over once |
| I/O pool (io.c) | the request of each thread | take a request, sleep, return the image (if blocking) to LFIO | LPB, LFIO, `io_threads` | a request accepted as non-blocking has a thread; nobody uses a freed image |
| `configure` (configure.c) | inotify, position in the sort | on a change of pp.config: read ALG, reinsert LPL in order (PRI, SPN), sort queuesArray in place, read SENT_TIME | ALG, LPL, queuesArray (read by STS without its mutex) | no queue and no image lost |
| `main`, `signal_handler` (main.c) | everything shared; SUSPEND | create queues, semaphores, threads; SIGUSR1 sets SUSPEND; SIGINT ends if no process is left | all | signals act on the running process only; the end is decided with no process in the system |
| PI (PI/src/main.c) | socket, script | send script; show messages; on `S` wait for enter and send `R`; on `T` or `F` end | LTSconex | every client hears how its process ended |
| LSCH log (logs_def.c) | – | one line per change of state | all threads | the states follow the life cycle |
| lists, queues (commons) | linked lists | add, add at index, remove, push, pop | all | see `ListaOrden` |
| serialisation (defSerialization.c, server_defs.c, client_defs.c) | – | framing of messages, uint16 lengths; peek at the header, one recv for the whole message, whatever it returns | sockets | what is read is what was written, and what is left is the messages not read |
| logs, other commons | – | output; dictionary, string, config, bitarray... | all | – |
| SHIELD core (shield.sh) | contents of its files when loaded (`CONFIG_*`, `VEC_*`), two background jobs | load: read the files, start the modules, fork the jobs; reload on USR2 or `actualizar_modulos`; run the periodic modules on USR1 | the jobs by signals, the files by reading them more than once | no change of a file goes unnoticed; one job of each kind; modules run only between start and stop |
| SHIELD modules, installer (bash) | – | start, run, stop; copy files | the core | – |

### What is hard here

* Six kinds of thread share seven queues with one mutex and one counting
  semaphore each, plus the two semaphores of places and `io_threads`. A token
  and its image are taken in different critical sections.
* The entry queues are announced twice (`X_empty`, then `STS_in_empty`) and the
  consumer can act between both.
* `SUSPEND` is an unsynchronised flag that a signal raises at any time and that
  PROCER resets at the start and at three of the ends of an execution.
* A non-blocking I/O request shares the image with a process that goes on.
* `queuesArray` is sorted in place under a mutex that its reader does not take.
* Connections, resumptions and delayed processes compete for `MMP_sem`.
* Images and messages know their client by a file descriptor, which `accept`
  hands out again after a close.
* A client that is slow or vanishes does so with LTSconex, the only thread that
  serves clients, blocked in a `recv` for it.
* One `recv` is taken for one message; what it did not return is read later as if
  it were the next one.
* bash runs a trap between any two commands, those of a reload included, and all
  the functions share their variables.

`PROJECT.json` lists these as hazards, each at its line, with the properties
that would notice it going wrong.

## 2. Modules

| Module | Content |
|---|---|
| `CicloDeVida` | Abstract specification: the life of a process as the LSCH log tells it, with at most MPS processes in the system, MMP in memory and one in execution. No threads, queues or semaphores. |
| `ListaOrden` | The indexed list operations, the bubble sort of STS.c and `orderInsert` (both `orderInsertPrioList` and `orderInsertSPNList`) as pure operators. |
| `Planificador` | The PP: one action per step of LTSconex, LTSnew, STS, PROCER, each I/O thread, configure and the signal handler, and the PI at the other end. Its properties, and the instance of `CicloDeVida`. |
| `PilaLlamadas` | The calls of functions of one script: the activations of `functionExecution`, the frames in `processImage->stack` and what an interruption does to both. |
| `Conexion` | PIs and LTSconex: connection, handshake, script, answer, messages, resumption, close; clients that vanish, descriptors used again, SIGINT. The rest of the PP by what it does to clients. |
| `Flujo` | One direction of one connection, byte by byte. |
| `Shield` | shield.sh: the load and the reload command by command, the shell as a stack of interrupted functions, its two jobs and the files. |
| `MCPlanificador`, `MCListaOrden`, `MCPilaLlamadas`, `MCConexion` | Scripts, priorities and inputs for TLC. |
| `ListaProofs`, `InsercionProofs` | What the operators of `ListaOrden`, and the joining of a list of lists (`FlattenSeq`), compute, by induction; the theorems about the sort and the insertion. |
| `PlanificadorProofs`, `LugarProofs` | Theorems about `Planificador`; both use `ListaProofs`, and the second extends the first. |
| `ConexionProofs`, `FlujoProofs`, `ShieldProofs`, `PilaProofs` | Theorems about those modules; `FlujoProofs` and `PilaProofs` use `ListaProofs`. |

### State

`cola` holds the six queues of images, `LPB` the I/O requests, `LPS` the
suspended images (found by fd, so a set), `sem` every semaphore by the name of
what it counts (`"LPL"` is `LPL_empty`, `"STS_in"` is `STS_in_empty`...).
`sendingList[p]` is the part of the list addressed to the client of `p`:
`list_fd_msg_get` always takes the oldest one of a client. `PC`, `Tspn` and
`lsch` are per image; `lsch[p]` is the destination in the last call of
`logWriteLSCH` for it. `lts`, `lnew`, `sts`, `procer`, `io[h]` and `conf` are
the program counter and the live local variables of each thread. `pi[p]` is what
the client is doing.

A script is a sequence of kinds of statement. `code[0]` is left out, since the
PC is incremented before a line is read; `fin_programa` is the last one. What a
statement does to variables is not modelled, so `ssc`/`snc` may jump or not.
`functionExecution` runs the same statements with the same loop condition, so
the body of a function counts as statements of the script; the one statement
that behaves differently there, `x=io(n,0)`, is `"fxio0"`. Which of them runs next
when calls nest is the subject of `PilaLlamadas`; the program never reaches
`fin_programa` with a frame pending, so it does not matter to the scheduling. `Tspn` is a fixed
point number (`Escala` units per unit of burst) and ALFA a fraction.

In `PilaLlamadas`, `element` holds the frame of each activation of
`functionExecution` on the C stack, the innermost at the end, and `stack` is
`processImage->stack`. Nothing but PROCER touches them, so a round of a loop, or a
return with the test and `reorderStack` that the caller does after it, is one
step. SIGUSR1, blocking I/O and the end of the quantum all end every loop until
PROCER takes the process again, and are one flag, `corte`. The history variable
`traza` is compared with `Recorrido`, the statements in the order of the calls.

In `Conexion`, a client and its process have one name. `conex` is the table of
descriptors of the PP, `fd` the `clientfd` of each image; a queued message has the
descriptor it is for (`fd`) and, as a history, the process it speaks of (`de`).
`eventos` are the events of the last `epoll_wait` that are still to be handled,
in any order, and may be out of date when they are. `MaxPasos` bounds what a
process prints and how often it goes back to the queues. A vanished client
(`PICae`) closes its socket; the PI masks every signal, so it takes a SIGKILL or
a failure. `Conexion` and `Planificador` overlap on purpose: the first has every
way a connection can go and a PROCER without queues, the second every queue and
well-behaved clients.

In `Flujo`, a byte is the number of its message and its place in it, so that
bytes of different messages cannot be confused. A length has `Ancho` bits (16 in the
code). The reader never stops to look whether what it reads is a header: after a
recv cut short it peeks at the middle of a text, takes the length those bytes give and
deserialises what comes as a text. The bytes of a text are not in the model, so the
length they give is any (`Longitudes`), and so is one read from a part of a header
that was not initialised. The type they give is any too: it may end the PI, or make
the PP close (`DespuesDe`). An end that copies more bytes than its buffer has may die
(`"segv"`) or go on. What follows a text that was cut short in its buffer is
uninitialised memory, and is left out.

In `Shield`, `pila` is what the shell is doing: the load at the start, a reload
asked for, or a trap inside any of them. Each has its next command, and what its
loop has left (a `for` expands its words once); everything else is global, as in bash.
A file is a version that never comes back (an edit undone before the watcher looks
would need no reload), and the list has besides its words: numbers for the modules
that are on, 0 for one that is off. `vec[k]` is what `VEC_PERIOD_k` names. One of the two
lists of modules is modelled. The loops over the other one are the same commands on
names of their own; all they do to this one is to leave `dir`, `line` and the index of
`unsetearVecs` at a name or a word of theirs, which is what 0 stands for. The words
of a loop come in the order of their numbers. For names of variables that is the order of
bash below ten; for the list it is one of the orders it may be written in, which matters only
to a loop that a reload has interrupted. Starting a module is three commands, its `source`,
what it does and the test of its result; stopping it, two. MODULES_CONFIG is
one file, read by one command. The kills of a reload look
for the newest job of a kind; if there is none `kill %` is the current job,
whatever it is.

### Steps

A step is what a thread does between two points at which another thread could
tell the difference:

* A push and its `X_empty` post, then the post of `STS_in_empty`, are two steps
  with the queue's mutex held between them (`MutexLibre`): the STS can take the
  token before the second post, though it must wait for the mutex to pop.
* Waiting for a semaphore and popping are two steps, because `orderInsert` and
  the test of free I/O threads look at the queue and the semaphore in between.
  The exception is LTSnew: only it takes `LFIFO_empty` and pops LFIFO.
* `STSToma` joins `sem_trywait(X_empty)` and the `sem_trywait(STS_in_empty)`
  that follows: the other threads only post `STS_in_empty`, and a post between the
  two trywaits might as well have come before both. For the same reason the
  wait and post at the head of the loop of STS, and the copy of ALG, are one step.
* `IOToma` joins the two waits of an I/O thread: there are as many tokens of
  `io_threads` as threads outside their critical part, so the second wait never
  blocks.
* `orderInsert` holds `LPL_mutex` throughout. PROCER's `sem_wait(LPL_empty)`
  does not need it, but one in the middle of the insertion has the effect of
  one before or after it.
* Logging, delays (`SENT_TIME`, `sleep`) and memory layout are left out. A
  thread that would dereference the NULL of an empty queue goes to `"segv"` and
  stops there; in the code the whole process dies, so the model has more
  behaviours after that point, never fewer.
* In `Conexion` LTSconex is split where it blocks (the two `recv` of a new client)
  and between the answer to a client and the queueing of its image. PROCER is
  split between LPS and the S, and between the T and the posts.
* In `Flujo`, peek and read are two steps, with bytes arriving in between. At the
  PP there is an `epoll_wait` before each message but the first (`"epoll"`), and it looks at
  EPOLLRDHUP before EPOLLIN (LTS.c:70-75): when the PI has closed, what has arrived
  stays unread (`EpollRdhup`).
* In `Shield` a step is one command of shell.sh: an assignment, a test, a `source`, a
  turn of a loop. The commands that only echo, or that compute something no other
  command reads, are left out. bash is external: it runs traps between commands, in
  the order of their numbers (USR1, then USR2), each with its own signal blocked
  until it ends. A kill is two steps, so that a signal can come while it runs.

Operators named `Mal...` are not part of the specification: each one is a
plausible bug (a forgotten post, an off-by-one, a guard dropped) in the definition
that follows it. They are there to show that the property aimed at that bug
does notice it; `PROJECT.json` pairs them.

## 3. Runs

All use `tlc -workers 2 -config X.cfg M`. `CHECK_DEADLOCK FALSE` in all of them:
when every client has been served nobody connects again and the PP waits in
epoll and on its semaphores, as it should; a closed connection and an ended
session have nothing more to do.

| Run (cfg) | Instance | Checks | States |
|---|---|---|---|
| Nucleo | 3 processes, MPS 2, MMP 1, 1 I/O thread, quantum 1, one SIGUSR1, FIFO or RR | `TypeOK`, `NingunNULL`, `SemaforosFieles`, `CuposExactos`, `UnSoloLugar`, `SinDespertarPerdido`, `AvisosCoherentes`, refinement `CumpleCiclo` | 1.1 M |
| PoolIO | 2 processes mixing forms of io, 2 threads (symmetric), one change of the order of the queues | `HiloParaNoBloqueante`, `BloqueadoHastaFinIO`, `ArregloOrdenado` | 2.7 M |
| Prioridad | 3 processes, two of equal priority, all in memory, PRI or SPN | `OrdenPRI`, `OrdenSPN`, `SinDespertarPerdido`, `CumpleCiclo` | 690 k |
| Vida | 2 processes, MMP 1, I/O, one SIGUSR1, one change of pp.config | `TodoTermina` | 445 k |
| Lista | every queue and batch of at most 4 distinct images, 3 keys | `OrdenEstable`, `InsercionFiel` | 74 k |
| Pila | a script with two levels of calls and one with three, up to 4 interruptions | `TypeOK`, `OrdenEnDosNiveles`, `PilaEncadenada`, `NadaSePierde` | 1.4 k |
| Conexion | 3 clients, MPS 2, MMP 1, 2 suspensions, 1 client that vanishes, SIGINT (symmetry of the clients) | `TypeOK`, `LugaresExactos`, `RespuestaPrimero`, `AvisosPropios`, `RAtendible`, `NadieDesconectado`, `DecisionFundada` | 1.3 M |
| Atencion | 2 clients, one step each besides, otherwise the same | `ClienteAtendido` | 452 k |
| Flujo | both directions, 2 messages, lengths of 3 bits, texts of 1, 5, 7 and 10 bytes | `TypeOK`, `EntregaFiel`, `SinMezcla`, `TodoLeido` | 833 k |
| Shield | one periodic module or two, the list in two forms with one module in common, 2 changes of files, 1 `actualizar_modulos` | `TypeOK`, `SinCambioPerdido`, `UnTrabajo`, `PeriodicosListos`, `CambioAplicado` | 912 k |
| ColaVacia, CambioAPRI | see section 5 | violated | – |

**Why the bounds are enough for what they claim.** With MPS 2 and MMP 1 and three
clients, refusal, delay and resumption all happen and compete for the one place
in memory. A quantum of 1 ends after any counting statement and still lets
non-counting ones (`imprimir`, `io`) follow. One SIGUSR1 can hit any point of any
process, including just before a block, an end or the end of a quantum. Two I/O
threads are needed to tell "the queue is shorter than the free threads" from "the
queue is empty". Four images are enough for the sort to exchange at the start,
the middle and the end of the list, where `list_add_in_index` behaves differently,
with equal keys. Three clients are enough for a descriptor to go from one that
vanished to another while a third has a place, and two suspensions for two images
of one descriptor to be in LPS; that run prints nothing (S and T are the messages
there), Atencion does. The sizes of `Flujo` give, with a prefix of 2 or of 3 bytes,
lengths that fit, that are just 2^3 (a send of 0 bytes), that wrap to less than the
prefix and to more; two messages, cut anywhere, are enough for a tail to be read as a
header, for a length to reach past the end of a message and for the reader to fall on the
start of a text from inside another message. The
lists of `Shield` have a module that goes, one that comes and one that stays; with two
changes a file can change again during the reload for the first one, and the list can
lose a module in the middle of the loop over it. `MaxSenales`, `MaxCambios`,
`MaxCortes`, `MaxPasos`, `MaxCaidas`, `MaxTextos` and `MaxPedidos` are the only
counters capped; scripts are finite, and only a loop made with `ssc`/`snc` could
make them longer.

**What the main properties say.**

* `SemaforosFieles`: every counting semaphore, plus the tokens its consumers hold
  before popping, is the length of its queue.
* `NingunNULL`: no pop finds its queue empty.
* `CuposExactos`: `MMP_sem` and `MPS_sem` are exactly what the processes in
  memory and in the system leave, apart from the instant between logging an end
  and the two posts.
* `UnSoloLugar`: an image in the system is in exactly one queue or thread.
* `SinDespertarPerdido`: the tokens of the entry queues never exceed those of
  `STS_in_empty` plus the posts about to happen, so the STS does not sleep with
  work to do.
* `HiloParaNoBloqueante`: the test `queue_size(LPB) < io_threads`, made while
  threads take and return tokens without the mutex, never accepts a request
  that has to wait.
* `AvisosCoherentes`: an `R` always finds its image in LPS, so the branch of
  LTSconex commented "no va a pasar nunca se supone" is really never taken;
  `T` is the last message of a client.
* `BloqueadoHastaFinIO`: nobody runs, suspends or frees the image of a blocking
  request until the I/O thread returns it.
* `OrdenSPN`: under SPN every insertion leaves the ready queue in order, and one
  thing alone puts it out of order: PROCER writes `Tspn` (PROCER.c:28) of a process
  after it has queued its blocking request, when the image is already back in LPL.
* `OrdenPRI`, `ArregloOrdenado`: the ready queue and the array of queues are in
  order although PROCER and the STS use them meanwhile.
* `InsercionFiel` states in full what the insertion of a non-empty batch
  computes. It makes explicit that old images of equal key end up in the
  opposite of the order they had: each is put in front of the batch.
* `CumpleCiclo`: under `estado <- lsch`, every step of the PP is a step of the
  life cycle or a stutter. In particular at most one process is in execution and
  the bounds MPS and MMP hold.
* `OrdenEnDosNiveles`: with two levels of calls the statements of a script run
  in the order of the calls, wherever the execution was interrupted.
* `PilaEncadenada`: the frames saved are a chain of calls.
* `NadaSePierde`: at any depth, no frame is lost and none is resumed twice.
* `TodoTermina`: every admitted process reaches its end and its client reads `T`.
* `LugaresExactos`: whenever clients come, go or vanish, the places that are not
  free are those of processes.
* `RespuestaPrimero`: the first thing a PI reads is the answer to its own script,
  because LTSconex writes it at once and not through `sendingList`; nothing else it
  reads is an answer.
* `AvisosPropios`: a client reads messages of another process only on the
  descriptor of a client that vanished. When all read their `T`, using
  descriptors again is safe.
* `RAtendible`: each R on its way, or that a queued S will bring about, has an
  image of that descriptor in LPS; so the lookup never fails, nor dereferences the
  pointer that an empty LPS leaves uninitialised (LTS.c:286), even on a descriptor
  used again. There the R of a client may resume the process that another left.
* `NadieDesconectado`: the PP closes the connection of a client that is there only
  when it refuses it or ends.
* `DecisionFundada`: SIGINT decides the end only when every admitted process has
  ended, from one unsynchronised reading of `MPS_sem`.
* `ClienteAtendido`: every client that connects gets to its end.
* `EntregaFiel`: as long as no recv returns less than asked, messages
  that TCP joins are told apart, and a text too long for its
  uint16_t length spoils only itself.
* `SinMezcla`: even with recvs cut short and lengths that wrap, a reader that comes upon
  the start of a text does not go past its end into the next message, because
  `deserialization` uses the length that came with the text and not the one peeked at.
  (A reader that begins elsewhere does: section 5.)
* `TodoLeido`: when the sender has closed, the PI reads every text, and the PP at least
  the script; the PP may see the close before it reads the rest. With the exceptions
  of `EntregaFiel`.
* `SinCambioPerdido`, `CambioAplicado`: no change of a file is missed, because
  the copy that the watcher compares with is made before the other reads of the
  file; once the files stop changing, they are applied. What is to be as the list says
  is the modules that have a name, each only one. The exception, `mezclada`, is a
  USR2 that interrupts an `actualizar_modulos` between the expansion of the names to unset and
  the end of `registrar` (`Ventana`), and a USR1 between the `for` and the `source` of `inicializar`
  (section 5). It is no wider than it must be: without any one command of
  `Ventana`, or without the USR1, TLC finds `SinCambioPerdido` violated (in the instance of the
  run; for `u_unset`, `u_confs` and `r_cero` with a third change, of the list).
* `UnTrabajo`: one job of each kind, unless a USR2 interrupts an
  `actualizar_modulos`; then one is left over, never a second one however often
  that happens, and none is ever missing.
* `PeriodicosListos`: no USR1 runs the periodic modules while they are stopped,
  with the same exception.

**Fairness** (`Justicia`). Weak fairness of each thread: the kernel schedules a
runnable thread, and every mutex is released after a bounded piece of work.
Weak fairness of each event of LTSconex per client: the loop serves every event
that `epoll_wait` returns, and the readiness is level-triggered, so an event not
served comes back. Weak fairness of the PI's resumption: it assumes that the user
of a suspended PI presses enter at some time. Connecting, SIGUSR1 and changes of
pp.config have no fairness. `TodoTermina` is checked with scripts without loops
over a jump. With many clients a resumption (`sem_trywait`, retried) could lose
`MMP_sem` to LTSnew (`sem_wait`) again and again; each such loss lets another
process in, and those run out.

In `Conexion` fairness is the same: each thread, each PI (whose user presses enter), and
LTSconex as a whole, since it handles every event that `epoll_wait` returns before
it calls it again. Clients need not connect, vanish or print. In `Flujo`, TCP
delivers, and who has begun to read a message goes on: the PI, which only reads, and
LTSconex with the script, for which it blocks. Nobody has to send, and what comes to
`epoll` need not be read: a script waits there for room and a close drops what is left.
In `Shield` the jobs look at the files every period, commands end and traps run. The periodic signal could keep a
reload from its next command for ever; `Holgura` says that again and again there is
no USR1 pending or being handled (a period is seconds, and the loop over the
modules shorter), and a reload that is interrupted goes on then: strong fairness of
its commands and of its trap.

## 4. Proofs

`tlapm M.tla` checks each of the eight modules completely. The theorems hold for
any values of the constants that satisfy the assumptions of the modules: any number
of clients, processes, places, signals, I/O threads, changes and interruptions, zero
and infinity included where the assumption does not say otherwise. The assumptions
are what the code needs and TLC evaluates them in every run:
`QuantumAssumption` (QUANTUM is at least 1, which the code does not check),
`HilosAssumption` (the pool is finite), scripts that end in one `fin_programa`, a length
of at least one bit, lines that end in `fin`, which no function is called...

| Theorem | States | Under |
|---|---|---|
| `TipoCorrecto` | `[]TypeOK` | |
| `ArregloCorrecto` | `[]ArregloOrdenado` | |
| `SemaforosDeEntrada` | every semaphore but `LPL_empty` counts what it should | |
| `SemaforosCorrectos` | `[]SemaforosFieles` | FIFO, RR |
| `SoloPROCERSinImagen` | only PROCER can pop an empty queue | |
| `SinNULL` | `[]NingunNULL` | FIFO, RR |
| `HiloAsegurado` | `[]HiloParaNoBloqueante` | |
| `STSDespierta` | `[]SinDespertarPerdido` | |
| `LugarCorrecto` | `[](TypeOK /\ LugarInv)` | |
| `LugarUnico` | `[]UnSoloLugar` | FIFO, RR |
| `SinDuplicar` | no image in two places, and only a ready one in none | |
| `IOBloquea` | `[]BloqueadoHastaFinIO` | |
| `CuposCorrectos` | `[]CuposExactos` | |
| `CicloCumplido` | `CumpleCiclo`: `Planificador` implements `CicloDeVida` | |
| `AvisosCorrectos` | `[]AvisosCoherentes` | |
| `ListosAnunciados` | `[]CotaLPL`: `LPL_empty` announces every image of LPL | |
| `OrdenDePrioridad` | `[]OrdenPRI` | no change of ALG |
| `OrdenDeEstimacion` | `OrdenSPN` (action property) | no change of ALG |
| `OrdenEstableSiempre` | `[]OrdenEstable` of `MCListaOrden` | |
| `InsercionFielSiempre` | `[]InsercionFiel` of `MCListaOrden` | |
| `ConexionCorrecta`, `ConexionTipos` | `[]IInv`, `[]TypeOK` of `Conexion` | |
| `LugaresContados` | `[]LugaresExactos` | |
| `RespuestaSegura` | `[]RespuestaPrimero` | |
| `AvisosDeCadaUno` | `[]AvisosPropios` | |
| `NadieCortado` | `[]NadieDesconectado` | |
| `TodaRAtendida` | `[]RAtendible` | |
| `DecisionSegura` | `DecisionFundada` (action property) | |
| `FlujoCorrecto`, `FlujoTipos` | the inductive invariant and `[]TypeOK` of `Flujo` | |
| `TextosSinMezcla` | `[]SinMezcla` | |
| `EntregaDeTextos` | `[]EntregaFiel` | |
| `ShieldTipos`, `ShieldTypeOK` | `[](TypeOK /\ Forma)`, `[]TypeOK` of `Shield` | |
| `CuentasCorrectas`, `InicioCorrecto`, `LecturaCorrecta` | the inductive invariants of `Shield`: the jobs, the modules that are stopped, what was read | |
| `CambiosVistos` | `[]SinCambioPerdido` | |
| `TrabajosContados` | `[]UnTrabajo` | |
| `PeriodicosArrancados` | `[]PeriodicosListos` | |
| `PilaCorrecta`, `PilaTipos` | `[]IInv`, `[]TypeOK` of `PilaLlamadas` | |
| `PilaDeLlamadas` | `[]PilaEncadenada` | |
| `NadaPendiente` | at `fin_programa` and after it no frame is left in the stack | |
| `EjecucionCorrecta` | `[]EjecucionInv`: what was executed and what is left make up the script | no recursion |
| `OrdenDeScripts` | `[]OrdenEnDosNiveles` | no recursion |
| `TodoEjecutado` | `[]NadaSePierde` | no recursion |

"FIFO, RR" is the hypothesis `DeAUno`, `Algs \subseteq {"FIFO", "RR"}`: ALG may change
between the two. What carries it is false under PRI and SPN (the runs `cola_vacia` and
`cambio_a_pri` show it). The rest of `Planificador` holds under the four algorithms and
any changes among them. "No change of ALG" is `UnAlgoritmo`, no change of pp.config
or none that is to another algorithm: with a change in the middle of a round the STS,
which works with its copy of ALG, pushes at the end of a queue that is to be in
order. "No recursion" is `SinRecursion`: the functions are finitely many and none of them
calls itself, directly or through others, in any script. A script that does so never
ends, and `Recorrido` says nothing of it; TLC checks that the scripts of the run satisfy
`SinRecursion` (an assumption of `MCPilaLlamadas`). The invariants were first checked by
TLC.

### Lists

The sort, its traversals and the insertion are recursive functions, so what they
compute for lists of any length takes induction. It is made over sets of numbers
(`Induccion`: a set of naturals that has 0 and the successor of each of its elements is
`Nat`, from the well-founded order of the naturals) and never over an
operator; `HayRecurrente` says that a function defined from its previous value exists.

* `PasadaOrden`: a traversal is a permutation of its list that carries along, for each
  place, where its element came from, and never moves an element past one of the same
  key; after `i` traversals the last `i` elements are the greatest, in order
  (`Colocados`). `BurbujaEs`: so the sort ends in order, and stable.
* `PuestoEs`, `Comparan`: in such a list the place of an element is the `Rango` that
  `Estable` uses to define a stable sort, by counting through a bijection.
* `OrderInsertEs`: `Insertada` bundles what the schedulers need of an insertion, the
  types, lengths and elements of its parts, and its order.
* `AplanaEs`, `AplanaJunta`: `FlattenSeq` joins a list of lists from the left, and what it
  makes of two of them put together is what it makes of each, put together. The streams
  of `Flujo` and the statements of `PilaLlamadas` are such lists of lists.
* `OcurrenJuntas`: how often an element occurs in two lists put together.

### Planificador

* **Types.** `TypeOK` carries more than types where the induction needs it: a thread
  whose program counter says that it holds an image does hold one, and no PC is past
  the end of its script. The insertion of a batch keeps them by `OrderInsertEs`. There
  is one lemma per action (`Tipo_...`) and one for what leaves each component alone
  (`Igual...`, `Solo...`).
* **The array of queues** needs none of that. `ArregloInv`: in the middle of an
  exchange the array is complete but for the queue that `conf.aux` holds, and the
  pass that finds nothing to exchange has looked at every neighbouring pair.
* **Semaphores.** `SemInv` is `SemaforosFieles` with the part of LPL only under `DeAUno`;
  it is inductive relative to the types, and to `SinLotes` (under FIFO and RR the STS never
  has a batch, which makes `STSInserta` and the insertion of `ConfLee` impossible). The counts
  of I/O threads are cardinalities of sets that a step changes in one element.
  `NingunNULL` follows: a thread at its pop holds a token, so its queue is not empty.
  `HiloParaNoBloqueante` follows from the count of `io_threads` being the threads
  outside their critical part. `SinDespertarPerdido` is preserved because a producer
  raises its queue's token and becomes a pending announcer in one step, an announcement
  moves from pending to `STS_in_empty`, and the STS takes a token of `STS_in_empty` only
  together with one of a queue.
* **Places** (`LugarInv`). `En(s, p)` counts the occurrences of `p` in the place `s`, a queue
  or the hands of a thread, the batch of the STS among them; the sum is one for a process
  in the system (`UnSitio`), except that under PRI and SPN a ready one may be in none;
  and the place tells what LSCH says of the process (`EnSuClase`). Each action moves one
  image from one place to another or none (`Mueve`), but an insertion: for it
  `OrderInsertVeces` says that an image occurs in the queue afterwards at most as often
  as in the queue and the batch before, since sorting and reversing repeat nothing. Three more conjuncts say that hands
  are empty outside the steps that use them, that a process not yet connected is
  nowhere, and that a request blocks its process until PROCER lets go of it.
* **Accounts and refinement.** With the place of its image each action changes the
  state of one process and the two semaphores by the difference (`Cambia`), or nothing
  (`NoCambia`); so the accounts are kept and the step is one of `CicloDeVida` or a
  stutter. That at most one process is in execution comes from the places: PROCER has
  one hand.
* **Messages.** `Aviso(m, s, f, q, x)` relates, for one process, the messages queued and
  sent, whether its image is in LPS, the stage of its PI and its LSCH state; each
  action keeps it for the process that it touches and leaves those of the others alone.

* **Order.** An insertion leaves LPL in order only if it pops all of it. It does, since
  LPL never has more images than `LPL_empty` has tokens and PROCER in its hands
  (`CotaLPL`, under every algorithm), and the insertion pops one image more than it
  takes tokens. `RondaPropia` says that the copy of ALG that the STS works with is ALG,
  and `PushSinLote` that it pushes one at a time only under FIFO and RR. Nothing but a
  pop of PROCER touches LPL between insertions (`AjenoLPL`). Under SPN, besides, PROCER
  writes the estimate of a process whose image is in LPL only after queueing a blocking
  request: otherwise the image would be in two places, LPL and the hand of PROCER
  (`EnColaBloqueo`, from `LugarInv`).

### Conexion

`IInv` is about what the number of a descriptor is worth. `FasesInv` and `AbiertasInv` tie the
stage of each client to the table of connections and to what LTSconex is doing with it;
`ImagenInv` and `MensajesInv` say which images and messages may carry the number of a
connection, their own client's or, if a client vanished from it (`Sucio`), another's.
`LimpioInv` keeps the T of a process for its client while no one vanished from its
descriptor. `ReanudaInv` counts, per descriptor: the images in LPS are at least the R on
the way plus the S that will bring one about, so no lookup fails, which is what
`TodaRAtendida` needs even on a descriptor that was used again. `UltimoInv` (nothing of
a process is queued after its T) and `AvisadosInv` give the decision of SIGINT. None of
them is inductive without the others. `Cuenta` and its lemmas count elements of sequences
through bijections, so that no induction is needed.

### Flujo

The bytes sent and not read, arrived or not, are one sequence `flujo`. It is described in
closed form, by which byte stands at each index (`FlujoInv`), and not by recursion over
the messages: after a byte come those that its message has after it, up to its last and
then the first of the next one. A reader that lost its place takes any number of bytes
from the front, and this stays true of the rest; so does `AtrasInv`, that before a byte
come those that its message has before it and that have not been read. `MezclaInv`
says that what was read from the start of a text is that text or the start of it: the header
that came before it is in the bytes received, whole, by `AtrasInv`, so
`deserialization` read its length.
`EntregaInv` adds, while no recv is cut short and every message keeps its prefix, that
the reader stands at the first byte of its turn and
every text read takes all that its message had after the prefix, so that the stream
begins and ends with a message. `EntregaFiel` then follows from a lemma about any
sequence of such bytes (`CadenaAplanada`): it is the concatenation of its messages,
by induction over their number.
`2^Ancho \in Nat` is assumed, since the provers do not compute powers.

### Shield

What the shell is doing is a stack of interrupted functions. Three questions about it
are enough: which functions are in it (`Hay`), with which next command (`P`) and which
is on top (`Cima`); none is in it twice (`Forma`).

* `CuentasInv` says how many jobs of each kind are missing before each command (`FaltaP`,
  `FaltaV`).
* `InicioInv`: without a nested reload, the modules are stopped only in certain commands of a
  reload, on top of the stack and with no USR1 that could be attended.
* `LecturaInv`: before each of its commands a reload knows something (`Sabe`) of the
  global variables: which names are set, which words of the list have one and which are
  left to its loop, none twice, and what was read agrees with the copy the watcher will
  compare with. The copy is never newer than the file (`Fecha`), so if it equals the file,
  what was read after it was made is what the file says. A trap takes nothing away from it:
  USR1 writes only `dir`, which matters before the `source` of `inicializar` alone; and a USR2
  does a whole reload, after which what the interrupted one knows outside of `Ventana` is
  true of the new names (`Sabe_Completo`). `Orden` says that the traps of the stack
  fell elsewhere.

### PilaLlamadas

The path (`Camino`) is the activations below the innermost one, the frames of the stack
and the innermost activation. `reorderStack` moves the frames between the two lists and
leaves the path as it is (`DeVuelta`), and so does `stackExecution`; an advance changes its last
frame, an end removes it, a call adds one, which must be called by the last one: with
two levels of calls a function that another called calls none (`SegundoNivel`), so the
stack is empty then (`LlamadaSola`). With three levels this fails after an interruption
(section 5).

`Resta` is what is left to execute: the rest of each frame of the path, the last one
first, and the rest of the program. The invariant `EjecucionInv` says that `traza` and
`Resta` together (`Todo`) are `Recorrido`, as long as the path is a chain of calls, and
always have each statement as often as it. No step changes `Todo` but a call with frames
in the stack, which only reorders it (`RestaCuenta`); two levels have no such call. At
the end `Resta` is empty. That `Recorrido` exists and is a list of statements is by
induction on the rank of the functions (`HayRecorridos`, `RecorridosEs`), which is all that
`SinRecursion` is for.

*Only model-checked.* `TodoTermina`, `ClienteAtendido`, `TodoLeido`, `CambioAplicado`:
liveness under fairness, out of the prover's reach. Every invariant and every action
property of the runs is proved, with the hypotheses of the table.

## 5. Disagreements met while modelling

The first two have a run in which TLC finds the counterexample.

* **ColaVacia** (STS.c:270). The insertion pops an image before it looks at the
  result of `sem_trywait(LPL_empty)`. If PROCER has just taken its token the
  image popped is PROCER's, and it is posted again: `LPL_empty` counts one more
  than LPL, and PROCER later pops an empty queue. Only under PRI and SPN.
* **CambioAPRI** (configure.c:87). Changing ALG to PRI or SPN reinserts the ready
  images with `list_add_in_index(list, 0, x)` in an empty list, which adds
  nothing: they are lost.

The others are in the model, and no property that the runs check depends on them:

* An I/O thread reads the pid of the image of a non-blocking request (io.c:54);
  the process may have ended and PROCER freed the image, though the comment at io.c:62
  says that the image is in LFIO or in use by PROCER.
* `x=io(n,0)` in the main program, with a free thread, locks `LPB_mutex` twice
  (procer_defs.c:197 and 201) and PROCER stops for ever. The script test3.ansisop of
  tests.zip does exactly that. Scripts of the run for `TodoTermina` do not.
* A function resumed with its callers still in the stack takes them, after a
  nested call that ends normally, for the frame of an interrupted callee
  (procer_defs.c:642): its caller goes on before it does. It needs three levels and one
  interruption; `OrdenEnDosNiveles` holds with two. All the statements are executed,
  in another order (`NadaSePierde`).
* A process suspended with its client gone keeps its place for ever, or is resumed
  by the R of the next client of its descriptor, who gets its messages.
* After a recv cut short, the rest of the message is read as another message
  (server_defs.c:97-111, client_defs.c:44-58): text bytes are taken for type and
  length, and what they cover for a text with its final zero, perhaps with the start
  of the next message in it. A length that those bytes give, less than the header or
  more than recv was asked for, makes `deserialization` copy past its buffer.
* What a PI sent before it closed is not read if the PP sees both together (LTS.c:70-75).
* A USR2 in the middle of an `actualizar_modulos` (shell.sh:244 calls the reload outside of its
  trap) does a reload over its variables. If it comes while `registrar` is at work, the
  loop it interrupted goes on with the number of names (`CANT_PERIOD`) and the
  word (`line`) that the inner one left: modules of the list get two names or none, or a word
  that is off gets one. The watcher's copy is equal to the file, so it stays so
  until a file changes.
* Such a USR2 leaves a periodic job over (`UnTrabajo`). The USR1 of that job may come
  between the `for` and the `source` of `inicializar` in a later reload; the loop of
  `executePeriodicos` leaves `dir` at its last name, and the module whose turn it was is not started.
* The watcher of SHIELD compares the files of MODULES_CONFIG that there are now
  (shield.sh:165): that the last one was removed goes unseen. In the model a change
  of the directory is one of its contents.

The comment at STS.c:12 says that the STS goes past its wait when there is something
to consume. In the model it also does so for the late `STS_in_empty` post of an image it
has already consumed. The wait gives its token back and only a consumed image
takes one, so the surplus stays and the STS goes round its loop without sleeping
from then on; no process is lost or delayed by it (`SinDespertarPerdido`,
`TodoTermina`).

## 6. Not modelled, and the plan

Nothing of the plan is left. Under PRI and SPN `NingunNULL`, `SemaforosFieles` and
`UnSoloLugar` are false, as the runs of section 5 show; what is left of them there is
stated by `SoloPROCERSinImagen`, `SemaforosDeEntrada` and `SinDuplicar`.

Not modelled:

* The lifetime of the string `ALG` points to (configure.c:56): between
  `config_destroy` and the next assignment the readers see freed memory, which has no
  value to model.
* Variables and expressions of the scripts: only which statement runs, and what it
  does to the scheduling and to the client.
* What one direction of a connection does to the other: a close with input unread, which
  resets it, and a send to an end that has gone. `Conexion` has clients that vanish at any
  moment, `Flujo` a sender that closes or dies.
* SHIELD's consultation of the modules of commands before each input, and the
  modules: sequences of calls of system tools. The loop shares the global `dir` with
  the traps (shield.sh:411), which `Shield` has for the periodic modules only.
* The contents of logs and messages, the other data structures of the commons
  library (sequential, vendored, with no logic of the system), and the installer of
  SHIELD (one-shot file copies).
