------------------------------- MODULE Shield -------------------------------
(***************************************************************************)
(* The core of SHIELD: how shield.sh loads its configuration and its       *)
(* modules, and loads them again when a file changes.                      *)
(*                                                                         *)
(* Two background jobs signal the shell: one every period, to run the      *)
(* periodic modules (USR1), the other when a file is not what it was when  *)
(* the job was forked (USR2).  bash runs a trap between two commands,      *)
(* whatever function they belong to, and not again while it is running; so *)
(* the shell is a stack of what it has been interrupted in, each with its  *)
(* next command.  The functions share their variables, which are global.   *)
(*                                                                         *)
(* The list here is periodicos.config.  Every loop over it follows its     *)
(* twin over comandos.config, the same commands on other names, which      *)
(* leaves dir, line and i at names of its own.                             *)
(***************************************************************************)
EXTENDS Naturals, SequencesExt

CONSTANTS
    Contenidos,      \* what the list may say: the modules on; 0, one off
    MaxCambios,      \* bound: modifications of the files
    MaxPedidos       \* bound: times the user asks for actualizar_modulos

ASSUME CotasAssumption ==
    /\ Contenidos \in SUBSET SUBSET Nat
    /\ MaxCambios \in Nat /\ MaxPedidos \in Nat

Palabras == {0} \cup UNION Contenidos

(* The list, the file nucleo.period and the directory MODULES_CONFIG.      *)
Archivos == {"listas", "nucleo", "confs"}

VARIABLES
    archivos,    \* the version of each file; on: the words of the list
    foto,        \* CONFIG_PERIOD, CONFIG_NUCLEO and VEC_MOD_CONFS
    cola,        \* CONFIG_QUEUE, the words
    linea,       \* the variable of the loops over words
    cant,        \* CANT_PERIOD
    vec,         \* the module that VEC_PERIOD_k names, for each k that is set
    indice,      \* the variable of the loops that unset the names
    dir,         \* the variable of all the loops over names; 0, a command's
    iniciados,   \* the version of its files each module read; 0 if stopped
    cargado,     \* the versions PERIODO_CAMBIOS and PERIODO_MODLS come from
    vigias,      \* jobs verificarYrealizarCambios, each with its copy of foto
    periodicos,  \* the number of jobs ejecutarModulosPeriodicos
    pend,        \* signals pending
    pila,        \* what the shell is doing, the innermost last
    sesion,      \* "viva" or "fin"
    anidada,     \* a trap USR2 has interrupted an actualizar_modulos
    mezclada,    \* it did between unsetting the names and the end of registrar
    cambios, pedidos

tabla == <<cola, linea, cant, vec, indice>>
config == <<foto, tabla, dir, iniciados, cargado>>
cuenta == <<anidada, mezclada, cambios, pedidos>>
vars == <<archivos, config, vigias, periodicos, pend, pila, sesion, cuenta>>

Version(v) == [v |-> v, on |-> {}]

(* resta: what a loop has left; modulo: the module that source is running. *)
Marco(f, pc) == [f |-> f, pc |-> pc, resta |-> {}, modulo |-> 0]

(* The first iniciarShield, before the loop of the shell.                  *)
Init ==
    /\ \E on \in Contenidos :
          archivos = [f \in Archivos |->
                         [v |-> 1, on |-> IF f = "listas" THEN on ELSE {}]]
    /\ foto = [f \in Archivos |-> Version(0)]
    /\ cola = {} /\ linea = 0 /\ cant = 0 /\ vec = <<>> /\ indice = 0
    /\ dir = 0
    /\ iniciados = [m \in Palabras |-> 0]
    /\ cargado = [x \in {"cambios", "modls"} |-> 0]
    /\ vigias = <<>> /\ periodicos = 0
    /\ pend = {}
    /\ pila = <<Marco("inicio", "r_cero")>>
    /\ sesion = "viva"
    /\ anidada = FALSE /\ mezclada = FALSE /\ cambios = 0 /\ pedidos = 0

-----------------------------------------------------------------------------
(* A file is modified, never back to what it was.                          *)
CambiaArchivo(f, on) ==
    /\ cambios < MaxCambios
    /\ cambios' = cambios + 1
    /\ archivos' = [archivos EXCEPT ![f] =
                       [v |-> @.v + 1, on |-> IF f = "listas" THEN on ELSE {}]]
    /\ UNCHANGED <<config, vigias, periodicos, pend, pila, sesion, anidada,
                   mezclada, pedidos>>

(* nucleo.period not looked at.                                            *)
MalVerificarYrealizarCambios(i) ==
    /\ \E f \in {"listas", "confs"} : vigias[i][f] # archivos[f]
    /\ pend' = pend \cup {"USR2"}
    /\ UNCHANGED <<archivos, config, vigias, periodicos, pila, sesion, cuenta>>

verificarYrealizarCambios(i) ==
    /\ \E f \in Archivos : vigias[i][f] # archivos[f]
    /\ pend' = pend \cup {"USR2"}
    /\ UNCHANGED <<archivos, config, vigias, periodicos, pila, sesion, cuenta>>

ejecutarModulosPeriodicos ==
    /\ periodicos > 0
    /\ pend' = pend \cup {"USR1"}
    /\ UNCHANGED <<archivos, config, vigias, periodicos, pila, sesion, cuenta>>

-----------------------------------------------------------------------------
(***************************************************************************)
(* The shell.  A command is a step, and begins if no trap goes before it.  *)
(* Only a kill tells a signal that came while it ran from one that came    *)
(* later, which the killed job cannot send: it is two steps.               *)
(***************************************************************************)
Cima == Last(pila)
Matando == pila # <<>> /\ Cima.pc \in {"mata_verif", "mata_modper"}

Atendible(s) ==
    s \in pend /\ ~ Matando /\ \A k \in DOMAIN pila : pila[k].f # s

(* The next command is pc.                                                 *)
En(pc) ==
    /\ sesion = "viva" /\ pila # <<>>
    /\ Cima.pc = pc
    /\ \A s \in pend : ~ Atendible(s)

Pon(pc, resta, modulo) ==
    pila' = [pila EXCEPT ![Len(pila)] =
                [f |-> @.f, pc |-> pc, resta |-> resta, modulo |-> modulo]]
Sigue(pc) == Pon(pc, Cima.resta, 0)

(* From the expansion of the names to unset to the end of registrar.       *)
Ventana == {"u_unset", "u_confs", "r_cero", "r_listas", "r_nucleo", "r_confs",
            "r_cola", "r_for", "r_if", "r_cant", "r_vec"}

(* Pending traps run in the order of their numbers: USR1, then USR2.       *)
Trap(s) ==
    /\ sesion = "viva"
    /\ Atendible(s)
    /\ s = "USR2" => ~ Atendible("USR1")
    /\ pend' = pend \ {s}
    /\ pila' = Append(pila, Marco(s, IF s = "USR1" THEN "for"
                                                   ELSE "config_listas"))
    /\ anidada' = (\/ anidada
                   \/ s = "USR2" /\ \E k \in DOMAIN pila :
                         pila[k].f = "pedido")
    /\ mezclada' = (mezclada \/ \E k \in DOMAIN pila :
          \/ s = "USR2" /\ pila[k].f = "pedido" /\ pila[k].pc \in Ventana
          \/ s = "USR1" /\ pila[k].pc = "i_source")
    /\ UNCHANGED <<archivos, config, vigias, periodicos, sesion, cambios,
                   pedidos>>

(* salirFunc: the jobs and the shell are killed.                           *)
salirFunc ==
    /\ sesion' = "fin"
    /\ vigias' = <<>> /\ periodicos' = 0
    /\ pend' = {} /\ pila' = <<>>

(* salir or exit.                                                          *)
Sale ==
    /\ sesion = "viva" /\ pila = <<>>
    /\ salirFunc
    /\ UNCHANGED <<archivos, config, cuenta>>

(* The user's command actualizar_modulos.                                  *)
Pide ==
    /\ sesion = "viva" /\ pila = <<>>
    /\ pedidos < MaxPedidos
    /\ pedidos' = pedidos + 1
    /\ pila' = <<Marco("pedido", "kill_verif")>>
    /\ UNCHANGED <<archivos, config, vigias, periodicos, pend, sesion, anidada,
                   mezclada, cambios>>

(* A module failed, or its name was not set: [ $? -ne 0 ], and salir.      *)
Falla ==
    /\ En("falla")
    /\ salirFunc
    /\ UNCHANGED <<archivos, config, cuenta>>

-----------------------------------------------------------------------------
(***************************************************************************)
(* A loop expands its names once.  Each is put in the variable in turn,    *)
(* with no trap between the end of one turn and that.                      *)
(***************************************************************************)
ParaPeriodicos(S) ==
    \/ S = {} /\ pila' = Front(pila) /\ UNCHANGED dir
    \/ S # {} /\ dir' = Min(S) /\ Pon("procesar", S \ {Min(S)}, 0)

ParaDir(S, d, cuerpo, despues) ==
    \/ S = {} /\ dir' = d /\ Pon(despues, {}, 0)
    \/ S # {} /\ dir' = Min(S) /\ Pon(cuerpo, S \ {Min(S)}, 0)

ParaIndice(S) ==
    \/ S = {} /\ Pon("u_confs", {}, 0) /\ UNCHANGED indice
    \/ S # {} /\ indice' = Min(S) /\ Pon("u_unset", S \ {Min(S)}, 0)

ParaLinea(S) ==
    \/ S = {} /\ Pon("leer_cambios", {}, 0) /\ UNCHANGED linea
    \/ S # {} /\ linea' = Min(S) /\ Pon("r_if", S \ {Min(S)}, 0)

(* ${!dir}: dir may be at a name that another loop left there.             *)
Nombrado == IF dir \in DOMAIN vec THEN vec[dir] ELSE 0
SinNombre == dir \notin DOMAIN vec \cup {0}

(* executePeriodicos.                                                      *)
PeriodicosFor ==
    /\ \/ En("for") /\ ParaPeriodicos(DOMAIN vec)
       \/ En("p_test") /\ ParaPeriodicos(Cima.resta)
    /\ UNCHANGED <<archivos, foto, tabla, iniciados, cargado, vigias,
                   periodicos, pend, sesion, cuenta>>

PeriodicosProcesar ==
    /\ En("procesar")
    /\ \/ ~ SinNombre /\ Sigue("p_test")
       \/ Sigue("falla")
    /\ UNCHANGED <<archivos, config, vigias, periodicos, pend, sesion, cuenta>>

-----------------------------------------------------------------------------
(***************************************************************************)
(* executeActualizar and ActualizarModulos, command by command.            *)
(***************************************************************************)
LeeConfig ==
    /\ \/ /\ En("config_listas")
          /\ foto' = [foto EXCEPT !["listas"] = archivos["listas"]]
          /\ Sigue("config_nucleo")
       \/ /\ En("config_nucleo")
          /\ foto' = [foto EXCEPT !["nucleo"] = archivos["nucleo"]]
          /\ Sigue("kill_verif")
    /\ UNCHANGED <<archivos, tabla, dir, iniciados, cargado, vigias,
                   periodicos, pend, sesion, cuenta>>

(* A kill begins.                                                          *)
EmpiezaKill ==
    /\ \/ En("kill_verif") /\ Sigue("mata_verif")
       \/ En("kill_modper") /\ Sigue("mata_modper")
    /\ UNCHANGED <<archivos, config, vigias, periodicos, pend, sesion, cuenta>>

(* kill -KILL of the newest job that watches the files.  If there is none  *)
(* its number is empty, and % alone is the current job.                    *)
KillVerif ==
    /\ En("mata_verif")
    /\ IF vigias # <<>>
       THEN vigias' = Front(vigias) /\ UNCHANGED periodicos
       ELSE /\ periodicos' = IF periodicos > 0 THEN periodicos - 1 ELSE 0
            /\ UNCHANGED vigias
    /\ Sigue("kill_modper")
    /\ UNCHANGED <<archivos, config, pend, sesion, cuenta>>

(* As if there were always a job.                                          *)
MalKillModPerSiempre ==
    /\ En("mata_modper")
    /\ periodicos' = periodicos - 1
    /\ Sigue("detener")
    /\ UNCHANGED <<archivos, config, vigias, pend, sesion, cuenta>>

(* The periodic job not killed.                                            *)
MalKillModPer ==
    /\ En("mata_modper")
    /\ Sigue("detener")
    /\ UNCHANGED <<archivos, config, vigias, periodicos, pend, sesion, cuenta>>

KillModPer ==
    /\ En("mata_modper")
    /\ IF periodicos > 0
       THEN periodicos' = periodicos - 1 /\ UNCHANGED vigias
       ELSE /\ vigias' = IF vigias = <<>> THEN <<>> ELSE Front(vigias)
            /\ UNCHANGED periodicos
    /\ Sigue("detener")
    /\ UNCHANGED <<archivos, config, pend, sesion, cuenta>>

detenerModulos ==
    /\ \/ /\ En("detener")
          /\ ParaDir(DOMAIN vec, 0, "d_source", "unsetear")
          /\ UNCHANGED iniciados
       \/ /\ En("d_source")
          /\ Pon("d_modulo", Cima.resta, Nombrado)
          /\ UNCHANGED <<dir, iniciados>>
       \/ /\ En("d_modulo")
          /\ iniciados' = [iniciados EXCEPT ![Cima.modulo] = 0]
          /\ ParaDir(Cima.resta, dir, "d_source", "unsetear")
    /\ UNCHANGED <<archivos, foto, tabla, cargado, vigias, periodicos, pend,
                   sesion, cuenta>>

unsetearVecs ==
    /\ \/ /\ En("unsetear")
          /\ ParaIndice(1 .. cant)
          /\ UNCHANGED <<foto, vec>>
       \/ /\ En("u_unset")
          /\ vec' = [k \in DOMAIN vec \ {indice} |-> vec[k]]
          /\ ParaIndice(Cima.resta)
          /\ UNCHANGED foto
       \/ /\ En("u_confs")
          /\ foto' = [foto EXCEPT !["confs"] = Version(0)]
          /\ Sigue("r_cero")
          /\ UNCHANGED <<vec, indice>>
    /\ UNCHANGED <<archivos, cola, linea, cant, dir, iniciados, cargado,
                   vigias, periodicos, pend, sesion, cuenta>>

(* The files are read; the loop over MODULES_CONFIG leaves line at a file. *)
registrarLee ==
    /\ \/ /\ En("r_cero")
          /\ cant' = 0
          /\ Sigue("r_listas")
          /\ UNCHANGED <<foto, cola, linea>>
       \/ /\ En("r_listas")
          /\ foto' = [foto EXCEPT !["listas"] = archivos["listas"]]
          /\ Sigue("r_nucleo")
          /\ UNCHANGED <<cant, cola, linea>>
       \/ /\ En("r_nucleo")
          /\ foto' = [foto EXCEPT !["nucleo"] = archivos["nucleo"]]
          /\ Sigue("r_confs")
          /\ UNCHANGED <<cant, cola, linea>>
       \/ /\ En("r_confs")
          /\ foto' = [foto EXCEPT !["confs"] = archivos["confs"]]
          /\ linea' = 0
          /\ Sigue("r_cola")
          /\ UNCHANGED <<cant, cola>>
       \/ /\ En("r_cola")
          /\ cola' = foto["listas"].on
          /\ Sigue("r_for")
          /\ UNCHANGED <<foto, cant, linea>>
    /\ UNCHANGED <<archivos, vec, indice, dir, iniciados, cargado, vigias,
                   periodicos, pend, sesion, cuenta>>

(* The modules that are on get a name.                                     *)
registrarNombra ==
    /\ \/ /\ En("r_for")
          /\ ParaLinea(cola)
          /\ UNCHANGED <<cant, vec>>
       \/ /\ En("r_if")
          /\ IF linea = 0 THEN ParaLinea(Cima.resta)
                          ELSE Sigue("r_cant") /\ UNCHANGED linea
          /\ UNCHANGED <<cant, vec>>
       \/ /\ En("r_cant")
          /\ cant' = cant + 1
          /\ Sigue("r_vec")
          /\ UNCHANGED <<vec, linea>>
       \/ /\ En("r_vec")
          /\ vec' = [k \in DOMAIN vec \cup {cant} |->
                        IF k = cant THEN linea ELSE vec[k]]
          /\ ParaLinea(Cima.resta)
          /\ UNCHANGED cant
    /\ UNCHANGED <<archivos, foto, cola, indice, dir, iniciados, cargado,
                   vigias, periodicos, pend, sesion, cuenta>>

(* leerPeriodosConfig reads nucleo.period again, twice.                    *)
leerPeriodosConfig ==
    /\ \/ /\ En("leer_cambios")
          /\ cargado' = [cargado EXCEPT !.cambios = archivos["nucleo"].v]
          /\ Sigue("leer_modls")
       \/ /\ En("leer_modls")
          /\ cargado' = [cargado EXCEPT !.modls = archivos["nucleo"].v]
          /\ Sigue("inicializar")
    /\ UNCHANGED <<archivos, foto, tabla, dir, iniciados, vigias, periodicos,
                   pend, sesion, cuenta>>

(* The modules start and read their files.                                 *)
inicializar ==
    /\ \/ /\ En("inicializar")
          /\ ParaDir(DOMAIN vec, 0, "i_source", "lanza_modper")
          /\ UNCHANGED iniciados
       \/ /\ En("i_source")
          /\ IF SinNombre THEN Sigue("falla")
                          ELSE Pon("i_modulo", Cima.resta, Nombrado)
          /\ UNCHANGED <<dir, iniciados>>
       \/ /\ En("i_modulo")
          /\ \/ Sigue("i_test") /\ IF Cima.modulo = 0 THEN UNCHANGED iniciados
                ELSE iniciados' = [iniciados EXCEPT ![Cima.modulo] =
                                      archivos["confs"].v]
             \/ Sigue("falla") /\ UNCHANGED iniciados
          /\ UNCHANGED dir
       \/ /\ En("i_test")
          /\ ParaDir(Cima.resta, dir, "i_source", "lanza_modper")
          /\ UNCHANGED iniciados
    /\ UNCHANGED <<archivos, foto, tabla, cargado, vigias, periodicos, pend,
                   sesion, cuenta>>

LanzaModPer ==
    /\ En("lanza_modper")
    /\ periodicos' = periodicos + 1
    /\ Sigue("lanza_verif")
    /\ UNCHANGED <<archivos, config, vigias, pend, sesion, cuenta>>

(* The job gets the files as they are now.                                 *)
MalLanzaVerif ==
    /\ En("lanza_verif")
    /\ vigias' = Append(vigias, archivos)
    /\ pila' = Front(pila)
    /\ UNCHANGED <<archivos, config, periodicos, pend, sesion, cuenta>>

(* The job gets a copy of foto, and what was interrupted goes on.          *)
LanzaVerif ==
    /\ En("lanza_verif")
    /\ vigias' = Append(vigias, foto)
    /\ pila' = Front(pila)
    /\ UNCHANGED <<archivos, config, periodicos, pend, sesion, cuenta>>

Recarga == \/ LeeConfig \/ EmpiezaKill \/ KillVerif \/ KillModPer
           \/ detenerModulos \/ unsetearVecs \/ registrarLee
           \/ registrarNombra \/ leerPeriodosConfig \/ inicializar
           \/ LanzaModPer \/ LanzaVerif
Periodicos == PeriodicosFor \/ PeriodicosProcesar

Next == \/ Recarga \/ Periodicos \/ Falla \/ Sale \/ Pide
        \/ ejecutarModulosPeriodicos
        \/ \E s \in {"USR1", "USR2"} : Trap(s)
        \/ \E i \in DOMAIN vigias : verificarYrealizarCambios(i)
        \/ \E on \in Contenidos : CambiaArchivo("listas", on)
        \/ \E f \in Archivos \ {"listas"} : CambiaArchivo(f, {})

Spec == Init /\ [][Next]_vars

-----------------------------------------------------------------------------
(***************************************************************************)
(* Properties.                                                             *)
(***************************************************************************)
Versiones == [v : Nat, on : SUBSET Palabras]
Fotos     == [Archivos -> Versiones]
Comandos  == Ventana \cup
    {"for", "procesar", "p_test", "config_listas", "config_nucleo",
     "kill_verif", "mata_verif", "kill_modper", "mata_modper", "detener",
     "d_source", "d_modulo", "unsetear", "leer_cambios", "leer_modls",
     "inicializar", "i_source", "i_modulo", "i_test", "falla", "lanza_modper",
     "lanza_verif"}
Marcos    == [f : {"inicio", "pedido", "USR1", "USR2"}, pc : Comandos,
              resta : SUBSET Nat, modulo : Palabras]

(* Every variable has its type.                                            *)
TypeOK ==
    /\ archivos \in Fotos /\ foto \in Fotos
    /\ cola \in SUBSET Palabras /\ linea \in Palabras
    /\ cant \in Nat /\ indice \in Nat /\ dir \in Nat
    /\ DOMAIN vec \subseteq Nat /\ vec \in [DOMAIN vec -> Palabras]
    /\ iniciados \in [Palabras -> Nat]
    /\ cargado \in [{"cambios", "modls"} -> Nat]
    /\ vigias \in Seq(Fotos) /\ periodicos \in Nat
    /\ pend \in SUBSET {"USR1", "USR2"}
    /\ pila \in Seq(Marcos)
    /\ sesion \in {"viva", "fin"}
    /\ anidada \in BOOLEAN /\ mezclada \in BOOLEAN
    /\ cambios \in Nat /\ pedidos \in Nat

Recargando == \E k \in DOMAIN pila : pila[k].f # "USR1"

(* What the shell works with is what the file says: the modules that have  *)
(* a name, each only one, the periods, and what those modules read when    *)
(* they started.                                                           *)
AlDia(f) ==
    CASE f = "listas" -> /\ {vec[k] : k \in DOMAIN vec} = archivos[f].on \ {0}
                         /\ \A j, k \in DOMAIN vec : vec[j] = vec[k] => j = k
      [] f = "nucleo" -> \A x \in DOMAIN cargado : cargado[x] = archivos[f].v
      [] f = "confs"  -> \A k \in DOMAIN vec :
                            iniciados[vec[k]] = archivos[f].v

(* No change of a file is lost, whenever it comes: if the shell or a       *)
(* module works with something other than what the file says, a reload is  *)
(* under way or pending, or a job that will see the difference is alive.   *)
(* It depends on registrar keeping the files before the periods and the    *)
(* modules are read from them, on the jobs getting what it kept, and on    *)
(* the names being those of the list it kept, which a USR2 in the middle   *)
(* of an actualizar_modulos that is unsetting or setting them breaks.      *)
SinCambioPerdido ==
    sesion = "viva" /\ ~ mezclada => \A f \in Archivos :
        \/ AlDia(f)
        \/ Recargando
        \/ "USR2" \in pend
        \/ \E i \in DOMAIN vigias : vigias[i][f] # archivos[f]

(* There is one job of each kind when no reload is under way, and never    *)
(* more.  Only a USR2 in the middle of an actualizar_modulos (whose        *)
(* commands it can interrupt, unlike those of its own trap) leaves one     *)
(* over, and never a second one, however many times that happens.          *)
UnTrabajo ==
    LET tope == 1 + IF anidada THEN 1 ELSE 0
    IN  /\ periodicos <= tope /\ Len(vigias) <= tope
        /\ sesion = "viva" /\ ~ Recargando => periodicos > 0 /\ vigias # <<>>

(* The periodic modules run only when all have been started: no USR1 gets  *)
(* between stopping and starting them, because the job that sends it is    *)
(* killed first and a signal that is pending then does not wait.           *)
PeriodicosListos ==
    pila # <<>> /\ Cima.f = "USR1" /\ ~ anidada =>
        \A k \in DOMAIN vec : iniciados[vec[k]] > 0

(***************************************************************************)
(* Fairness: the commands of the user end, so traps run; the jobs look at  *)
(* the files every period.  A period (seconds) is longer than the trap of  *)
(* USR1, so time and again none is pending or running, and a reload that   *)
(* it interrupts goes on then (strong fairness).  Nothing else needs to    *)
(* happen.                                                                 *)
(***************************************************************************)
Holgura ==
    []<>("USR1" \notin pend /\ \A k \in DOMAIN pila : pila[k].f # "USR1")

SpecJusta ==
    /\ Spec /\ Holgura
    /\ SF_vars(Recarga \/ Falla) /\ WF_vars(Periodicos)
    /\ SF_vars(Trap("USR2")) /\ WF_vars(Trap("USR1"))
    /\ WF_vars(\E i \in DOMAIN vigias : verificarYrealizarCambios(i))

Aplicado == \A f \in Archivos : AlDia(f)

(* Once the files stop changing their contents are applied, and no reload  *)
(* undoes that for good, with the exception of SinCambioPerdido.           *)
CambioAplicado == []<>(Aplicado \/ sesion = "fin" \/ mezclada)
=============================================================================
