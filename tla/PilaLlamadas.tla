---------------------------- MODULE PilaLlamadas ----------------------------
(***************************************************************************)
(* Calls of functions in a script, seen from PROCER: functionExecution     *)
(* calls itself through stackExecution, while processImage->stack keeps    *)
(* the frames of the functions that a suspension, an I/O or the end of the *)
(* quantum interrupted.  Planificador counts the statements of a function  *)
(* as statements of the script; here is which of them runs next.           *)
(*                                                                         *)
(* What interrupts an execution is abstracted to one flag, corte, that may *)
(* rise at any moment (SIGUSR1) and stays until the next execution.        *)
(***************************************************************************)
EXTENDS Integers, SequencesExt, FiniteSets

CONSTANTS
    Funciones,   \* the names of the functions of the script
    Programas,   \* scripts: the lines of each function and of "programa"
    MaxCortes    \* bound: executions interrupted

Bloques == Funciones \cup {"programa"}

(* A line is a statement or the name of the function it calls; the line    *)
(* fin_funcion or fin_programa is the last one.                            *)
ASSUME ProgramaAssumption ==
    /\ {"programa", "fin"} \cap Funciones = {}
    /\ \A P \in Programas :
          /\ P \in [Bloques -> Seq(STRING)]
          /\ \A b \in Bloques : /\ Len(P[b]) > 0
                                /\ P[b][Len(P[b])] = "fin"
                                /\ "programa" \notin ToSet(P[b])
ASSUME CortesAssumption == MaxCortes \in Nat

VARIABLES
    Programa, \* processImage->code
    pc,       \* "espera", "ejecuta" or "fin"
    PC,       \* processImage->PC
    stack,    \* processImage->stack, the top at the end
    element,  \* the frames of the activations of functionExecution
    corte, cortes,
    traza     \* the statements executed

vars == <<Programa, pc, PC, stack, element, corte, cortes, traza>>

Init ==
    /\ Programa \in Programas
    /\ pc = "espera"
    /\ PC = 0
    /\ stack = <<>>
    /\ element = <<>>
    /\ corte = FALSE
    /\ cortes = 0
    /\ traza = <<>>

(* Operators named Mal... are plausible bugs in the definition that        *)
(* follows them; the properties are shown to notice them.                  *)

(* The function begins at the line of the call.                            *)
MalNewElement(f, linecall) ==
    [functionName |-> f, linecall |-> linecall, PC |-> linecall]

(* The frame of a call: findFunctionLine gives the line comienzo_funcion,  *)
(* which is before the first one of the function.                          *)
newElement(f, linecall) == [functionName |-> f, linecall |-> linecall, PC |-> 0]

EnFinFuncion(e) == e.PC = Len(Programa[e.functionName])
EnFinPrograma   == PC = Len(Programa["programa"])

-----------------------------------------------------------------------------
(* stackExecution: the last frame is removed and executed.                 *)
stackExecution ==
    /\ stack # <<>>
    /\ element' = Append(element, Last(stack))
    /\ stack' = Front(stack)

(* PROCER takes the process: processExecution begins with the frame that   *)
(* was left on top, if there is one.                                       *)
ProcerToma ==
    /\ pc = "espera"
    /\ pc' = "ejecuta"
    /\ corte' = FALSE
    /\ stackExecution \/ (stack = <<>> /\ UNCHANGED <<stack, element>>)
    /\ UNCHANGED <<Programa, PC, cortes, traza>>

(* The signal, the blocking I/O or the end of the quantum.                 *)
Corta ==
    /\ pc = "ejecuta"
    /\ ~ corte
    /\ cortes < MaxCortes
    /\ corte' = TRUE
    /\ cortes' = cortes + 1
    /\ UNCHANGED <<Programa, pc, PC, stack, element, traza>>

(* The loop of processExecution: a pending frame goes before the next line.*)
ProgramaPendiente ==
    /\ pc = "ejecuta" /\ element = <<>>
    /\ ~ EnFinPrograma /\ ~ corte
    /\ stackExecution
    /\ UNCHANGED <<Programa, pc, PC, corte, cortes, traza>>

(* The new frame is put on the stack and stackExecution takes it.          *)
ProgramaAvanza ==
    /\ pc = "ejecuta" /\ element = <<>>
    /\ ~ EnFinPrograma /\ ~ corte
    /\ stack = <<>>
    /\ PC' = PC + 1
    /\ LET linea == Programa["programa"][PC + 1] IN
       IF linea \in Funciones
       THEN /\ element' = <<newElement(linea, PC + 1)>>
            /\ UNCHANGED traza
       ELSE /\ traza' = Append(traza, linea)
            /\ UNCHANGED element
    /\ UNCHANGED <<Programa, pc, stack, corte, cortes>>

ProgramaSale ==
    /\ pc = "ejecuta" /\ element = <<>>
    /\ EnFinPrograma \/ corte
    /\ pc' = IF EnFinPrograma THEN "fin" ELSE "espera"
    /\ UNCHANGED <<Programa, PC, stack, element, corte, cortes, traza>>

(* One round of the loop of functionExecution, in the innermost activation.*)
FuncionAvanza ==
    /\ pc = "ejecuta" /\ element # <<>>
    /\ LET n     == Len(element)
           e     == element[n]
           linea == Programa[e.functionName][e.PC + 1]
           sigue == [element EXCEPT ![n].PC = @ + 1]
       IN  /\ ~ EnFinFuncion(e) /\ ~ corte
           /\ IF linea \in Funciones
              THEN /\ element' = Append(sigue, newElement(linea, e.PC + 1))
                   /\ UNCHANGED traza
              ELSE /\ element' = sigue
                   /\ traza' = Append(traza, linea)
    /\ UNCHANGED <<Programa, pc, PC, stack, corte, cortes>>

(* The caller goes on the stack and the frames in it stay below.           *)
MalReorderStack(s, e) == [stack |-> s, element |-> e]

(* The last frame becomes the one of the activation, whose own goes to the *)
(* bottom of the stack.                                                    *)
reorderStack(s, e) == [stack |-> <<e>> \o Front(s), element |-> Last(s)]

(* The interrupted frame forgotten.                                        *)
MalGuarda(s, e) == s

(* The end of functionExecution: the frame of a function that has ended is *)
(* freed, that of an interrupted one saved.                                *)
Guarda(s, e) == IF EnFinFuncion(e) THEN s ELSE Append(s, e)

(* functionExecution returns; an activation that called it looks at the    *)
(* stack and, if it is not empty, reorders it.                             *)
FuncionVuelve ==
    /\ pc = "ejecuta" /\ element # <<>>
    /\ EnFinFuncion(Last(element)) \/ corte
    /\ LET s == Guarda(stack, Last(element))
           n == Len(element) - 1
       IN  IF n > 0 /\ s # <<>>
           THEN LET r == reorderStack(s, element[n])
                IN  /\ stack' = r.stack
                    /\ element' = Append(SubSeq(element, 1, n - 1), r.element)
           ELSE /\ stack' = s
                /\ element' = Front(element)
    /\ UNCHANGED <<Programa, pc, PC, corte, cortes, traza>>

Next == \/ ProcerToma \/ Corta \/ ProgramaPendiente \/ ProgramaAvanza
        \/ ProgramaSale \/ FuncionAvanza \/ FuncionVuelve

Spec == Init /\ [][Next]_vars

-----------------------------------------------------------------------------
(* The statements of each block in the order of the calls, with no         *)
(* interruptions: what the script says.                                    *)
Recorridos(P) ==
    LET R[b \in Bloques] ==
            FlattenSeq([i \in 1 .. Len(P[b]) |->
                           IF P[b][i] \in Funciones THEN R[P[b][i]]
                                                    ELSE <<P[b][i]>>])
    IN  R

Recorrido == Recorridos(Programa)["programa"]

(* No function calls itself, directly or through others: each one can be   *)
(* given a rank below that of its callers.  A script that does so has no   *)
(* Recorrido, and never ends.                                              *)
SinRecursion ==
    /\ IsFiniteSet(Funciones)
    /\ \A P \in Programas :
          \E rango \in [Bloques -> 0 .. Cardinality(Funciones)] :
              \A b \in Bloques : \A f \in ToSet(P[b]) \cap Funciones :
                  rango[f] < rango[b]

Marcos == {e \in [functionName : Funciones, linecall : Nat, PC : Nat] :
              e.PC <= Len(Programa[e.functionName])}

(* Every frame belongs to a function and no PC is past the end of its      *)
(* block.                                                                  *)
TypeOK ==
    /\ Programa \in Programas
    /\ pc \in {"espera", "ejecuta", "fin"}
    /\ PC \in 0 .. Len(Programa["programa"])
    /\ stack \in Seq(Marcos)
    /\ element \in Seq(Marcos)
    /\ corte \in BOOLEAN /\ cortes \in Nat
    /\ traza \in Seq(STRING)

(* The list of frames is a stack of calls: whatever interruptions there    *)
(* are, the statements run in the order the script calls them.             *)
OrdenDeLlamadas == IsPrefix(traza, Recorrido)

(* A function called by the program calls others that call none.           *)
DosNiveles ==
    \A f \in ToSet(Programa["programa"]) \cap Funciones :
        \A g \in ToSet(Programa[f]) \cap Funciones :
            ToSet(Programa[g]) \cap Funciones = {}

(* With two levels of calls the statements run in the order of the script, *)
(* wherever and however often the execution is interrupted.                *)
OrdenEnDosNiveles == DosNiveles => OrdenDeLlamadas

(* Between two executions the frames saved, which the message to the       *)
(* client shows, are a chain of calls that starts at the line where the    *)
(* program is: each function was called by the one below it, at the line   *)
(* where that one is.  At the first interruption that is so for any depth, *)
(* later on for two levels of calls.                                       *)
PilaEncadenada ==
    pc = "espera" /\ (DosNiveles \/ cortes = 1) =>
        \A i \in DOMAIN stack :
            LET linea == IF i = 1 THEN PC ELSE stack[i - 1].PC
                b     == IF i = 1 THEN "programa" ELSE stack[i - 1].functionName
            IN  /\ stack[i].linecall = linea
                /\ Programa[b][linea] = stack[i].functionName

Veces(s, x) == Cardinality({i \in DOMAIN s : s[i] = x})

(* However the frames are reordered, a program that has ended has executed *)
(* every statement as many times as it should: no frame is lost, and none  *)
(* is resumed twice.                                                       *)
NadaSePierde ==
    pc = "fin" =>
        /\ stack = <<>>
        /\ \A x \in ToSet(Recorrido \o traza) :
               Veces(traza, x) = Veces(Recorrido, x)
=============================================================================
