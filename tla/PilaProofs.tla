----------------------------- MODULE PilaProofs -----------------------------
(***************************************************************************)
(* The frames of the functions that an interruption leaves in              *)
(* processImage->stack.  The path (Camino) is what the activations of      *)
(* functionExecution and the stack hold between them, in the order of the  *)
(* calls: the activations below the innermost one, the frames of the       *)
(* stack, the innermost activation.  Unwinding it, reorderStack changes    *)
(* where each frame is kept and not the path.  What was executed (traza)   *)
(* and what the program and the frames of the path have left (Resta) are,  *)
(* together, the statements of the script (Recorrido).                     *)
(***************************************************************************)
EXTENDS PilaLlamadas, ListaProofs

-----------------------------------------------------------------------------
(* The last element of a list and the rest.                                *)
LEMMA Partida ==
    ASSUME NEW S, NEW s \in Seq(S), s # <<>>
    PROVE /\ Front(s) \in Seq(S) /\ Last(s) \in S
          /\ s = Append(Front(s), Last(s))
          /\ Len(Front(s)) = Len(s) - 1
          /\ Last(s) = s[Len(s)]
          /\ \A i \in 1 .. Len(s) - 1 : Front(s)[i] = s[i]
<1>1. Len(s) \in Nat \ {0} /\ \A i \in 1 .. Len(s) : s[i] \in S
  OBVIOUS
<1>2. Front(s) = SubSeq(s, 1, Len(s) - 1) /\ Last(s) = s[Len(s)]
  BY DEF Front, Last
<1>3. /\ Front(s) \in Seq(S) /\ Len(Front(s)) = Len(s) - 1
      /\ \A i \in 1 .. Len(s) - 1 : Front(s)[i] = s[i]
  <2>1. \A i \in 1 .. Len(s) - 1 : s[i] \in S
    BY <1>1
  <2>2. /\ SubSeq(s, 1, Len(s) - 1) \in Seq(S)
        /\ Len(SubSeq(s, 1, Len(s) - 1)) = IF 1 <= Len(s) - 1
                                           THEN Len(s) - 1 - 1 + 1 ELSE 0
        /\ \A i \in 1 .. Len(s) - 1 - 1 + 1 :
               SubSeq(s, 1, Len(s) - 1)[i] = s[1 + i - 1]
    BY <1>1, <2>1, SubSeqProperties
  <2> DEFINE f == SubSeq(s, 1, Len(s) - 1)
  <2>. HIDE DEF f
  <2>3. Len(f) = Len(s) - 1
    <3>1. ASSUME NEW k \in Nat \ {0}
          PROVE (IF 1 <= k - 1 THEN k - 1 - 1 + 1 ELSE 0) = k - 1
      OBVIOUS
    <3>. QED BY <1>1, <2>2, <3>1 DEF f
  <2>4. \A i \in 1 .. Len(s) - 1 : f[i] = s[i]
    <3>1. TAKE i \in 1 .. Len(s) - 1
    <3>2. i \in 1 .. Len(s) - 1 - 1 + 1 /\ 1 + i - 1 = i
      BY <1>1
    <3>3. f[i] = s[1 + i - 1]
      BY <2>2, <3>2 DEF f
    <3>. QED BY <3>2, <3>3
  <2>. QED BY <1>2, <2>2, <2>3, <2>4 DEF f
<1>4. s = Append(Front(s), Last(s))
  BY <1>1, <1>2, <1>3
<1>. QED BY <1>1, <1>2, <1>3, <1>4

LEMMA FrenteDeAppend ==
    ASSUME NEW S, NEW s \in Seq(S), NEW e \in S
    PROVE Front(Append(s, e)) = s /\ Last(Append(s, e)) = e
          /\ Append(s, e) # <<>> /\ Append(s, e) \in Seq(S)
<1> DEFINE t == Append(s, e)
<1>1. t \in Seq(S) /\ Len(t) = Len(s) + 1 /\ Len(s) \in Nat
      /\ t[Len(s) + 1] = e /\ \A i \in 1 .. Len(s) : t[i] = s[i]
  OBVIOUS
<1>2. t # <<>>
  BY <1>1
<1>. HIDE DEF t
<1>3. Front(t) \in Seq(S) /\ Len(Front(t)) = Len(s) /\ Last(t) = e
      /\ \A i \in 1 .. Len(s) : Front(t)[i] = s[i]
  BY <1>1, <1>2, Partida
<1>4. Front(t) = s
  BY <1>3
<1>. QED BY <1>1, <1>2, <1>3, <1>4 DEF t

(* reorderStack, seen from the path.                                       *)
Girada(g, y, t, z) == Append(g \o (<<y>> \o t), z) = Append(g, y) \o Append(t, z)

LEMMA Gira ==
    ASSUME NEW S, NEW g \in Seq(S), NEW y \in S, NEW t \in Seq(S), NEW z \in S
    PROVE Girada(g, y, t, z)
<1>1. <<y>> \in Seq(S) /\ <<z>> \in Seq(S)
  OBVIOUS
<1>2. Append(g, y) = g \o <<y>> /\ Append(t, z) = t \o <<z>>
  BY AppendIsConcat
<1>3. /\ <<y>> \o t \in Seq(S) /\ t \o <<z>> \in Seq(S)
      /\ g \o (<<y>> \o t) \in Seq(S)
  BY <1>1, ConcatProperties
<1>4. Append(g \o (<<y>> \o t), z) = (g \o (<<y>> \o t)) \o <<z>>
  BY <1>3, AppendIsConcat
<1>5. (g \o (<<y>> \o t)) \o <<z>> = g \o ((<<y>> \o t) \o <<z>>)
  BY <1>1, <1>3, ConcatAssociative
<1>6. (<<y>> \o t) \o <<z>> = <<y>> \o (t \o <<z>>)
  BY <1>1, ConcatAssociative
<1>7. g \o (<<y>> \o (t \o <<z>>)) = (g \o <<y>>) \o (t \o <<z>>)
  <2>1. t \o <<z>> \in Seq(S)
    BY <1>3
  <2>. QED BY <1>1, <2>1, ConcatAssociative, SMTT(30)
<1>. QED BY <1>2, <1>4, <1>5, <1>6, <1>7 DEF Girada

LEMMA Cuentas ==
    ASSUME NEW m \in Nat, m > 0
    PROVE /\ (IF 1 <= m - 1 THEN m - 1 - 1 + 1 ELSE 0) = m - 1
          /\ \A i \in 1 .. m - 1 : i \in 1 .. m - 1 - 1 + 1 /\ 1 + i - 1 = i
<1>1. (IF 1 <= m - 1 THEN m - 1 - 1 + 1 ELSE 0) = m - 1
  OBVIOUS
<1>2. m - 1 - 1 + 1 = m - 1
  OBVIOUS
<1>3. \A i \in 1 .. m - 1 : 1 + i - 1 = i
  OBVIOUS
<1>. QED BY <1>1, <1>2, <1>3

(* A list with something at both ends.                                     *)
LEMMA Frentes ==
    ASSUME NEW S, NEW s \in Seq(S), NEW t \in Seq(S)
    PROVE s \o t \in Seq(S) /\ s \o <<>> = s /\ <<>> \o s = s
  BY ConcatProperties, ConcatEmptySeq

LEMMA EsPrefijo ==
    ASSUME NEW S, NEW s \in Seq(S), NEW t \in Seq(S)
    PROVE IsPrefix(s, s \o t)
<1> DEFINE n == Len(s)
           u == s \o t
<1>1. u \in Seq(S) /\ Len(u) = n + Len(t) /\ n \in Nat /\ Len(t) \in Nat
  BY ConcatProperties
<1>2. SubSeq(u, 1, n) = SubSeq(s, 1, n)
  <2>1. CASE n = 0
    BY <2>1, SubSeqEmpty
  <2>2. CASE n > 0
    <3>1. 1 \in 1 .. n /\ n \in 1 .. n
      BY <1>1, <2>2
    <3>. QED BY <3>1, SubSeqOfConcat1
  <2>. QED BY <1>1, <2>1, <2>2
<1>. HIDE DEF u
<1>. QED BY <1>1, <1>2 DEF IsPrefix, u

-----------------------------------------------------------------------------
(* The frames of a script P.                                               *)
MarcosDe(P) == {e \in [functionName : Funciones, linecall : Nat, PC : Nat] :
                   e.PC <= Len(P[e.functionName])}

(* The frame e is of the function that line n of block b calls.            *)
Llamada(P, b, n, e) ==
    e.linecall = n /\ n \in DOMAIN P[b] /\ P[b][n] = e.functionName

(* The frames of s are a chain of calls that starts at line n of the       *)
(* program.                                                                *)
Cadena(P, n, s) ==
    \A i \in DOMAIN s :
        Llamada(P, IF i = 1 THEN "programa" ELSE s[i - 1].functionName,
                IF i = 1 THEN n ELSE s[i - 1].PC, s[i])

Camino(s, e) == IF e = <<>> THEN s ELSE Append(Front(e) \o s, Last(e))

LEMMA LosMarcos == Marcos = MarcosDe(Programa) /\ Marcos' = MarcosDe(Programa')
  BY DEF Marcos, MarcosDe

LEMMA CadenaMenos ==
    ASSUME NEW P, NEW n, NEW S, NEW s \in Seq(S), NEW e \in S,
           Cadena(P, n, Append(s, e))
    PROVE Cadena(P, n, s)
<1> DEFINE t == Append(s, e)
<1>1. /\ Len(t) = Len(s) + 1 /\ \A i \in 1 .. Len(s) : t[i] = s[i]
      /\ DOMAIN s = 1 .. Len(s) /\ DOMAIN t = 1 .. Len(s) + 1
      /\ Len(s) \in Nat
  OBVIOUS
<1>. HIDE DEF t
<1>2. Cadena(P, n, t)
  BY DEF t
<1>3. ASSUME NEW i \in DOMAIN s
      PROVE Llamada(P, IF i = 1 THEN "programa" ELSE s[i - 1].functionName,
                    IF i = 1 THEN n ELSE s[i - 1].PC, s[i])
  <2>1. i \in DOMAIN t /\ t[i] = s[i] /\ (i # 1 => t[i - 1] = s[i - 1])
    BY <1>1
  <2>. QED BY <1>2, <2>1 DEF Cadena
<1>. QED BY <1>3 DEF Cadena

LEMMA CadenaMas ==
    ASSUME NEW P, NEW n, NEW S, NEW s \in Seq(S), NEW e \in S,
           Cadena(P, n, s),
           Llamada(P, IF s = <<>> THEN "programa" ELSE Last(s).functionName,
                   IF s = <<>> THEN n ELSE Last(s).PC, e)
    PROVE Cadena(P, n, Append(s, e))
<1> DEFINE t == Append(s, e)
<1>1. /\ Len(t) = Len(s) + 1 /\ \A i \in 1 .. Len(s) : t[i] = s[i]
      /\ DOMAIN s = 1 .. Len(s) /\ DOMAIN t = 1 .. Len(s) + 1
      /\ t[Len(s) + 1] = e /\ Len(s) \in Nat
      /\ s = <<>> <=> Len(s) = 0
      /\ Last(s) = s[Len(s)]
  BY DEF Last
<1>. HIDE DEF t
<1>2. ASSUME NEW i \in DOMAIN t
      PROVE Llamada(P, IF i = 1 THEN "programa" ELSE t[i - 1].functionName,
                    IF i = 1 THEN n ELSE t[i - 1].PC, t[i])
  <2>1. CASE i \in DOMAIN s
    <3>1. t[i] = s[i] /\ (i # 1 => t[i - 1] = s[i - 1])
      BY <1>1, <2>1
    <3>. QED BY <2>1, <3>1 DEF Cadena
  <2>2. CASE i \notin DOMAIN s
    <3>1. i = Len(s) + 1 /\ (i = 1 <=> s = <<>>)
          /\ (i # 1 => t[i - 1] = Last(s))
      BY <1>1, <2>2
    <3>. QED BY <1>1, <3>1
  <2>. QED BY <2>1, <2>2
<1>3. Cadena(P, n, t)
  BY <1>2 DEF Cadena
<1>. QED BY <1>3 DEF t

(* The last frame may advance.                                             *)
LEMMA CadenaAvanza ==
    ASSUME NEW P, NEW n, NEW S, NEW s \in Seq(S), NEW e \in S, NEW d \in S,
           Cadena(P, n, Append(s, e)),
           d.functionName = e.functionName, d.linecall = e.linecall
    PROVE Cadena(P, n, Append(s, d))
<1> DEFINE t == Append(s, e)
<1>1. /\ Len(t) = Len(s) + 1 /\ \A i \in 1 .. Len(s) : t[i] = s[i]
      /\ DOMAIN t = 1 .. Len(s) + 1
      /\ t[Len(s) + 1] = e /\ Len(s) \in Nat
      /\ s = <<>> <=> Len(s) = 0
      /\ Last(s) = s[Len(s)]
  BY DEF Last
<1>. HIDE DEF t
<1>2. Cadena(P, n, t)
  BY DEF t
<1> DEFINE i == Len(s) + 1
<1>3. /\ i \in DOMAIN t /\ t[i] = e /\ (i = 1 <=> s = <<>>)
      /\ (i # 1 => t[i - 1] = Last(s))
  BY <1>1
<1>. HIDE DEF i
<1>4. Llamada(P, IF s = <<>> THEN "programa" ELSE Last(s).functionName,
              IF s = <<>> THEN n ELSE Last(s).PC, e)
  BY <1>2, <1>3 DEF Cadena
<1>5. Llamada(P, IF s = <<>> THEN "programa" ELSE Last(s).functionName,
              IF s = <<>> THEN n ELSE Last(s).PC, d)
  BY <1>4 DEF Llamada
<1>6. Cadena(P, n, s)
  BY CadenaMenos
<1>. QED BY <1>5, <1>6, CadenaMas

LEMMA CadenaVacia == ASSUME NEW P, NEW n PROVE Cadena(P, n, <<>>)
  BY DEF Cadena

-----------------------------------------------------------------------------
(* The invariant.  pc is only at rest with no activation; corte is raised  *)
(* from the interruption to the next execution; the program does not       *)
(* reach its end with a function pending; and the path is a chain of       *)
(* calls, for any script until the first interruption has been dealt with  *)
(* and always for one with two levels of calls.                            *)
Formas ==
    /\ pc \in {"espera", "fin"} => element = <<>>
    /\ corte => cortes >= 1
    /\ cortes = 0 => stack = <<>>
    /\ pc = "espera" /\ cortes >= 1 => corte
    /\ EnFinPrograma => stack = <<>> /\ element = <<>>

EnCadena ==
    DosNiveles \/ cortes = 0 \/ (cortes = 1 /\ corte) =>
        Cadena(Programa, PC, Camino(stack, element))

IInv == TypeOK /\ Formas /\ EnCadena

(* The frames, the lines and the blocks of a state with the right types.   *)
LEMMA UnaLinea ==
    ASSUME NEW P \in Programas, NEW b \in Bloques, NEW n \in Nat,
           n <= Len(P[b]), n # Len(P[b])
    PROVE /\ P[b] \in Seq(STRING) /\ n + 1 \in DOMAIN P[b]
          /\ n + 1 <= Len(P[b]) /\ P[b][n + 1] \in STRING
          /\ P[b][n + 1] \in Funciones => n + 1 # Len(P[b])
          /\ P[b][n + 1] \in ToSet(P[b])
<1>1. P[b] \in Seq(STRING) /\ P[b][Len(P[b])] = "fin" /\ "fin" \notin Funciones
  BY ProgramaAssumption
<1>2. n + 1 \in DOMAIN P[b] /\ n + 1 <= Len(P[b]) /\ P[b][n + 1] \in STRING
  BY <1>1
<1>3. P[b][n + 1] \in ToSet(P[b])
  BY <1>2 DEF ToSet
<1>. QED BY <1>1, <1>2, <1>3

LEMMA UnMarco ==
    ASSUME TypeOK, NEW e \in Marcos
    PROVE /\ e.functionName \in Bloques /\ e.functionName \in Funciones
          /\ e.PC \in Nat /\ e.linecall \in Nat
          /\ e.PC <= Len(Programa[e.functionName])
  BY DEF TypeOK, Marcos, Bloques

LEMMA MarcoNuevo ==
    ASSUME TypeOK, NEW f \in Funciones, NEW n \in Nat
    PROVE newElement(f, n) \in Marcos
<1>1. Programa[f] \in Seq(STRING)
  BY ProgramaAssumption DEF TypeOK, Bloques
<1>2. 0 <= Len(Programa[f])
  BY <1>1
<1>. QED BY <1>2 DEF newElement, Marcos

(* A round of functionExecution: the last frame one line further.          *)
LEMMA UnaVuelta ==
    ASSUME TypeOK, element # <<>>, ~ EnFinFuncion(element[Len(element)]),
           NEW d, NEW sigue,
           d = [Last(element) EXCEPT !.PC = @ + 1],
           sigue = [element EXCEPT ![Len(element)].PC = @ + 1]
    PROVE /\ d \in Marcos /\ sigue = Append(Front(element), d)
          /\ d.functionName = Last(element).functionName
          /\ d.linecall = Last(element).linecall
          /\ d.PC = Last(element).PC + 1
<1>1. element \in Seq(Marcos)
  BY DEF TypeOK
<1>2. /\ Front(element) \in Seq(Marcos) /\ Last(element) \in Marcos
      /\ Len(Front(element)) = Len(element) - 1
      /\ Last(element) = element[Len(element)]
      /\ \A i \in 1 .. Len(element) - 1 : Front(element)[i] = element[i]
  BY <1>1, Partida
<1> DEFINE e == Last(element)
           g == Front(element)
           n == Len(element)
<1>3. /\ e.functionName \in Funciones /\ e.PC \in Nat /\ e.linecall \in Nat
      /\ e.functionName \in Bloques
      /\ e.PC <= Len(Programa[e.functionName])
  BY <1>2, UnMarco
<1>4. e.PC # Len(Programa[e.functionName])
  BY <1>2 DEF EnFinFuncion
<1>5. e.PC + 1 <= Len(Programa[e.functionName])
  <2>1. Programa \in Programas
    BY DEF TypeOK
  <2>. QED BY <1>3, <1>4, <2>1, UnaLinea
<1>6. /\ d.functionName = e.functionName /\ d.linecall = e.linecall
      /\ d.PC = e.PC + 1
      /\ d \in [functionName : Funciones, linecall : Nat, PC : Nat]
  <2>1. e \in [functionName : Funciones, linecall : Nat, PC : Nat]
    BY <1>2 DEF Marcos
  <2>2. d = [e EXCEPT !.PC = e.PC + 1] /\ e.PC + 1 \in Nat
    BY <1>3
  <2>. HIDE DEF e
  <2>. QED BY <2>1, <2>2
<1>7. d \in Marcos
  BY <1>5, <1>6 DEF Marcos
<1>8. sigue = Append(g, d)
  <2>1. n \in Nat /\ n >= 1 /\ DOMAIN element = 1 .. n
    BY <1>1
  <2>2. sigue = [element EXCEPT ![n] = d]
    BY <1>2
  <2>3. sigue \in Seq(Marcos) /\ Len(sigue) = n /\ sigue[n] = d
        /\ \A i \in 1 .. n - 1 : sigue[i] = g[i]
    BY <1>1, <1>2, <1>7, <2>1, <2>2
  <2>4. Append(g, d) \in Seq(Marcos) /\ Len(Append(g, d)) = n
        /\ Append(g, d)[n] = d
        /\ \A i \in 1 .. n - 1 : Append(g, d)[i] = g[i]
    <3>1. g \in Seq(Marcos) /\ Len(g) = n - 1
      BY <1>2
    <3>. HIDE DEF g, n
    <3>2. n - 1 + 1 = n /\ n - 1 \in Nat
      BY <2>1
    <3>. QED BY <1>7, <3>1, <3>2
  <2>5. ASSUME NEW i \in 1 .. n PROVE sigue[i] = Append(g, d)[i]
    <3>1. i = n \/ i \in 1 .. n - 1
      BY <2>1
    <3>. QED BY <2>3, <2>4, <3>1
  <2>6. sigue \in Seq(Marcos) /\ Append(g, d) \in Seq(Marcos)
        /\ Len(sigue) = n /\ Len(Append(g, d)) = n
    BY <2>3, <2>4
  <2> DEFINE h == Append(g, d)
  <2>. HIDE DEF n, h
  <2>. QED BY <2>5, <2>6, SeqEqual DEF h
<1>. QED BY <1>6, <1>7, <1>8

(* What FuncionVuelve leaves, whatever it does with it.                    *)
LEMMA DeVuelta ==
    ASSUME TypeOK, FuncionVuelve
    PROVE /\ stack' \in Seq(Marcos) /\ element' \in Seq(Marcos)
          /\ Guarda(stack, Last(element)) \in Seq(Marcos)
          /\ Camino(stack', element')
                = Front(element) \o Guarda(stack, Last(element))
<1> DEFINE e == Last(element)
           g == Front(element)
           s == Guarda(stack, e)
           n == Len(element) - 1
<1>1. /\ element \in Seq(Marcos) /\ element # <<>> /\ stack \in Seq(Marcos)
      /\ g \in Seq(Marcos) /\ e \in Marcos /\ Len(g) = n
      /\ \A i \in 1 .. n : g[i] = element[i]
  BY Partida DEF TypeOK, FuncionVuelve
<1>2. s \in Seq(Marcos)
  BY <1>1 DEF Guarda
<1>3. CASE n > 0 /\ s # <<>>
  <2>1. /\ Front(s) \in Seq(Marcos) /\ Last(s) \in Marcos
        /\ s = Append(Front(s), Last(s))
    BY <1>2, <1>3, Partida
  <2>2. g # <<>> /\ n \in Nat
    BY <1>1, <1>3
  <2> DEFINE k == Front(g)
             y == Last(g)
  <2>3. /\ k \in Seq(Marcos) /\ y \in Marcos /\ g = Append(k, y)
        /\ Len(k) = n - 1 /\ y = element[n]
        /\ \A i \in 1 .. n - 1 : k[i] = element[i]
    <3>1. /\ k \in Seq(Marcos) /\ y \in Marcos /\ g = Append(k, y)
          /\ Len(k) = Len(g) - 1 /\ y = g[Len(g)]
          /\ \A i \in 1 .. Len(g) - 1 : k[i] = g[i]
      BY <1>1, <2>2, Partida
    <3>2. n \in 1 .. n /\ \A i \in 1 .. n - 1 : i \in 1 .. n
      BY <1>3, <2>2
    <3>. QED BY <1>1, <3>1, <3>2
  <2>4. SubSeq(element, 1, n - 1) = k
    <3> DEFINE f == SubSeq(element, 1, n - 1)
    <3>1. \A i \in 1 .. n - 1 : element[i] \in Marcos
      BY <1>1
    <3>2. /\ f \in Seq(Marcos)
          /\ Len(f) = (IF 1 <= n - 1 THEN n - 1 - 1 + 1 ELSE 0)
          /\ \A i \in 1 .. n - 1 - 1 + 1 : f[i] = element[1 + i - 1]
      BY <2>2, <3>1, SubSeqProperties
    <3>3. (IF 1 <= n - 1 THEN n - 1 - 1 + 1 ELSE 0) = n - 1
          /\ \A i \in 1 .. n - 1 : i \in 1 .. n - 1 - 1 + 1 /\ 1 + i - 1 = i
      <4>. HIDE DEF n
      <4>1. n \in Nat /\ n > 0
        BY <1>3, <2>2
      <4>. QED BY <4>1, Cuentas
    <3>. HIDE DEF f, k, n
    <3>. QED BY <2>3, <3>2, <3>3, SeqEqual
  <2>5. stack' = <<y>> \o Front(s) /\ element' = Append(k, Last(s))
    <3>. HIDE DEF s, k, y
    <3>1. LET r == reorderStack(s, element[n])
          IN  /\ stack' = r.stack
              /\ element' = Append(SubSeq(element, 1, n - 1), r.element)
      BY <1>3 DEF FuncionVuelve, s
    <3>. QED BY <2>3, <2>4, <3>1 DEF reorderStack
  <2>6. /\ stack' \in Seq(Marcos) /\ element' \in Seq(Marcos)
        /\ element' # <<>> /\ Front(element') = k /\ Last(element') = Last(s)
    <3>1. <<y>> \in Seq(Marcos)
      BY <2>3
    <3>2. <<y>> \o Front(s) \in Seq(Marcos)
      BY <2>1, <3>1, ConcatProperties
    <3>. HIDE DEF s, k, y
    <3>. QED BY <2>1, <2>3, <2>5, <3>2, FrenteDeAppend
  <2>7. Camino(stack', element') = Append(k \o (<<y>> \o Front(s)), Last(s))
    <3>. HIDE DEF s, k, y
    <3>. QED BY <2>5, <2>6 DEF Camino
  <2>8. Append(k \o (<<y>> \o Front(s)), Last(s)) = g \o s
    <3>1. /\ k \in Seq(Marcos) /\ y \in Marcos /\ g = Append(k, y)
          /\ g \in Seq(Marcos) /\ s \in Seq(Marcos) /\ s # <<>>
      BY <1>1, <1>2, <1>3, <2>3
    <3> DEFINE t == Front(s)
               z == Last(s)
    <3>2. t \in Seq(Marcos) /\ z \in Marcos /\ s = Append(t, z)
      BY <2>1
    <3>3. Append(k \o (<<y>> \o t), z) = g \o s
      <4>. HIDE DEF s, k, y, g, t, z
      <4>1. Girada(k, y, t, z)
        BY <3>1, <3>2, Gira
      <4>. QED BY <3>1, <3>2, <4>1, Zenon DEF Girada
    <3>. QED BY <3>3, Zenon
  <2>. QED BY <1>2, <2>6, <2>7, <2>8
<1>4. CASE ~ (n > 0 /\ s # <<>>)
  <2>1. stack' = s /\ element' = g
    BY <1>4 DEF FuncionVuelve
  <2>2. Camino(s, g) = g \o s
    <3>1. CASE g = <<>>
      BY <1>2, <3>1, Frentes DEF Camino
    <3>2. CASE g # <<>>
      <4>1. s = <<>>
        BY <1>1, <1>4, <3>2
      <4>2. /\ Front(g) \in Seq(Marcos) /\ Last(g) \in Marcos
            /\ g = Append(Front(g), Last(g))
        BY <1>1, <3>2, Partida
      <4>3. Front(g) \o <<>> = Front(g) /\ g \o <<>> = g
        BY <1>1, <4>2, Frentes
      <4>. HIDE DEF g, s
      <4>. QED BY <3>2, <4>1, <4>2, <4>3 DEF Camino
    <3>. QED BY <3>1, <3>2
  <2>. QED BY <1>1, <1>2, <2>1, <2>2
<1>. QED BY <1>3, <1>4

(* Every step leaves the types as they were.                               *)
LEMMA PasoTipos == TypeOK /\ [Next]_vars => TypeOK'
<1>. SUFFICES ASSUME TypeOK, [Next]_vars PROVE TypeOK'
  OBVIOUS
<1>1. Programa' = Programa /\ Marcos' = Marcos
  BY DEF Next, vars, Marcos, ProcerToma, Corta, ProgramaPendiente,
         ProgramaAvanza, ProgramaSale, FuncionAvanza, FuncionVuelve
<1>2. ASSUME stackExecution
      PROVE stack' \in Seq(Marcos) /\ element' \in Seq(Marcos)
  <2>1. stack # <<>> /\ stack \in Seq(Marcos) /\ element \in Seq(Marcos)
    BY <1>2 DEF TypeOK, stackExecution
  <2>2. Front(stack) \in Seq(Marcos) /\ Last(stack) \in Marcos
    BY <2>1, Partida
  <2>3. Append(element, Last(stack)) \in Seq(Marcos)
    BY <2>1, <2>2
  <2>. QED BY <1>2, <2>2, <2>3 DEF stackExecution
<1>3. CASE ProcerToma
  <2>1. stack' \in Seq(Marcos) /\ element' \in Seq(Marcos)
    BY <1>2, <1>3 DEF ProcerToma, TypeOK
  <2>. QED BY <1>1, <1>3, <2>1 DEF ProcerToma, TypeOK
<1>4. CASE Corta
  BY <1>1, <1>4 DEF Corta, TypeOK
<1>5. CASE ProgramaPendiente
  <2>1. stack' \in Seq(Marcos) /\ element' \in Seq(Marcos)
    BY <1>2, <1>5 DEF ProgramaPendiente
  <2>. QED BY <1>1, <1>5, <2>1 DEF ProgramaPendiente, TypeOK
<1>6. CASE ProgramaAvanza
  <2> DEFINE linea == Programa["programa"][PC + 1]
  <2>1. PC \in Nat /\ PC + 1 \in 0 .. Len(Programa["programa"])
        /\ linea \in STRING
    <3>1. Programa \in Programas /\ "programa" \in Bloques /\ PC \in Nat
          /\ PC <= Len(Programa["programa"]) /\ PC # Len(Programa["programa"])
          /\ Len(Programa["programa"]) \in Nat
      <4>1. Programa["programa"] \in Seq(STRING)
        BY ProgramaAssumption DEF TypeOK, Bloques
      <4>. QED BY <1>6, <4>1 DEF TypeOK, Bloques, ProgramaAvanza, EnFinPrograma
    <3>. QED BY <3>1, UnaLinea
  <2>2. element' \in Seq(Marcos) /\ traza' \in Seq(STRING)
    <3>1. CASE linea \in Funciones
      <4>1. newElement(linea, PC + 1) \in Marcos
        BY <2>1, <3>1, MarcoNuevo
      <4>2. element' = <<newElement(linea, PC + 1)>> /\ traza' = traza
        BY <1>6, <3>1 DEF ProgramaAvanza
      <4>. QED BY <4>1, <4>2 DEF TypeOK
    <3>2. CASE linea \notin Funciones
      <4>1. element' = element /\ traza' = Append(traza, linea)
        BY <1>6, <3>2 DEF ProgramaAvanza
      <4>. QED BY <2>1, <4>1 DEF TypeOK
    <3>. QED BY <3>1, <3>2
  <2>3. PC' = PC + 1 /\ UNCHANGED <<pc, stack, corte, cortes>>
    BY <1>6 DEF ProgramaAvanza
  <2>. QED BY <1>1, <2>1, <2>2, <2>3 DEF TypeOK
<1>7. CASE ProgramaSale
  BY <1>1, <1>7 DEF ProgramaSale, TypeOK
<1>8. CASE FuncionAvanza
  <2>1. element' \in Seq(Marcos) /\ traza' \in Seq(STRING)
    <3> DEFINE n     == Len(element)
               e     == element[n]
               linea == Programa[e.functionName][e.PC + 1]
               sigue == [element EXCEPT ![n].PC = @ + 1]
               d     == [Last(element) EXCEPT !.PC = @ + 1]
    <3>1. element # <<>> /\ ~ EnFinFuncion(element[Len(element)])
      BY <1>8 DEF FuncionAvanza
    <3>2. d \in Marcos /\ sigue = Append(Front(element), d)
      <4>. HIDE DEF d, sigue
      <4>. QED BY <3>1, UnaVuelta DEF d, sigue
    <3>3. /\ element \in Seq(Marcos) /\ Front(element) \in Seq(Marcos)
          /\ e \in Marcos
      BY <3>1, Partida DEF TypeOK
    <3>4. sigue \in Seq(Marcos)
      <4>. HIDE DEF d, sigue
      <4>. QED BY <3>2, <3>3
    <3>5. linea \in STRING /\ e.PC + 1 \in Nat
      <4>1. Programa \in Programas /\ e.functionName \in Bloques
            /\ e.PC \in Nat /\ e.PC <= Len(Programa[e.functionName])
            /\ e.PC # Len(Programa[e.functionName])
        BY <3>1, <3>3, UnMarco DEF TypeOK, EnFinFuncion
      <4>. HIDE DEF e
      <4>. QED BY <4>1, UnaLinea
    <3>6. IF linea \in Funciones
          THEN /\ element' = Append(sigue, newElement(linea, e.PC + 1))
               /\ UNCHANGED traza
          ELSE /\ element' = sigue
               /\ traza' = Append(traza, linea)
      BY <1>8 DEF FuncionAvanza
    <3>. HIDE DEF sigue, linea, d, e
    <3>7. CASE linea \in Funciones
      <4>1. newElement(linea, e.PC + 1) \in Marcos
        BY <3>5, <3>7, MarcoNuevo
      <4>2. /\ element' = Append(sigue, newElement(linea, e.PC + 1))
            /\ traza' = traza
        BY <3>6, <3>7
      <4>3. Append(sigue, newElement(linea, e.PC + 1)) \in Seq(Marcos)
        BY <3>4, <4>1
      <4>. QED BY <4>2, <4>3 DEF TypeOK
    <3>8. CASE linea \notin Funciones
      <4>1. element' = sigue /\ traza' = Append(traza, linea)
        BY <3>6, <3>8
      <4>. QED BY <3>4, <3>5, <4>1 DEF TypeOK
    <3>. QED BY <3>7, <3>8
  <2>2. UNCHANGED <<pc, PC, stack, corte, cortes>>
    BY <1>8 DEF FuncionAvanza
  <2>. QED BY <1>1, <2>1, <2>2 DEF TypeOK
<1>9. CASE FuncionVuelve
  <2>1. stack' \in Seq(Marcos) /\ element' \in Seq(Marcos)
    BY <1>9, DeVuelta
  <2>. QED BY <1>1, <1>9, <2>1 DEF FuncionVuelve, TypeOK
<1>10. CASE UNCHANGED vars
  BY <1>1, <1>10 DEF vars, TypeOK
<1>. QED
  BY <1>3, <1>4, <1>5, <1>6, <1>7, <1>8, <1>9, <1>10 DEF Next

-----------------------------------------------------------------------------
(* A function is pending only where the program has called it, and fin is  *)
(* not the name of a function.                                             *)
LEMMA PasoFormas == TypeOK /\ Formas /\ [Next]_vars => Formas'
<1>. SUFFICES ASSUME TypeOK, Formas, [Next]_vars PROVE Formas'
  OBVIOUS
<1>1. cortes \in Nat /\ corte \in BOOLEAN
  BY DEF TypeOK
<1>2. CASE ProcerToma
  <2>1. ~ EnFinPrograma \/ (stack' = stack /\ element' = element)
    BY <1>2 DEF ProcerToma, stackExecution, Formas
  <2>2. EnFinPrograma' = EnFinPrograma
    BY <1>2 DEF ProcerToma, EnFinPrograma
  <2>3. cortes = 0 => stack' = <<>>
    BY <1>2 DEF ProcerToma, stackExecution, Formas
  <2>. QED BY <1>2, <2>1, <2>2, <2>3 DEF ProcerToma, Formas
<1>3. CASE Corta
  BY <1>1, <1>3 DEF Corta, Formas, EnFinPrograma
<1>4. CASE ProgramaPendiente
  BY <1>4 DEF ProgramaPendiente, stackExecution, Formas, EnFinPrograma
<1>5. CASE ProgramaAvanza
  <2> DEFINE linea == Programa["programa"][PC + 1]
  <2>1. Programa \in Programas /\ "programa" \in Bloques /\ PC \in Nat
        /\ PC <= Len(Programa["programa"]) /\ PC # Len(Programa["programa"])
    <3>1. Programa["programa"] \in Seq(STRING)
      BY ProgramaAssumption DEF TypeOK, Bloques
    <3>. QED BY <1>5, <3>1 DEF TypeOK, Bloques, ProgramaAvanza, EnFinPrograma
  <2>2. linea \in Funciones => PC + 1 # Len(Programa["programa"])
    BY <2>1, UnaLinea
  <2>3. stack' = <<>> /\ PC' = PC + 1 /\ pc' = pc /\ corte' = corte
        /\ cortes' = cortes /\ Programa' = Programa /\ pc = "ejecuta"
    BY <1>5 DEF ProgramaAvanza
  <2>4. linea \notin Funciones => element' = <<>>
    BY <1>5 DEF ProgramaAvanza
  <2>5. EnFinPrograma' => element' = <<>>
    BY <2>2, <2>3, <2>4 DEF EnFinPrograma
  <2>. QED BY <2>3, <2>5 DEF Formas
<1>6. CASE ProgramaSale
  BY <1>6 DEF ProgramaSale, Formas, EnFinPrograma
<1>7. CASE FuncionAvanza
  <2>1. pc = "ejecuta" /\ element # <<>> /\ UNCHANGED <<Programa, pc, PC, stack,
                                                       corte, cortes>>
    BY <1>7 DEF FuncionAvanza
  <2>. QED BY <2>1 DEF Formas, EnFinPrograma
<1>8. CASE FuncionVuelve
  <2>1. pc = "ejecuta" /\ element # <<>> /\ UNCHANGED <<Programa, pc, PC,
                                                       corte, cortes>>
    BY <1>8 DEF FuncionVuelve
  <2>2. cortes = 0 => stack' = <<>>
    <3>. SUFFICES ASSUME cortes = 0 PROVE stack' = <<>>
      OBVIOUS
    <3>1. stack = <<>> /\ ~ corte
      BY DEF Formas
    <3>2. EnFinFuncion(Last(element))
      BY <1>8, <3>1 DEF FuncionVuelve
    <3>. QED BY <1>8, <3>1, <3>2 DEF FuncionVuelve, Guarda
  <2>. QED BY <2>1, <2>2 DEF Formas, EnFinPrograma
<1>9. CASE UNCHANGED vars
  BY <1>9 DEF vars, Formas, EnFinPrograma
<1>. QED
  BY <1>2, <1>3, <1>4, <1>5, <1>6, <1>7, <1>8, <1>9 DEF Next

-----------------------------------------------------------------------------
(* With two levels of calls, a function that another one has called calls  *)
(* none.                                                                   *)
LEMMA SegundoNivel ==
    ASSUME TypeOK, DosNiveles, NEW n, NEW s \in Seq(Marcos), NEW e \in Marcos,
           Cadena(Programa, n, Append(s, e)), s # <<>>, NEW m \in Nat,
           m < Len(Programa[e.functionName])
    PROVE Programa[e.functionName][m + 1] \notin Funciones
<1> DEFINE t == Append(s, e)
<1>1. /\ t \in Seq(Marcos) /\ DOMAIN t = 1 .. Len(s) + 1 /\ Len(s) \in Nat
      /\ Len(s) # 0 /\ t[Len(s) + 1] = e /\ t[1] \in Marcos
      /\ \A i \in DOMAIN t : t[i] \in Marcos
  OBVIOUS
<1>. HIDE DEF t
<1>2. Cadena(Programa, n, t)
  BY DEF t
<1>3. ASSUME NEW f \in Funciones, NEW x, x \in DOMAIN Programa[f]
      PROVE Programa[f][x] \in ToSet(Programa[f])
  BY <1>3 DEF ToSet
<1>4. t[1].functionName \in ToSet(Programa["programa"]) \cap Funciones
  <2>1. 1 \in DOMAIN t
    BY <1>1
  <2>2. Llamada(Programa, "programa", n, t[1])
    BY <1>2, <2>1 DEF Cadena
  <2>3. t[1].functionName \in Funciones
    BY <1>1, UnMarco
  <2>. QED BY <2>2, <2>3 DEF Llamada, ToSet
<1>5. ASSUME NEW i \in DOMAIN t, i # 1
      PROVE /\ i - 1 \in DOMAIN t
            /\ t[i - 1].functionName \in Funciones
            /\ t[i].functionName
                 \in ToSet(Programa[t[i - 1].functionName]) \cap Funciones
  <2>1. i - 1 \in DOMAIN t
    BY <1>1, <1>5
  <2>2. Llamada(Programa, t[i - 1].functionName, t[i - 1].PC, t[i])
    BY <1>2, <1>5 DEF Cadena
  <2>3. t[i - 1].functionName \in Funciones /\ t[i].functionName \in Funciones
    BY <1>1, <2>1, UnMarco
  <2>4. t[i].functionName \in ToSet(Programa[t[i - 1].functionName])
    BY <1>3, <2>2, <2>3 DEF Llamada
  <2>. QED BY <2>1, <2>3, <2>4
<1>6. ToSet(Programa[t[2].functionName]) \cap Funciones = {}
  <2>1. 2 \in DOMAIN t /\ 2 # 1 /\ 2 - 1 = 1
    BY <1>1
  <2>2. t[2].functionName \in ToSet(Programa[t[1].functionName]) \cap Funciones
    BY <1>5, <2>1
  <2>. QED BY <1>4, <2>2 DEF DosNiveles
<1>7. Len(s) = 1
  <2>. SUFFICES ASSUME Len(s) # 1 PROVE FALSE
    OBVIOUS
  <2>1. 3 \in DOMAIN t /\ 3 # 1 /\ 3 - 1 = 2
    <3>1. Len(s) \in Nat /\ Len(s) # 0 /\ Len(s) # 1
      BY <1>1
    <3>2. ASSUME NEW k \in Nat, k # 0, k # 1 PROVE k + 1 >= 3
      BY <3>2
    <3>3. Len(s) + 1 >= 3
      BY <3>1, <3>2
    <3>4. 3 \in 1 .. Len(s) + 1
      BY <3>1, <3>3
    <3>. QED BY <1>1, <3>4
  <2>2. t[3].functionName \in ToSet(Programa[t[2].functionName]) \cap Funciones
    BY <1>5, <2>1
  <2>. QED BY <1>6, <2>2
<1>8. t[2] = e
  BY <1>1, <1>7
<1>9. /\ e.functionName \in Funciones
      /\ Programa[e.functionName][m + 1] \in ToSet(Programa[e.functionName])
  <2>1. e.functionName \in Funciones /\ e.functionName \in Bloques
        /\ Programa \in Programas
    BY UnMarco DEF TypeOK
  <2>2. Programa[e.functionName] \in Seq(STRING)
    BY <2>1, ProgramaAssumption
  <2>3. m <= Len(Programa[e.functionName]) /\ m # Len(Programa[e.functionName])
    BY <2>2
  <2>. QED BY <2>1, <2>3, UnaLinea
<1>. QED BY <1>6, <1>8, <1>9

(* stackExecution with no activation does not change the path.             *)
LEMMA CaminoIgual ==
    ASSUME TypeOK, element = <<>>, stackExecution
    PROVE Camino(stack', element') = Camino(stack, element)
<1>0. stack \in Seq(Marcos) /\ element \in Seq(Marcos)
  BY DEF TypeOK
<1>1. stack # <<>> /\ element' = Append(element, Last(stack))
      /\ stack' = Front(stack)
  BY DEF stackExecution
<1>2. /\ Front(stack) \in Seq(Marcos) /\ Last(stack) \in Marcos
      /\ Append(Front(stack), Last(stack)) = stack
  BY <1>0, <1>1, Partida
<1>3. /\ Front(element') = <<>> /\ Last(element') = Last(stack)
      /\ element' # <<>>
  BY <1>0, <1>1, <1>2, FrenteDeAppend
<1>4. <<>> \o Front(stack) = Front(stack)
  BY <1>2, Frentes
<1>5. Camino(stack', element') = Append(<<>> \o Front(stack), Last(stack))
  BY <1>1, <1>3 DEF Camino
<1>6. Camino(stack, element) = stack
  BY DEF Camino
<1>. QED BY <1>2, <1>4, <1>5, <1>6

(* With two levels only the first frame of the path calls: a stack that is *)
(* not empty would be between it and the last one.                         *)
LEMMA LlamadaSola ==
    ASSUME TypeOK, Formas, EnCadena, DosNiveles \/ cortes = 0,
           element # <<>>, NEW e, e = Last(element), ~ EnFinFuncion(e),
           Programa[e.functionName][e.PC + 1] \in Funciones
    PROVE stack = <<>>
<1> DEFINE g == Front(element)
<1>1. /\ stack \in Seq(Marcos) /\ g \in Seq(Marcos) /\ e \in Marcos
      /\ g \o stack \in Seq(Marcos)
  BY Partida, Frentes DEF TypeOK
<1>2. CASE cortes = 0
  BY <1>2 DEF Formas
<1>3. CASE DosNiveles
  <2>. SUFFICES ASSUME stack # <<>> PROVE FALSE
    OBVIOUS
  <2>1. Cadena(Programa, PC, Append(g \o stack, e))
    BY <1>3 DEF EnCadena, Camino
  <2>. HIDE DEF g
  <2>2. g \o stack # <<>>
    BY <1>1
  <2>3. e.PC \in Nat /\ e.PC < Len(Programa[e.functionName])
    <3>1. /\ e.functionName \in Bloques /\ e.PC \in Nat
          /\ e.PC <= Len(Programa[e.functionName])
      BY <1>1, UnMarco
    <3>2. Programa[e.functionName] \in Seq(STRING)
      BY <3>1, ProgramaAssumption DEF TypeOK
    <3>. QED BY <3>1, <3>2 DEF EnFinFuncion
  <2>4. Programa[e.functionName][e.PC + 1] \notin Funciones
    BY <1>1, <1>3, <2>1, <2>2, <2>3, SegundoNivel
  <2>. QED BY <2>4
<1>. QED BY <1>2, <1>3

(* Every step leaves a chain of calls.  What advances or leaves is the     *)
(* last frame of the path; what enters is called by the last one.          *)
LEMMA PasoCadena == IInv /\ [Next]_vars => EnCadena'
<1>. SUFFICES ASSUME IInv, [Next]_vars PROVE EnCadena'
  OBVIOUS
<1>1. TypeOK /\ Formas /\ EnCadena
  BY DEF IInv
<1>2. Programa' = Programa /\ DosNiveles' = DosNiveles
  BY DEF Next, vars, DosNiveles, ProcerToma, Corta, ProgramaPendiente,
         ProgramaAvanza, ProgramaSale, FuncionAvanza, FuncionVuelve
<1>3. /\ stack \in Seq(Marcos) /\ element \in Seq(Marcos)
      /\ corte \in BOOLEAN /\ cortes \in Nat
  BY <1>1 DEF TypeOK
<1> DEFINE C == Cadena(Programa, PC, Camino(stack, element))
<1>4. ASSUME Cadena(Programa, PC', Camino(stack', element')) PROVE EnCadena'
  BY <1>2, <1>4 DEF EnCadena
<1>5. ASSUME element = <<>>, stackExecution
      PROVE Camino(stack', element') = Camino(stack, element)
  BY <1>1, <1>5, CaminoIgual
<1>6. CASE ProcerToma
  <2>1. /\ pc = "espera" /\ element = <<>> /\ PC' = PC /\ cortes' = cortes
        /\ corte' = FALSE
    BY <1>1, <1>6 DEF ProcerToma, Formas
  <2>2. Camino(stack', element') = Camino(stack, element)
    BY <1>5, <1>6, <2>1 DEF ProcerToma
  <2>. QED BY <1>1, <1>2, <2>1, <2>2 DEF EnCadena
<1>7. CASE Corta
  <2>1. /\ PC' = PC /\ stack' = stack /\ element' = element /\ ~ corte
        /\ corte' = TRUE /\ cortes' = cortes + 1
    BY <1>7 DEF Corta
  <2>2. cortes' # 0 /\ (cortes' = 1 => cortes = 0)
    BY <1>3, <2>1
  <2>. QED BY <1>1, <1>2, <2>1, <2>2 DEF EnCadena
<1>8. CASE ProgramaPendiente
  <2>1. element = <<>> /\ PC' = PC /\ cortes' = cortes /\ corte' = corte
    BY <1>8 DEF ProgramaPendiente
  <2>2. Camino(stack', element') = Camino(stack, element)
    BY <1>5, <1>8, <2>1 DEF ProgramaPendiente
  <2>. QED BY <1>1, <1>2, <2>1, <2>2 DEF EnCadena
<1>9. CASE ProgramaAvanza
  <2> DEFINE linea == Programa["programa"][PC + 1]
             d     == newElement(linea, PC + 1)
  <2>1. /\ element = <<>> /\ stack = <<>> /\ stack' = <<>> /\ PC' = PC + 1
    BY <1>9 DEF ProgramaAvanza
  <2>2. CASE linea \in Funciones
    <3>1. element' = <<d>>
      BY <1>9, <2>2 DEF ProgramaAvanza
    <3>2. PC \in Nat /\ PC + 1 \in DOMAIN Programa["programa"] /\ PC + 1 \in Nat
      <4>1. Programa \in Programas /\ "programa" \in Bloques /\ PC \in Nat
            /\ PC <= Len(Programa["programa"])
            /\ PC # Len(Programa["programa"])
        <5>1. Programa["programa"] \in Seq(STRING)
          BY <1>1, ProgramaAssumption DEF TypeOK, Bloques
        <5>. QED BY <1>1, <1>9, <5>1
                 DEF TypeOK, Bloques, ProgramaAvanza, EnFinPrograma
      <4>. QED BY <4>1, UnaLinea
    <3>3. d \in Marcos
      BY <1>1, <2>2, <3>2, MarcoNuevo
    <3>4. d.linecall = PC + 1 /\ d.functionName = linea
      BY DEF newElement
    <3>. HIDE DEF d
    <3>5. Llamada(Programa, "programa", PC + 1, d)
      BY <3>2, <3>4 DEF Llamada
    <3>6. <<>> \in Seq(Marcos) /\ Append(<<>>, d) = <<d>>
      BY <3>3
    <3>7. Cadena(Programa, PC + 1, Append(<<>>, d))
      BY <3>3, <3>5, <3>6, CadenaVacia, CadenaMas
    <3>8. Camino(stack', element') = Append(<<>>, d)
      <4>1. Front(element') = <<>> /\ Last(element') = d /\ element' # <<>>
        BY <3>1, <3>3, <3>6, FrenteDeAppend
      <4>2. <<>> \o <<>> = <<>>
        BY <3>6, Frentes
      <4>. QED BY <2>1, <4>1, <4>2 DEF Camino
    <3>. QED BY <1>4, <2>1, <3>7, <3>8
  <2>3. CASE linea \notin Funciones
    <3>1. element' = <<>>
      BY <1>9, <2>1, <2>3 DEF ProgramaAvanza
    <3>2. Camino(stack', element') = <<>>
      BY <2>1, <3>1 DEF Camino
    <3>. QED BY <1>4, <3>2, CadenaVacia
  <2>. QED BY <2>2, <2>3
<1>10. CASE ProgramaSale
  <2>1. UNCHANGED <<PC, stack, element, corte, cortes>>
    BY <1>10 DEF ProgramaSale
  <2>. QED BY <1>1, <1>2, <2>1 DEF EnCadena
<1>11. CASE FuncionAvanza
  <2> DEFINE e     == Last(element)
             g     == Front(element)
             linea == Programa[e.functionName][e.PC + 1]
             d     == [Last(element) EXCEPT !.PC = @ + 1]
             sigue == [element EXCEPT ![Len(element)].PC = @ + 1]
             x     == newElement(linea, e.PC + 1)
  <2>1. /\ element # <<>> /\ ~ EnFinFuncion(element[Len(element)])
        /\ PC' = PC /\ stack' = stack /\ corte' = corte /\ cortes' = cortes
        /\ ~ corte
    BY <1>11 DEF FuncionAvanza
  <2>2. /\ g \in Seq(Marcos) /\ e \in Marcos /\ e = element[Len(element)]
    BY <1>3, <2>1, Partida
  <2>3. /\ d \in Marcos /\ sigue = Append(g, d)
        /\ d.functionName = e.functionName /\ d.linecall = e.linecall
        /\ d.PC = e.PC + 1
    <3>. HIDE DEF d, sigue
    <3>. QED BY <1>1, <2>1, UnaVuelta DEF d, sigue
  <2>4. IF linea \in Funciones THEN element' = Append(sigue, x)
                               ELSE element' = sigue
    <3>. HIDE DEF e
    <3>1. LET c == element[Len(element)]
              l == Programa[c.functionName][c.PC + 1]
          IN  IF l \in Funciones
              THEN element' = Append(sigue, newElement(l, c.PC + 1))
              ELSE element' = sigue
      BY <1>11 DEF FuncionAvanza
    <3>. QED BY <2>2, <3>1
  <2>. SUFFICES ASSUME DosNiveles \/ cortes = 0
                PROVE Cadena(Programa, PC', Camino(stack', element'))
    BY <1>2, <2>1 DEF EnCadena
  <2>5. Cadena(Programa, PC, Append(g \o stack, e))
    BY <1>1, <2>1 DEF EnCadena, Camino
  <2>6. g \o stack \in Seq(Marcos)
    BY <1>3, <2>2, Frentes
  <2>7. Cadena(Programa, PC, Append(g \o stack, d))
    <3>. HIDE DEF g, e, d
    <3>. QED BY <2>2, <2>3, <2>5, <2>6, CadenaAvanza
  <2>8. CASE linea \notin Funciones
    <3>1. element' = Append(g, d)
      BY <2>3, <2>4, <2>8
    <3>2. Camino(stack', element') = Append(g \o stack, d)
      <4>. HIDE DEF g, d
      <4>1. Front(element') = g /\ Last(element') = d /\ element' # <<>>
        BY <2>2, <2>3, <3>1, FrenteDeAppend
      <4>. QED BY <2>1, <4>1 DEF Camino
    <3>. QED BY <2>1, <2>7, <3>2
  <2>9. CASE linea \in Funciones
    <3>1. /\ Programa \in Programas /\ e.functionName \in Bloques
          /\ e.PC \in Nat /\ e.PC <= Len(Programa[e.functionName])
          /\ e.PC # Len(Programa[e.functionName])
          /\ Programa[e.functionName] \in Seq(STRING)
      <4>1. /\ e.functionName \in Bloques /\ e.PC \in Nat
            /\ e.PC <= Len(Programa[e.functionName])
        BY <1>1, <2>2, UnMarco
      <4>2. e.PC # Len(Programa[e.functionName])
        BY <2>1, <2>2 DEF EnFinFuncion
      <4>. QED BY <1>1, <4>1, <4>2, ProgramaAssumption DEF TypeOK
    <3>. HIDE DEF e, g, d
    <3>2. e.PC + 1 \in DOMAIN Programa[e.functionName] /\ e.PC + 1 \in Nat
      BY <3>1, UnaLinea
    <3>3. x \in Marcos /\ x.linecall = e.PC + 1 /\ x.functionName = linea
      <4>1. x \in Marcos
        BY <1>1, <2>9, <3>2, MarcoNuevo
      <4>. QED BY <4>1 DEF newElement
    <3>4. stack = <<>>
      BY <1>1, <2>1, <2>2, <2>9, <3>1, LlamadaSola DEF e, linea
    <3>. HIDE DEF x, linea
    <3>5. g \o stack = g
      BY <2>2, <3>4, Frentes
    <3>6. Cadena(Programa, PC, Append(g, d)) /\ Append(g, d) \in Seq(Marcos)
      BY <2>2, <2>3, <2>7, <3>5
    <3>7. Llamada(Programa, d.functionName, d.PC, x)
      BY <2>3, <3>2, <3>3 DEF Llamada, linea
    <3>8. Append(g, d) # <<>> /\ Last(Append(g, d)) = d
      BY <2>2, <2>3, FrenteDeAppend
    <3>9. Cadena(Programa, PC, Append(Append(g, d), x))
      BY <3>3, <3>6, <3>7, <3>8, CadenaMas
    <3>10. element' = Append(Append(g, d), x)
      BY <2>3, <2>4, <2>9
    <3>11. Camino(stack', element') = Append(Append(g, d), x)
      <4>1. /\ Front(element') = Append(g, d) /\ Last(element') = x
            /\ element' # <<>>
        BY <3>3, <3>6, <3>10, FrenteDeAppend
      <4>2. Append(g, d) \o <<>> = Append(g, d)
        BY <3>6, Frentes
      <4>. QED BY <2>1, <3>4, <4>1, <4>2 DEF Camino
    <3>. QED BY <2>1, <3>9, <3>11
  <2>. QED BY <2>8, <2>9
<1>12. CASE FuncionVuelve
  <2> DEFINE e == Last(element)
             g == Front(element)
             s == Guarda(stack, e)
  <2>1. /\ element # <<>> /\ PC' = PC /\ corte' = corte /\ cortes' = cortes
    BY <1>12 DEF FuncionVuelve
  <2>2. Camino(stack', element') = g \o s
    BY <1>1, <1>12, DeVuelta
  <2>. SUFFICES ASSUME DosNiveles \/ cortes = 0 \/ (cortes = 1 /\ corte)
                PROVE Cadena(Programa, PC, g \o s)
    BY <1>2, <2>1, <2>2 DEF EnCadena
  <2>3. Cadena(Programa, PC, Append(g \o stack, e))
    BY <1>1, <2>1 DEF EnCadena, Camino
  <2>4. g \in Seq(Marcos) /\ e \in Marcos /\ g \o stack \in Seq(Marcos)
    BY <1>3, <2>1, Partida, Frentes
  <2>5. CASE EnFinFuncion(e)
    <3>1. s = stack
      BY <2>5 DEF Guarda
    <3>. HIDE DEF g, e, s
    <3>. QED BY <2>3, <2>4, <3>1, CadenaMenos
  <2>6. CASE ~ EnFinFuncion(e)
    <3>1. s = Append(stack, e)
      BY <2>6 DEF Guarda
    <3>. HIDE DEF g, e, s
    <3>2. g \o Append(stack, e) = Append(g \o stack, e)
      BY <1>3, <2>4, ConAppend
    <3>. QED BY <2>3, <3>1, <3>2
  <2>. QED BY <2>5, <2>6
<1>13. CASE UNCHANGED vars
  BY <1>1, <1>2, <1>13 DEF vars, EnCadena
<1>. QED
  BY <1>6, <1>7, <1>8, <1>9, <1>10, <1>11, <1>12, <1>13 DEF Next

-----------------------------------------------------------------------------
(* What a script executes, and what it has left to execute.                *)
Sentencias(P, R, b, i) == IF P[b][i] \in Funciones THEN R[P[b][i]]
                                                   ELSE <<P[b][i]>>
Lineas(P, R, b) == [i \in 1 .. Len(P[b]) |-> Sentencias(P, R, b, i)]
Ejecutan(P, R) == [b \in Bloques |-> FlattenSeq(Lineas(P, R, b))]

(* Each function has a lower rank than its callers, all up to n.           *)
Jerarquia(P, rango, n) ==
    /\ n \in Nat /\ rango \in [Bloques -> 0 .. n]
    /\ \A b \in Bloques : \A i \in 1 .. Len(P[b]) :
          P[b][i] \in Funciones => rango[P[b][i]] < rango[b]

LEMMA HayJerarquia ==
    ASSUME SinRecursion, NEW P \in Programas
    PROVE \E rango, n : Jerarquia(P, rango, n)
<1> DEFINE n == Cardinality(Funciones)
<1>1. n \in Nat
  BY FS_CardinalityType DEF SinRecursion
<1>2. PICK rango \in [Bloques -> 0 .. n] :
         \A b \in Bloques : \A f \in ToSet(P[b]) \cap Funciones :
             rango[f] < rango[b]
  BY DEF SinRecursion
<1>3. ASSUME NEW b \in Bloques, NEW i \in 1 .. Len(P[b]), P[b][i] \in Funciones
      PROVE rango[P[b][i]] < rango[b]
  <2>1. P[b] \in Seq(STRING)
    BY ProgramaAssumption
  <2>2. P[b][i] \in ToSet(P[b])
    BY <2>1 DEF ToSet
  <2>. QED BY <1>2, <1>3, <2>2
<1>. HIDE DEF n
<1>4. Jerarquia(P, rango, n)
  BY <1>1, <1>2, <1>3 DEF Jerarquia
<1>. QED BY <1>4

(* The statements of the lines of b, if those of what they call are known. *)
LEMMA LineasTipo ==
    ASSUME NEW P \in Programas, NEW R, NEW b \in Bloques,
           \A i \in 1 .. Len(P[b]) :
              P[b][i] \in Funciones => R[P[b][i]] \in Seq(STRING)
    PROVE /\ Lineas(P, R, b) \in Seq(Seq(STRING))
          /\ Len(Lineas(P, R, b)) = Len(P[b])
          /\ FlattenSeq(Lineas(P, R, b)) \in Seq(STRING)
<1>1. P[b] \in Seq(STRING) /\ Len(P[b]) \in Nat
  BY ProgramaAssumption
<1>2. ASSUME NEW i \in 1 .. Len(P[b])
      PROVE Sentencias(P, R, b, i) \in Seq(STRING)
  <2>1. P[b][i] \in STRING
    BY <1>1
  <2>2. <<P[b][i]>> \in Seq(STRING)
    BY <2>1
  <2>. QED BY <2>2 DEF Sentencias
<1>3. Lineas(P, R, b) \in Seq(Seq(STRING)) /\ Len(Lineas(P, R, b)) = Len(P[b])
  BY <1>1, <1>2 DEF Lineas
<1>. QED BY <1>3, AplanaTipo

(* By induction on the rank: what the blocks of rank k execute, from what  *)
(* those that they call do.                                                *)
LEMMA HayRecorridos ==
    ASSUME SinRecursion, NEW P \in Programas
    PROVE \E R : R = Ejecutan(P, R)
<1>1. PICK rango, n : Jerarquia(P, rango, n)
  BY HayJerarquia
<1> DEFINE A == [Bloques -> Seq(STRING)]
           Vale(R, k) == \A b \in Bloques : rango[b] < k =>
                              R[b] = FlattenSeq(Lineas(P, R, b))
           T == {k \in Nat : \E R \in A : Vale(R, k)}
<1>2. /\ n \in Nat /\ rango \in [Bloques -> 0 .. n]
      /\ \A b \in Bloques : rango[b] \in Nat /\ rango[b] < n + 1
      /\ \A b \in Bloques : \A i \in 1 .. Len(P[b]) :
            P[b][i] \in Funciones => rango[P[b][i]] < rango[b]
  BY <1>1 DEF Jerarquia
<1>3. 0 \in T
  <2> DEFINE R == [b \in Bloques |-> <<>>]
  <2>1. R \in A
    OBVIOUS
  <2>2. Vale(R, 0)
    BY <1>2
  <2>. HIDE DEF Vale, A, R
  <2>. QED BY <2>1, <2>2
<1>4. ASSUME NEW k \in Nat, k \in T PROVE k + 1 \in T
  <2>1. PICK R \in A : Vale(R, k)
    BY <1>4
  <2> DEFINE Q == Ejecutan(P, R)
  <2>2. \A f \in Funciones : f \in Bloques /\ R[f] \in Seq(STRING)
    BY DEF Bloques
  <2>3. \A b \in Bloques : Q[b] = FlattenSeq(Lineas(P, R, b))
    BY DEF Ejecutan
  <2>4. Q \in A
    <3>1. ASSUME NEW b \in Bloques
          PROVE FlattenSeq(Lineas(P, R, b)) \in Seq(STRING)
      BY <2>2, LineasTipo
    <3>. QED BY <3>1 DEF Ejecutan
  <2>. HIDE DEF Q
  <2>5. ASSUME NEW b \in Bloques, rango[b] < k + 1
        PROVE Lineas(P, Q, b) = Lineas(P, R, b)
    <3>1. ASSUME NEW i \in 1 .. Len(P[b])
          PROVE Sentencias(P, Q, b, i) = Sentencias(P, R, b, i)
      <4>1. CASE P[b][i] \in Funciones
        <5>1. /\ P[b][i] \in Bloques /\ rango[P[b][i]] \in Nat
              /\ rango[P[b][i]] < rango[b] /\ rango[b] \in Nat
          BY <1>2, <2>2, <4>1
        <5>2. rango[P[b][i]] < k
          BY <2>5, <5>1
        <5>3. Q[P[b][i]] = R[P[b][i]]
          BY <2>1, <2>3, <5>1, <5>2
        <5>. QED BY <4>1, <5>3 DEF Sentencias
      <4>2. CASE P[b][i] \notin Funciones
        BY <4>2 DEF Sentencias
      <4>. QED BY <4>1, <4>2
    <3>. QED BY <3>1 DEF Lineas
  <2>6. Vale(Q, k + 1)
    BY <2>3, <2>5
  <2>. HIDE DEF Vale, A
  <2>. QED BY <2>4, <2>6
<1>5. n + 1 \in T
  <2>. HIDE DEF T
  <2>. QED BY <1>2, <1>3, <1>4, Induccion
<1>6. PICK R \in A : Vale(R, n + 1)
  BY <1>5
<1>7. R = Ejecutan(P, R)
  <2>1. \A b \in Bloques : R[b] = FlattenSeq(Lineas(P, R, b))
    BY <1>2, <1>6
  <2>. QED BY <2>1 DEF Ejecutan
<1>. QED BY <1>7

LEMMA RecorridosEs ==
    ASSUME SinRecursion, NEW P \in Programas
    PROVE /\ Recorridos(P) \in [Bloques -> Seq(STRING)]
          /\ \A b \in Bloques :
                Recorridos(P)[b] = FlattenSeq(Lineas(P, Recorridos(P), b))
<1> DEFINE R == Recorridos(P)
           Q == CHOOSE Q : Q = Ejecutan(P, Q)
<1>1. R = Q
  BY DEF Recorridos, Ejecutan, Lineas, Sentencias
<1>2. Q = Ejecutan(P, Q)
  BY HayRecorridos
<1>. HIDE DEF Q, R
<1>3. R = Ejecutan(P, R)
  BY <1>1, <1>2
<1>4. \A b \in Bloques : R[b] = FlattenSeq(Lineas(P, R, b))
  BY <1>3 DEF Ejecutan
<1>5. PICK rango, n : Jerarquia(P, rango, n)
  BY HayJerarquia
<1>6. /\ n \in Nat
      /\ \A b \in Bloques : rango[b] \in Nat /\ rango[b] < n + 1
      /\ \A b \in Bloques : \A i \in 1 .. Len(P[b]) :
            P[b][i] \in Funciones => rango[P[b][i]] < rango[b]
  BY <1>5 DEF Jerarquia
<1> DEFINE T == {k \in Nat : \A b \in Bloques :
                     rango[b] < k => R[b] \in Seq(STRING)}
<1>7. 0 \in T
  BY <1>6
<1>8. ASSUME NEW k \in Nat, k \in T PROVE k + 1 \in T
  <2>1. SUFFICES ASSUME NEW b \in Bloques, rango[b] < k + 1
                 PROVE R[b] \in Seq(STRING)
    OBVIOUS
  <2>2. ASSUME NEW i \in 1 .. Len(P[b]), P[b][i] \in Funciones
        PROVE R[P[b][i]] \in Seq(STRING)
    <3>1. /\ P[b][i] \in Bloques /\ rango[P[b][i]] \in Nat
          /\ rango[P[b][i]] < rango[b] /\ rango[b] \in Nat
      BY <1>6, <2>2 DEF Bloques
    <3>2. rango[P[b][i]] < k
      BY <2>1, <3>1
    <3>. QED BY <1>8, <3>1, <3>2
  <2>. HIDE DEF T
  <2>. QED BY <1>4, <2>2, LineasTipo
<1>9. n + 1 \in T
  <2>. HIDE DEF T
  <2>. QED BY <1>6, <1>7, <1>8, Induccion
<1>10. \A b \in Bloques : R[b] \in Seq(STRING)
  BY <1>6, <1>9
<1>11. R \in [Bloques -> Seq(STRING)]
  BY <1>3, <1>10 DEF Ejecutan
<1>. QED BY <1>4, <1>11 DEF R

(* What block b has left after its first n lines.                          *)
Resto(P, b, n) ==
    FlattenSeq(SubSeq(Lineas(P, Recorridos(P), b), n + 1, Len(P[b])))

LEMMA LineasDe ==
    ASSUME SinRecursion, NEW P \in Programas, NEW b \in Bloques
    PROVE /\ Lineas(P, Recorridos(P), b) \in Seq(Seq(STRING))
          /\ Len(Lineas(P, Recorridos(P), b)) = Len(P[b])
          /\ Len(P[b]) \in Nat
<1>1. \A f \in Funciones : Recorridos(P)[f] \in Seq(STRING)
  BY RecorridosEs DEF Bloques
<1>2. Len(P[b]) \in Nat
  BY ProgramaAssumption
<1>. QED BY <1>1, <1>2, LineasTipo

LEMMA RestoTodo ==
    ASSUME SinRecursion, NEW P \in Programas, NEW b \in Bloques
    PROVE Resto(P, b, 0) = Recorridos(P)[b]
<1> DEFINE q == Lineas(P, Recorridos(P), b)
<1>1. q \in Seq(Seq(STRING)) /\ Len(q) = Len(P[b])
  BY LineasDe
<1>2. Recorridos(P)[b] = FlattenSeq(q)
  BY RecorridosEs
<1>3. Resto(P, b, 0) = FlattenSeq(SubSeq(q, 1, Len(q)))
  BY <1>1 DEF Resto
<1>. HIDE DEF q
<1>4. SubSeq(q, 1, Len(q)) = q
  BY <1>1, SubSeqFull
<1>. QED BY <1>2, <1>3, <1>4

LEMMA RestoNada ==
    ASSUME SinRecursion, NEW P \in Programas, NEW b \in Bloques
    PROVE Resto(P, b, Len(P[b])) = <<>>
<1> DEFINE q == Lineas(P, Recorridos(P), b)
           m == Len(P[b])
<1>1. m \in Nat
  BY LineasDe
<1>. HIDE DEF q, m
<1>2. SubSeq(q, m + 1, m) = <<>>
  BY <1>1, SubSeqEmpty
<1>. QED BY <1>2, AplanaVacia DEF Resto, q, m

LEMMA RestoTipo ==
    ASSUME SinRecursion, NEW P \in Programas, NEW b \in Bloques, NEW n \in Nat
    PROVE Resto(P, b, n) \in Seq(STRING)
<1> DEFINE q == Lineas(P, Recorridos(P), b)
           m == Len(P[b])
<1>1. q \in Seq(Seq(STRING)) /\ Len(q) = m /\ m \in Nat
  BY LineasDe
<1>. HIDE DEF q, m
<1>2. \A i \in n + 1 .. m : q[i] \in Seq(STRING)
  BY <1>1
<1>3. SubSeq(q, n + 1, m) \in Seq(Seq(STRING))
  BY <1>1, <1>2, SubSeqProperties
<1>4. FlattenSeq(SubSeq(q, n + 1, m)) \in Seq(STRING)
  BY <1>3, AplanaTipo
<1>. QED BY <1>4 DEF Resto, q, m

(* The first of the lines left, and the others.                            *)
LEMMA RestoUno ==
    ASSUME SinRecursion, NEW P \in Programas, NEW b \in Bloques,
           NEW n \in Nat, n < Len(P[b])
    PROVE /\ Sentencias(P, Recorridos(P), b, n + 1) \in Seq(STRING)
          /\ Resto(P, b, n) = Sentencias(P, Recorridos(P), b, n + 1)
                                 \o Resto(P, b, n + 1)
<1> DEFINE q == Lineas(P, Recorridos(P), b)
           m == Len(P[b])
           x == Sentencias(P, Recorridos(P), b, n + 1)
<1>1. q \in Seq(Seq(STRING)) /\ Len(q) = m /\ m \in Nat
  BY LineasDe
<1>2. n + 1 \in 1 .. m /\ m \in n + 1 .. m
  BY <1>1
<1>3. q[n + 1] = x
  BY <1>2 DEF Lineas
<1>. HIDE DEF q, m, x
<1> DEFINE k == n + 1
           t == SubSeq(q, k + 1, m)
<1>4. x \in Seq(STRING)
  BY <1>1, <1>2, <1>3
<1>5. SubSeq(q, k, m) = <<x>> \o t
  BY <1>1, <1>2, <1>3, SubSeqRecursiveFirst
<1>6. t \in Seq(Seq(STRING)) /\ <<x>> \in Seq(Seq(STRING))
  <2>1. \A i \in k + 1 .. m : q[i] \in Seq(STRING)
    BY <1>1
  <2>2. k + 1 \in Int /\ m \in Int
    BY <1>1
  <2>3. t \in Seq(Seq(STRING))
    BY <2>1, <2>2, SubSeqProperties
  <2>. QED BY <1>4, <2>3
<1>. HIDE DEF t
<1>7. FlattenSeq(<<x>> \o t) = FlattenSeq(<<x>>) \o FlattenSeq(t)
  BY <1>6, AplanaJunta
<1>8. FlattenSeq(<<x>>) = x
  BY <1>4, AplanaUno
<1>. QED BY <1>4, <1>5, <1>7, <1>8 DEF Resto, q, m, x, t, k

-----------------------------------------------------------------------------
(* What the frames of s have left: the last one goes on first.             *)
RestoDe(P, e) == Resto(P, e.functionName, e.PC)
Restos(P, s) == [i \in 1 .. Len(s) |-> RestoDe(P, s[Len(s) + 1 - i])]
Pendiente(P, s) == FlattenSeq(Restos(P, s))

LEMMA RestosTipo ==
    ASSUME SinRecursion, NEW P \in Programas, NEW s \in Seq(MarcosDe(P))
    PROVE /\ Restos(P, s) \in Seq(Seq(STRING)) /\ Len(Restos(P, s)) = Len(s)
          /\ Pendiente(P, s) \in Seq(STRING)
<1>1. ASSUME NEW e \in MarcosDe(P) PROVE RestoDe(P, e) \in Seq(STRING)
  <2>1. e.functionName \in Bloques /\ e.PC \in Nat
    BY DEF MarcosDe, Bloques
  <2>. QED BY <2>1, RestoTipo DEF RestoDe
<1>2. ASSUME NEW i \in 1 .. Len(s)
      PROVE RestoDe(P, s[Len(s) + 1 - i]) \in Seq(STRING)
  <2>1. Len(s) + 1 - i \in 1 .. Len(s)
    OBVIOUS
  <2>2. s[Len(s) + 1 - i] \in MarcosDe(P)
    BY <2>1
  <2>. QED BY <1>1, <2>2
<1>3. Restos(P, s) \in Seq(Seq(STRING)) /\ Len(Restos(P, s)) = Len(s)
  BY <1>2 DEF Restos
<1>. QED BY <1>3, AplanaTipo DEF Pendiente

LEMMA PendienteVacio ==
    ASSUME NEW P PROVE Pendiente(P, <<>>) = <<>>
<1>1. Restos(P, <<>>) = <<>>
  BY DEF Restos
<1>. QED BY <1>1, AplanaVacia DEF Pendiente

LEMMA PendienteUno ==
    ASSUME SinRecursion, NEW P \in Programas, NEW e \in MarcosDe(P)
    PROVE Pendiente(P, <<e>>) = RestoDe(P, e) /\ RestoDe(P, e) \in Seq(STRING)
<1>1. e.functionName \in Bloques /\ e.PC \in Nat
  BY DEF MarcosDe, Bloques
<1>2. RestoDe(P, e) \in Seq(STRING)
  BY <1>1, RestoTipo DEF RestoDe
<1>3. Restos(P, <<e>>) = <<RestoDe(P, e)>>
  <2>1. Len(<<e>>) = 1 /\ <<e>>[1] = e
    OBVIOUS
  <2>2. ASSUME NEW i \in 1 .. 1 PROVE <<e>>[1 + 1 - i] = e
    OBVIOUS
  <2>. QED BY <2>1, <2>2 DEF Restos
<1>. QED BY <1>2, <1>3, AplanaUno DEF Pendiente

LEMMA PendienteJunta ==
    ASSUME SinRecursion, NEW P \in Programas,
           NEW u \in Seq(MarcosDe(P)), NEW v \in Seq(MarcosDe(P))
    PROVE Pendiente(P, u \o v) = Pendiente(P, v) \o Pendiente(P, u)
<1> DEFINE w == u \o v
           a == Restos(P, u)
           b == Restos(P, v)
           c == Restos(P, w)
           n == Len(u)
           m == Len(v)
<1>1. /\ w \in Seq(MarcosDe(P)) /\ Len(w) = n + m
      /\ \A i \in 1 .. n : w[i] = u[i]
      /\ \A i \in 1 .. m : w[n + i] = v[i]
  BY Juntos
<1>2. n \in Nat /\ m \in Nat
  OBVIOUS
<1>3. /\ a \in Seq(Seq(STRING)) /\ Len(a) = n
      /\ b \in Seq(Seq(STRING)) /\ Len(b) = m
      /\ c \in Seq(Seq(STRING)) /\ Len(c) = n + m
  <2>. HIDE DEF w
  <2>. QED BY <1>1, RestosTipo
<1>4. /\ \A i \in 1 .. n : a[i] = RestoDe(P, u[n + 1 - i])
      /\ \A i \in 1 .. m : b[i] = RestoDe(P, v[m + 1 - i])
      /\ \A i \in 1 .. n + m : c[i] = RestoDe(P, w[n + m + 1 - i])
  <2>. HIDE DEF w
  <2>. QED BY <1>1 DEF Restos
<1> DEFINE d == b \o a
<1>. HIDE DEF a, b, c, w, n, m
<1>5. /\ d \in Seq(Seq(STRING)) /\ Len(d) = m + n
      /\ \A i \in 1 .. m : d[i] = b[i]
      /\ \A i \in 1 .. n : d[m + i] = a[i]
  <2>1. /\ d \in Seq(Seq(STRING)) /\ Len(d) = Len(b) + Len(a)
        /\ \A i \in 1 .. Len(b) : d[i] = b[i]
        /\ \A i \in 1 .. Len(a) : d[Len(b) + i] = a[i]
    <3> DEFINE Q == Seq(STRING)
    <3>1. a \in Seq(Q) /\ b \in Seq(Q)
      BY <1>3
    <3>. HIDE DEF Q
    <3>2. /\ d \in Seq(Q) /\ Len(d) = Len(b) + Len(a)
          /\ \A i \in 1 .. Len(b) : d[i] = b[i]
          /\ \A i \in 1 .. Len(a) : d[Len(b) + i] = a[i]
      BY <3>1, Juntos
    <3>. QED BY <3>2 DEF Q
  <2>. HIDE DEF d
  <2>. QED BY <1>3, <2>1
<1>. HIDE DEF d
<1>6. ASSUME NEW i \in 1 .. n + m PROVE c[i] = d[i]
  <2>1. CASE i <= m
    <3>1. i \in 1 .. m /\ m + 1 - i \in 1 .. m
          /\ n + (m + 1 - i) = n + m + 1 - i
      BY <1>2, <2>1
    <3>2. w[n + m + 1 - i] = v[m + 1 - i]
      BY <1>1, <3>1
    <3>. QED BY <1>4, <1>5, <3>1, <3>2
  <2>2. CASE i > m
    <3> DEFINE j == i - m
    <3>1. j \in 1 .. n /\ m + j = i /\ n + 1 - j \in 1 .. n
          /\ n + m + 1 - i = n + 1 - j
      BY <1>2, <2>2
    <3>. HIDE DEF j
    <3>2. w[n + m + 1 - i] = u[n + 1 - j]
      BY <1>1, <3>1
    <3>3. d[i] = a[j]
      BY <1>5, <3>1
    <3>. QED BY <1>4, <3>1, <3>2, <3>3
  <2>. QED BY <1>2, <2>1, <2>2
<1>7. c = d
  <2>1. Len(c) = Len(d) /\ Len(c) = n + m
    BY <1>2, <1>3, <1>5
  <2> DEFINE Q == Seq(STRING)
  <2>2. c \in Seq(Q) /\ d \in Seq(Q)
    BY <1>3, <1>5
  <2>. HIDE DEF Q
  <2>3. \A i \in 1 .. Len(c) : c[i] = d[i]
    BY <1>6, <2>1
  <2>. QED BY <2>1, <2>2, <2>3, SeqEqual
<1>8. FlattenSeq(b \o a) = FlattenSeq(b) \o FlattenSeq(a)
  BY <1>3, AplanaJunta
<1>. QED BY <1>7, <1>8 DEF Pendiente, a, b, c, d, w

(* What is left to execute, with the program after its first n lines and   *)
(* the frames of c pending.                                                *)
Resta(P, n, c) == Pendiente(P, c) \o Resto(P, "programa", n)

LEMMA RestaTipo ==
    ASSUME SinRecursion, NEW P \in Programas, NEW n \in Nat,
           NEW c \in Seq(MarcosDe(P))
    PROVE /\ Resta(P, n, c) \in Seq(STRING) /\ Pendiente(P, c) \in Seq(STRING)
          /\ Resto(P, "programa", n) \in Seq(STRING)
<1>1. "programa" \in Bloques
  BY DEF Bloques
<1>2. Resto(P, "programa", n) \in Seq(STRING)
  BY <1>1, RestoTipo
<1>3. Pendiente(P, c) \in Seq(STRING)
  BY RestosTipo
<1>. QED BY <1>2, <1>3, ConcatProperties DEF Resta

LEMMA RestaNada ==
    ASSUME SinRecursion, NEW P \in Programas, NEW n \in Nat
    PROVE Resta(P, n, <<>>) = Resto(P, "programa", n)
<1> DEFINE r == Resto(P, "programa", n)
<1>1. "programa" \in Bloques
  BY DEF Bloques
<1>2. r \in Seq(STRING)
  BY <1>1, RestoTipo
<1>. HIDE DEF r
<1>3. <<>> \o r = r
  BY <1>2
<1>. QED BY <1>3, PendienteVacio DEF Resta, r

LEMMA RestaJunta ==
    ASSUME SinRecursion, NEW P \in Programas, NEW n \in Nat,
           NEW u \in Seq(MarcosDe(P)), NEW v \in Seq(MarcosDe(P))
    PROVE Resta(P, n, u \o v) = Pendiente(P, v) \o Resta(P, n, u)
<1> DEFINE a == Pendiente(P, v)
           b == Pendiente(P, u)
           c == Resto(P, "programa", n)
<1>1. a \in Seq(STRING) /\ b \in Seq(STRING) /\ c \in Seq(STRING)
  BY RestaTipo
<1>2. Pendiente(P, u \o v) = a \o b
  BY PendienteJunta
<1>3. Asocian(a, b, c)
  <2>. HIDE DEF a, b, c
  <2>. QED BY <1>1, Asociados
<1>. QED BY <1>2, <1>3 DEF Resta, Asocian

LEMMA RestaMas ==
    ASSUME SinRecursion, NEW P \in Programas, NEW n \in Nat,
           NEW c \in Seq(MarcosDe(P)), NEW e \in MarcosDe(P)
    PROVE /\ Resta(P, n, Append(c, e)) = RestoDe(P, e) \o Resta(P, n, c)
          /\ RestoDe(P, e) \in Seq(STRING)
<1>1. <<e>> \in Seq(MarcosDe(P)) /\ Append(c, e) = c \o <<e>>
  BY AppendIsConcat
<1>2. Pendiente(P, <<e>>) = RestoDe(P, e) /\ RestoDe(P, e) \in Seq(STRING)
  BY PendienteUno
<1>3. Resta(P, n, c \o <<e>>) = Pendiente(P, <<e>>) \o Resta(P, n, c)
  BY <1>1, RestaJunta
<1>. QED BY <1>1, <1>2, <1>3

(* A frame one line further has left all but the statements of the line.   *)
LEMMA RestaLinea ==
    ASSUME SinRecursion, NEW P \in Programas, NEW n \in Nat,
           NEW c \in Seq(MarcosDe(P)), NEW e \in MarcosDe(P),
           NEW d \in MarcosDe(P), d.functionName = e.functionName,
           d.PC = e.PC + 1, e.PC < Len(P[e.functionName])
    PROVE LET x == Sentencias(P, Recorridos(P), e.functionName, e.PC + 1)
          IN  /\ x \in Seq(STRING)
              /\ Resta(P, n, Append(c, e)) = x \o Resta(P, n, Append(c, d))
<1> DEFINE x == Sentencias(P, Recorridos(P), e.functionName, e.PC + 1)
           b == RestoDe(P, d)
           a == Resta(P, n, c)
<1>1. e.functionName \in Bloques /\ e.PC \in Nat
  BY DEF MarcosDe, Bloques
<1>2. x \in Seq(STRING) /\ RestoDe(P, e) = x \o b
  BY <1>1, RestoUno DEF RestoDe
<1>3. Resta(P, n, Append(c, e)) = RestoDe(P, e) \o a
  BY RestaMas
<1>4. Resta(P, n, Append(c, d)) = b \o a /\ b \in Seq(STRING)
  BY RestaMas
<1>5. a \in Seq(STRING)
  BY RestaTipo
<1>. HIDE DEF x, a, b
<1>6. Asocian(x, b, a)
  BY <1>2, <1>4, <1>5, Asociados
<1>7. Resta(P, n, Append(c, e)) = x \o Resta(P, n, Append(c, d))
  BY <1>2, <1>3, <1>4, <1>6 DEF Asocian
<1>. QED BY <1>2, <1>7 DEF x

LEMMA RestaPrograma ==
    ASSUME SinRecursion, NEW P \in Programas, NEW n \in Nat,
           n < Len(P["programa"])
    PROVE LET x == Sentencias(P, Recorridos(P), "programa", n + 1)
          IN  /\ x \in Seq(STRING)
              /\ Resta(P, n, <<>>) = x \o Resta(P, n + 1, <<>>)
<1>1. "programa" \in Bloques /\ n + 1 \in Nat
  BY DEF Bloques
<1>. QED BY <1>1, RestaNada, RestoUno

(* A function that has just been called has all its statements left.       *)
LEMMA RestaLlamada ==
    ASSUME SinRecursion, NEW P \in Programas, NEW n \in Nat,
           NEW c \in Seq(MarcosDe(P)), NEW f \in Funciones, NEW l,
           newElement(f, l) \in MarcosDe(P)
    PROVE Resta(P, n, Append(c, newElement(f, l)))
             = Recorridos(P)[f] \o Resta(P, n, c)
<1>1. RestoDe(P, newElement(f, l)) = Recorridos(P)[f]
  <2>1. f \in Bloques
    BY DEF Bloques
  <2>. QED BY <2>1, RestoTodo DEF RestoDe, newElement
<1>. QED BY <1>1, RestaMas

LEMMA RestaFin ==
    ASSUME SinRecursion, NEW P \in Programas, NEW n \in Nat,
           NEW c \in Seq(MarcosDe(P)), NEW e \in MarcosDe(P),
           e.PC = Len(P[e.functionName])
    PROVE Resta(P, n, Append(c, e)) = Resta(P, n, c)
<1> DEFINE a == Resta(P, n, c)
<1>1. RestoDe(P, e) = <<>>
  <2>1. e.functionName \in Bloques
    BY DEF MarcosDe, Bloques
  <2>. QED BY <2>1, RestoNada DEF RestoDe
<1>2. a \in Seq(STRING)
  BY RestaTipo
<1>3. Resta(P, n, Append(c, e)) = <<>> \o a
  BY <1>1, RestaMas
<1>. HIDE DEF a
<1>4. <<>> \o a = a
  BY <1>2
<1>. QED BY <1>3, <1>4 DEF a

(* In another order the frames have the same left, counted.                *)
LEMMA RestaCuenta ==
    ASSUME SinRecursion, NEW P \in Programas, NEW n \in Nat,
           NEW g \in Seq(MarcosDe(P)), NEW s \in Seq(MarcosDe(P)),
           NEW d \in MarcosDe(P), NEW x
    PROVE Ocurren(Resta(P, n, Append(g, d) \o s), x)
             = Ocurren(Resta(P, n, Append(g \o s, d)), x)
<1> DEFINE a == RestoDe(P, d)
           b == Pendiente(P, s)
           c == Resta(P, n, g)
           gd == Append(g, d)
           gs == g \o s
<1>1. gd \in Seq(MarcosDe(P)) /\ gs \in Seq(MarcosDe(P))
  <2>1. gd \in Seq(MarcosDe(P))
    OBVIOUS
  <2>2. gs \in Seq(MarcosDe(P))
    BY ConcatProperties
  <2>. QED BY <2>1, <2>2
<1>2. Resta(P, n, gd) = a \o c /\ a \in Seq(STRING)
  BY RestaMas
<1>3. Resta(P, n, gs) = b \o c
  BY RestaJunta
<1>4. b \in Seq(STRING) /\ c \in Seq(STRING)
  BY RestaTipo
<1>. HIDE DEF a, b, c, gd, gs
<1>5. Resta(P, n, gd \o s) = b \o (a \o c)
  <2>1. Resta(P, n, gd \o s) = Pendiente(P, s) \o Resta(P, n, gd)
    BY <1>1, RestaJunta
  <2>. QED BY <1>2, <2>1 DEF b
<1>6. Resta(P, n, Append(gs, d)) = a \o (b \o c)
  <2>1. Resta(P, n, Append(gs, d)) = RestoDe(P, d) \o Resta(P, n, gs)
    BY <1>1, RestaMas
  <2>. QED BY <1>3, <2>1 DEF a
<1>7. a \o c \in Seq(STRING) /\ b \o c \in Seq(STRING)
  BY <1>2, <1>4, ConcatProperties
<1>8. /\ Ocurren(a \o c, x) = Ocurren(a, x) + Ocurren(c, x)
      /\ Ocurren(b \o c, x) = Ocurren(b, x) + Ocurren(c, x)
  BY <1>2, <1>4, OcurrenJuntas
<1>9. /\ Ocurren(b \o (a \o c), x) = Ocurren(b, x) + Ocurren(a \o c, x)
      /\ Ocurren(a \o (b \o c), x) = Ocurren(a, x) + Ocurren(b \o c, x)
  <2> DEFINE ac == a \o c
             bc == b \o c
  <2>1. ac \in Seq(STRING) /\ bc \in Seq(STRING)
    BY <1>7
  <2>. HIDE DEF ac, bc
  <2>2. Ocurren(b \o ac, x) = Ocurren(b, x) + Ocurren(ac, x)
    BY <1>4, <2>1, OcurrenJuntas
  <2>3. Ocurren(a \o bc, x) = Ocurren(a, x) + Ocurren(bc, x)
    BY <1>2, <2>1, OcurrenJuntas
  <2>. QED BY <2>2, <2>3 DEF ac, bc
<1>10. /\ Ocurren(a, x) \in Nat /\ Ocurren(b, x) \in Nat
       /\ Ocurren(c, x) \in Nat
  BY <1>2, <1>4, OcurrenNat
<1>11. Ocurren(b \o (a \o c), x) = Ocurren(a \o (b \o c), x)
  BY <1>8, <1>9, <1>10
<1>. QED BY <1>5, <1>6, <1>11 DEF gd, gs

-----------------------------------------------------------------------------
(* What has been executed and what is left are, together, what the script  *)
(* says: in its order while the path is a chain of calls, and counted      *)
(* always.                                                                 *)
Ordenada == DosNiveles \/ cortes = 0 \/ (cortes = 1 /\ corte)

Todo == traza \o Resta(Programa, PC, Camino(stack, element))

EnOrden  == Ordenada => Todo = Recorrido
Contada  == \A x : Ocurren(Todo, x) = Ocurren(Recorrido, x)

(* A step that executes one line and leaves the rest.                      *)
Adelantada(t, l, r) == Append(t, l) \o r = t \o (<<l>> \o r)

LEMMA UnaMas ==
    ASSUME NEW S, NEW t \in Seq(S), NEW l \in S, NEW r \in Seq(S)
    PROVE Adelantada(t, l, r)
<1>1. <<l>> \in Seq(S) /\ Append(t, l) = t \o <<l>>
  <2>1. <<l>> \in Seq(S)
    OBVIOUS
  <2>2. Append(t, l) = t \o <<l>>
    BY AppendIsConcat
  <2>. QED BY <2>1, <2>2
<1> DEFINE u == <<l>>
<1>. HIDE DEF u
<1>2. Asocian(t, u, r)
  BY <1>1, Asociados DEF u
<1>. QED BY <1>1, <1>2 DEF Asocian, u, Adelantada

(* One round of functionExecution, seen from the path.                     *)
EnRonda(e, g, d, linea) ==
    /\ g \in Seq(Marcos) /\ e \in Marcos /\ d \in Marcos
    /\ d.functionName = e.functionName /\ d.PC = e.PC + 1
    /\ e.PC < Len(Programa[e.functionName])
    /\ linea \in STRING /\ element # <<>> /\ ~ EnFinFuncion(e) /\ ~ corte
    /\ Camino(stack, element) = Append(g \o stack, e)
    /\ UNCHANGED <<Programa, PC>>
    /\ linea \notin Funciones =>
          /\ Camino(stack', element') = Append(g \o stack, d)
          /\ traza' = Append(traza, linea)
    /\ linea \in Funciones =>
          /\ newElement(linea, e.PC + 1) \in Marcos
          /\ Camino(stack', element')
                = Append(Append(g, d) \o stack, newElement(linea, e.PC + 1))
          /\ traza' = traza

LEMMA Ronda ==
    ASSUME TypeOK, FuncionAvanza
    PROVE LET e == Last(element)
          IN  EnRonda(e, Front(element), [Last(element) EXCEPT !.PC = @ + 1],
                      Programa[e.functionName][e.PC + 1])
<1> DEFINE e     == Last(element)
           g     == Front(element)
           d     == [Last(element) EXCEPT !.PC = @ + 1]
           linea == Programa[e.functionName][e.PC + 1]
           sigue == [element EXCEPT ![Len(element)].PC = @ + 1]
           x     == newElement(linea, e.PC + 1)
<1>1. /\ element # <<>> /\ ~ EnFinFuncion(element[Len(element)]) /\ ~ corte
      /\ PC' = PC /\ stack' = stack /\ Programa' = Programa
  BY DEF FuncionAvanza
<1>2. /\ g \in Seq(Marcos) /\ e \in Marcos /\ e = element[Len(element)]
      /\ element \in Seq(Marcos) /\ stack \in Seq(Marcos)
  BY <1>1, Partida DEF TypeOK
<1>3. /\ d \in Marcos /\ sigue = Append(g, d)
      /\ d.functionName = e.functionName /\ d.PC = e.PC + 1
  <2>. HIDE DEF sigue, d
  <2>. QED BY <1>1, UnaVuelta DEF sigue, d
<1>4. IF linea \in Funciones
      THEN element' = Append(sigue, x) /\ traza' = traza
      ELSE element' = sigue /\ traza' = Append(traza, linea)
  <2>1. LET c == element[Len(element)]
            l == Programa[c.functionName][c.PC + 1]
        IN  IF l \in Funciones
            THEN element' = Append(sigue, newElement(l, c.PC + 1))
                 /\ traza' = traza
            ELSE element' = sigue /\ traza' = Append(traza, l)
    BY DEF FuncionAvanza
  <2>. QED BY <1>2, <2>1
<1>. HIDE DEF sigue, x, e, g, d, linea
<1>5. /\ e.functionName \in Bloques /\ e.PC \in Nat
      /\ e.PC <= Len(Programa[e.functionName])
      /\ e.PC # Len(Programa[e.functionName])
      /\ Programa \in Programas
      /\ Programa[e.functionName] \in Seq(STRING)
  <2>1. /\ e.functionName \in Bloques /\ e.PC \in Nat
        /\ e.PC <= Len(Programa[e.functionName])
    BY <1>2, UnMarco
  <2>. QED BY <1>1, <1>2, <2>1, ProgramaAssumption DEF TypeOK, EnFinFuncion
<1>6. /\ e.PC + 1 \in Nat /\ linea \in STRING
      /\ e.PC < Len(Programa[e.functionName])
  <2>1. e.PC + 1 \in Nat /\ e.PC < Len(Programa[e.functionName])
    BY <1>5
  <2>. QED BY <1>5, <2>1, UnaLinea DEF linea
<1>7. Camino(stack, element) = Append(g \o stack, e)
  BY <1>1 DEF Camino, e, g
<1>8. ASSUME linea \notin Funciones
      PROVE /\ Camino(stack', element') = Append(g \o stack, d)
            /\ traza' = Append(traza, linea)
  <2>1. element' = Append(g, d) /\ traza' = Append(traza, linea)
    BY <1>3, <1>4, <1>8
  <2>2. Front(Append(g, d)) = g /\ Last(Append(g, d)) = d
        /\ Append(g, d) # <<>>
    BY <1>2, <1>3, FrenteDeAppend
  <2>3. Camino(stack, Append(g, d)) = Append(g \o stack, d)
    BY <2>2 DEF Camino
  <2>. QED BY <1>1, <2>1, <2>3
<1>9. ASSUME linea \in Funciones
      PROVE /\ x \in Marcos /\ traza' = traza
            /\ Camino(stack', element') = Append(Append(g, d) \o stack, x)
  <2>1. element' = Append(Append(g, d), x) /\ traza' = traza
    BY <1>3, <1>4, <1>9
  <2>2. x \in Marcos
    BY <1>6, <1>9, MarcoNuevo DEF x
  <2>3. Append(g, d) \in Seq(Marcos)
    BY <1>2, <1>3
  <2> DEFINE h == Append(g, d)
  <2>4. h \in Seq(Marcos)
    BY <2>3
  <2>. HIDE DEF h
  <2>5. Front(Append(h, x)) = h /\ Last(Append(h, x)) = x
        /\ Append(h, x) # <<>>
    BY <2>2, <2>4, FrenteDeAppend
  <2>6. Camino(stack, Append(h, x)) = Append(h \o stack, x)
    BY <2>5 DEF Camino
  <2>. QED BY <1>1, <2>1, <2>2, <2>6 DEF h
<1>10. element # <<>> /\ ~ EnFinFuncion(e) /\ ~ corte
  BY <1>1, <1>2
<1>11. EnRonda(e, g, d, linea)
  BY <1>1, <1>2, <1>3, <1>6, <1>7, <1>8, <1>9, <1>10 DEF EnRonda, x
<1>. QED BY <1>11 DEF e, g, d, linea

LEMMA Tipos ==
    ASSUME TypeOK
    PROVE /\ Programa \in Programas /\ PC \in Nat /\ traza \in Seq(STRING)
          /\ Marcos = MarcosDe(Programa)
          /\ stack \in Seq(Marcos) /\ element \in Seq(Marcos)
          /\ Camino(stack, element) \in Seq(Marcos)
<1>1. stack \in Seq(Marcos) /\ element \in Seq(Marcos)
  BY DEF TypeOK
<1>2. Camino(stack, element) \in Seq(Marcos)
  <2>1. CASE element = <<>>
    BY <1>1, <2>1 DEF Camino
  <2>2. CASE element # <<>>
    <3>1. Front(element) \in Seq(Marcos) /\ Last(element) \in Marcos
      BY <1>1, <2>2, Partida
    <3>2. Front(element) \o stack \in Seq(Marcos)
      BY <1>1, <3>1, ConcatProperties
    <3>3. Append(Front(element) \o stack, Last(element)) \in Seq(Marcos)
      BY <3>1, <3>2
    <3>. QED BY <2>2, <3>3 DEF Camino
  <2>. QED BY <2>1, <2>2
<1>. QED BY <1>1, <1>2, LosMarcos DEF TypeOK

(* Every step executes what it takes from what was left.                   *)
Igual ==
    /\ Ordenada => Todo' = Todo
    /\ \A x : Ocurren(Todo', x) = Ocurren(Todo, x)

LEMMA IgualSi == ASSUME Todo' = Todo PROVE Igual
  BY DEF Igual

LEMMA Avanza_Programa ==
    ASSUME SinRecursion, TypeOK, ProgramaAvanza
    PROVE Todo' = Todo
<1> DEFINE P     == Programa
           linea == P["programa"][PC + 1]
           x     == Sentencias(P, Recorridos(P), "programa", PC + 1)
           r     == Resta(P, PC + 1, <<>>)
           z     == newElement(linea, PC + 1)
<1>1. /\ element = <<>> /\ stack = <<>> /\ stack' = <<>> /\ PC' = PC + 1
      /\ Programa' = P
      /\ IF linea \in Funciones THEN element' = <<z>> /\ traza' = traza
                                ELSE /\ element' = element
                                     /\ traza' = Append(traza, linea)
  BY DEF ProgramaAvanza
<1>2. /\ P \in Programas /\ PC \in Nat /\ traza \in Seq(STRING)
      /\ Marcos = MarcosDe(P)
  BY Tipos
<1>3. PC + 1 \in Nat /\ PC < Len(P["programa"]) /\ linea \in STRING
  <2>1. /\ P["programa"] \in Seq(STRING) /\ "programa" \in Bloques
        /\ PC <= Len(P["programa"]) /\ PC # Len(P["programa"])
    BY <1>2, ProgramaAssumption
       DEF TypeOK, Bloques, ProgramaAvanza, EnFinPrograma
  <2>2. PC + 1 \in Nat /\ PC < Len(P["programa"])
    BY <1>2, <2>1
  <2>. QED BY <1>2, <2>1, <2>2, UnaLinea
<1>4. Camino(stack, element) = <<>> /\ Todo = traza \o Resta(P, PC, <<>>)
  BY <1>1 DEF Camino, Todo
<1>5. x \in Seq(STRING) /\ Resta(P, PC, <<>>) = x \o r
  BY <1>2, <1>3, RestaPrograma
<1>6. <<>> \in Seq(MarcosDe(P)) /\ r \in Seq(STRING)
  <2>1. <<>> \in Seq(MarcosDe(P))
    OBVIOUS
  <2>. QED BY <1>2, <1>3, <2>1, RestaTipo
<1>7. CASE linea \in Funciones
  <2>1. z \in MarcosDe(P)
    BY <1>2, <1>3, <1>7, MarcoNuevo
  <2>2. Camino(stack', element') = Append(<<>>, z)
    <3>1. element' = Append(<<>>, z)
      BY <1>1, <1>7, <2>1
    <3>. HIDE DEF z
    <3>2. /\ Front(Append(<<>>, z)) = <<>> /\ Last(Append(<<>>, z)) = z
          /\ Append(<<>>, z) # <<>>
      BY <1>6, <2>1, FrenteDeAppend
    <3>3. <<>> \o <<>> = <<>>
      BY <1>6, Frentes
    <3>. QED BY <1>1, <3>1, <3>2, <3>3 DEF Camino
  <2>3. Resta(P, PC + 1, Append(<<>>, z)) = Recorridos(P)[linea] \o r
    BY <1>2, <1>3, <1>6, <1>7, <2>1, RestaLlamada
  <2>4. x = Recorridos(P)[linea]
    BY <1>7 DEF Sentencias
  <2>. HIDE DEF x, r, z
  <2>5. Todo' = traza \o (x \o r)
    BY <1>1, <1>7, <2>2, <2>3, <2>4 DEF Todo
  <2>. QED BY <1>4, <1>5, <2>5
<1>8. CASE linea \notin Funciones
  <2>1. Camino(stack', element') = <<>>
    BY <1>1, <1>8 DEF Camino
  <2>2. x = <<linea>>
    BY <1>8 DEF Sentencias
  <2>. HIDE DEF x, r
  <2>3. Todo' = Append(traza, linea) \o r
    BY <1>1, <1>8, <2>1 DEF Todo, r
  <2>4. Append(traza, linea) \o r = traza \o (<<linea>> \o r)
    <3>. HIDE DEF linea
    <3>1. Adelantada(traza, linea, r)
      BY <1>2, <1>3, <1>6, UnaMas
    <3>. QED BY <3>1 DEF Adelantada
  <2>. QED BY <1>4, <1>5, <2>2, <2>3, <2>4
<1>. QED BY <1>7, <1>8

LEMMA Avanza_Funcion ==
    ASSUME SinRecursion, IInv, FuncionAvanza
    PROVE Igual
<1> DEFINE P     == Programa
           e     == Last(element)
           g     == Front(element)
           d     == [Last(element) EXCEPT !.PC = @ + 1]
           linea == P[e.functionName][e.PC + 1]
           c     == g \o stack
           x     == Sentencias(P, Recorridos(P), e.functionName, e.PC + 1)
           r     == Resta(P, PC, Append(c, d))
           z     == newElement(linea, e.PC + 1)
<1>0. TypeOK /\ Formas /\ EnCadena
  BY DEF IInv
<1>1. /\ P \in Programas /\ PC \in Nat /\ traza \in Seq(STRING)
      /\ Marcos = MarcosDe(P) /\ stack \in Seq(MarcosDe(P))
  BY <1>0, Tipos
<1>2. /\ g \in Seq(Marcos) /\ e \in Marcos /\ d \in Marcos
      /\ d.functionName = e.functionName /\ d.PC = e.PC + 1
      /\ e.PC < Len(P[e.functionName])
      /\ linea \in STRING /\ element # <<>> /\ ~ EnFinFuncion(e) /\ ~ corte
      /\ Camino(stack, element) = Append(c, e)
      /\ UNCHANGED <<Programa, PC>>
      /\ linea \notin Funciones =>
            /\ Camino(stack', element') = Append(c, d)
            /\ traza' = Append(traza, linea)
      /\ linea \in Funciones =>
            /\ z \in Marcos
            /\ Camino(stack', element') = Append(Append(g, d) \o stack, z)
            /\ traza' = traza
  BY <1>0, Ronda DEF EnRonda
<1>3. c \in Seq(MarcosDe(P))
  <2>. HIDE DEF g
  <2>. QED BY <1>1, <1>2, ConcatProperties
<1>. HIDE DEF c, d, g
<1>4. x \in Seq(STRING) /\ Resta(P, PC, Append(c, e)) = x \o r
  <2>. HIDE DEF e
  <2>. QED BY <1>1, <1>2, <1>3, RestaLinea DEF x, r
<1>5. Append(c, d) \in Seq(MarcosDe(P)) /\ r \in Seq(STRING)
  <2>1. Append(c, d) \in Seq(MarcosDe(P))
    BY <1>1, <1>2, <1>3
  <2>. QED BY <1>1, <2>1, RestaTipo
<1>. HIDE DEF e, r
<1>6. Todo = traza \o (x \o r)
  BY <1>2, <1>4 DEF Todo
<1>7. CASE linea \notin Funciones
  <2>1. x = <<linea>>
    BY <1>7 DEF Sentencias
  <2>. HIDE DEF x, linea
  <2>2. Todo' = Append(traza, linea) \o r
    BY <1>2, <1>7 DEF Todo, r
  <2>3. Append(traza, linea) \o r = traza \o (<<linea>> \o r)
    <3>1. /\ traza \in Seq(STRING) /\ linea \in STRING
          /\ r \in Seq(STRING)
      BY <1>1, <1>2, <1>5
    <3>2. Adelantada(traza, linea, r)
      BY <3>1, UnaMas
    <3>. QED BY <3>2 DEF Adelantada
  <2>4. Todo' = Todo
    BY <1>6, <2>1, <2>2, <2>3
  <2>. QED BY <2>4, IgualSi
<1>8. CASE linea \in Funciones
  <2> DEFINE h == Append(g, d)
             y == Resta(P, PC, h \o stack)
  <2>1. x = Recorridos(P)[linea]
    BY <1>8 DEF Sentencias
  <2>. HIDE DEF x
  <2>2. h \in Seq(MarcosDe(P)) /\ h \o stack \in Seq(MarcosDe(P))
    <3>1. h \in Seq(MarcosDe(P))
      BY <1>1, <1>2
    <3>. HIDE DEF h
    <3>. QED BY <1>1, <3>1, ConcatProperties
  <2>3. y \in Seq(STRING)
    BY <1>1, <2>2, RestaTipo
  <2>4. Resta(P, PC, Append(h \o stack, z)) = x \o y
    <3>1. z \in MarcosDe(P)
      BY <1>1, <1>2, <1>8
    <3>. HIDE DEF h, linea
    <3>. QED BY <1>1, <1>8, <2>1, <2>2, <3>1, RestaLlamada
  <2>5. Todo' = traza \o (x \o y)
    <3>. HIDE DEF z, linea, y
    <3>. QED BY <1>2, <1>8, <2>4 DEF Todo
  <2>6. ASSUME Ordenada PROVE Todo' = Todo
    <3>1. DosNiveles \/ cortes = 0
      BY <1>2, <2>6 DEF Ordenada
    <3>2. stack = <<>>
      BY <1>0, <1>2, <1>8, <3>1, LlamadaSola DEF e
    <3>3. h \o stack = h /\ c = g
      BY <1>1, <1>2, <2>2, <3>2, Frentes DEF c
    <3>4. y = r
      BY <3>3 DEF r
    <3>. QED BY <1>6, <2>5, <3>4
  <2>7. ASSUME NEW u PROVE Ocurren(Todo', u) = Ocurren(Todo, u)
    <3>1. Ocurren(y, u) = Ocurren(r, u)
      <4>1. g \in Seq(MarcosDe(P)) /\ d \in MarcosDe(P)
        BY <1>1, <1>2
      <4>. QED BY <1>1, <4>1, RestaCuenta DEF r, c
    <3>. HIDE DEF y
    <3>2. Ocurren(x \o y, u) = Ocurren(x, u) + Ocurren(y, u)
      BY <1>4, <2>3, OcurrenJuntas
    <3>3. Ocurren(x \o r, u) = Ocurren(x, u) + Ocurren(r, u)
      BY <1>4, <1>5, OcurrenJuntas
    <3> DEFINE p == x \o y
               q == x \o r
    <3>4. p \in Seq(STRING) /\ q \in Seq(STRING)
      BY <1>4, <1>5, <2>3, ConcatProperties
    <3>5. Ocurren(p, u) = Ocurren(q, u)
      BY <3>1, <3>2, <3>3
    <3>. HIDE DEF p, q
    <3>6. Ocurren(traza \o p, u) = Ocurren(traza, u) + Ocurren(p, u)
      BY <1>1, <3>4, OcurrenJuntas
    <3>7. Ocurren(traza \o q, u) = Ocurren(traza, u) + Ocurren(q, u)
      BY <1>1, <3>4, OcurrenJuntas
    <3>. QED BY <1>6, <2>5, <3>5, <3>6, <3>7 DEF p, q
  <2>. QED BY <2>6, <2>7 DEF Igual
<1>. QED BY <1>7, <1>8

LEMMA Vuelve_Funcion ==
    ASSUME SinRecursion, TypeOK, FuncionVuelve
    PROVE Todo' = Todo
<1> DEFINE P == Programa
           e == Last(element)
           g == Front(element)
           s == Guarda(stack, e)
           c == g \o stack
<1>1. /\ P \in Programas /\ PC \in Nat
      /\ Marcos = MarcosDe(P) /\ stack \in Seq(MarcosDe(P))
      /\ element \in Seq(MarcosDe(P))
  BY Tipos
<1>2. element # <<>> /\ PC' = PC /\ traza' = traza /\ Programa' = P
  BY DEF FuncionVuelve
<1>3. g \in Seq(MarcosDe(P)) /\ e \in MarcosDe(P)
  BY <1>1, <1>2, Partida
<1>4. Camino(stack', element') = g \o s
  BY DeVuelta
<1>5. Camino(stack, element) = Append(c, e)
  BY <1>2 DEF Camino
<1>6. c \in Seq(MarcosDe(P))
  <2>. HIDE DEF g
  <2>. QED BY <1>1, <1>3, ConcatProperties
<1>7. Resta(P, PC, g \o s) = Resta(P, PC, Append(c, e))
  <2>1. CASE EnFinFuncion(e)
    <3>1. s = stack /\ e.PC = Len(P[e.functionName])
      BY <2>1 DEF Guarda, EnFinFuncion
    <3>2. g \o s = c
      BY <3>1
    <3>. HIDE DEF c, e
    <3>. QED BY <1>1, <1>3, <1>6, <3>1, <3>2, RestaFin
  <2>2. CASE ~ EnFinFuncion(e)
    <3>1. s = Append(stack, e)
      BY <2>2 DEF Guarda
    <3>. HIDE DEF g, e
    <3>2. g \o Append(stack, e) = Append(g \o stack, e)
      BY <1>1, <1>3, ConAppend
    <3>. QED BY <3>1, <3>2
  <2>. QED BY <2>1, <2>2
<1>. HIDE DEF g, e, s, c
<1>. QED BY <1>2, <1>4, <1>5, <1>7 DEF Todo

(* Nothing is lost nor repeated by any step.                               *)
LEMMA PasoTodo == SinRecursion /\ IInv /\ [Next]_vars => Igual
<1>. SUFFICES ASSUME SinRecursion, IInv, [Next]_vars PROVE Igual
  OBVIOUS
<1>1. TypeOK /\ Formas
  BY DEF IInv
<1>2. CASE ProcerToma
  <2>1. element = <<>> /\ UNCHANGED <<Programa, PC, traza>>
    BY <1>1, <1>2 DEF ProcerToma, Formas
  <2>2. Camino(stack', element') = Camino(stack, element)
    BY <1>1, <1>2, <2>1, CaminoIgual DEF ProcerToma
  <2>. QED BY <2>1, <2>2, IgualSi DEF Todo
<1>3. CASE ProgramaPendiente
  <2>1. element = <<>> /\ UNCHANGED <<Programa, PC, traza>>
    BY <1>3 DEF ProgramaPendiente
  <2>2. Camino(stack', element') = Camino(stack, element)
    BY <1>1, <1>3, <2>1, CaminoIgual DEF ProgramaPendiente
  <2>. QED BY <2>1, <2>2, IgualSi DEF Todo
<1>4. CASE Corta \/ ProgramaSale \/ UNCHANGED vars
  <2>1. UNCHANGED <<Programa, PC, traza, stack, element>>
    BY <1>4 DEF Corta, ProgramaSale, vars
  <2>. QED BY <2>1, IgualSi DEF Todo
<1>5. CASE ProgramaAvanza
  BY <1>1, <1>5, Avanza_Programa, IgualSi
<1>6. CASE FuncionAvanza
  BY <1>6, Avanza_Funcion
<1>7. CASE FuncionVuelve
  BY <1>1, <1>7, Vuelve_Funcion, IgualSi
<1>. QED BY <1>2, <1>3, <1>4, <1>5, <1>6, <1>7 DEF Next

LEMMA OrdenadaPasa ==
    TypeOK /\ [Next]_vars => /\ Ordenada' => Ordenada
                             /\ Programa' = Programa
<1>. SUFFICES ASSUME TypeOK, [Next]_vars
              PROVE (Ordenada' => Ordenada) /\ Programa' = Programa
  OBVIOUS
<1>1. Programa' = Programa /\ DosNiveles' = DosNiveles
  BY DEF Next, vars, DosNiveles, ProcerToma, Corta, ProgramaPendiente,
         ProgramaAvanza, ProgramaSale, FuncionAvanza, FuncionVuelve
<1>2. CASE ProcerToma
  BY <1>1, <1>2 DEF ProcerToma, Ordenada
<1>3. CASE Corta
  <2>1. cortes \in Nat /\ cortes' = cortes + 1
    BY <1>3 DEF Corta, TypeOK
  <2>2. cortes' # 0 /\ (cortes' = 1 => cortes = 0)
    BY <2>1
  <2>. QED BY <1>1, <2>2 DEF Ordenada
<1>4. CASE UNCHANGED <<corte, cortes>>
  BY <1>1, <1>4 DEF Ordenada
<1>. QED BY <1>1, <1>2, <1>3, <1>4
         DEF Next, vars, ProgramaPendiente, ProgramaAvanza, ProgramaSale,
             FuncionAvanza, FuncionVuelve

EjecucionInv == SinRecursion => EnOrden /\ Contada

LEMMA PasoEjecucion == IInv /\ EjecucionInv /\ [Next]_vars => EjecucionInv'
<1>. SUFFICES ASSUME SinRecursion, IInv, EnOrden, Contada, [Next]_vars
              PROVE EnOrden' /\ Contada'
  BY DEF EjecucionInv
<1>1. (Ordenada' => Ordenada) /\ Programa' = Programa
  BY OrdenadaPasa DEF IInv
<1>2. Recorrido' = Recorrido
  BY <1>1 DEF Recorrido
<1>3. Igual
  BY PasoTodo
<1>4. EnOrden'
  BY <1>1, <1>2, <1>3 DEF EnOrden, Igual
<1>5. Contada'
  BY <1>2, <1>3 DEF Contada, Igual
<1>. QED BY <1>4, <1>5

LEMMA InicioEjecucion == Init => EjecucionInv
<1>. SUFFICES ASSUME SinRecursion, Init PROVE EnOrden /\ Contada
  BY DEF EjecucionInv
<1>1. /\ Programa \in Programas /\ "programa" \in Bloques /\ PC = 0
      /\ traza = <<>> /\ Camino(stack, element) = <<>>
  BY DEF Init, Camino, Bloques
<1>2. /\ Resta(Programa, PC, <<>>) = Recorrido
      /\ Recorrido \in Seq(STRING)
  <2>1. Resta(Programa, 0, <<>>) = Resto(Programa, "programa", 0)
    BY <1>1, RestaNada
  <2>2. Resto(Programa, "programa", 0) = Recorrido
    BY <1>1, RestoTodo DEF Recorrido
  <2>3. Recorrido \in Seq(STRING)
    BY <1>1, RecorridosEs DEF Recorrido
  <2>. QED BY <1>1, <2>1, <2>2, <2>3
<1>3. <<>> \o Recorrido = Recorrido
  BY <1>2, Frentes
<1>4. Todo = Recorrido
  BY <1>1, <1>2, <1>3 DEF Todo
<1>. QED BY <1>4 DEF EnOrden, Contada

-----------------------------------------------------------------------------
LEMMA InicioPila == Init => IInv
<1>. SUFFICES ASSUME Init PROVE IInv
  OBVIOUS
<1>1. Programa \in Programas /\ "programa" \in Bloques
  BY DEF Init, Bloques
<1>2. Programa["programa"] \in Seq(STRING) /\ Len(Programa["programa"]) > 0
  BY <1>1, ProgramaAssumption
<1>3. TypeOK
  <2>1. <<>> \in Seq(Marcos) /\ <<>> \in Seq(STRING)
    OBVIOUS
  <2>2. 0 \in 0 .. Len(Programa["programa"])
    BY <1>2
  <2>. QED BY <1>1, <2>1, <2>2 DEF Init, TypeOK
<1>4. Formas
  BY DEF Init, Formas
<1>5. EnCadena
  <2>1. Camino(stack, element) = <<>>
    BY DEF Init, Camino
  <2>. QED BY <2>1, CadenaVacia DEF EnCadena
<1>. QED BY <1>3, <1>4, <1>5 DEF IInv

(* The frames that the activations of functionExecution and the stack hold *)
(* between them are a chain of calls (IInv), with the types and the shapes *)
(* that need it.                                                           *)
THEOREM PilaCorrecta == Spec => []IInv
<1>1. IInv /\ [Next]_vars => IInv'
  BY PasoTipos, PasoFormas, PasoCadena DEF IInv
<1>. QED BY <1>1, InicioPila, PTL DEF Spec

(* Every frame belongs to a function of the script and no PC is past the   *)
(* end of its block, for any script and any number of interruptions.       *)
THEOREM PilaTipos == Spec => []TypeOK
<1>1. IInv => TypeOK
  BY DEF IInv
<1>. QED BY <1>1, PilaCorrecta, PTL

(* The frames saved between two executions of functionExecution, which the *)
(* message to the client shows, are a chain of calls from the line where   *)
(* the program is: at the first interruption for any depth, later on for   *)
(* two levels of calls.                                                    *)
THEOREM PilaDeLlamadas == Spec => []PilaEncadenada
<1>1. IInv => PilaEncadenada
  <2>. SUFFICES ASSUME IInv, pc = "espera", DosNiveles \/ cortes = 1,
                       NEW i \in DOMAIN stack
                PROVE LET linea == IF i = 1 THEN PC ELSE stack[i - 1].PC
                          b     == IF i = 1 THEN "programa"
                                            ELSE stack[i - 1].functionName
                      IN  /\ stack[i].linecall = linea
                          /\ Programa[b][linea] = stack[i].functionName
    BY DEF PilaEncadenada
  <2>1. element = <<>> /\ (cortes = 1 => corte)
    BY DEF IInv, Formas
  <2>2. Cadena(Programa, PC, stack)
    BY <2>1 DEF IInv, EnCadena, Camino
  <2>3. Llamada(Programa,
                IF i = 1 THEN "programa" ELSE stack[i - 1].functionName,
                IF i = 1 THEN PC ELSE stack[i - 1].PC, stack[i])
    BY <2>2 DEF Cadena
  <2>. QED BY <2>3 DEF Llamada
<1>. QED BY <1>1, PilaCorrecta, PTL

(* The process that ends is one whose program has reached fin_programa.    *)
LEMMA FinDelPrograma == Spec => [](pc = "fin" => EnFinPrograma)
<1> DEFINE J == pc = "fin" => EnFinPrograma
<1>1. Init => J
  BY DEF Init
<1>2. J /\ [Next]_vars => J'
  <2>. SUFFICES ASSUME J, [Next]_vars, pc' = "fin" PROVE EnFinPrograma'
    OBVIOUS
  <2>1. CASE pc = "fin"
    <3>1. Programa' = Programa /\ PC' = PC
      BY <2>1 DEF Next, vars, ProcerToma, Corta, ProgramaPendiente,
                  ProgramaAvanza, ProgramaSale, FuncionAvanza, FuncionVuelve
    <3>. QED BY <2>1, <3>1 DEF EnFinPrograma
  <2>2. CASE pc # "fin"
    <3>1. pc' # pc
      BY <2>2
    <3>2. ~ (Corta \/ ProgramaPendiente \/ ProgramaAvanza \/ FuncionAvanza
               \/ FuncionVuelve \/ UNCHANGED vars \/ ProcerToma)
      BY <3>1 DEF Corta, ProgramaPendiente, ProgramaAvanza, FuncionAvanza,
                  FuncionVuelve, vars, ProcerToma
    <3>3. ProgramaSale
      BY <3>2 DEF Next
    <3>. QED BY <2>2, <3>3 DEF ProgramaSale, EnFinPrograma
  <2>. QED BY <2>1, <2>2
<1>. QED BY <1>1, <1>2, PTL DEF Spec

(* processExecution does not reach fin_programa with a function pending:   *)
(* the program that has ended leaves no frame in processImage->stack,      *)
(* whatever the depth of its calls and the interruptions.                  *)
THEOREM NadaPendiente ==
    Spec => [](EnFinPrograma \/ pc = "fin" => stack = <<>>)
<1>1. IInv /\ (pc = "fin" => EnFinPrograma)
         => (EnFinPrograma \/ pc = "fin" => stack = <<>>)
  BY DEF IInv, Formas
<1>. QED BY <1>1, FinDelPrograma, PilaCorrecta, PTL

-----------------------------------------------------------------------------
(* What was executed and what the frames have left make up the script, at  *)
(* every step, if no function of it calls itself.                          *)
THEOREM EjecucionCorrecta == Spec => []EjecucionInv
  BY InicioEjecucion, PasoEjecucion, PilaCorrecta, PTL DEF Spec

(* With two levels of calls the statements run in the order of the script, *)
(* wherever and however often functionExecution is interrupted and its     *)
(* frames reordered.                                                       *)
THEOREM OrdenDeScripts ==
    ASSUME SinRecursion PROVE Spec => []OrdenEnDosNiveles
<1>1. IInv /\ EjecucionInv => OrdenEnDosNiveles
  <2>. SUFFICES ASSUME IInv, EjecucionInv, DosNiveles PROVE OrdenDeLlamadas
    BY DEF OrdenEnDosNiveles
  <2> DEFINE r == Resta(Programa, PC, Camino(stack, element))
  <2>1. traza \o r = Recorrido
    BY DEF EjecucionInv, EnOrden, Ordenada, Todo
  <2>2. traza \in Seq(STRING) /\ r \in Seq(STRING)
    BY Tipos, RestaTipo DEF IInv
  <2>. HIDE DEF r
  <2>3. IsPrefix(traza, traza \o r)
    BY <2>2, EsPrefijo
  <2>. QED BY <2>1, <2>3 DEF OrdenDeLlamadas
<1>. QED BY <1>1, PilaCorrecta, EjecucionCorrecta, PTL

(* A program that has ended has executed every statement as many times as  *)
(* the script says, for any depth of its calls and any interruptions: the  *)
(* frames that reorderStack moves are neither lost nor resumed twice.      *)
THEOREM TodoEjecutado ==
    ASSUME SinRecursion PROVE Spec => []NadaSePierde
<1>1. IInv /\ EjecucionInv /\ (pc = "fin" => EnFinPrograma) => NadaSePierde
  <2>. SUFFICES ASSUME IInv, EjecucionInv, EnFinPrograma, pc = "fin"
                PROVE /\ stack = <<>>
                      /\ \A x : Veces(traza, x) = Veces(Recorrido, x)
    BY DEF NadaSePierde
  <2>1. stack = <<>> /\ element = <<>> /\ Camino(stack, element) = <<>>
    BY DEF IInv, Formas, Camino
  <2>2. /\ Programa \in Programas /\ PC \in Nat /\ traza \in Seq(STRING)
        /\ "programa" \in Bloques
    BY Tipos DEF IInv, Bloques
  <2>3. Resta(Programa, PC, <<>>) = <<>>
    BY <2>2, RestaNada, RestoNada DEF EnFinPrograma
  <2>4. Todo = traza
    BY <2>1, <2>2, <2>3, Frentes DEF Todo
  <2>. QED BY <2>1, <2>4 DEF EjecucionInv, Contada, Ocurren, Veces
<1>. QED BY <1>1, FinDelPrograma, PilaCorrecta, EjecucionCorrecta, PTL
=============================================================================
