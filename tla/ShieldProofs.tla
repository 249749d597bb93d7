---------------------------- MODULE ShieldProofs ----------------------------
(***************************************************************************)
(* The reloads of SHIELD, for any number of changes of the files, modules  *)
(* and requests of the user.  What the shell is doing is seen through      *)
(* three questions about its stack: which functions are in it, with what   *)
(* next command, and which one is on top.                                  *)
(***************************************************************************)
EXTENDS Shield, SequenceTheorems, WellFoundedInduction, TLAPS

Funciones == {"inicio", "pedido", "USR1", "USR2"}
Recargas  == {"inicio", "pedido", "USR2"}

(* The function f is in the stack, its next command is c, it is on top.    *)
Hay(f)    == \E k \in DOMAIN pila : pila[k].f = f
P(f, c)   == \E k \in DOMAIN pila : pila[k].f = f /\ pila[k].pc = c
Arriba(f) == pila # <<>> /\ Cima.f = f

(* The commands of a reload, in the order of their execution.              *)
Antes     == {"config_listas", "config_nucleo", "kill_verif", "mata_verif",
              "kill_modper", "mata_modper", "detener"}
Parando   == {"d_source", "d_modulo", "unsetear"}
Leyendo   == {"leer_cambios", "leer_modls", "inicializar"}
Iniciando == {"i_source", "i_modulo", "i_test", "falla"}
Lanzando  == {"lanza_modper", "lanza_verif"}
Pasos     == Antes \cup Parando \cup Ventana \cup Leyendo \cup Iniciando
                \cup Lanzando

(* The loop over the words of the list.                                    *)
Lineas == {"r_if", "r_cant", "r_vec"}

(* The first load and a request start on an empty stack, no function is    *)
(* twice in it, and each has the commands of its own.                      *)
Propios(m) ==
    /\ IF m.f = "USR1" THEN m.pc \in {"for", "procesar", "p_test", "falla"}
                       ELSE m.pc \in Pasos
    /\ m.pc \in Lineas => m.resta \subseteq Palabras
Bien == /\ pila \in Seq(Marcos)
        /\ \A j, k \in DOMAIN pila : pila[j].f = pila[k].f => j = k
        /\ \A k \in DOMAIN pila : k > 1 => pila[k].f \in {"USR1", "USR2"}
        /\ \A k \in DOMAIN pila : Propios(pila[k])
Forma == Bien /\ (sesion = "fin" =>
                     pila = <<>> /\ vigias = <<>> /\ periodicos = 0)

-----------------------------------------------------------------------------
(* The least of some numbers is one of them.                               *)
Menor == {p \in Nat \X Nat : p[1] < p[2]}

LEMMA MinEsta ==
    ASSUME NEW S \in SUBSET Nat, S # {} PROVE Min(S) \in S
<1>1. OpToRel(<, Nat) = Menor
  BY DEF OpToRel, Menor
<1>2. IsWellFoundedOn(Menor, Nat)
  BY <1>1, NatLessThanWellFounded
<1>3. PICK n \in S : \A m \in S : ~ (<<m, n>> \in Menor)
  BY <1>2, WFMin
<1>4. ASSUME NEW m \in S PROVE n <= m
  <2>1. m \in Nat /\ n \in Nat /\ ~ (<<m, n>> \in Menor)
    BY <1>3
  <2>2. ~ (m < n)
    BY <2>1 DEF Menor
  <2>. QED BY <2>1, <2>2
<1>. QED BY <1>4 DEF Min

(* The top of a stack.                                                     *)
LEMMA Tope ==
    ASSUME Forma, pila # <<>>
    PROVE /\ Len(pila) \in Nat /\ Len(pila) >= 1
          /\ Len(pila) \in DOMAIN pila /\ DOMAIN pila = 1 .. Len(pila)
          /\ Cima = pila[Len(pila)] /\ Cima \in Marcos /\ Propios(Cima)
<1>1. pila \in Seq(Marcos)
  BY DEF Forma, Bien
<1>2. /\ Len(pila) \in Nat /\ Len(pila) >= 1 /\ Len(pila) \in DOMAIN pila
      /\ DOMAIN pila = 1 .. Len(pila) /\ Cima = pila[Len(pila)]
      /\ Cima \in Marcos
  BY <1>1 DEF Cima, Last
<1>. QED BY <1>2 DEF Forma, Bien

(* The next command of the top, or its locals, change.                     *)
LEMMA Cambia ==
    ASSUME Forma, pila # <<>>, NEW m \in Marcos, m.f = Cima.f, Propios(m),
           pila' = [pila EXCEPT ![Len(pila)] = m]
    PROVE /\ Bien' /\ pila' # <<>> /\ Cima' = m
          /\ DOMAIN pila' = DOMAIN pila /\ pila'[Len(pila)] = m
          /\ \A k \in DOMAIN pila \ {Len(pila)} : pila'[k] = pila[k]
          /\ \A g : Hay(g)' <=> Hay(g)
          /\ \A g : Arriba(g)' <=> Arriba(g)
          /\ \A g, c : P(g, c)' <=> IF g = m.f THEN c = m.pc ELSE P(g, c)
<1> DEFINE n == Len(pila)
<1>1. n \in DOMAIN pila /\ DOMAIN pila = 1 .. n /\ n \in Nat /\ Cima = pila[n]
  BY Tope
<1>2. pila \in Seq(Marcos)
  BY DEF Forma, Bien
<1>3. /\ pila' \in Seq(Marcos) /\ DOMAIN pila' = DOMAIN pila /\ Len(pila') = n
      /\ pila' # <<>>
  BY <1>1, <1>2
<1>4. pila'[n] = m /\ \A k \in DOMAIN pila \ {n} : pila'[k] = pila[k]
  BY <1>1, <1>2
<1>5. Cima' = m
  BY <1>3, <1>4 DEF Cima, Last
<1>. HIDE DEF n
<1>6. \A k \in DOMAIN pila : pila'[k].f = pila[k].f
  BY <1>1, <1>4
<1>7. \A g : (Hay(g)' <=> Hay(g)) /\ (Arriba(g)' <=> Arriba(g))
  BY <1>3, <1>5, <1>6 DEF Hay, Arriba
<1>8. \A j, k \in DOMAIN pila : pila[j].f = pila[k].f => j = k
  BY DEF Forma, Bien
<1>9. ASSUME NEW g, NEW c
      PROVE P(g, c)' <=> IF g = m.f THEN c = m.pc ELSE P(g, c)
  <2>1. CASE g = m.f
    BY <1>1, <1>3, <1>4, <1>8, <2>1 DEF P
  <2>2. CASE g # m.f
    BY <1>1, <1>3, <1>4, <2>2 DEF P
  <2>. QED BY <2>1, <2>2
<1>10. \A j, k \in DOMAIN pila' : pila'[j].f = pila'[k].f => j = k
  BY <1>3, <1>6, <1>8
<1>11. \A k \in DOMAIN pila' : k > 1 => pila'[k].f \in {"USR1", "USR2"}
  BY <1>3, <1>6 DEF Forma, Bien
<1>12. \A k \in DOMAIN pila : Propios(pila'[k])
  BY <1>4 DEF Forma, Bien
<1>13. Bien'
  BY <1>3, <1>10, <1>11, <1>12 DEF Bien, Propios
<1>. QED BY <1>3, <1>4, <1>5, <1>7, <1>9, <1>13 DEF n

(* The top ends.                                                           *)
LEMMA Baja ==
    ASSUME Forma, pila # <<>>, pila' = Front(pila)
    PROVE /\ Bien' /\ DOMAIN pila' = DOMAIN pila \ {Len(pila)}
          /\ \A k \in DOMAIN pila' : pila'[k] = pila[k]
          /\ \A g, c : P(g, c)' <=> g # Cima.f /\ P(g, c)
          /\ \A g : Hay(g)' <=> g # Cima.f /\ Hay(g)
<1> DEFINE n == Len(pila)
<1>1. n \in DOMAIN pila /\ DOMAIN pila = 1 .. n /\ n \in Nat /\ Cima = pila[n]
  BY Tope
<1>2. pila \in Seq(Marcos)
  BY DEF Forma, Bien
<1>3. /\ pila' \in Seq(Marcos) /\ DOMAIN pila' = 1 .. (n - 1)
      /\ \A k \in 1 .. (n - 1) : pila'[k] = pila[k]
  BY <1>1, <1>2 DEF Front
<1>4. DOMAIN pila' = DOMAIN pila \ {n}
  BY <1>1, <1>3
<1>5. \A k \in DOMAIN pila' : pila'[k] = pila[k]
  BY <1>3
<1>6. /\ \A j, k \in DOMAIN pila : pila[j].f = pila[k].f => j = k
      /\ \A k \in DOMAIN pila : k > 1 => pila[k].f \in {"USR1", "USR2"}
      /\ \A k \in DOMAIN pila : Propios(pila[k])
  BY DEF Forma, Bien
<1>. HIDE DEF n
<1>7. Bien'
  <2>1. \A j, k \in DOMAIN pila' : pila'[j].f = pila'[k].f => j = k
    BY <1>4, <1>5, <1>6
  <2>2. \A k \in DOMAIN pila' : k > 1 => pila'[k].f \in {"USR1", "USR2"}
    BY <1>4, <1>5, <1>6
  <2>3. \A k \in DOMAIN pila' : Propios(pila'[k])
    BY <1>4, <1>5, <1>6
  <2>. QED BY <1>3, <2>1, <2>2, <2>3 DEF Bien, Propios
<1>8. \A g, c : P(g, c)' <=> g # Cima.f /\ P(g, c)
  BY <1>1, <1>4, <1>5, <1>6 DEF P
<1>9. \A g : Hay(g)' <=> g # Cima.f /\ Hay(g)
  BY <1>1, <1>4, <1>5, <1>6 DEF Hay
<1>. QED BY <1>4, <1>5, <1>7, <1>8, <1>9 DEF n

(* A trap begins, or a request on the empty stack.                         *)
LEMMA Sube ==
    ASSUME Forma, NEW m \in Marcos, pila' = Append(pila, m), Propios(m),
           ~ Hay(m.f), pila # <<>> => m.f \in {"USR1", "USR2"}
    PROVE /\ Bien' /\ pila' # <<>> /\ Cima' = m
          /\ \E n : /\ n \notin DOMAIN pila
                    /\ DOMAIN pila' = DOMAIN pila \cup {n} /\ pila'[n] = m
                    /\ \A k \in DOMAIN pila : n > k
          /\ \A k \in DOMAIN pila : pila'[k] = pila[k]
          /\ \A g, c : P(g, c)' <=> P(g, c) \/ (g = m.f /\ c = m.pc)
          /\ \A g : Hay(g)' <=> Hay(g) \/ g = m.f
          /\ \A g : Arriba(g)' <=> g = m.f
<1> DEFINE n == Len(pila)
<1>1. pila \in Seq(Marcos) /\ n \in Nat /\ DOMAIN pila = 1 .. n
  BY DEF Forma, Bien
<1>2. /\ pila' \in Seq(Marcos) /\ DOMAIN pila' = 1 .. (n + 1)
      /\ \A k \in 1 .. n : pila'[k] = pila[k]
      /\ pila'[n + 1] = m /\ Len(pila') = n + 1 /\ pila' # <<>>
  BY <1>1
<1>3. n = 0 => pila = <<>>
  BY <1>1
<1>4. Cima' = m
  BY <1>2 DEF Cima, Last
<1>5. \A k \in DOMAIN pila : n + 1 > k
  BY <1>1
<1>. HIDE DEF n
<1>6. /\ DOMAIN pila' = DOMAIN pila \cup {n + 1} /\ n + 1 \notin DOMAIN pila
      /\ \A k \in DOMAIN pila : pila'[k] = pila[k]
  BY <1>1, <1>2
<1>7. /\ \A j, k \in DOMAIN pila : pila[j].f = pila[k].f => j = k
      /\ \A k \in DOMAIN pila : k > 1 => pila[k].f \in {"USR1", "USR2"}
      /\ \A k \in DOMAIN pila : Propios(pila[k])
      /\ \A k \in DOMAIN pila : pila[k].f # m.f
  BY DEF Forma, Bien, Hay
<1>8. \A j, k \in DOMAIN pila' : pila'[j].f = pila'[k].f => j = k
  BY <1>2, <1>6, <1>7
<1>9. \A k \in DOMAIN pila' : k > 1 => pila'[k].f \in {"USR1", "USR2"}
  BY <1>1, <1>2, <1>3, <1>6, <1>7
<1>10. Bien'
  BY <1>2, <1>6, <1>7, <1>8, <1>9 DEF Bien, Propios
<1>11. \A g, c : P(g, c)' <=> P(g, c) \/ (g = m.f /\ c = m.pc)
  BY <1>2, <1>6 DEF P
<1>12. \A g : (Hay(g)' <=> Hay(g) \/ g = m.f) /\ (Arriba(g)' <=> g = m.f)
  BY <1>2, <1>4, <1>6 DEF Hay, Arriba
<1>13. \E i : /\ i \notin DOMAIN pila
              /\ DOMAIN pila' = DOMAIN pila \cup {i} /\ pila'[i] = m
              /\ \A k \in DOMAIN pila : i > k
  <2>1. /\ n + 1 \notin DOMAIN pila
        /\ DOMAIN pila' = DOMAIN pila \cup {n + 1} /\ pila'[n + 1] = m
        /\ \A k \in DOMAIN pila : n + 1 > k
    BY <1>2, <1>5, <1>6
  <2>. QED BY <2>1
<1>. QED BY <1>2, <1>4, <1>6, <1>10, <1>11, <1>12, <1>13

-----------------------------------------------------------------------------
(* How many jobs are missing before the command c of a reload, which has   *)
(* the modules stopped in some of its commands.  The first load begins at  *)
(* r_cero.                                                                 *)
Detenidos == Parando \cup Ventana \cup Leyendo \cup Iniciando
Primeros  == (Ventana \ {"u_unset", "u_confs"}) \cup Leyendo \cup Iniciando
                \cup Lanzando

Cupo == 1 + IF anidada THEN 1 ELSE 0
FaltaP(c) == IF c \in Detenidos \cup {"detener", "lanza_modper"} THEN 1 ELSE 0
FaltaV(c) == IF c \in {"config_listas", "config_nucleo", "kill_verif",
                       "mata_verif"} THEN 0 ELSE 1

CuentasInv ==
    /\ \A c \in Pasos : P("inicio", c) =>
          /\ c \in Primeros
          /\ vigias = <<>> /\ periodicos + FaltaP(c) = 1
          /\ "USR2" \notin pend /\ ~ Hay("USR2") /\ ~ anidada
    /\ Hay("pedido") /\ Hay("USR2") => anidada
    /\ sesion = "viva" /\ ~ Recargando =>
          /\ 1 <= periodicos /\ periodicos <= Cupo
          /\ 1 <= Len(vigias) /\ Len(vigias) <= Cupo
    /\ \A c \in Pasos :
          \/ P("pedido", c) /\ ~ Hay("USR2")
          \/ P("USR2", c) /\ ~ Hay("pedido")
          => /\ 1 <= periodicos + FaltaP(c) /\ periodicos + FaltaP(c) <= Cupo
             /\ 1 <= Len(vigias) + FaltaV(c) /\ Len(vigias) + FaltaV(c) <= Cupo
    /\ \A b, c \in Pasos : P("pedido", b) /\ P("USR2", c) =>
          /\ periodicos + FaltaP(b) + FaltaP(c) <= Cupo
          /\ Len(vigias) + FaltaV(b) + FaltaV(c) <= Cupo
          /\ c = "lanza_verif" => 1 <= periodicos

(* While the modules are stopped the reload is on top of the stack, with   *)
(* no USR1 that could be attended, unless it has been interrupted.         *)
SinUSR1 == "USR1" \in pend => Hay("USR1")

InicioInv ==
    ~ anidada => /\ ~ mezclada
                 /\ \A g \in Recargas : \A c \in Detenidos :
                       P(g, c) => Arriba(g) /\ SinUSR1

(* What the shell kept of a file is never newer than the file, so a file   *)
(* that is what was kept has not been modified since; what was read from   *)
(* it after it was kept is then what it says.                              *)
Names == {vec[k] : k \in DOMAIN vec}
Lista == foto["listas"].on

K(x) == foto["nucleo"] = archivos["nucleo"]
           => cargado[x] = archivos["nucleo"].v

Leyo(k) == /\ iniciados[vec[k]] > 0
           /\ foto["confs"] = archivos["confs"]
                 => iniciados[vec[k]] = archivos["confs"].v

Arrancados == \A k \in DOMAIN vec : iniciados[vec[k]] > 0

TodosLeidos == \A k \in DOMAIN vec : Leyo(k)

Unicos == \A j, k \in DOMAIN vec : vec[j] = vec[k] => j = k

(* Each word of the list has a name or is one of S; none is twice.         *)
Faltan(S) == /\ Unicos /\ Names \cap S = {}
             /\ Lista \ {0} = Names \cup (S \ {0})

Falta(R) == linea \notin R /\ Faltan(R \cup {linea})

Todas == Unicos /\ Names = Lista \ {0}

Numerada == DOMAIN vec = 1 .. cant

(* What a reload with the frame m knows before each of its commands.       *)
Leidos == Numerada /\ Todas /\ K("cambios") /\ K("modls")

Sabe(m) ==
    /\ m.pc \in Antes => Numerada /\ (~ anidada => Arrancados)
    /\ m.pc \in Parando => Numerada
    /\ m.pc = "u_unset" =>
          DOMAIN vec = m.resta \cup {indice} /\ indice \notin m.resta
    /\ m.pc \in {"u_confs", "r_cero"} => DOMAIN vec = {}
    /\ m.pc \in {"r_listas", "r_nucleo", "r_confs", "r_cola"} =>
          DOMAIN vec = {} /\ cant = 0
    /\ m.pc = "r_for" => DOMAIN vec = {} /\ cant = 0 /\ cola = Lista
    /\ m.pc = "r_if" => Numerada /\ Falta(m.resta)
    /\ m.pc = "r_cant" => Numerada /\ Falta(m.resta) /\ linea # 0
    /\ m.pc = "r_vec" => /\ cant >= 1 /\ DOMAIN vec = 1 .. (cant - 1)
                         /\ Falta(m.resta) /\ linea # 0
    /\ m.pc = "leer_cambios" => Numerada /\ Todas
    /\ m.pc = "leer_modls" => Numerada /\ Todas /\ K("cambios")
    /\ m.pc \in {"inicializar"} \cup Iniciando \cup Lanzando => Leidos
    /\ m.pc = "i_source" => \A k \in DOMAIN vec :
                               k \notin m.resta \cup {dir} => Leyo(k)
    /\ m.pc = "i_modulo" => \A k \in DOMAIN vec :
                               k \notin m.resta /\ vec[k] # m.modulo => Leyo(k)
    /\ m.pc = "i_test" => \A k \in DOMAIN vec : k \notin m.resta => Leyo(k)
    /\ m.pc \in Lanzando => TodosLeidos

(* Of two reloads only the one that interrupted the other counts.          *)
Manda(m) ==
    /\ \E k \in DOMAIN pila : pila[k] = m
    /\ m.f \in Recargas /\ (m.f = "USR2" \/ ~ Hay("USR2"))

Reposo == Leidos /\ TodosLeidos /\ \E i \in DOMAIN vigias : vigias[i] = foto

(* Where a trap has not come without mezclada.                             *)
Orden == \A j, k \in DOMAIN pila : j < k =>
            /\ pila[k].f = "USR1" => pila[j].pc # "i_source"
            /\ pila[k].f = "USR2" /\ pila[j].f = "pedido" =>
                  pila[j].pc \notin Ventana

Fecha == \A f \in Archivos : foto[f].v <= archivos[f].v /\ archivos[f].v >= 1

LecturaInv ==
    /\ Fecha
    /\ ~ mezclada =>
          /\ Orden
          /\ \A m \in Marcos : Manda(m) => Sabe(m)
          /\ sesion = "viva" /\ ~ Recargando => Reposo

-----------------------------------------------------------------------------
(* The command under way belongs to the function on top.                   *)
LEMMA EnCurso ==
    ASSUME Forma, NEW c, En(c)
    PROVE /\ pila # <<>> /\ Cima \in Marcos /\ Cima.pc = c
          /\ Cima.f \in Funciones /\ Cima.resta \in SUBSET Nat
          /\ Cima.modulo \in Palabras
          /\ c \in Lineas => Cima.resta \subseteq Palabras
          /\ c \in Pasos \ {"falla"} => Cima.f \in Recargas
          /\ c \in {"for", "p_test", "procesar"} => Cima.f = "USR1"
          /\ Arriba(Cima.f) /\ P(Cima.f, c) /\ Hay(Cima.f)
          /\ sesion = "viva"
          /\ c \notin {"mata_verif", "mata_modper"} => SinUSR1
<1>1. pila # <<>> /\ Cima.pc = c /\ sesion = "viva"
  BY DEF En
<1>2. /\ Cima \in Marcos /\ Cima = pila[Len(pila)]
      /\ Len(pila) \in DOMAIN pila /\ Propios(Cima)
  BY <1>1, Tope
<1>3. /\ Cima.f \in Funciones /\ Cima.resta \in SUBSET Nat
      /\ Cima.modulo \in Palabras
  BY <1>2 DEF Marcos, Funciones
<1>4. c \in Pasos \ {"falla"} => Cima.f \in Recargas
  <2>1. {"for", "procesar", "p_test", "falla"} \cap (Pasos \ {"falla"}) = {}
    BY DEF Pasos, Antes, Parando, Ventana, Leyendo, Iniciando, Lanzando
  <2>. QED BY <1>1, <1>2, <1>3, <2>1 DEF Propios, Funciones, Recargas
<1>5. c \in {"for", "p_test", "procesar"} => Cima.f = "USR1"
  <2>1. {"for", "p_test", "procesar"} \cap Pasos = {}
    BY DEF Pasos, Antes, Parando, Ventana, Leyendo, Iniciando, Lanzando
  <2>. QED BY <1>1, <1>2, <2>1 DEF Propios
<1>6. Arriba(Cima.f) /\ P(Cima.f, c) /\ Hay(Cima.f)
  BY <1>1, <1>2 DEF Arriba, P, Hay
<1>7. c \in Lineas => Cima.resta \subseteq Palabras
  BY <1>1, <1>2 DEF Propios
<1>8. c \notin {"mata_verif", "mata_modper"} => SinUSR1
  BY <1>1 DEF En, Atendible, Matando, SinUSR1, Hay
<1>. QED BY <1>1, <1>2, <1>3, <1>4, <1>5, <1>6, <1>7, <1>8

(* The step of a reload from its command c to d.                           *)
Va(c, d) ==
    /\ En(c)
    /\ \E R \in SUBSET Nat, m \in Palabras :
          Pon(d, R, m) /\ (d \in Lineas => R \subseteq Palabras)

LEMMA Avanza ==
    ASSUME Forma, NEW c \in Pasos \ {"falla"}, NEW d \in Pasos, En(c),
           NEW R \in SUBSET Nat, NEW m \in Palabras, Pon(d, R, m),
           d \in Lineas => R \subseteq Palabras
    PROVE /\ Bien' /\ pila' # <<>>
          /\ Cima' = [f |-> Cima.f, pc |-> d, resta |-> R, modulo |-> m]
          /\ DOMAIN pila' = DOMAIN pila /\ pila'[Len(pila)] = Cima'
          /\ \A k \in DOMAIN pila \ {Len(pila)} : pila'[k] = pila[k]
          /\ \A g : Hay(g)' <=> Hay(g)
          /\ \A g : Arriba(g)' <=> Arriba(g)
          /\ \A g, e : P(g, e)' <=> IF g = Cima.f THEN e = d ELSE P(g, e)
<1> DEFINE x == [f |-> Cima.f, pc |-> d, resta |-> R, modulo |-> m]
<1>1. /\ pila # <<>> /\ Cima \in Marcos /\ Cima.f \in Recargas
      /\ Cima = pila[Len(pila)]
  BY EnCurso, Tope
<1>2. d \in Comandos
  BY DEF Pasos, Comandos, Antes, Parando, Leyendo, Iniciando, Lanzando
<1>3. x \in Marcos /\ x.f = Cima.f /\ x.pc = d
  BY <1>1, <1>2 DEF Marcos
<1>4. Propios(x)
  BY <1>1 DEF Propios, Recargas
<1>5. pila' = [pila EXCEPT ![Len(pila)] = x]
  BY <1>1 DEF Pon
<1>. HIDE DEF x
<1>6. /\ Bien' /\ pila' # <<>> /\ Cima' = x
      /\ DOMAIN pila' = DOMAIN pila /\ pila'[Len(pila)] = x
      /\ \A k \in DOMAIN pila \ {Len(pila)} : pila'[k] = pila[k]
      /\ \A g : Hay(g)' <=> Hay(g)
      /\ \A g : Arriba(g)' <=> Arriba(g)
      /\ \A g, e : P(g, e)' <=> IF g = x.f THEN e = x.pc ELSE P(g, e)
  BY <1>1, <1>3, <1>4, <1>5, Cambia
<1>. QED BY <1>3, <1>6 DEF x

(* What the steps outside the shell do to the stack: nothing; what the end *)
(* does: there is none.                                                    *)
LEMMA Quieta ==
    ASSUME UNCHANGED pila
    PROVE /\ \A g : (Hay(g)' <=> Hay(g)) /\ (Arriba(g)' <=> Arriba(g))
          /\ \A g, c : P(g, c)' <=> P(g, c)
          /\ Bien => Bien'
  BY DEF Hay, Arriba, P, Cima, Bien, Propios

(* The loops.                                                              *)
LEMMA Bucles ==
    ASSUME TypeOK, NEW S \in SUBSET Nat, NEW c, NEW e, NEW x \in Nat
    PROVE /\ ParaDir(S, x, c, e) =>
                \/ S = {} /\ Pon(e, {}, 0) /\ dir' = x
                \/ S # {} /\ dir' \in S /\ Pon(c, S \ {dir'}, 0)
          /\ ParaIndice(S) =>
                \/ S = {} /\ Pon("u_confs", {}, 0) /\ indice' = indice
                \/ S # {} /\ indice' \in S /\ Pon("u_unset", S \ {indice'}, 0)
          /\ ParaLinea(S) =>
                \/ S = {} /\ Pon("leer_cambios", {}, 0) /\ linea' = linea
                \/ S # {} /\ linea' \in S /\ Pon("r_if", S \ {linea'}, 0)
          /\ ParaPeriodicos(S) =>
                \/ S = {} /\ pila' = Front(pila) /\ dir' = dir
                \/ S # {} /\ dir' \in S /\ Pon("procesar", S \ {dir'}, 0)
<1>1. S # {} => Min(S) \in S
  BY MinEsta
<1>. QED BY <1>1 DEF ParaDir, ParaIndice, ParaLinea, ParaPeriodicos
-----------------------------------------------------------------------------
(* What the commands read and write.                                       *)
Datos == /\ foto \in Fotos
         /\ cola \in SUBSET Palabras /\ linea \in Palabras
         /\ cant \in Nat /\ indice \in Nat /\ dir \in Nat
         /\ DOMAIN vec \subseteq Nat /\ vec \in [DOMAIN vec -> Palabras]
         /\ iniciados \in [Palabras -> Nat]
         /\ cargado \in [{"cambios", "modls"} -> Nat]

LEMMA DatosTipo ==
    ASSUME TypeOK
    PROVE /\ Datos /\ Palabras \in SUBSET Nat /\ 0 \in Palabras
          /\ Nombrado \in Palabras
          /\ \A f \in Archivos : /\ archivos[f] \in Versiones
                                 /\ archivos[f].v \in Nat
                                 /\ archivos[f].on \in SUBSET Palabras
                                 /\ foto[f] \in Versiones
                                 /\ foto[f].on \in SUBSET Palabras
          /\ DOMAIN foto = Archivos /\ DOMAIN archivos = Archivos
          /\ {"listas", "nucleo", "confs"} \subseteq Archivos
          /\ DOMAIN vec \in SUBSET Nat
          /\ \A k \in DOMAIN vec : vec[k] \in Palabras
<1>1. Palabras \in SUBSET Nat /\ 0 \in Palabras
  BY CotasAssumption DEF Palabras
<1>2. Datos
  BY DEF TypeOK, Datos
<1>3. /\ \A f \in Archivos : archivos[f] \in Versiones /\ foto[f] \in Versiones
      /\ DOMAIN foto = Archivos /\ DOMAIN archivos = Archivos
  BY DEF TypeOK, Fotos
<1>4. \A x \in Versiones : x.v \in Nat /\ x.on \in SUBSET Palabras
  BY DEF Versiones
<1>5. \A k \in DOMAIN vec : vec[k] \in Palabras
  BY <1>2 DEF Datos
<1>6. Nombrado \in Palabras
  BY <1>1, <1>5 DEF Nombrado
<1>. QED BY <1>1, <1>2, <1>3, <1>4, <1>5, <1>6 DEF Archivos, Datos

(* The commands that leave the jobs alone.                                 *)
Callada == \/ LeeConfig \/ EmpiezaKill \/ detenerModulos \/ unsetearVecs
           \/ registrarLee \/ registrarNombra \/ leerPeriodosConfig
           \/ inicializar

LEMMA Datos_Callada ==
    ASSUME TypeOK, Forma, Callada
    PROVE /\ UNCHANGED <<archivos, vigias, periodicos, pend, sesion, cuenta>>
          /\ Datos'
<1>. /\ Datos /\ Palabras \in SUBSET Nat /\ 0 \in Palabras
     /\ Nombrado \in Palabras /\ DOMAIN vec \in SUBSET Nat
     /\ \A f \in Archivos : archivos[f] \in Versiones /\ archivos[f].v \in Nat
                            /\ foto[f].on \in SUBSET Palabras
     /\ {"listas", "nucleo", "confs"} \subseteq Archivos
  BY DatosTipo
<1>1. CASE LeeConfig
  <2>1. foto' \in Fotos
    BY <1>1 DEF LeeConfig, Datos, Fotos
  <2>. QED BY <1>1, <2>1 DEF LeeConfig, Datos, tabla
<1>2. CASE EmpiezaKill
  BY <1>2 DEF EmpiezaKill, Datos, config, tabla
<1>3. CASE detenerModulos
  <2>1. dir' \in Nat
    <3>1. CASE En("detener")
      <4>1. ParaDir(DOMAIN vec, 0, "d_source", "unsetear") \/ dir' = dir
            \/ ParaDir(Cima.resta, dir, "d_source", "unsetear")
        BY <1>3 DEF detenerModulos
      <4>2. Cima.resta \in SUBSET Nat
        BY <3>1, EnCurso
      <4>. QED BY <4>1, <4>2, Bucles DEF Datos
    <3>2. CASE En("d_source")
      BY <1>3, <3>2 DEF detenerModulos, En, Datos
    <3>3. CASE En("d_modulo")
      <4>1. ParaDir(Cima.resta, dir, "d_source", "unsetear")
        BY <1>3, <3>3 DEF detenerModulos, En
      <4>2. Cima.resta \in SUBSET Nat
        BY <3>3, EnCurso
      <4>. QED BY <4>1, <4>2, Bucles DEF Datos
    <3>. QED BY <1>3, <3>1, <3>2, <3>3 DEF detenerModulos
  <2>2. iniciados' \in [Palabras -> Nat]
    BY <1>3 DEF detenerModulos, Datos
  <2>. QED BY <1>3, <2>1, <2>2 DEF detenerModulos, Datos, tabla
<1>4. CASE unsetearVecs
  <2>1. indice' \in Nat
    <3>1. CASE En("unsetear")
      <4>1. ParaIndice(1 .. cant)
        BY <1>4, <3>1 DEF unsetearVecs, En
      <4>2. (1 .. cant) \in SUBSET Nat
        BY DEF Datos
      <4>. QED BY <4>1, <4>2, Bucles DEF Datos
    <3>2. CASE En("u_unset")
      <4>1. ParaIndice(Cima.resta)
        BY <1>4, <3>2 DEF unsetearVecs, En
      <4>2. Cima.resta \in SUBSET Nat
        BY <3>2, EnCurso
      <4>. QED BY <4>1, <4>2, Bucles DEF Datos
    <3>3. CASE En("u_confs")
      BY <1>4, <3>3 DEF unsetearVecs, En, Datos
    <3>. QED BY <1>4, <3>1, <3>2, <3>3 DEF unsetearVecs
  <2>2. DOMAIN vec' \subseteq Nat /\ vec' \in [DOMAIN vec' -> Palabras]
    BY <1>4 DEF unsetearVecs, Datos
  <2>3. foto' \in Fotos
    <3>1. Version(0) \in Versiones
      BY DEF Version, Versiones
    <3>. QED BY <1>4, <3>1 DEF unsetearVecs, Datos, Fotos
  <2>. QED BY <1>4, <2>1, <2>2, <2>3 DEF unsetearVecs, Datos
<1>5. CASE registrarLee
  <2>1. foto' \in Fotos
    BY <1>5 DEF registrarLee, Datos, Fotos
  <2>2. cola' \in SUBSET Palabras /\ linea' \in Palabras /\ cant' \in Nat
    BY <1>5 DEF registrarLee, Datos
  <2>. QED BY <1>5, <2>1, <2>2 DEF registrarLee, Datos
<1>6. CASE registrarNombra
  <2>1. linea' \in Palabras
    <3>1. CASE En("r_for")
      <4>1. ParaLinea(cola) /\ cola \in SUBSET Nat /\ cola \subseteq Palabras
        BY <1>6, <3>1 DEF registrarNombra, En, Datos
      <4>. QED BY <4>1, Bucles DEF Datos
    <3>2. CASE En("r_if") \/ En("r_cant") \/ En("r_vec")
      <4>1. ParaLinea(Cima.resta) \/ linea' = linea
        BY <1>6, <3>2 DEF registrarNombra, En
      <4>2. Cima.resta \in SUBSET Nat /\ Cima.resta \subseteq Palabras
        BY <3>2, EnCurso DEF Lineas
      <4>. QED BY <4>1, <4>2, Bucles DEF Datos
    <3>. QED BY <1>6, <3>1, <3>2 DEF registrarNombra
  <2>2. cant' \in Nat
    BY <1>6 DEF registrarNombra, Datos
  <2>3. DOMAIN vec' \subseteq Nat /\ vec' \in [DOMAIN vec' -> Palabras]
    BY <1>6 DEF registrarNombra, Datos
  <2>. QED BY <1>6, <2>1, <2>2, <2>3 DEF registrarNombra, Datos
<1>7. CASE leerPeriodosConfig
  BY <1>7 DEF leerPeriodosConfig, Datos, tabla
<1>8. CASE inicializar
  <2>1. dir' \in Nat
    <3>1. CASE En("inicializar")
      <4>1. ParaDir(DOMAIN vec, 0, "i_source", "lanza_modper")
        BY <1>8, <3>1 DEF inicializar, En
      <4>. QED BY <4>1, Bucles DEF Datos
    <3>2. CASE En("i_source") \/ En("i_modulo")
      BY <1>8, <3>2 DEF inicializar, En, Datos
    <3>3. CASE En("i_test")
      <4>1. ParaDir(Cima.resta, dir, "i_source", "lanza_modper")
        BY <1>8, <3>3 DEF inicializar, En
      <4>2. Cima.resta \in SUBSET Nat
        BY <3>3, EnCurso
      <4>. QED BY <4>1, <4>2, Bucles DEF Datos
    <3>. QED BY <1>8, <3>1, <3>2, <3>3 DEF inicializar
  <2>2. iniciados' \in [Palabras -> Nat]
    BY <1>8 DEF inicializar, Datos
  <2>. QED BY <1>8, <2>1, <2>2 DEF inicializar, Datos, tabla
<1>. QED BY <1>1, <1>2, <1>3, <1>4, <1>5, <1>6, <1>7, <1>8 DEF Callada

(* Each of them goes on with the jobs that were missing, and stops the     *)
(* modules only in the commands for it.                                    *)
Salto(c, d) ==
    /\ c \in Pasos \ {"falla"} /\ d \in Pasos
    /\ FaltaP(d) = FaltaP(c) /\ FaltaV(d) = FaltaV(c)
    /\ c \in Primeros => d \in Primeros
    /\ d \in Detenidos => c \in Detenidos \cup {"detener"}
    /\ d # "lanza_verif"

LEMMA Saltos ==
    /\ Salto("config_listas", "config_nucleo")
    /\ Salto("config_nucleo", "kill_verif")
    /\ Salto("kill_verif", "mata_verif")
    /\ Salto("kill_modper", "mata_modper")
    /\ \A c \in {"detener", "d_modulo"} :
          Salto(c, "d_source") /\ Salto(c, "unsetear")
    /\ Salto("d_source", "d_modulo")
    /\ \A c \in {"unsetear", "u_unset"} :
          Salto(c, "u_unset") /\ Salto(c, "u_confs")
    /\ Salto("u_confs", "r_cero") /\ Salto("r_cero", "r_listas")
    /\ Salto("r_listas", "r_nucleo") /\ Salto("r_nucleo", "r_confs")
    /\ Salto("r_confs", "r_cola") /\ Salto("r_cola", "r_for")
    /\ \A c \in {"r_for", "r_if", "r_vec"} :
          Salto(c, "r_if") /\ Salto(c, "leer_cambios")
    /\ Salto("r_if", "r_cant") /\ Salto("r_cant", "r_vec")
    /\ Salto("leer_cambios", "leer_modls")
    /\ Salto("leer_modls", "inicializar")
    /\ \A c \in {"inicializar", "i_test"} :
          Salto(c, "i_source") /\ Salto(c, "lanza_modper")
    /\ Salto("i_source", "i_modulo") /\ Salto("i_source", "falla")
    /\ Salto("i_modulo", "i_test") /\ Salto("i_modulo", "falla")
<1>1. /\ Salto("config_listas", "config_nucleo")
      /\ Salto("config_nucleo", "kill_verif")
      /\ Salto("kill_verif", "mata_verif")
      /\ Salto("kill_modper", "mata_modper")
  BY DEF Salto, FaltaP, FaltaV, Primeros, Detenidos, Pasos, Antes, Parando,
         Ventana, Leyendo, Iniciando, Lanzando
<1>2. /\ \A c \in {"detener", "d_modulo"} :
            Salto(c, "d_source") /\ Salto(c, "unsetear")
      /\ Salto("d_source", "d_modulo")
      /\ \A c \in {"unsetear", "u_unset"} :
            Salto(c, "u_unset") /\ Salto(c, "u_confs")
  BY DEF Salto, FaltaP, FaltaV, Primeros, Detenidos, Pasos, Antes, Parando,
         Ventana, Leyendo, Iniciando, Lanzando
<1>3. /\ Salto("u_confs", "r_cero") /\ Salto("r_cero", "r_listas")
      /\ Salto("r_listas", "r_nucleo") /\ Salto("r_nucleo", "r_confs")
      /\ Salto("r_confs", "r_cola") /\ Salto("r_cola", "r_for")
  BY DEF Salto, FaltaP, FaltaV, Primeros, Detenidos, Pasos, Antes, Parando,
         Ventana, Leyendo, Iniciando, Lanzando
<1>4. /\ \A c \in {"r_for", "r_if", "r_vec"} :
            Salto(c, "r_if") /\ Salto(c, "leer_cambios")
      /\ Salto("r_if", "r_cant") /\ Salto("r_cant", "r_vec")
      /\ Salto("leer_cambios", "leer_modls")
      /\ Salto("leer_modls", "inicializar")
  BY DEF Salto, FaltaP, FaltaV, Primeros, Detenidos, Pasos, Antes, Parando,
         Ventana, Leyendo, Iniciando, Lanzando
<1>5. /\ \A c \in {"inicializar", "i_test"} :
            Salto(c, "i_source") /\ Salto(c, "lanza_modper")
      /\ Salto("i_source", "i_modulo") /\ Salto("i_source", "falla")
      /\ Salto("i_modulo", "i_test") /\ Salto("i_modulo", "falla")
  BY DEF Salto, FaltaP, FaltaV, Primeros, Detenidos, Pasos, Antes, Parando,
         Ventana, Leyendo, Iniciando, Lanzando
<1>. QED BY <1>1, <1>2, <1>3, <1>4, <1>5

LEMMA Ruta_Callada ==
    ASSUME TypeOK, Forma, Callada PROVE \E c, d : Salto(c, d) /\ Va(c, d)
<1>. /\ Datos /\ Palabras \in SUBSET Nat /\ 0 \in Palabras
     /\ Nombrado \in Palabras /\ DOMAIN vec \in SUBSET Nat
  BY DatosTipo
<1>1. ASSUME NEW c, NEW d, En(c), Sigue(d), Salto(c, d),
             d \in Lineas => c \in Lineas
      PROVE Va(c, d)
  <2>1. /\ Cima.resta \in SUBSET Nat
        /\ c \in Lineas => Cima.resta \subseteq Palabras
    BY <1>1, EnCurso
  <2>. QED BY <1>1, <2>1 DEF Va, Sigue
<1>2. ASSUME NEW c, NEW d, En(c), Salto(c, d), d \notin Lineas,
             NEW R \in SUBSET Nat, NEW m \in Palabras, Pon(d, R, m)
      PROVE Va(c, d)
  BY <1>2 DEF Va
<1>3. ASSUME NEW S \in SUBSET Nat, NEW c, NEW d, NEW e, NEW x \in Nat, En(c),
             Salto(c, d), Salto(c, e), d \notin Lineas, e \notin Lineas,
             ParaDir(S, x, d, e)
      PROVE Va(c, d) \/ Va(c, e)
  <2>1. PICK R \in SUBSET Nat : Pon(d, R, 0) \/ Pon(e, R, 0)
    <3>1. \/ S = {} /\ Pon(e, {}, 0)
          \/ Pon(d, S \ {dir'}, 0)
      BY <1>3, Bucles
    <3>. QED BY <3>1
  <2>. QED BY <1>2, <1>3, <2>1
<1>4. ASSUME NEW S \in SUBSET Nat, NEW c, En(c), ParaIndice(S),
             Salto(c, "u_unset"), Salto(c, "u_confs")
      PROVE Va(c, "u_unset") \/ Va(c, "u_confs")
  <2>1. PICK R \in SUBSET Nat : Pon("u_unset", R, 0) \/ Pon("u_confs", R, 0)
    <3>1. \/ S = {} /\ Pon("u_confs", {}, 0)
          \/ Pon("u_unset", S \ {indice'}, 0)
      BY <1>4, Bucles
    <3>. QED BY <3>1
  <2>. QED BY <1>2, <1>4, <2>1 DEF Lineas
<1>5. ASSUME NEW S \in SUBSET Palabras, NEW c, En(c), ParaLinea(S),
             Salto(c, "r_if"), Salto(c, "leer_cambios")
      PROVE Va(c, "r_if") \/ Va(c, "leer_cambios")
  <2>1. PICK R \in SUBSET Nat : /\ R \subseteq Palabras
                               /\ \/ Pon("r_if", R, 0)
                                  \/ Pon("leer_cambios", R, 0)
    <3>1. \/ S = {} /\ Pon("leer_cambios", {}, 0)
          \/ Pon("r_if", S \ {linea'}, 0)
      BY <1>5, Bucles
    <3>. QED BY <3>1
  <2>. QED BY <1>5, <2>1 DEF Va
<1>6. \A c, d : En(c) /\ En(d) => c = d
  BY DEF En
<1>7. \A c : En(c) => /\ Cima.resta \in SUBSET Nat
                     /\ (c \in Lineas => Cima.resta \in SUBSET Palabras)
  BY EnCurso
<1>8. dir \in Nat /\ cola \in SUBSET Palabras /\ (1 .. cant) \in SUBSET Nat
  BY DEF Datos
<1>9. CASE LeeConfig
  BY <1>1, <1>9, Saltos DEF LeeConfig, Lineas
<1>10. CASE EmpiezaKill
  BY <1>1, <1>10, Saltos DEF EmpiezaKill, Lineas
<1>11. CASE detenerModulos
  BY <1>2, <1>3, <1>7, <1>8, <1>11, Saltos DEF detenerModulos, Lineas
<1>12. CASE unsetearVecs
  BY <1>1, <1>4, <1>7, <1>8, <1>12, Saltos DEF unsetearVecs, Lineas
<1>13. CASE registrarLee
  BY <1>1, <1>13, Saltos DEF registrarLee, Lineas
<1>14. CASE registrarNombra
  <2>1. CASE En("r_for") /\ ParaLinea(cola)
    BY <1>5, <1>8, <2>1, Saltos
  <2>2. CASE \/ En("r_if") /\ ParaLinea(Cima.resta)
             \/ En("r_vec") /\ ParaLinea(Cima.resta)
    BY <1>5, <1>7, <2>2, Saltos DEF Lineas
  <2>3. CASE \/ En("r_if") /\ Sigue("r_cant")
             \/ En("r_cant") /\ Sigue("r_vec")
    BY <1>1, <2>3, Saltos DEF Lineas
  <2>. QED BY <1>14, <2>1, <2>2, <2>3 DEF registrarNombra
<1>15. CASE leerPeriodosConfig
  BY <1>1, <1>15, Saltos DEF leerPeriodosConfig, Lineas
<1>16. CASE inicializar
  <2>1. CASE \/ En("inicializar") /\ ParaDir(DOMAIN vec, 0, "i_source",
                                             "lanza_modper")
             \/ En("i_test") /\ ParaDir(Cima.resta, dir, "i_source",
                                        "lanza_modper")
    BY <1>3, <1>7, <1>8, <2>1, Saltos DEF Lineas
  <2>2. CASE \/ En("i_source") /\ Sigue("falla")
             \/ En("i_modulo") /\ (Sigue("i_test") \/ Sigue("falla"))
    BY <1>1, <2>2, Saltos DEF Lineas
  <2>3. CASE En("i_source") /\ Pon("i_modulo", Cima.resta, Nombrado)
    BY <1>2, <1>7, <2>3, Saltos DEF Lineas
  <2>. QED BY <1>16, <2>1, <2>2, <2>3 DEF inicializar
<1>. QED BY <1>9, <1>10, <1>11, <1>12, <1>13, <1>14, <1>15, <1>16 DEF Callada

(* A kill or a new job leaves a sequence of jobs.                          *)
LEMMA Trabajos ==
    ASSUME TypeOK
    PROVE /\ vigias # <<>> => /\ Front(vigias) \in Seq(Fotos)
                              /\ Len(Front(vigias)) = Len(vigias) - 1
          /\ Append(vigias, foto) \in Seq(Fotos)
          /\ Len(Append(vigias, foto)) = Len(vigias) + 1
          /\ Len(vigias) \in Nat /\ (Len(vigias) = 0 <=> vigias = <<>>)
          /\ periodicos \in Nat
<1>1. vigias \in Seq(Fotos) /\ foto \in Fotos /\ periodicos \in Nat
  BY DEF TypeOK
<1>2. Len(vigias) \in Nat /\ (Len(vigias) = 0 <=> vigias = <<>>)
  BY <1>1
<1>3. Append(vigias, foto) \in Seq(Fotos)
      /\ Len(Append(vigias, foto)) = Len(vigias) + 1
  BY <1>1
<1>4. ASSUME vigias # <<>>
      PROVE Front(vigias) \in Seq(Fotos)
            /\ Len(Front(vigias)) = Len(vigias) - 1
  <2> DEFINE n == Len(vigias) - 1
  <2>1. n \in Nat /\ Front(vigias) = SubSeq(vigias, 1, n)
    BY <1>2, <1>4 DEF Front
  <2>2. \A k \in 1 .. n : vigias[k] \in Fotos
    BY <1>1, <1>2
  <2>. HIDE DEF n
  <2>3. /\ SubSeq(vigias, 1, n) \in Seq(Fotos)
        /\ Len(SubSeq(vigias, 1, n)) = IF 1 <= n THEN n - 1 + 1 ELSE 0
    BY <2>1, <2>2, SubSeqProperties
  <2>4. Front(vigias) \in Seq(Fotos) /\ Len(Front(vigias)) = n
    BY <2>1, <2>3
  <2>. QED BY <2>4 DEF n
<1>. QED BY <1>1, <1>2, <1>3, <1>4

(* What the commands of a reload do to the jobs: with those still to be    *)
(* started they are never more than before, or than one, and never fewer   *)
(* than one.                                                               *)
Balance(c, d) ==
    /\ \/ periodicos' + FaltaP(d) <= periodicos + FaltaP(c)
       \/ periodicos' + FaltaP(d) <= 1
    /\ \/ Len(vigias') + FaltaV(d) <= Len(vigias) + FaltaV(c)
       \/ Len(vigias') + FaltaV(d) <= 1
    /\ 1 <= periodicos + FaltaP(c) /\ 1 <= Len(vigias) + FaltaV(c) =>
          1 <= periodicos' + FaltaP(d) /\ 1 <= Len(vigias') + FaltaV(d)
    /\ d = "lanza_verif" => 1 <= periodicos'
    /\ c \in Primeros =>
          /\ d \in Primeros /\ UNCHANGED vigias
          /\ periodicos' + FaltaP(d) = periodicos + FaltaP(c)

(* Every command of a reload but the last goes on from c to d.             *)
Mando(c, d) ==
    /\ c \in Pasos \ {"falla"} /\ d \in Pasos /\ Va(c, d) /\ Balance(c, d)
    /\ d \in Detenidos => c \in Detenidos \cup {"detener"}

LEMMA Ruta ==
    ASSUME TypeOK, Forma, Recarga, ~ LanzaVerif
    PROVE /\ UNCHANGED <<archivos, pend, sesion, cuenta>> /\ Datos'
          /\ vigias' \in Seq(Fotos) /\ periodicos' \in Nat
          /\ \E c, d : Mando(c, d)
<1>1. /\ periodicos \in Nat /\ Len(vigias) \in Nat
      /\ (Len(vigias) = 0 <=> vigias = <<>>)
      /\ vigias # <<>> => /\ Front(vigias) \in Seq(Fotos)
                          /\ Len(Front(vigias)) = Len(vigias) - 1
      /\ vigias \in Seq(Fotos) /\ Datos
      /\ \A b : FaltaP(b) \in 0 .. 1 /\ FaltaV(b) \in 0 .. 1
  <2>1. \A b : FaltaP(b) \in 0 .. 1 /\ FaltaV(b) \in 0 .. 1
    BY DEF FaltaP, FaltaV
  <2>. QED BY <2>1, Trabajos, DatosTipo DEF TypeOK
<1>2. CASE Callada
  <2>1. /\ UNCHANGED <<archivos, vigias, periodicos, pend, sesion, cuenta>>
        /\ Datos'
    BY <1>2, Datos_Callada
  <2>2. PICK c, d : Salto(c, d) /\ Va(c, d)
    BY <1>2, Ruta_Callada
  <2>3. Balance(c, d)
    <3>1. /\ FaltaP(d) = FaltaP(c) /\ FaltaV(d) = FaltaV(c)
          /\ (c \in Primeros => d \in Primeros) /\ d # "lanza_verif"
      BY <2>2 DEF Salto
    <3>2. periodicos' = periodicos /\ vigias' = vigias
      BY <2>1
    <3>3. periodicos + FaltaP(c) \in Nat /\ Len(vigias) + FaltaV(c) \in Nat
      BY <1>1
    <3>. QED BY <3>1, <3>2, <3>3 DEF Balance
  <2>4. Mando(c, d)
    BY <2>2, <2>3 DEF Mando, Salto
  <2>. QED BY <1>1, <2>1, <2>4
<1>3. ASSUME UNCHANGED config PROVE Datos'
  BY <1>1, <1>3 DEF config, tabla, Datos
<1>4. ASSUME NEW c \in Pasos \ {"falla"}, NEW d \in Pasos \ Lineas,
             En(c), Sigue(d)
      PROVE Va(c, d)
  <2>1. Cima.resta \in SUBSET Nat /\ 0 \in Palabras
    BY <1>4, EnCurso, DatosTipo
  <2>. QED BY <1>4, <2>1 DEF Va, Sigue
<1>5. /\ {"mata_verif", "kill_modper", "mata_modper", "detener",
          "lanza_modper", "lanza_verif"} \subseteq Pasos \ ({"falla"} \cup Lineas)
      /\ {"mata_verif", "mata_modper", "kill_modper", "detener"}
            \cap (Primeros \cup Detenidos) = {}
      /\ "lanza_verif" \in Primeros \ Detenidos /\ "lanza_modper" \in Primeros
      /\ FaltaP("mata_verif") = 0 /\ FaltaP("kill_modper") = 0
      /\ FaltaV("mata_verif") = 0 /\ FaltaV("kill_modper") = 1
      /\ FaltaP("mata_modper") = 0 /\ FaltaP("detener") = 1
      /\ FaltaV("mata_modper") = 1 /\ FaltaV("detener") = 1
      /\ FaltaP("lanza_modper") = 1 /\ FaltaP("lanza_verif") = 0
      /\ FaltaV("lanza_modper") = 1 /\ FaltaV("lanza_verif") = 1
  BY DEF Pasos, Lineas, Primeros, Detenidos, FaltaP, FaltaV, Antes, Parando,
         Ventana, Leyendo, Iniciando, Lanzando
<1>6. CASE KillVerif
  <2>1. UNCHANGED <<archivos, config, pend, sesion, cuenta>>
    BY <1>6 DEF KillVerif
  <2>2. Va("mata_verif", "kill_modper")
    BY <1>4, <1>5, <1>6 DEF KillVerif
  <2>3. CASE vigias # <<>>
    <3>1. periodicos' = periodicos /\ vigias' = Front(vigias)
      BY <1>6, <2>3 DEF KillVerif
    <3>2. Len(vigias') = Len(vigias) - 1 /\ vigias' \in Seq(Fotos)
      BY <1>1, <2>3, <3>1
    <3>3. Balance("mata_verif", "kill_modper")
      BY <1>1, <1>5, <2>3, <3>1, <3>2 DEF Balance
    <3>4. Mando("mata_verif", "kill_modper")
      BY <1>5, <2>2, <3>3 DEF Mando
    <3>. QED BY <1>1, <1>3, <2>1, <3>1, <3>2, <3>4
  <2>4. CASE vigias = <<>>
    <3>1. /\ periodicos' = IF periodicos > 0 THEN periodicos - 1 ELSE 0
          /\ vigias' = vigias
      BY <1>6, <2>4 DEF KillVerif
    <3>2. /\ periodicos' <= periodicos /\ Len(vigias') = 0 /\ Len(vigias) = 0
          /\ periodicos' \in Nat /\ vigias' \in Seq(Fotos)
      BY <1>1, <2>4, <3>1
    <3>3. Balance("mata_verif", "kill_modper")
      BY <1>1, <1>5, <3>2 DEF Balance
    <3>4. Mando("mata_verif", "kill_modper")
      BY <1>5, <2>2, <3>3 DEF Mando
    <3>. QED BY <1>3, <2>1, <3>2, <3>4
  <2>. QED BY <2>3, <2>4
<1>7. CASE KillModPer
  <2>1. UNCHANGED <<archivos, config, pend, sesion, cuenta>>
    BY <1>7 DEF KillModPer
  <2>2. Va("mata_modper", "detener")
    BY <1>4, <1>5, <1>7 DEF KillModPer
  <2>3. CASE periodicos > 0
    <3>1. periodicos' = periodicos - 1 /\ vigias' = vigias
      BY <1>7, <2>3 DEF KillModPer
    <3>2. periodicos' \in Nat /\ vigias' \in Seq(Fotos)
      BY <1>1, <2>3, <3>1
    <3>3. Balance("mata_modper", "detener")
      BY <1>1, <1>5, <2>3, <3>1 DEF Balance
    <3>4. Mando("mata_modper", "detener")
      BY <1>5, <2>2, <3>3 DEF Mando
    <3>. QED BY <1>3, <2>1, <3>2, <3>4
  <2>4. CASE ~ (periodicos > 0)
    <3>1. /\ periodicos' = 0 /\ periodicos = 0
          /\ vigias' = IF vigias = <<>> THEN <<>> ELSE Front(vigias)
      BY <1>1, <1>7, <2>4 DEF KillModPer
    <3>2. /\ Len(vigias') <= Len(vigias) /\ Len(vigias') \in Nat
          /\ vigias' \in Seq(Fotos) /\ periodicos' \in Nat
      BY <1>1, <3>1
    <3>3. Balance("mata_modper", "detener")
      BY <1>1, <1>5, <3>1, <3>2 DEF Balance
    <3>4. Mando("mata_modper", "detener")
      BY <1>5, <2>2, <3>3 DEF Mando
    <3>. QED BY <1>3, <2>1, <3>2, <3>4
  <2>. QED BY <2>3, <2>4
<1>8. CASE LanzaModPer
  <2>1. UNCHANGED <<archivos, config, vigias, pend, sesion, cuenta>>
    BY <1>8 DEF LanzaModPer
  <2>2. Va("lanza_modper", "lanza_verif")
    BY <1>4, <1>5, <1>8 DEF LanzaModPer
  <2>3. periodicos' = periodicos + 1
    BY <1>8, Zenon DEF LanzaModPer
  <2>4. Balance("lanza_modper", "lanza_verif")
    BY <1>1, <1>5, <2>1, <2>3 DEF Balance
  <2>5. Mando("lanza_modper", "lanza_verif")
    BY <1>5, <2>2, <2>4 DEF Mando
  <2>. QED BY <1>1, <1>3, <2>1, <2>3, <2>5
<1>. QED BY <1>2, <1>6, <1>7, <1>8 DEF Recarga, Callada

(* A trap USR1 goes on with the loop, or ends.                             *)
LEMMA Bucle ==
    ASSUME TypeOK, Forma, Periodicos
    PROVE /\ pila # <<>> /\ Cima.f = "USR1" /\ sesion = "viva" /\ Bien'
          /\ UNCHANGED <<archivos, foto, tabla, iniciados, cargado, vigias,
                         periodicos, pend, sesion, cuenta>>
          /\ dir' \in Nat
          /\ \A g \in Recargas : /\ Hay(g)' <=> Hay(g)
                                 /\ \A c : P(g, c)' <=> P(g, c)
          /\ DOMAIN pila' \subseteq DOMAIN pila
          /\ \A k \in DOMAIN pila' : /\ pila'[k].f = pila[k].f
                                     /\ k = Len(pila) \/ pila'[k] = pila[k]
          /\ DOMAIN pila \ DOMAIN pila' \subseteq {Len(pila)}
<1>1. PICK c \in {"for", "p_test", "procesar"} : En(c)
  BY DEF Periodicos, PeriodicosFor, PeriodicosProcesar
<1>2. /\ pila # <<>> /\ Cima.f = "USR1" /\ sesion = "viva"
      /\ Cima.resta \in SUBSET Nat /\ Cima \in Marcos
  BY <1>1, EnCurso
<1>3. /\ Datos /\ 0 \in Palabras /\ DOMAIN vec \in SUBSET Nat
  BY DatosTipo
<1>4. /\ UNCHANGED <<archivos, foto, tabla, iniciados, cargado, vigias,
                     periodicos, pend, sesion, cuenta>>
      /\ dir' \in Nat
      /\ \/ pila' = Front(pila)
         \/ \E d \in {"procesar", "p_test", "falla"}, R \in SUBSET Nat :
               Pon(d, R, 0)
  <2>1. CASE PeriodicosFor
    <3>1. PICK S \in SUBSET Nat : ParaPeriodicos(S)
      BY <1>2, <1>3, <2>1 DEF PeriodicosFor
    <3>2. \/ pila' = Front(pila) /\ dir' = dir
          \/ dir' \in S /\ Pon("procesar", S \ {dir'}, 0)
      BY <3>1, Bucles
    <3>. QED BY <1>3, <2>1, <3>2 DEF PeriodicosFor, Datos
  <2>2. CASE PeriodicosProcesar
    BY <1>2, <1>3, <2>2 DEF PeriodicosProcesar, Sigue, config, Datos
  <2>. QED BY <2>1, <2>2 DEF Periodicos
<1>5. \A g \in Recargas : g # "USR1"
  BY DEF Recargas
<1>6. CASE pila' = Front(pila)
  <2>1. /\ Bien' /\ DOMAIN pila' = DOMAIN pila \ {Len(pila)}
        /\ \A k \in DOMAIN pila' : pila'[k] = pila[k]
        /\ \A g, e : P(g, e)' <=> g # Cima.f /\ P(g, e)
        /\ \A g : Hay(g)' <=> g # Cima.f /\ Hay(g)
    BY <1>2, <1>6, Baja
  <2>. QED BY <1>2, <1>4, <1>5, <2>1
<1>7. CASE pila' # Front(pila)
  <2>1. PICK d \in {"procesar", "p_test", "falla"}, R \in SUBSET Nat :
                Pon(d, R, 0)
    BY <1>4, <1>7
  <2>2. PICK m \in Marcos : /\ m.f = Cima.f /\ m.pc = d
                            /\ pila' = [pila EXCEPT ![Len(pila)] = m]
    <3>. DEFINE x == [f |-> Cima.f, pc |-> d, resta |-> R, modulo |-> 0]
    <3>1. x \in Marcos /\ x.f = Cima.f /\ x.pc = d
      BY <1>2, <1>3 DEF Marcos, Comandos
    <3>2. pila' = [pila EXCEPT ![Len(pila)] = x]
      BY <1>2, <2>1, Tope DEF Pon
    <3>. QED BY <3>1, <3>2
  <2>3. Propios(m)
    BY <1>2, <2>2 DEF Propios, Lineas
  <2>4. /\ Bien' /\ DOMAIN pila' = DOMAIN pila /\ pila'[Len(pila)] = m
        /\ \A k \in DOMAIN pila \ {Len(pila)} : pila'[k] = pila[k]
        /\ \A g : Hay(g)' <=> Hay(g)
        /\ \A g, e : P(g, e)' <=> IF g = m.f THEN e = m.pc ELSE P(g, e)
    BY <1>2, <2>2, <2>3, Cambia
  <2>5. pila[Len(pila)] = Cima
    BY <1>2, Tope
  <2>. QED BY <1>2, <1>4, <1>5, <2>2, <2>4, <2>5
<1>. QED BY <1>6, <1>7

(* A request, or a trap, puts a frame on the stack.                        *)
LEMMA Entra ==
    ASSUME TypeOK, Forma, NEW h, NEW d,
           \/ Pide /\ h = "pedido" /\ d = "kill_verif"
           \/ Trap("USR1") /\ h = "USR1" /\ d = "for"
           \/ Trap("USR2") /\ h = "USR2" /\ d = "config_listas"
    PROVE /\ Bien' /\ pila' # <<>> /\ sesion = "viva" /\ ~ Hay(h)
          /\ UNCHANGED <<archivos, config, vigias, periodicos, sesion, cambios>>
          /\ Cima' = Marco(h, d)
          /\ \E n : /\ n \notin DOMAIN pila
                    /\ DOMAIN pila' = DOMAIN pila \cup {n}
                    /\ pila'[n] = Marco(h, d)
                    /\ \A k \in DOMAIN pila : n > k
          /\ \A k \in DOMAIN pila : pila'[k] = pila[k]
          /\ \A g, c : P(g, c)' <=> P(g, c) \/ (g = h /\ c = d)
          /\ \A g : Hay(g)' <=> Hay(g) \/ g = h
          /\ \A g : Arriba(g)' <=> g = h
          /\ h = "pedido" => pila = <<>>
<1>. DEFINE m == Marco(h, d)
<1>1. m \in Marcos /\ m.f = h /\ m.pc = d
  <2>1. h \in {"pedido", "USR1", "USR2"} /\ d \in Comandos /\ 0 \in Palabras
    BY DEF Comandos, Palabras
  <2>. QED BY <2>1 DEF Marco, Marcos
<1>2. Propios(m)
  <2>1. /\ {"kill_verif", "config_listas"} \subseteq Pasos
        /\ {"for", "kill_verif", "config_listas"} \cap Lineas = {}
    BY DEF Pasos, Antes, Lineas
  <2>. QED BY <1>1, <2>1 DEF Propios
<1>3. /\ pila' = Append(pila, m) /\ sesion = "viva" /\ ~ Hay(h)
      /\ UNCHANGED <<archivos, config, vigias, periodicos, sesion, cambios>>
      /\ pila # <<>> => h \in {"USR1", "USR2"}
  <2>1. CASE Pide /\ h = "pedido" /\ d = "kill_verif"
    BY <2>1 DEF Pide, Hay
  <2>2. CASE Trap("USR1") /\ h = "USR1" /\ d = "for"
    BY <2>2 DEF Trap, Atendible, Hay
  <2>3. CASE Trap("USR2") /\ h = "USR2" /\ d = "config_listas"
    BY <2>3 DEF Trap, Atendible, Hay
  <2>. QED BY <2>1, <2>2, <2>3
<1>. HIDE DEF m
<1>4. /\ Bien' /\ pila' # <<>> /\ Cima' = m
      /\ \E n : /\ n \notin DOMAIN pila
                /\ DOMAIN pila' = DOMAIN pila \cup {n} /\ pila'[n] = m
                /\ \A k \in DOMAIN pila : n > k
      /\ \A k \in DOMAIN pila : pila'[k] = pila[k]
      /\ \A g, c : P(g, c)' <=> P(g, c) \/ (g = m.f /\ c = m.pc)
      /\ \A g : Hay(g)' <=> Hay(g) \/ g = m.f
      /\ \A g : Arriba(g)' <=> g = m.f
  BY <1>1, <1>2, <1>3, Sube
<1>. QED BY <1>1, <1>3, <1>4 DEF m

LEMMA InicioTipo == ASSUME Init PROVE TypeOK /\ Forma
<1>1. PICK on \in Contenidos :
          archivos = [f \in Archivos |->
                         [v |-> 1, on |-> IF f = "listas" THEN on ELSE {}]]
  BY DEF Init
<1>2. on \in SUBSET Palabras /\ {} \in SUBSET Palabras /\ 0 \in Palabras
  BY DEF Palabras
<1>3. archivos \in Fotos
  BY <1>1, <1>2 DEF Fotos, Versiones
<1>4. foto \in Fotos
  <2>1. Version(0) \in Versiones
    BY DEF Version, Versiones
  <2>. QED BY <2>1 DEF Init, Fotos
<1>5. Marco("inicio", "r_cero") \in Marcos
  BY <1>2 DEF Marco, Marcos, Comandos, Ventana
<1>6. pila = <<Marco("inicio", "r_cero")>> /\ pila \in Seq(Marcos)
  BY <1>5 DEF Init
<1>7. TypeOK
  <2>1. anidada \in BOOLEAN /\ mezclada \in BOOLEAN
    BY Zenon DEF Init
  <2>2. /\ iniciados \in [Palabras -> Nat]
        /\ cargado \in [{"cambios", "modls"} -> Nat]
    BY DEF Init
  <2>3. /\ cola \in SUBSET Palabras /\ linea \in Palabras
        /\ cant \in Nat /\ indice \in Nat /\ dir \in Nat
        /\ vigias \in Seq(Fotos) /\ periodicos \in Nat
        /\ pend \in SUBSET {"USR1", "USR2"} /\ sesion \in {"viva", "fin"}
        /\ cambios \in Nat /\ pedidos \in Nat
    BY <1>2 DEF Init
  <2>4. DOMAIN vec \subseteq Nat /\ vec \in [DOMAIN vec -> Palabras]
    BY DEF Init
  <2>. QED BY <1>3, <1>4, <1>6, <2>1, <2>2, <2>3, <2>4 DEF TypeOK
<1>8. DOMAIN pila = {1} /\ pila[1] = Marco("inicio", "r_cero")
  BY <1>6
<1>9. Propios(pila[1])
  BY <1>8 DEF Marco, Propios, Pasos, Ventana, Lineas
<1>10. Forma
  BY <1>6, <1>8, <1>9 DEF Forma, Bien, Init
<1>. QED BY <1>7, <1>10

(* A step of the shell keeps the types if it keeps those of the data and   *)
(* leaves the stack well formed.                                           *)
LEMMA Tipo_Shell ==
    ASSUME TypeOK, Bien', UNCHANGED <<archivos, sesion>>, sesion = "viva",
           Datos', vigias' \in Seq(Fotos), periodicos' \in Nat,
           pend' \in SUBSET {"USR1", "USR2"}, anidada' \in BOOLEAN,
           mezclada' \in BOOLEAN, cambios' \in Nat, pedidos' \in Nat
    PROVE TypeOK' /\ Forma'
<1>1. pila' \in Seq(Marcos)
  BY DEF Bien
<1>2. TypeOK'
  BY <1>1 DEF TypeOK, Datos
<1>3. Forma'
  BY DEF Forma
<1>. QED BY <1>2, <1>3

LEMMA Tipo_Cuenta ==
    ASSUME TypeOK, UNCHANGED <<pend, cuenta>>
    PROVE /\ pend' \in SUBSET {"USR1", "USR2"} /\ anidada' \in BOOLEAN
          /\ mezclada' \in BOOLEAN /\ cambios' \in Nat /\ pedidos' \in Nat
<1>1. /\ pend' = pend /\ anidada' = anidada /\ mezclada' = mezclada
      /\ cambios' = cambios /\ pedidos' = pedidos
  BY DEF cuenta
<1>2. anidada' \in BOOLEAN /\ mezclada' \in BOOLEAN
  BY <1>1, Zenon DEF TypeOK
<1>. QED BY <1>1, <1>2 DEF TypeOK

LEMMA Tipo_Recarga ==
    ASSUME TypeOK, Forma, Recarga PROVE TypeOK' /\ Forma'
<1>1. CASE LanzaVerif
  <2>1. /\ En("lanza_verif") /\ pila' = Front(pila)
        /\ vigias' = Append(vigias, foto)
        /\ UNCHANGED <<archivos, config, periodicos, pend, sesion, cuenta>>
    BY <1>1 DEF LanzaVerif
  <2>2. pila # <<>> /\ sesion = "viva"
    BY <2>1, EnCurso
  <2>3. Bien'
    BY <2>1, <2>2, Baja
  <2>4. Datos'
    BY <2>1, DatosTipo DEF Datos, config, tabla
  <2>5. vigias' \in Seq(Fotos) /\ periodicos' \in Nat
    BY <2>1, Trabajos
  <2>. QED BY <2>1, <2>2, <2>3, <2>4, <2>5, Tipo_Shell, Tipo_Cuenta
<1>2. CASE ~ LanzaVerif
  <2>1. /\ UNCHANGED <<archivos, pend, sesion, cuenta>> /\ Datos'
        /\ vigias' \in Seq(Fotos) /\ periodicos' \in Nat
    BY <1>2, Ruta
  <2>2. PICK c, d : Mando(c, d)
    BY <1>2, Ruta
  <2>3. Bien' /\ sesion = "viva"
    BY <2>2, Avanza, EnCurso DEF Mando, Va
  <2>. QED BY <2>1, <2>3, Tipo_Shell, Tipo_Cuenta
<1>. QED BY <1>1, <1>2

LEMMA Tipo_Entra ==
    ASSUME TypeOK, Forma, Pide \/ \E s \in {"USR1", "USR2"} : Trap(s)
    PROVE TypeOK' /\ Forma'
<1>1. /\ Bien' /\ sesion = "viva"
      /\ UNCHANGED <<archivos, config, vigias, periodicos, sesion, cambios>>
  BY Entra
<1>2. anidada' \in BOOLEAN /\ mezclada' \in BOOLEAN
  <2>1. CASE Pide
    BY <2>1, Zenon DEF Pide, TypeOK
  <2>2. CASE \E s \in {"USR1", "USR2"} : Trap(s)
    BY <2>2, Zenon DEF Trap
  <2>. QED BY <2>1, <2>2
<1>3. pend' \in SUBSET {"USR1", "USR2"} /\ pedidos' \in Nat
  <2>1. CASE Pide
    <3>1. pedidos' = pedidos + 1 /\ pend' = pend
      BY <2>1, Zenon DEF Pide
    <3>. QED BY <3>1 DEF TypeOK
  <2>2. CASE \E s \in {"USR1", "USR2"} : Trap(s)
    <3>1. pedidos' = pedidos /\ pend' \subseteq pend
      BY <2>2, Zenon DEF Trap
    <3>. QED BY <3>1 DEF TypeOK
  <2>. QED BY <2>1, <2>2
<1>4. Datos' /\ vigias' \in Seq(Fotos) /\ periodicos' \in Nat
      /\ cambios' \in Nat
  BY <1>1, DatosTipo DEF Datos, config, tabla, TypeOK
<1>. QED BY <1>1, <1>2, <1>3, <1>4, Tipo_Shell

LEMMA Tipo_Periodicos ==
    ASSUME TypeOK, Forma, Periodicos PROVE TypeOK' /\ Forma'
<1>1. /\ sesion = "viva" /\ Bien' /\ dir' \in Nat
      /\ UNCHANGED <<archivos, foto, tabla, iniciados, cargado, vigias,
                     periodicos, pend, sesion, cuenta>>
  BY Bucle
<1>2. Datos' /\ vigias' \in Seq(Fotos) /\ periodicos' \in Nat
  BY <1>1, DatosTipo DEF Datos, tabla, TypeOK
<1>. QED BY <1>1, <1>2, Tipo_Shell, Tipo_Cuenta

(* The end.                                                                *)
LEMMA Salida ==
    ASSUME salirFunc
    PROVE /\ pila' = <<>> /\ vigias' = <<>> /\ periodicos' = 0 /\ pend' = {}
          /\ sesion' = "fin" /\ DOMAIN pila' = {}
          /\ \A g : ~ Hay(g)' /\ ~ Arriba(g)'
          /\ \A g, c : ~ P(g, c)'
<1>1. /\ pila' = <<>> /\ vigias' = <<>> /\ periodicos' = 0 /\ pend' = {}
      /\ sesion' = "fin" /\ DOMAIN pila' = {}
  BY DEF salirFunc
<1>. QED BY <1>1 DEF Hay, Arriba, P

LEMMA Tipo_Fin ==
    ASSUME TypeOK, Forma, Sale \/ Falla PROVE TypeOK' /\ Forma'
<1>1. salirFunc /\ UNCHANGED <<archivos, config, cuenta>>
  BY DEF Sale, Falla
<1>2. /\ pila' = <<>> /\ vigias' = <<>> /\ periodicos' = 0 /\ pend' = {}
      /\ sesion' = "fin" /\ DOMAIN pila' = {}
  BY <1>1, Salida
<1>3. Datos' /\ archivos' \in Fotos /\ cambios' \in Nat /\ pedidos' \in Nat
  BY <1>1, DatosTipo DEF Datos, config, tabla, TypeOK, cuenta
<1>4. anidada' \in BOOLEAN /\ mezclada' \in BOOLEAN
      /\ pend' \in SUBSET {"USR1", "USR2"}
  BY <1>1, <1>2, Zenon DEF TypeOK, cuenta
<1>5. /\ pila' \in Seq(Marcos) /\ vigias' \in Seq(Fotos) /\ periodicos' \in Nat
      /\ sesion' \in {"viva", "fin"}
  BY <1>2
<1>6. TypeOK'
  BY <1>3, <1>4, <1>5 DEF TypeOK, Datos
<1>7. Forma'
  BY <1>2, <1>5 DEF Forma, Bien
<1>. QED BY <1>6, <1>7

(* The steps outside the shell leave the stack alone.                      *)
Fuera == \/ UNCHANGED vars \/ ejecutarModulosPeriodicos
         \/ \E i \in DOMAIN vigias : verificarYrealizarCambios(i)
         \/ \E on \in Contenidos : CambiaArchivo("listas", on)
         \/ \E f \in Archivos \ {"listas"} : CambiaArchivo(f, {})

LEMMA Fuera_Deja ==
    ASSUME TypeOK, Fuera
    PROVE /\ UNCHANGED <<config, vigias, periodicos, pila, sesion, anidada,
                         mezclada, pedidos>>
          /\ pend' \subseteq pend \cup {"USR1", "USR2"}
          /\ "USR1" \in pend' => "USR1" \in pend \/ periodicos > 0
          /\ "USR2" \in pend' => "USR2" \in pend \/ vigias # <<>>
          /\ archivos' \in Fotos /\ cambios' \in Nat
          /\ \A f \in Archivos : \/ archivos'[f] = archivos[f]
                                 \/ archivos'[f].v = archivos[f].v + 1
<1>1. CASE UNCHANGED vars \/ ejecutarModulosPeriodicos
  BY <1>1 DEF vars, ejecutarModulosPeriodicos, cuenta, TypeOK
<1>2. CASE \E i \in DOMAIN vigias : verificarYrealizarCambios(i)
  <2>1. vigias # <<>>
    BY <1>2
  <2>. QED BY <1>2, <2>1 DEF verificarYrealizarCambios, cuenta, TypeOK
<1>3. ASSUME NEW f \in Archivos, NEW on \in SUBSET Palabras,
             CambiaArchivo(f, on)
      PROVE /\ archivos' \in Fotos
            /\ \A g \in Archivos : \/ archivos'[g] = archivos[g]
                                   \/ archivos'[g].v = archivos[g].v + 1
  <2>. DEFINE x == [v |-> archivos[f].v + 1,
                    on |-> IF f = "listas" THEN on ELSE {}]
  <2>1. archivos' = [archivos EXCEPT ![f] = x]
    BY <1>3 DEF CambiaArchivo
  <2>2. x \in Versiones /\ x.v = archivos[f].v + 1
    BY <1>3, DatosTipo DEF Versiones
  <2>. HIDE DEF x
  <2>. QED BY <2>1, <2>2 DEF TypeOK, Fotos
<1>4. CASE \/ \E on \in Contenidos : CambiaArchivo("listas", on)
           \/ \E f \in Archivos \ {"listas"} : CambiaArchivo(f, {})
  <2>1. PICK f \in Archivos, on \in SUBSET Palabras : CambiaArchivo(f, on)
    BY <1>4 DEF Archivos, Palabras
  <2>2. /\ UNCHANGED <<config, vigias, periodicos, pila, sesion, anidada,
                       mezclada, pedidos>>
        /\ pend' = pend /\ cambios' = cambios + 1
    BY <2>1, Zenon DEF CambiaArchivo
  <2>3. cambios' \in Nat
    BY <2>2 DEF TypeOK
  <2>. QED BY <1>3, <2>1, <2>2, <2>3
<1>. QED BY <1>1, <1>2, <1>4 DEF Fuera

LEMMA Tipo_Fuera == ASSUME TypeOK, Forma, Fuera PROVE TypeOK' /\ Forma'
<1>1. /\ UNCHANGED <<config, vigias, periodicos, pila, sesion, anidada,
                     mezclada, pedidos>>
      /\ pend' \subseteq pend \cup {"USR1", "USR2"}
      /\ archivos' \in Fotos /\ cambios' \in Nat
  BY Fuera_Deja
<1>2. Datos'
  BY <1>1, DatosTipo DEF Datos, config, tabla
<1>3. anidada' \in BOOLEAN /\ mezclada' \in BOOLEAN
  BY <1>1, Zenon DEF TypeOK
<1>4. TypeOK'
  BY <1>1, <1>2, <1>3 DEF TypeOK, Datos
<1>5. Forma'
  BY <1>1, Quieta DEF Forma
<1>. QED BY <1>4, <1>5

LEMMA Pasos_De ==
    [Next]_vars => \/ Recarga \/ Periodicos \/ Sale \/ Falla \/ Fuera
                   \/ Pide \/ Trap("USR1") \/ Trap("USR2")
  BY DEF Next, Fuera

LEMMA TipoPaso == ASSUME TypeOK, Forma, [Next]_vars PROVE TypeOK' /\ Forma'
  BY Pasos_De, Tipo_Fuera, Tipo_Recarga, Tipo_Periodicos, Tipo_Entra, Tipo_Fin

(* The variables of shield.sh keep their types, and what it is doing the   *)
(* form of a stack of interrupted functions, none of them twice in it.     *)
THEOREM ShieldTipos == Spec => [](TypeOK /\ Forma)
<1>1. Init => TypeOK /\ Forma
  BY InicioTipo
<1>2. TypeOK /\ Forma /\ [Next]_vars => TypeOK' /\ Forma'
  BY TipoPaso
<1>. QED BY <1>1, <1>2, PTL DEF Spec

(* The type invariant that the runs check.                                 *)
THEOREM ShieldTypeOK == Spec => []TypeOK
  BY ShieldTipos, PTL
-----------------------------------------------------------------------------
(* A reload is under way when one of its functions is in the stack, and    *)
(* each has one next command.  Only USR2 interrupts another reload.        *)
PilaDice ==
    /\ Recargando <=> \E g \in Recargas : Hay(g)
    /\ \A g \in Recargas : Hay(g) => \E c \in Pasos : P(g, c)
    /\ \A g \in Funciones : \A c : P(g, c) => Hay(g)
    /\ \A g \in Funciones : \A b, c : P(g, b) /\ P(g, c) => b = c
    /\ \A h \in {"inicio", "pedido"} : Arriba(h) =>
          \A g \in Funciones : Hay(g) <=> g = h
    /\ ~ (Hay("inicio") /\ Hay("pedido"))

LEMMA PilaLee == TypeOK /\ Forma => PilaDice
<1>. SUFFICES ASSUME TypeOK, Forma PROVE PilaDice
  OBVIOUS
<1>1. pila \in Seq(Marcos) /\ DOMAIN pila = 1 .. Len(pila) /\ Len(pila) \in Nat
  BY DEF TypeOK
<1>2. \A k \in DOMAIN pila : pila[k] \in Marcos
  BY <1>1
<1>3. \A k \in DOMAIN pila : pila[k].f \in Funciones
  BY <1>2 DEF Marcos, Funciones
<1>4. Recargando <=> \E g \in Recargas : Hay(g)
  BY <1>3 DEF Recargando, Hay, Recargas, Funciones
<1>5. ASSUME NEW g \in Recargas, Hay(g) PROVE \E c \in Pasos : P(g, c)
  <2>1. PICK k \in DOMAIN pila : pila[k].f = g
    BY <1>5 DEF Hay
  <2>2. Propios(pila[k]) /\ pila[k] \in Marcos
    BY <1>2, <2>1 DEF Forma, Bien
  <2>3. pila[k].pc \in Pasos
    BY <2>1, <2>2 DEF Propios, Recargas
  <2>. QED BY <2>1, <2>3 DEF P
<1>6. \A g \in Funciones : \A c : P(g, c) => Hay(g)
  BY DEF P, Hay
<1>7. ASSUME NEW g \in Funciones, NEW b, NEW c, P(g, b), P(g, c) PROVE b = c
  BY <1>7 DEF P, Forma, Bien
<1>8. ASSUME NEW h \in {"inicio", "pedido"}, Arriba(h), NEW g \in Funciones
      PROVE Hay(g) <=> g = h
  <2>1. pila # <<>> /\ pila[Len(pila)].f = h /\ Len(pila) \in DOMAIN pila
    BY <1>8, Tope DEF Arriba
  <2>2. ~ (Len(pila) > 1)
    BY <1>1, <2>1 DEF Forma, Bien
  <2>3. DOMAIN pila = {1} /\ pila[1].f = h
    BY <1>1, <2>1, <2>2
  <2>. QED BY <2>3 DEF Hay
<1>9. ~ (Hay("inicio") /\ Hay("pedido"))
  <2>1. ASSUME NEW j \in DOMAIN pila, NEW k \in DOMAIN pila,
               pila[j].f = "inicio", pila[k].f = "pedido"
        PROVE FALSE
    BY <1>1, <2>1 DEF Forma, Bien
  <2>. QED BY <2>1 DEF Hay
<1>. QED BY <1>4, <1>5, <1>6, <1>7, <1>8, <1>9 DEF PilaDice

LEMMA PilaLeera == (TypeOK /\ Forma)' => PilaDice'
  BY PilaLee, PTL

-----------------------------------------------------------------------------
LEMMA Numeros ==
    ASSUME TypeOK
    PROVE /\ \A c : FaltaP(c) \in 0 .. 1 /\ FaltaV(c) \in 0 .. 1
          /\ Cupo \in Nat /\ Cupo >= 1 /\ (anidada => Cupo = 2)
          /\ (~ anidada => Cupo = 1)
          /\ periodicos \in Nat /\ Len(vigias) \in Nat
          /\ (Len(vigias) = 0 <=> vigias = <<>>)
<1>1. \A c : FaltaP(c) \in 0 .. 1 /\ FaltaV(c) \in 0 .. 1
  BY DEF FaltaP, FaltaV
<1>2. /\ Cupo \in Nat /\ Cupo >= 1 /\ (anidada => Cupo = 2)
      /\ (~ anidada => Cupo = 1)
  BY DEF Cupo
<1>. QED BY <1>1, <1>2, Trabajos DEF TypeOK

LEMMA NumerosLuego ==
    TypeOK' => /\ Cupo' \in Nat /\ Cupo' >= 1 /\ (anidada' => Cupo' = 2)
               /\ periodicos' \in Nat /\ Len(vigias') \in Nat
  BY DEF Cupo, TypeOK

(* A step that leaves the jobs and the reloads as they were.               *)
LEMMA Cuentas_Guarda ==
    ASSUME CuentasInv, UNCHANGED <<vigias, periodicos, anidada, sesion>>,
           PilaDice, PilaDice',
           "USR2" \in pend' => "USR2" \in pend \/ vigias # <<>>,
           \A g \in Recargas : /\ Hay(g)' <=> Hay(g)
                               /\ \A c : P(g, c)' <=> P(g, c)
    PROVE CuentasInv'
<1>1. Recargando' <=> Recargando
  BY DEF PilaDice
<1>2. Cupo' = Cupo
  BY DEF Cupo
<1>3. {"inicio", "pedido", "USR2"} = Recargas
  BY DEF Recargas
<1>4. \A c : FaltaP(c)' = FaltaP(c) /\ FaltaV(c)' = FaltaV(c)
  BY DEF FaltaP, FaltaV
<1>. HIDE DEF Recargas
<1>5. \A c \in Pasos : P("inicio", c)' =>
         /\ c \in Primeros
         /\ vigias' = <<>> /\ periodicos' + FaltaP(c)' = 1
         /\ "USR2" \notin pend' /\ ~ Hay("USR2")' /\ ~ anidada'
  BY <1>3, <1>4 DEF CuentasInv
<1>6. Hay("pedido")' /\ Hay("USR2")' => anidada'
  BY <1>3 DEF CuentasInv
<1>7. sesion' = "viva" /\ ~ Recargando' =>
         /\ 1 <= periodicos' /\ periodicos' <= Cupo'
         /\ 1 <= Len(vigias') /\ Len(vigias') <= Cupo'
  BY <1>1, <1>2 DEF CuentasInv
<1>8. \A c \in Pasos :
         \/ P("pedido", c)' /\ ~ Hay("USR2")'
         \/ P("USR2", c)' /\ ~ Hay("pedido")'
         => /\ 1 <= periodicos' + FaltaP(c) /\ periodicos' + FaltaP(c) <= Cupo'
            /\ 1 <= Len(vigias') + FaltaV(c)
            /\ Len(vigias') + FaltaV(c) <= Cupo'
  BY <1>2, <1>3 DEF CuentasInv
<1>9. \A b, c \in Pasos : P("pedido", b)' /\ P("USR2", c)' =>
         /\ periodicos' + FaltaP(b) + FaltaP(c) <= Cupo'
         /\ Len(vigias') + FaltaV(b) + FaltaV(c) <= Cupo'
         /\ c = "lanza_verif" => 1 <= periodicos'
  BY <1>2, <1>3 DEF CuentasInv
<1>. QED BY <1>4, <1>5, <1>6, <1>7, <1>8, <1>9 DEF CuentasInv

(* What the commands of a reload do to the jobs: with those still to be    *)
(* started they are never more than before, or than one, and never fewer   *)

(* What it does to the stack.                                              *)
LEMMA Avanza_Mando ==
    ASSUME Forma, NEW c, NEW d, Mando(c, d)
    PROVE /\ Cima.f \in Recargas /\ Arriba(Cima.f) /\ P(Cima.f, c)
          /\ sesion = "viva"
          /\ \A g : (Hay(g)' <=> Hay(g)) /\ (Arriba(g)' <=> Arriba(g))
          /\ \A g, e : P(g, e)' <=> IF g = Cima.f THEN e = d ELSE P(g, e)
          /\ c \notin {"mata_verif", "mata_modper"} => SinUSR1
<1>1. /\ c \in Pasos \ {"falla"} /\ d \in Pasos /\ En(c)
      /\ \E R \in SUBSET Nat, m \in Palabras :
            Pon(d, R, m) /\ (d \in Lineas => R \subseteq Palabras)
  BY DEF Mando, Va
<1>. QED BY <1>1, Avanza, EnCurso

LEMMA Cabe ==
    ASSUME NEW p \in Nat, NEW q \in Nat, NEW a \in 0 .. 1, NEW t \in Nat,
           p + a <= t, 1 + a <= t, q <= p \/ q <= 1
    PROVE q + a <= t
  OBVIOUS

(* A reload goes on from c to d.                                           *)
LEMMA Cuentas_Avanza ==
    ASSUME TypeOK, Forma, CuentasInv, NEW c \in Pasos, NEW d \in Pasos,
           Mando(c, d), TypeOK' /\ Forma', UNCHANGED <<sesion, pend, anidada>>
    PROVE CuentasInv'
<1>. Balance(c, d)
  BY DEF Mando
<1>1. PICK h \in Recargas :
         /\ Arriba(h) /\ P(h, c)
         /\ \A g \in Funciones : Hay(g)' <=> Hay(g)
         /\ \A g \in Funciones : \A e :
               P(g, e)' <=> IF g = h THEN e = d ELSE P(g, e)
  BY Avanza_Mando
<1>2. PilaDice /\ PilaDice'
  BY PilaLee, PilaLeera
<1>3. /\ \A g \in Recargas : g \in Funciones
      /\ "inicio" \in Funciones /\ "pedido" \in Funciones
      /\ "USR2" \in Funciones
  BY DEF Recargas, Funciones
<1>4. /\ Hay("inicio")' <=> Hay("inicio")
      /\ Hay("pedido")' <=> Hay("pedido")
      /\ Hay("USR2")' <=> Hay("USR2") /\ Hay(h)
  BY <1>1, <1>2, <1>3 DEF PilaDice
<1>5. Cupo' = Cupo
  BY DEF Cupo
<1>6. /\ FaltaP(c) \in 0 .. 1 /\ FaltaV(c) \in 0 .. 1
      /\ FaltaP(d) \in 0 .. 1 /\ FaltaV(d) \in 0 .. 1
      /\ Cupo \in Nat /\ Cupo >= 1 /\ (anidada => Cupo = 2)
      /\ periodicos \in Nat /\ Len(vigias) \in Nat
      /\ periodicos' \in Nat /\ Len(vigias') \in Nat
  BY Numeros, NumerosLuego
<1>. DEFINE p == periodicos + FaltaP(c)
            q == periodicos' + FaltaP(d)
            v == Len(vigias) + FaltaV(c)
            w == Len(vigias') + FaltaV(d)
<1>7. p \in Nat /\ q \in Nat /\ v \in Nat /\ w \in Nat
  BY <1>6
<1>8. Recargando'
  BY <1>1, <1>2, <1>3 DEF PilaDice
<1>9. \A e \in Pasos : P("inicio", e)' =>
         /\ e \in Primeros
         /\ vigias' = <<>> /\ periodicos' + FaltaP(e) = 1
         /\ "USR2" \notin pend' /\ ~ Hay("USR2")' /\ ~ anidada'
  <2>. SUFFICES ASSUME NEW e \in Pasos, P("inicio", e)'
                PROVE /\ e \in Primeros
                      /\ vigias' = <<>> /\ periodicos' + FaltaP(e) = 1
                      /\ "USR2" \notin pend' /\ ~ Hay("USR2")' /\ ~ anidada'
    OBVIOUS
  <2>1. Hay("inicio")
    BY <1>2, <1>3, <1>4 DEF PilaDice
  <2>2. PICK b \in Pasos : P("inicio", b)
    BY <1>2, <2>1 DEF PilaDice, Recargas
  <2>3. ~ Hay("USR2") /\ ~ Hay("pedido")
    BY <1>2, <2>1, <2>2 DEF CuentasInv, PilaDice
  <2>4. h = "inicio"
    BY <1>4, <1>1, <2>3, <1>2, <1>3 DEF Recargas, PilaDice
  <2>5. /\ e = d /\ c \in Primeros /\ vigias = <<>> /\ p = 1
        /\ "USR2" \notin pend /\ ~ anidada
    BY <1>1, <1>3, <2>4 DEF CuentasInv
  <2>6. d \in Primeros /\ vigias' = vigias /\ q = p
    BY <2>5 DEF Balance
  <2>. QED BY <1>4, <2>3, <2>5, <2>6
<1>10. Hay("pedido")' /\ Hay("USR2")' => anidada'
  BY <1>4 DEF CuentasInv
<1>11. \A e \in Pasos :
          \/ P("pedido", e)' /\ ~ Hay("USR2")'
          \/ P("USR2", e)' /\ ~ Hay("pedido")'
          => /\ 1 <= periodicos' + FaltaP(e) /\ periodicos' + FaltaP(e) <= Cupo'
             /\ 1 <= Len(vigias') + FaltaV(e)
             /\ Len(vigias') + FaltaV(e) <= Cupo'
  <2>. SUFFICES ASSUME NEW e \in Pasos,
                       \/ P("pedido", e)' /\ ~ Hay("USR2")'
                       \/ P("USR2", e)' /\ ~ Hay("pedido")'
                PROVE /\ 1 <= periodicos' + FaltaP(e)
                      /\ periodicos' + FaltaP(e) <= Cupo'
                      /\ 1 <= Len(vigias') + FaltaV(e)
                      /\ Len(vigias') + FaltaV(e) <= Cupo'
    OBVIOUS
  <2>1. ~ Hay("inicio")
    <3>1. Hay("pedido")' \/ Hay("USR2")'
      BY <1>2, <1>3 DEF PilaDice
    <3>2. Hay("inicio") => \E b \in Pasos : P("inicio", b)
      BY <1>2 DEF PilaDice, Recargas
    <3>. QED BY <1>2, <1>4, <3>1, <3>2 DEF PilaDice, CuentasInv
  <2>2. /\ Hay("pedido") <=> h = "pedido"
        /\ Hay("USR2") <=> h = "USR2"
        /\ h # "inicio"
    <3>1. Hay(h) /\ h # "inicio"
      BY <1>1, <1>2, <1>3, <2>1 DEF PilaDice
    <3>2. ~ (Hay("pedido") /\ Hay("USR2"))
      <4>1. Hay("USR2") => Hay("USR2")'
        BY <1>1, <1>3
      <4>. QED BY <1>2, <1>3, <1>4, <4>1 DEF PilaDice
    <3>. QED BY <3>1, <3>2 DEF Recargas
  <2>3. e = d
    BY <1>1, <1>2, <1>3, <1>4, <2>2 DEF PilaDice
  <2>4. 1 <= p /\ p <= Cupo /\ 1 <= v /\ v <= Cupo
    BY <1>1, <2>2 DEF CuentasInv, Recargas
  <2>5. 1 <= q /\ 1 <= w
    BY <2>4 DEF Balance
  <2>6. q <= Cupo /\ w <= Cupo
    <3>1. (q <= p \/ q <= 1) /\ (w <= v \/ w <= 1)
      BY DEF Balance
    <3>. HIDE DEF p, q, v, w
    <3>. QED BY <1>6, <1>7, <2>4, <3>1
  <2>. QED BY <1>5, <2>3, <2>5, <2>6
<1>12. \A b, e \in Pasos : P("pedido", b)' /\ P("USR2", e)' =>
          /\ periodicos' + FaltaP(b) + FaltaP(e) <= Cupo'
          /\ Len(vigias') + FaltaV(b) + FaltaV(e) <= Cupo'
          /\ e = "lanza_verif" => 1 <= periodicos'
  <2>. SUFFICES ASSUME NEW b \in Pasos, NEW e \in Pasos,
                       P("pedido", b)', P("USR2", e)'
                PROVE /\ periodicos' + FaltaP(b) + FaltaP(e) <= Cupo'
                      /\ Len(vigias') + FaltaV(b) + FaltaV(e) <= Cupo'
                      /\ e = "lanza_verif" => 1 <= periodicos'
    OBVIOUS
  <2>1. Hay("pedido") /\ Hay("USR2")
    <3>1. Hay("pedido")' /\ Hay("USR2")'
      BY <1>2, <1>3 DEF PilaDice
    <3>. QED BY <1>1, <1>3, <3>1
  <2>2. h = "USR2"
    BY <1>1, <1>2, <1>3, <2>1 DEF PilaDice, Recargas
  <2>3. e = d /\ P("pedido", b) /\ P("USR2", c)
    BY <1>1, <1>3, <2>2
  <2>4. anidada /\ Cupo = 2
    BY <1>6, <2>1 DEF CuentasInv
  <2>5. /\ periodicos + FaltaP(b) + FaltaP(c) <= 2
        /\ Len(vigias) + FaltaV(b) + FaltaV(c) <= 2
    BY <2>3, <2>4 DEF CuentasInv
  <2>6. FaltaP(b) \in 0 .. 1 /\ FaltaV(b) \in 0 .. 1
    BY Numeros
  <2>7. p + FaltaP(b) <= 2 /\ v + FaltaV(b) <= 2
    BY <1>6, <2>5, <2>6
  <2>8. (q <= p \/ q <= 1) /\ (w <= v \/ w <= 1)
    BY DEF Balance
  <2>9. q + FaltaP(b) <= 2 /\ w + FaltaV(b) <= 2
    <3>1. 1 + FaltaP(b) <= 2 /\ 1 + FaltaV(b) <= 2
      BY <2>6
    <3>. HIDE DEF p, q, v, w
    <3>. QED BY <1>7, <2>7, <2>8, <2>6, <3>1, Cabe
  <2>10. /\ periodicos' + FaltaP(b) + FaltaP(e) <= 2
        /\ Len(vigias') + FaltaV(b) + FaltaV(e) <= 2
    BY <1>6, <2>3, <2>9, <2>6
  <2>11. e = "lanza_verif" => 1 <= periodicos'
    BY <2>3 DEF Balance
  <2>. QED BY <1>5, <2>4, <2>10, <2>11
<1>13. \A b : FaltaP(b)' = FaltaP(b) /\ FaltaV(b)' = FaltaV(b)
  BY DEF FaltaP, FaltaV
<1>. HIDE DEF p, q, v, w
<1>. QED BY <1>8, <1>9, <1>10, <1>11, <1>12, <1>13 DEF CuentasInv

(* A reload ends with the job that watches the files.                      *)
LEMMA Cuentas_Fin ==
    ASSUME TypeOK, Forma, CuentasInv, LanzaVerif, TypeOK' /\ Forma'
    PROVE CuentasInv'
<1>1. /\ UNCHANGED <<periodicos, anidada, sesion, pend>>
      /\ Len(vigias') = Len(vigias) + 1
  BY Trabajos DEF LanzaVerif, cuenta
<1>2. /\ "lanza_verif" \in Pasos
      /\ FaltaP("lanza_verif") = 0 /\ FaltaV("lanza_verif") = 1
  BY DEF Pasos, Lanzando, FaltaP, FaltaV, Detenidos, Parando, Ventana,
         Leyendo, Iniciando
<1>3. PICK h \in Recargas :
         /\ P(h, "lanza_verif") /\ Arriba(h)
         /\ \A g \in Funciones : Hay(g)' <=> g # h /\ Hay(g)
         /\ \A g \in Funciones : \A e : P(g, e)' <=> g # h /\ P(g, e)
  <2>1. En("lanza_verif") /\ pila' = Front(pila)
    BY DEF LanzaVerif
  <2>2. "lanza_verif" \in Pasos \ {"falla"}
    BY DEF Pasos, Lanzando
  <2>3. /\ Cima.f \in Recargas /\ P(Cima.f, "lanza_verif") /\ Arriba(Cima.f)
        /\ pila # <<>>
    BY <2>1, <2>2, EnCurso
  <2>. QED BY <2>1, <2>3, Baja
<1>4. PilaDice /\ PilaDice'
  BY PilaLee, PilaLeera
<1>5. /\ \A g \in Recargas : g \in Funciones
      /\ "inicio" \in Funciones /\ "pedido" \in Funciones
      /\ "USR2" \in Funciones
  BY DEF Recargas, Funciones
<1>6. Hay(h)
  BY <1>3, <1>4, <1>5 DEF PilaDice
<1>7. Hay("inicio") => ~ Hay("USR2") /\ ~ Hay("pedido")
  BY <1>4 DEF PilaDice, CuentasInv, Recargas
<1>8. ~ Hay("inicio")'
  BY <1>3, <1>5, <1>6, <1>7 DEF Recargas
<1>9. ~ (Hay("pedido")' /\ Hay("USR2")')
  BY <1>3, <1>5, <1>6, <1>7 DEF Recargas
<1>10. /\ Cupo' = Cupo /\ periodicos \in Nat /\ Len(vigias) \in Nat
       /\ Cupo \in Nat /\ Cupo >= 1 /\ (anidada => Cupo = 2)
       /\ \A b : FaltaP(b) \in 0 .. 1 /\ FaltaV(b) \in 0 .. 1
  BY <1>1, Numeros DEF Cupo
<1>11. ASSUME ~ (Hay("pedido") /\ Hay("USR2"))
       PROVE /\ 1 <= periodicos /\ periodicos <= Cupo
             /\ 1 <= Len(vigias) + 1 /\ Len(vigias) + 1 <= Cupo
  <2>1. CASE h = "inicio"
    <3>1. P("inicio", "lanza_verif")
      BY <1>3, <2>1
    <3>2. vigias = <<>> /\ periodicos + FaltaP("lanza_verif") = 1
      BY <1>2, <3>1 DEF CuentasInv
    <3>3. periodicos = 1 /\ Len(vigias) = 0
      BY <1>2, <1>10, <3>2
    <3>. QED BY <1>10, <3>3
  <2>2. CASE h # "inicio"
    <3>1. \/ P("pedido", "lanza_verif") /\ ~ Hay("USR2")
          \/ P("USR2", "lanza_verif") /\ ~ Hay("pedido")
      BY <1>3, <1>6, <1>11, <2>2 DEF Recargas
    <3>2. /\ 1 <= periodicos + FaltaP("lanza_verif")
          /\ periodicos + FaltaP("lanza_verif") <= Cupo
          /\ 1 <= Len(vigias) + FaltaV("lanza_verif")
          /\ Len(vigias) + FaltaV("lanza_verif") <= Cupo
      BY <1>2, <3>1 DEF CuentasInv
    <3>. QED BY <1>2, <1>10, <3>2
  <2>. QED BY <2>1, <2>2
<1>12. sesion' = "viva" /\ ~ Recargando' =>
          /\ 1 <= periodicos' /\ periodicos' <= Cupo'
          /\ 1 <= Len(vigias') /\ Len(vigias') <= Cupo'
  <2>. SUFFICES ASSUME ~ Recargando'
                PROVE /\ 1 <= periodicos' /\ periodicos' <= Cupo'
                      /\ 1 <= Len(vigias') /\ Len(vigias') <= Cupo'
    OBVIOUS
  <2>1. ~ (Hay("pedido") /\ Hay("USR2"))
    BY <1>3, <1>4, <1>5 DEF PilaDice, Recargas
  <2>. QED BY <1>1, <1>10, <1>11, <2>1
<1>13. \A e \in Pasos :
          \/ P("pedido", e)' /\ ~ Hay("USR2")'
          \/ P("USR2", e)' /\ ~ Hay("pedido")'
          => /\ 1 <= periodicos' + FaltaP(e) /\ periodicos' + FaltaP(e) <= Cupo'
             /\ 1 <= Len(vigias') + FaltaV(e)
             /\ Len(vigias') + FaltaV(e) <= Cupo'
  <2>. SUFFICES ASSUME NEW e \in Pasos,
                       \/ P("pedido", e)' /\ ~ Hay("USR2")'
                       \/ P("USR2", e)' /\ ~ Hay("pedido")'
                PROVE /\ 1 <= periodicos' + FaltaP(e)
                      /\ periodicos' + FaltaP(e) <= Cupo'
                      /\ 1 <= Len(vigias') + FaltaV(e)
                      /\ Len(vigias') + FaltaV(e) <= Cupo'
    OBVIOUS
  <2>1. P("pedido", e) /\ h = "USR2"
    <3>1. (P("pedido", e) \/ P("USR2", e)) /\ Hay("inicio") = FALSE
      <4>1. Hay("pedido") \/ Hay("USR2")
        BY <1>3, <1>4, <1>5 DEF PilaDice
      <4>. QED BY <1>3, <1>5, <1>7, <4>1
    <3>2. h # "inicio"
      BY <1>6, <3>1
    <3>3. CASE h = "pedido"
      <4>1. P("USR2", e)
        BY <1>3, <1>5, <3>3
      <4>2. Arriba("pedido")
        BY <1>3, <3>3
      <4>. QED BY <1>4, <1>5, <4>1, <4>2 DEF PilaDice
    <3>4. CASE h = "USR2"
      BY <1>3, <1>5, <3>4
    <3>. QED BY <3>2, <3>3, <3>4 DEF Recargas
  <2>2. P("USR2", "lanza_verif") /\ Hay("pedido") /\ Hay("USR2")
    BY <1>3, <1>4, <1>5, <1>6, <2>1 DEF PilaDice
  <2>3. anidada /\ Cupo = 2
    BY <1>10, <2>2 DEF CuentasInv
  <2>4. /\ periodicos + FaltaP(e) + 0 <= 2
        /\ Len(vigias) + FaltaV(e) + 1 <= 2
        /\ 1 <= periodicos
    BY <1>2, <2>1, <2>2, <2>3 DEF CuentasInv
  <2>5. FaltaP(e) \in 0 .. 1 /\ FaltaV(e) \in 0 .. 1
    BY Numeros
  <2>. QED BY <1>1, <1>10, <2>3, <2>4, <2>5
<1>14. ~ \E c \in Pasos : P("inicio", c)'
  BY <1>4, <1>5, <1>8 DEF PilaDice
<1>15. ~ \E b, c \in Pasos : P("pedido", b)' /\ P("USR2", c)'
  BY <1>4, <1>5, <1>9 DEF PilaDice
<1>16. \A b : FaltaP(b)' = FaltaP(b) /\ FaltaV(b)' = FaltaV(b)
  BY DEF FaltaP, FaltaV
<1>. QED BY <1>9, <1>12, <1>13, <1>14, <1>15, <1>16 DEF CuentasInv

(* No function is left, and the shell has ended.                           *)
LEMMA Cuentas_Salida ==
    ASSUME salirFunc PROVE CuentasInv'
<1>1. sesion' = "fin" /\ (\A g : ~ Hay(g)') /\ (\A g, c : ~ P(g, c)')
  BY Salida
<1>. QED BY <1>1 DEF CuentasInv

LEMMA Cuentas_Recarga ==
    ASSUME TypeOK, Forma, CuentasInv, Recarga, TypeOK' /\ Forma'
    PROVE CuentasInv'
<1>1. CASE LanzaVerif
  BY <1>1, Cuentas_Fin
<1>2. CASE ~ LanzaVerif
  <2>1. UNCHANGED <<sesion, pend, anidada>> /\ \E c, d : Mando(c, d)
    BY <1>2, Ruta DEF cuenta
  <2>. QED BY <2>1, Cuentas_Avanza DEF Mando
<1>. QED BY <1>1, <1>2

(* What the steps outside a reload do to it.                               *)
LEMMA Resto_Pila ==
    ASSUME TypeOK, Forma, Fuera \/ Periodicos \/ Trap("USR1")
    PROVE /\ UNCHANGED <<foto, tabla, iniciados, cargado, vigias, periodicos,
                         sesion>>
          /\ \A g \in Recargas : /\ Hay(g)' <=> Hay(g)
                                 /\ \A c : P(g, c)' <=> P(g, c)
          /\ anidada' <=> anidada
          /\ "USR2" \in pend' => "USR2" \in pend \/ vigias # <<>>
<1>1. \A g \in Recargas : g # "USR1"
  BY DEF Recargas
<1>2. CASE Fuera
  BY <1>2, Fuera_Deja, Quieta DEF config
<1>3. CASE Periodicos
  BY <1>3, Bucle DEF cuenta
<1>4. CASE Trap("USR1")
  <2>1. UNCHANGED <<config, vigias, periodicos, sesion>>
    BY <1>4, Entra
  <2>2. (anidada' <=> anidada) /\ pend' = pend \ {"USR1"}
    BY <1>4 DEF Trap, TypeOK
  <2>3. /\ \A g : Hay(g)' <=> Hay(g) \/ g = "USR1"
        /\ \A g, c : P(g, c)' <=> P(g, c) \/ (g = "USR1" /\ c = "for")
    BY <1>4, Entra
  <2>. QED BY <1>1, <2>1, <2>2, <2>3 DEF config
<1>. QED BY <1>2, <1>3, <1>4

(* A reload that begins finds the jobs as the shell leaves them at rest,   *)
(* or as the request of the user it interrupts has left them.              *)
LEMMA Cuentas_Entra ==
    ASSUME TypeOK, Forma, CuentasInv, Pide \/ Trap("USR2"), TypeOK' /\ Forma'
    PROVE CuentasInv'
<1>1. PilaDice /\ PilaDice'
  BY PilaLee, PilaLeera
<1>2. /\ \A g \in Recargas : g \in Funciones
      /\ "inicio" \in Funciones /\ "pedido" \in Funciones
      /\ "USR2" \in Funciones
  BY DEF Recargas, Funciones
<1>3. /\ UNCHANGED <<vigias, periodicos, sesion>> /\ sesion = "viva"
  BY Entra
<1>4. /\ FaltaP("kill_verif") = 0 /\ FaltaV("kill_verif") = 0
      /\ FaltaP("config_listas") = 0 /\ FaltaV("config_listas") = 0
      /\ \A b : FaltaP(b)' = FaltaP(b) /\ FaltaV(b)' = FaltaV(b)
  BY DEF FaltaP, FaltaV, Detenidos, Parando, Ventana, Leyendo, Iniciando
<1>5. /\ periodicos \in Nat /\ Len(vigias) \in Nat /\ Cupo \in Nat
      /\ Cupo >= 1 /\ (anidada => Cupo = 2) /\ (~ anidada => Cupo = 1)
      /\ Cupo' \in Nat /\ Cupo' >= 1 /\ (anidada' => Cupo' = 2)
  BY Numeros, NumerosLuego
<1>6. CASE Pide
  <2>1. pila = <<>> /\ (anidada' <=> anidada)
    BY <1>6 DEF Pide
  <2>2. \A g : ~ Hay(g) /\ \A c : ~ P(g, c)
    BY <2>1 DEF Hay, P
  <2>3. ~ Recargando /\ Cupo' = Cupo
    BY <1>1, <2>1, <2>2 DEF PilaDice, Cupo
  <2>4. /\ 1 <= periodicos /\ periodicos <= Cupo
        /\ 1 <= Len(vigias) /\ Len(vigias) <= Cupo
    BY <1>3, <2>3 DEF CuentasInv
  <2>5. /\ \A g \in Funciones : Hay(g)' <=> g = "pedido"
        /\ \A g \in Funciones : \A c :
              P(g, c)' <=> g = "pedido" /\ c = "kill_verif"
    BY <1>6, <2>2, Entra
  <2>6. Recargando'
    BY <1>1, <2>5, <1>2 DEF PilaDice, Recargas
  <2>. QED BY <1>2, <1>3, <1>4, <1>5, <2>3, <2>4, <2>5, <2>6 DEF CuentasInv
<1>7. CASE Trap("USR2")
  <2>1. "USR2" \in pend /\ (anidada' <=> anidada \/ Hay("pedido"))
    BY <1>7 DEF Trap, Atendible, Hay
  <2>2. ~ Hay("inicio")
    BY <1>1, <2>1 DEF PilaDice, CuentasInv, Recargas
  <2>3. /\ \A g \in Funciones : Hay(g)' <=> Hay(g) \/ g = "USR2"
        /\ \A g \in Funciones : \A c :
              P(g, c)' <=> P(g, c) \/ (g = "USR2" /\ c = "config_listas")
        /\ ~ Hay("USR2")
    BY <1>7, Entra
  <2>4. Recargando' /\ ~ Hay("inicio")' /\ \A c : ~ P("inicio", c)'
    BY <1>1, <1>2, <2>2, <2>3 DEF PilaDice, Recargas
  <2>5. \A c : P("USR2", c)' <=> c = "config_listas"
    BY <1>1, <1>2, <2>3 DEF PilaDice
  <2>6. CASE Hay("pedido")
    <3>1. anidada' /\ Cupo' = 2
      BY <1>5, <2>1, <2>6
    <3>2. PICK b \in Pasos : P("pedido", b)
      BY <1>1, <2>6 DEF PilaDice, Recargas
    <3>3. periodicos + FaltaP(b) <= Cupo /\ Len(vigias) + FaltaV(b) <= Cupo
      BY <2>3, <3>2 DEF CuentasInv
    <3>4. /\ FaltaP(b) \in 0 .. 1 /\ FaltaV(b) \in 0 .. 1 /\ Cupo <= 2
      BY <1>5, Numeros
    <3>5. /\ periodicos' + FaltaP(b) + 0 <= Cupo'
          /\ Len(vigias') + FaltaV(b) + 0 <= Cupo'
      BY <1>3, <1>5, <3>1, <3>3, <3>4
    <3>6. \A c : P("pedido", c)' <=> c = b
      BY <1>1, <1>2, <2>3, <3>2 DEF PilaDice
    <3>7. Hay("pedido")' /\ Hay("USR2")'
      BY <1>2, <2>3, <2>6
    <3>. QED BY <1>4, <2>4, <2>5, <3>1, <3>5, <3>6, <3>7 DEF CuentasInv
  <2>7. CASE ~ Hay("pedido")
    <3>1. ~ Recargando /\ Cupo' = Cupo
      BY <1>1, <2>1, <2>2, <2>3, <2>7 DEF PilaDice, Recargas, Cupo
    <3>2. /\ 1 <= periodicos /\ periodicos <= Cupo
          /\ 1 <= Len(vigias) /\ Len(vigias) <= Cupo
      BY <1>3, <3>1 DEF CuentasInv
    <3>3. ~ Hay("pedido")' /\ \A c : ~ P("pedido", c)'
      BY <1>1, <1>2, <2>3, <2>7 DEF PilaDice
    <3>. QED BY <1>3, <1>4, <1>5, <2>4, <2>5, <3>1, <3>2, <3>3 DEF CuentasInv
  <2>. QED BY <2>6, <2>7
<1>. QED BY <1>6, <1>7

LEMMA CuentasPaso ==
    ASSUME TypeOK, Forma, CuentasInv, [Next]_vars, TypeOK' /\ Forma'
    PROVE CuentasInv'
<1>1. CASE Recarga
  BY <1>1, Cuentas_Recarga
<1>2. CASE Fuera \/ Periodicos \/ Trap("USR1")
  <2>1. PilaDice /\ PilaDice'
    BY PilaLee, PilaLeera
  <2>2. UNCHANGED anidada
    <3>1. anidada' <=> anidada
      BY <1>2, Resto_Pila
    <3>2. anidada \in BOOLEAN /\ anidada' \in BOOLEAN
      BY DEF TypeOK
    <3>. QED BY <3>1, <3>2, Zenon
  <2>. QED BY <1>2, <2>1, <2>2, Resto_Pila, Cuentas_Guarda
<1>3. CASE Falla \/ Sale
  BY <1>3, Cuentas_Salida DEF Sale, Falla
<1>4. CASE Pide \/ Trap("USR2")
  BY <1>4, Cuentas_Entra
<1>. QED BY <1>1, <1>2, <1>3, <1>4, Pasos_De

LEMMA Cuentas_Inicio == ASSUME Init, TypeOK, Forma PROVE CuentasInv
<1>1. PilaDice
  BY PilaLee
<1>2. pila = <<Marco("inicio", "r_cero")>>
  BY DEF Init
<1>3. DOMAIN pila = {1} /\ pila[1].f = "inicio" /\ pila[1].pc = "r_cero"
  BY <1>2 DEF Marco
<1>4. \A g : Hay(g) <=> g = "inicio"
  BY <1>3 DEF Hay
<1>5. \A g, c : P(g, c) <=> g = "inicio" /\ c = "r_cero"
  BY <1>3 DEF P
<1>6. Recargando
  BY <1>3 DEF Recargando
<1>7. FaltaP("r_cero") = 1 /\ "r_cero" \in Primeros
  BY DEF FaltaP, Primeros, Detenidos, Ventana
<1>8. vigias = <<>> /\ periodicos = 0 /\ pend = {} /\ ~ anidada
  BY DEF Init
<1>. QED BY <1>4, <1>5, <1>6, <1>7, <1>8 DEF CuentasInv

THEOREM CuentasCorrectas == Spec => [](TypeOK /\ Forma /\ CuentasInv)
<1>1. Init => TypeOK /\ Forma /\ CuentasInv
  BY InicioTipo, Cuentas_Inicio
<1>2. TypeOK /\ Forma /\ CuentasInv /\ [Next]_vars
         => TypeOK' /\ Forma' /\ CuentasInv'
  BY TipoPaso, CuentasPaso
<1>. QED BY <1>1, <1>2, PTL DEF Spec

(* Every reload kills as many jobs as it starts, but for the one that a    *)
(* trap USR2 in the middle of a request leaves over.                       *)
THEOREM TrabajosContados == Spec => []UnTrabajo
<1>1. TypeOK /\ Forma /\ CuentasInv => UnTrabajo
  <2>. SUFFICES ASSUME TypeOK, Forma, CuentasInv PROVE UnTrabajo
    OBVIOUS
  <2>1. PilaDice
    BY PilaLee
  <2>2. /\ periodicos \in Nat /\ Len(vigias) \in Nat /\ Cupo \in Nat
        /\ Cupo >= 1 /\ (Len(vigias) = 0 <=> vigias = <<>>)
        /\ \A c : FaltaP(c) \in 0 .. 1 /\ FaltaV(c) \in 0 .. 1
    BY Numeros
  <2>3. sesion = "viva" /\ ~ Recargando => periodicos > 0 /\ vigias # <<>>
    BY <2>2 DEF CuentasInv
  <2>4. periodicos <= Cupo /\ Len(vigias) <= Cupo
    <3>1. CASE sesion # "viva"
      BY <2>2, <3>1 DEF TypeOK, Forma
    <3>2. CASE sesion = "viva" /\ ~ Recargando
      BY <3>2 DEF CuentasInv
    <3>3. CASE Hay("inicio")
      <4>1. PICK c \in Pasos : P("inicio", c)
        BY <2>1, <3>3 DEF PilaDice, Recargas
      <4>2. vigias = <<>> /\ periodicos + FaltaP(c) = 1
        BY <4>1 DEF CuentasInv
      <4>. QED BY <2>2, <4>2
    <3>4. CASE Hay("pedido") /\ ~ Hay("USR2")
      <4>1. PICK c \in Pasos : P("pedido", c)
        BY <2>1, <3>4 DEF PilaDice, Recargas
      <4>2. periodicos + FaltaP(c) <= Cupo /\ Len(vigias) + FaltaV(c) <= Cupo
        BY <3>4, <4>1 DEF CuentasInv
      <4>3. FaltaP(c) \in Nat /\ FaltaV(c) \in Nat
        BY <2>2
      <4>. QED BY <2>2, <4>2, <4>3
    <3>5. CASE Hay("USR2") /\ ~ Hay("pedido")
      <4>1. PICK c \in Pasos : P("USR2", c)
        BY <2>1, <3>5 DEF PilaDice, Recargas
      <4>2. periodicos + FaltaP(c) <= Cupo /\ Len(vigias) + FaltaV(c) <= Cupo
        BY <3>5, <4>1 DEF CuentasInv
      <4>3. FaltaP(c) \in Nat /\ FaltaV(c) \in Nat
        BY <2>2
      <4>. QED BY <2>2, <4>2, <4>3
    <3>6. CASE Hay("USR2") /\ Hay("pedido")
      <4>1. PICK b \in Pasos : P("pedido", b)
        BY <2>1, <3>6 DEF PilaDice, Recargas
      <4>2. PICK c \in Pasos : P("USR2", c)
        BY <2>1, <3>6 DEF PilaDice, Recargas
      <4>3. /\ periodicos + FaltaP(b) + FaltaP(c) <= Cupo
            /\ Len(vigias) + FaltaV(b) + FaltaV(c) <= Cupo
        BY <4>1, <4>2 DEF CuentasInv
      <4>4. /\ FaltaP(b) \in Nat /\ FaltaV(b) \in Nat
            /\ FaltaP(c) \in Nat /\ FaltaV(c) \in Nat
        BY <2>2
      <4>. QED BY <2>2, <4>3, <4>4
    <3>. QED BY <2>1, <3>1, <3>2, <3>3, <3>4, <3>5, <3>6
             DEF PilaDice, Recargas
  <2>. QED BY <2>3, <2>4 DEF UnTrabajo, Cupo
<1>. QED BY <1>1, CuentasCorrectas, PTL
-----------------------------------------------------------------------------
LEMMA Detenidos_Son ==
    /\ Detenidos \subseteq Pasos
    /\ {"kill_verif", "config_listas", "mata_verif", "mata_modper", "detener",
        "lanza_verif"} \cap Detenidos = {}
    /\ "i_source" \in Detenidos /\ "detener" \in Pasos
    /\ {"for", "procesar", "p_test"} \cap Detenidos = {}
  BY DEF Detenidos, Pasos, Antes, Parando, Ventana, Leyendo, Iniciando,
         Lanzando

(* While the modules are stopped there is no job to send USR1.             *)
LEMMA SinPeriodicos ==
    ASSUME TypeOK, Forma, CuentasInv, ~ anidada, NEW g \in Recargas,
           NEW c \in Detenidos, P(g, c)
    PROVE periodicos = 0
<1>1. PilaDice
  BY PilaLee
<1>2. c \in Pasos /\ FaltaP(c) = 1 /\ g \in Funciones
  BY Detenidos_Son DEF FaltaP, Recargas, Funciones
<1>3. periodicos \in Nat /\ Cupo = 1
  BY Numeros
<1>4. ~ (Hay("pedido") /\ Hay("USR2")) /\ Hay(g)
  BY <1>1, <1>2 DEF CuentasInv, PilaDice
<1>5. CASE g = "inicio"
  <2>1. periodicos + FaltaP(c) = 1
    BY <1>2, <1>5 DEF CuentasInv
  <2>. QED BY <1>2, <1>3, <2>1
<1>6. CASE g # "inicio"
  <2>1. periodicos + FaltaP(c) <= Cupo
    BY <1>2, <1>4, <1>6 DEF CuentasInv, Recargas
  <2>. QED BY <1>2, <1>3, <2>1
<1>. QED BY <1>5, <1>6

(* A reload goes on, or ends; so does a trap USR1.                         *)
LEMMA Inicio_Recarga ==
    ASSUME TypeOK, Forma, InicioInv, Recarga PROVE InicioInv'
<1>1. CASE LanzaVerif
  <2>1. /\ UNCHANGED <<anidada, mezclada>> /\ pila # <<>>
        /\ pila' = Front(pila)
    BY <1>1 DEF LanzaVerif, cuenta, En
  <2>2. \A g, e : P(g, e)' <=> g # Cima.f /\ P(g, e)
    BY <2>1, Baja
  <2>3. \A g : Arriba(g) => g = Cima.f
    BY DEF Arriba
  <2>. QED BY <2>1, <2>2, <2>3 DEF InicioInv
<1>2. CASE ~ LanzaVerif
  <2>1. UNCHANGED <<anidada, mezclada, pend>> /\ \E c, d : Mando(c, d)
    BY <1>2, Ruta DEF cuenta
  <2>2. PICK c, d : Mando(c, d)
    BY <2>1
  <2>3. /\ Cima.f \in Recargas /\ Arriba(Cima.f) /\ P(Cima.f, c)
        /\ \A g : (Hay(g)' <=> Hay(g)) /\ (Arriba(g)' <=> Arriba(g))
        /\ \A g, e : P(g, e)' <=> IF g = Cima.f THEN e = d ELSE P(g, e)
        /\ c \notin {"mata_verif", "mata_modper"} => SinUSR1
    BY <2>2, Avanza_Mando
  <2>4. ASSUME ~ anidada, NEW g \in Recargas, NEW e \in Detenidos, P(g, e)'
        PROVE Arriba(g)' /\ SinUSR1'
    <3>1. g = Cima.f
      <4>1. g # Cima.f => Arriba(g)
        BY <2>3, <2>4 DEF InicioInv
      <4>. QED BY <4>1 DEF Arriba
    <3>2. d \in Detenidos
      BY <2>3, <2>4, <3>1
    <3>3. c \notin {"mata_verif", "mata_modper"}
      BY <2>2, <3>2, Detenidos_Son DEF Mando
    <3>4. SinUSR1'
      BY <2>1, <2>3, <3>3 DEF SinUSR1
    <3>. QED BY <2>3, <3>1, <3>4
  <2>. QED BY <2>1, <2>4 DEF InicioInv
<1>. QED BY <1>1, <1>2

LEMMA Inicio_Periodicos ==
    ASSUME TypeOK, Forma, InicioInv, Periodicos PROVE InicioInv'
<1>1. Cima.f = "USR1" /\ UNCHANGED cuenta
  BY Bucle
<1>2. \A g \in Recargas : \A c : P(g, c)' <=> P(g, c)
  BY Bucle
<1>3. \A g \in Recargas : ~ Arriba(g)
  BY <1>1 DEF Arriba, Recargas
<1>. QED BY <1>1, <1>2, <1>3 DEF InicioInv, cuenta

(* What can send or attend a USR1 finds no modules stopped.                *)
LEMMA Inicio_Fuera ==
    ASSUME TypeOK, Forma, CuentasInv, InicioInv, Fuera PROVE InicioInv'
<1>1. /\ UNCHANGED <<pila, anidada, mezclada>>
      /\ "USR1" \in pend' => "USR1" \in pend \/ periodicos > 0
  BY Fuera_Deja
<1>2. /\ \A g : (Hay(g)' <=> Hay(g)) /\ (Arriba(g)' <=> Arriba(g))
      /\ \A g, c : P(g, c)' <=> P(g, c)
  BY <1>1, Quieta
<1>3. ASSUME ~ anidada, NEW g \in Recargas, NEW c \in Detenidos, P(g, c)
      PROVE Arriba(g)' /\ SinUSR1'
  <2>1. Arriba(g) /\ SinUSR1 /\ periodicos = 0
    BY <1>3, SinPeriodicos DEF InicioInv
  <2>. QED BY <1>1, <1>2, <2>1 DEF SinUSR1
<1>. QED BY <1>1, <1>2, <1>3 DEF InicioInv

LEMMA Inicio_USR1 ==
    ASSUME TypeOK, Forma, InicioInv, Trap("USR1") PROVE InicioInv'
<1>1. /\ ~ SinUSR1 /\ (anidada' <=> anidada)
      /\ mezclada' <=> mezclada \/ \E k \in DOMAIN pila :
                                      pila[k].pc = "i_source"
  BY DEF Trap, Atendible, SinUSR1, Hay
<1>2. \A g, c : P(g, c)' <=> P(g, c) \/ (g = "USR1" /\ c = "for")
  BY Entra
<1>3. ~ anidada => \A g \in Recargas : \A c \in Detenidos : ~ P(g, c)
  BY <1>1 DEF InicioInv
<1>4. ASSUME NEW k \in DOMAIN pila, pila[k].pc = "i_source" PROVE anidada
  <2>1. pila[k] \in Marcos /\ Propios(pila[k])
    BY DEF Forma, Bien
  <2>2. pila[k].f \in Recargas
    BY <1>4, <2>1 DEF Propios, Marcos, Recargas
  <2>3. P(pila[k].f, "i_source")
    BY <1>4 DEF P
  <2>. QED BY <1>3, <2>2, <2>3, Detenidos_Son
<1>. QED BY <1>1, <1>2, <1>3, <1>4 DEF InicioInv, Recargas

LEMMA Inicio_Entra ==
    ASSUME TypeOK, Forma, CuentasInv, InicioInv, Pide \/ Trap("USR2")
    PROVE InicioInv'
<1>1. PilaDice
  BY PilaLee
<1>2. CASE Pide
  <2>1. \A g, c : ~ P(g, c)
    BY <1>2 DEF Pide, P
  <2>2. \A g, c : P(g, c)' <=> g = "pedido" /\ c = "kill_verif"
    BY <1>2, <2>1, Entra
  <2>3. UNCHANGED <<anidada, mezclada>>
    BY <1>2 DEF Pide
  <2>. QED BY <2>2, <2>3, Detenidos_Son DEF InicioInv
<1>3. CASE Trap("USR2")
  <2>1. /\ "USR2" \in pend /\ (anidada' <=> anidada \/ Hay("pedido"))
        /\ mezclada' => mezclada \/ Hay("pedido")
    BY <1>3 DEF Trap, Atendible, Hay
  <2>2. ~ Hay("inicio")
    BY <1>1, <2>1 DEF PilaDice, CuentasInv, Recargas
  <2>3. /\ \A g, c : P(g, c)' <=> P(g, c) \/ (g = "USR2"
                                              /\ c = "config_listas")
        /\ ~ Hay("USR2")
    BY <1>3, Entra
  <2>4. ~ Hay("pedido") => \A g \in Recargas : \A c : ~ P(g, c)
    BY <2>2, <2>3 DEF Recargas, P, Hay
  <2>. QED BY <2>1, <2>3, <2>4, Detenidos_Son DEF InicioInv
<1>. QED BY <1>2, <1>3

LEMMA InicioPaso ==
    ASSUME TypeOK, Forma, CuentasInv, InicioInv, [Next]_vars
    PROVE InicioInv'
<1>1. CASE Falla \/ Sale
  <2>1. salirFunc /\ UNCHANGED <<anidada, mezclada>>
    BY <1>1 DEF Falla, Sale, cuenta
  <2>2. \A g, c : ~ P(g, c)'
    BY <2>1, Salida
  <2>. QED BY <2>1, <2>2 DEF InicioInv
<1>. QED BY <1>1, Pasos_De, Inicio_Recarga, Inicio_Periodicos, Inicio_Fuera,
            Inicio_USR1, Inicio_Entra

LEMMA Inicio_Inicio == ASSUME Init PROVE InicioInv
<1>1. pila = <<Marco("inicio", "r_cero")>>
  BY DEF Init
<1>2. DOMAIN pila = {1} /\ Len(pila) = 1 /\ pila # <<>> /\ pila[1].f = "inicio"
  BY <1>1 DEF Marco
<1>3. \A g, c : P(g, c) => g = "inicio"
  BY <1>2 DEF P
<1>4. Arriba("inicio")
  BY <1>2 DEF Arriba, Cima, Last
<1>5. SinUSR1 /\ ~ mezclada
  BY DEF Init, SinUSR1
<1>. QED BY <1>3, <1>4, <1>5 DEF InicioInv

(* A reload that nothing interrupted is alone while the modules are        *)
(* stopped: no job can send a USR1, and none is left to be attended.       *)
THEOREM InicioCorrecto ==
    Spec => [](TypeOK /\ Forma /\ CuentasInv /\ InicioInv)
<1>1. Init => TypeOK /\ Forma /\ CuentasInv /\ InicioInv
  BY InicioTipo, Cuentas_Inicio, Inicio_Inicio
<1>2. TypeOK /\ Forma /\ CuentasInv /\ InicioInv /\ [Next]_vars
         => TypeOK' /\ Forma' /\ CuentasInv' /\ InicioInv'
  BY TipoPaso, CuentasPaso, InicioPaso
<1>. QED BY <1>1, <1>2, PTL DEF Spec
-----------------------------------------------------------------------------
(* What does not change.                                                   *)
LEMMA Igual ==
    /\ UNCHANGED <<vec, cant>> => (Numerada' <=> Numerada)
    /\ UNCHANGED vec => Names' = Names /\ (Unicos' <=> Unicos)
    /\ UNCHANGED foto => Lista' = Lista
    /\ UNCHANGED <<foto, archivos, cargado>> => \A x : K(x)' <=> K(x)
    /\ UNCHANGED <<vec, cant, foto, archivos, cargado>> =>
          (Leidos' <=> Leidos)
    /\ UNCHANGED <<foto, vec>> =>
          (Todas' <=> Todas) /\ \A S : Faltan(S)' <=> Faltan(S)
    /\ UNCHANGED <<foto, vec, linea>> => \A R : Falta(R)' <=> Falta(R)
    /\ UNCHANGED <<vec, iniciados>> => (Arrancados' <=> Arrancados)
    /\ UNCHANGED <<vec, iniciados, foto, archivos>> =>
          (TodosLeidos' <=> TodosLeidos) /\ \A k : Leyo(k)' <=> Leyo(k)
<1>1. UNCHANGED <<vec, cant>> => (Numerada' <=> Numerada)
  BY DEF Numerada
<1>2. UNCHANGED vec => Names' = Names /\ (Unicos' <=> Unicos)
  BY DEF Names, Unicos
<1>3. UNCHANGED foto => Lista' = Lista
  BY DEF Lista
<1>4. UNCHANGED <<foto, archivos, cargado>> => \A x : K(x)' <=> K(x)
  BY DEF K
<1>5. UNCHANGED <<vec, iniciados>> => (Arrancados' <=> Arrancados)
  BY DEF Arrancados
<1>6. UNCHANGED <<vec, iniciados, foto, archivos>> =>
         (TodosLeidos' <=> TodosLeidos) /\ \A k : Leyo(k)' <=> Leyo(k)
  BY DEF Leyo, TodosLeidos
<1>7. UNCHANGED <<foto, vec>> =>
         (Todas' <=> Todas) /\ \A S : Faltan(S)' <=> Faltan(S)
  BY <1>2, <1>3 DEF Todas, Faltan
<1>8. UNCHANGED <<vec, cant, foto, archivos, cargado>> =>
         (Leidos' <=> Leidos)
  BY <1>1, <1>4, <1>7 DEF Leidos
<1>9. UNCHANGED <<foto, vec, linea>> => \A R : Falta(R)' <=> Falta(R)
  BY <1>7 DEF Falta
<1>. QED BY <1>1, <1>2, <1>3, <1>4, <1>5, <1>6, <1>7, <1>8, <1>9

(* The frame after a command.                                              *)
LEMMA Nuevo ==
    ASSUME Forma, pila # <<>>, NEW d, NEW R, NEW m, Pon(d, R, m)
    PROVE /\ Cima'.f = Cima.f /\ Cima'.pc = d
          /\ Cima'.resta = R /\ Cima'.modulo = m
<1>. DEFINE x == [f |-> pila[Len(pila)].f, pc |-> d, resta |-> R, modulo |-> m]
            n == Len(pila)
<1>1. n \in Nat /\ n \in DOMAIN pila /\ Cima = pila[n] /\ DOMAIN pila = 1 .. n
  BY Tope
<1>2. pila' = [pila EXCEPT ![n] = x]
  BY DEF Pon
<1>3. pila \in Seq(Marcos)
  BY DEF Forma, Bien
<1>4. x.f = Cima.f /\ x.pc = d /\ x.resta = R /\ x.modulo = m
  BY <1>1
<1>. HIDE DEF x, n
<1>5. DOMAIN pila' = 1 .. n /\ pila'[n] = x
  BY <1>1, <1>2
<1>6. Len(pila') = n
  BY <1>1, <1>2, <1>3 DEF n
<1>7. Cima' = x
  BY <1>5, <1>6 DEF Cima, Last
<1>. QED BY <1>4, <1>7

(* Each command keeps what the reload knows: m is its frame, x the next.   *)
LEMMA Sabe_Antes ==
    ASSUME Forma, NEW m, m = Cima, Sabe(m), NEW x, x = Cima', UNCHANGED cuenta,
           LeeConfig \/ EmpiezaKill \/ KillVerif \/ KillModPer
    PROVE Sabe(x)'
<1>1. PICK c, d \in Antes : En(c) /\ Sigue(d)
  BY DEF LeeConfig, EmpiezaKill, KillVerif, KillModPer, Antes
<1>2. m.pc = c /\ x.pc = d
  BY <1>1, EnCurso, Nuevo DEF Sigue
<1>3. UNCHANGED <<vec, cant, iniciados, anidada>>
  BY DEF LeeConfig, EmpiezaKill, KillVerif, KillModPer, config, tabla, cuenta
<1>4. Numerada' /\ (~ anidada' => Arrancados')
  BY <1>1, <1>2, <1>3, Igual DEF Sabe
<1>. QED BY <1>1, <1>2, <1>4
         DEF Sabe, Antes, Parando, Iniciando, Lanzando

LEMMA Sabe_Detener ==
    ASSUME TypeOK, Forma, NEW m, m = Cima, Sabe(m), NEW x, x = Cima',
           detenerModulos
    PROVE Sabe(x)'
<1>1. DOMAIN vec \in SUBSET Nat /\ dir \in Nat /\ pila # <<>>
  BY DatosTipo DEF TypeOK, detenerModulos, En
<1>2. PICK c \in {"detener", "d_source", "d_modulo"} : En(c)
  BY DEF detenerModulos
<1>3. m.pc = c /\ Cima.resta \in SUBSET Nat
  BY <1>2, EnCurso
<1>4. ASSUME NEW S \in SUBSET Nat, NEW z \in Nat,
             ParaDir(S, z, "d_source", "unsetear")
      PROVE x.pc \in {"d_source", "unsetear"}
  <2>1. \/ Pon("unsetear", {}, 0) \/ Pon("d_source", S \ {dir'}, 0)
    BY <1>4, Bucles
  <2>. QED BY <1>1, <2>1, Nuevo
<1>5. x.pc \in {"d_source", "d_modulo", "unsetear"}
  <2>1. CASE ParaDir(DOMAIN vec, 0, "d_source", "unsetear")
    BY <1>1, <1>4, <2>1
  <2>2. CASE ParaDir(Cima.resta, dir, "d_source", "unsetear")
    BY <1>1, <1>3, <1>4, <2>2
  <2>3. CASE Pon("d_modulo", Cima.resta, Nombrado)
    BY <1>1, <2>3, Nuevo
  <2>. QED BY <2>1, <2>2, <2>3 DEF detenerModulos
<1>6. UNCHANGED <<vec, cant>>
  BY DEF detenerModulos, tabla
<1>7. Numerada'
  <2>1. Numerada
    BY <1>2, <1>3 DEF Sabe, Antes, Parando
  <2>. QED BY <1>6, <2>1, Igual
<1>. QED BY <1>5, <1>7 DEF Sabe, Antes, Parando, Iniciando, Lanzando

LEMMA Sabe_Unsetear ==
    ASSUME TypeOK, Forma, NEW m, m = Cima, Sabe(m), NEW x, x = Cima',
           unsetearVecs
    PROVE Sabe(x)'
<1>1. /\ cant \in Nat /\ indice \in Nat /\ pila # <<>>
      /\ (1 .. cant) \in SUBSET Nat
  BY DEF TypeOK, unsetearVecs, En
<1>2. ASSUME NEW S \in SUBSET Nat, ParaIndice(S), DOMAIN vec' = S
      PROVE Sabe(x)'
  <2>1. CASE S = {} /\ Pon("u_confs", {}, 0)
    <3>1. x.pc = "u_confs"
      BY <1>1, <2>1, Nuevo
    <3>. QED BY <1>2, <2>1, <3>1
             DEF Sabe, Antes, Parando, Iniciando, Lanzando
  <2>2. CASE indice' \in S /\ Pon("u_unset", S \ {indice'}, 0)
    <3>1. x.pc = "u_unset" /\ x.resta = S \ {indice'}
      BY <1>1, <2>2, Nuevo
    <3>. QED BY <1>2, <2>2, <3>1
             DEF Sabe, Antes, Parando, Iniciando, Lanzando
  <2>. QED BY <1>2, <2>1, <2>2, Bucles
<1>3. CASE En("unsetear") /\ ParaIndice(1 .. cant) /\ UNCHANGED vec
  <2>1. m.pc = "unsetear"
    BY <1>3, EnCurso
  <2>2. DOMAIN vec' = 1 .. cant
    BY <1>3, <2>1 DEF Sabe, Parando, Numerada
  <2>. QED BY <1>1, <1>2, <1>3, <2>2
<1>4. CASE /\ En("u_unset") /\ ParaIndice(Cima.resta)
           /\ vec' = [k \in DOMAIN vec \ {indice} |-> vec[k]]
  <2>1. m.pc = "u_unset" /\ Cima.resta \in SUBSET Nat
    BY <1>4, EnCurso
  <2>2. DOMAIN vec = m.resta \cup {indice} /\ indice \notin m.resta
    BY <2>1 DEF Sabe
  <2>3. DOMAIN vec' = Cima.resta
    BY <1>4, <2>2
  <2>. QED BY <1>2, <1>4, <2>1, <2>3
<1>5. CASE En("u_confs") /\ Sigue("r_cero") /\ UNCHANGED vec
  <2>1. m.pc = "u_confs" /\ x.pc = "r_cero"
    BY <1>1, <1>5, EnCurso, Nuevo DEF Sigue
  <2>. QED BY <1>5, <2>1 DEF Sabe, Antes, Parando, Iniciando, Lanzando
<1>. QED BY <1>3, <1>4, <1>5 DEF unsetearVecs

LEMMA Sabe_Lee ==
    ASSUME TypeOK, Forma, NEW m, m = Cima, Sabe(m), NEW x, x = Cima',
           registrarLee
    PROVE Sabe(x)'
<1>1. UNCHANGED vec /\ pila # <<>>
  BY DEF registrarLee, En
<1>2. CASE En("r_cero") /\ Sigue("r_listas") /\ cant' = 0
  <2>1. m.pc = "r_cero" /\ x.pc = "r_listas"
    BY <1>1, <1>2, EnCurso, Nuevo DEF Sigue
  <2>. QED BY <1>1, <1>2, <2>1 DEF Sabe, Antes, Parando, Iniciando, Lanzando
<1>3. CASE /\ \/ En("r_listas") /\ Sigue("r_nucleo")
              \/ En("r_nucleo") /\ Sigue("r_confs")
              \/ En("r_confs") /\ Sigue("r_cola")
           /\ UNCHANGED cant
  <2>1. /\ m.pc \in {"r_listas", "r_nucleo", "r_confs"}
        /\ x.pc \in {"r_nucleo", "r_confs", "r_cola"}
    BY <1>1, <1>3, EnCurso, Nuevo DEF Sigue
  <2>. QED BY <1>1, <1>3, <2>1 DEF Sabe, Antes, Parando, Iniciando, Lanzando
<1>4. CASE /\ En("r_cola") /\ Sigue("r_for") /\ cola' = Lista
           /\ UNCHANGED <<foto, cant>>
  <2>1. m.pc = "r_cola" /\ x.pc = "r_for" /\ Lista' = Lista
    BY <1>1, <1>4, EnCurso, Nuevo, Igual DEF Sigue
  <2>. QED BY <1>1, <1>4, <2>1 DEF Sabe, Antes, Parando, Iniciando, Lanzando
<1>. QED BY <1>2, <1>3, <1>4 DEF registrarLee, Lista

(* The words left are those of S.                                          *)
LEMMA Sabe_Nombra ==
    ASSUME TypeOK, Forma, NEW m, m = Cima, Sabe(m), NEW x, x = Cima',
           registrarNombra
    PROVE Sabe(x)'
<1>1. /\ UNCHANGED foto /\ pila # <<>> /\ cant \in Nat
      /\ Palabras \in SUBSET Nat /\ Lista' = Lista
      /\ cola \in SUBSET Palabras
  BY DatosTipo, Igual DEF registrarNombra, En, TypeOK
<1>2. \A c : En(c) => m.pc = c /\ (c \in Lineas => Cima.resta \in SUBSET Nat)
  BY EnCurso
<1>3. ASSUME NEW S \in SUBSET Nat, ParaLinea(S), Numerada', Faltan(S)'
      PROVE Sabe(x)'
  <2>1. CASE S = {} /\ Pon("leer_cambios", {}, 0)
    <3>1. x.pc = "leer_cambios"
      BY <1>1, <2>1, Nuevo
    <3>2. Todas'
      BY <1>3, <2>1 DEF Faltan, Todas
    <3>. QED BY <1>3, <3>1, <3>2
             DEF Sabe, Antes, Parando, Iniciando, Lanzando
  <2>2. CASE linea' \in S /\ Pon("r_if", S \ {linea'}, 0)
    <3>1. x.pc = "r_if" /\ x.resta = S \ {linea'}
      BY <1>1, <2>2, Nuevo
    <3>2. x.resta \cup {linea'} = S /\ linea' \notin x.resta
      BY <2>2, <3>1
    <3>3. Falta(x.resta)'
      BY <1>3, <3>2 DEF Falta
    <3>. QED BY <1>3, <3>1, <3>3
             DEF Sabe, Antes, Parando, Iniciando, Lanzando
  <2>. QED BY <1>3, <2>1, <2>2, Bucles
<1>4. CASE En("r_for") /\ ParaLinea(cola) /\ UNCHANGED <<cant, vec>>
  <2>1. DOMAIN vec = {} /\ cant = 0 /\ cola = Lista
    BY <1>2, <1>4 DEF Sabe
  <2>2. Numerada' /\ Names' = {} /\ Unicos'
    BY <1>4, <2>1 DEF Numerada, Names, Unicos
  <2>3. \A S : S = cola => Faltan(S)'
    BY <1>1, <2>1, <2>2 DEF Faltan
  <2>. QED BY <1>1, <1>3, <1>4, <2>2, <2>3
<1>5. CASE En("r_if") /\ UNCHANGED <<cant, vec>>
  <2>1. m.pc = "r_if" /\ Numerada /\ Falta(m.resta)
    BY <1>2, <1>5 DEF Sabe
  <2>2. Numerada' /\ Names' = Names /\ (Unicos' <=> Unicos)
    BY <1>5, <2>1, Igual
  <2>3. CASE linea = 0 /\ ParaLinea(Cima.resta)
    <3>1. Faltan(m.resta)'
      BY <1>1, <2>1, <2>2, <2>3 DEF Falta, Faltan
    <3>2. m.resta \in SUBSET Nat
      BY <1>2, <1>5 DEF Lineas
    <3>. QED BY <1>3, <2>2, <2>3, <3>1, <3>2
  <2>4. CASE linea # 0 /\ Sigue("r_cant") /\ UNCHANGED linea
    <3>1. x.pc = "r_cant" /\ x.resta = m.resta
      BY <1>1, <2>4, Nuevo DEF Sigue
    <3>2. Falta(x.resta)'
      BY <1>1, <1>5, <2>1, <2>4, <3>1, Igual
    <3>. QED BY <2>2, <2>4, <3>1, <3>2
             DEF Sabe, Antes, Parando, Iniciando, Lanzando
  <2>5. En("r_cant") = FALSE /\ En("r_vec") = FALSE /\ En("r_for") = FALSE
    BY <1>5 DEF En
  <2>. QED BY <2>3, <2>4, <2>5 DEF registrarNombra
<1>6. CASE /\ En("r_cant") /\ Sigue("r_vec") /\ cant' = cant + 1
           /\ UNCHANGED <<vec, linea>>
  <2>1. m.pc = "r_cant" /\ Numerada /\ Falta(m.resta) /\ linea # 0
    BY <1>2, <1>6 DEF Sabe
  <2>2. x.pc = "r_vec" /\ x.resta = m.resta
    BY <1>1, <1>6, Nuevo DEF Sigue
  <2>3. Falta(x.resta)'
    BY <1>1, <1>6, <2>1, <2>2, Igual
  <2>4. cant' >= 1 /\ DOMAIN vec' = 1 .. (cant' - 1)
    <3>1. cant' - 1 = cant /\ cant' >= 1
      BY <1>1, <1>6
    <3>. QED BY <1>6, <2>1, <3>1 DEF Numerada
  <2>. QED BY <1>6, <2>1, <2>2, <2>3, <2>4
           DEF Sabe, Antes, Parando, Iniciando, Lanzando
<1>7. CASE /\ En("r_vec") /\ ParaLinea(Cima.resta) /\ UNCHANGED cant
           /\ vec' = [k \in DOMAIN vec \cup {cant} |->
                         IF k = cant THEN linea ELSE vec[k]]
  <2>1. /\ m.pc = "r_vec" /\ cant >= 1 /\ DOMAIN vec = 1 .. (cant - 1)
        /\ Falta(m.resta) /\ linea # 0
    BY <1>2, <1>7 DEF Sabe
  <2>2. cant \notin DOMAIN vec /\ DOMAIN vec \cup {cant} = 1 .. cant
    BY <1>1, <2>1
  <2>3. DOMAIN vec' = DOMAIN vec \cup {cant} /\ Numerada'
    BY <1>7, <2>2 DEF Numerada
  <2>4. Names' = Names \cup {linea}
    BY <1>7, <2>2, <2>3 DEF Names
  <2>5. Faltan(m.resta)'
    <3>1. /\ linea \notin m.resta /\ linea \notin Names /\ Unicos
          /\ Names \cap m.resta = {}
          /\ Lista \ {0} = Names \cup ((m.resta \cup {linea}) \ {0})
      BY <2>1 DEF Falta, Faltan
    <3>2. \A j \in DOMAIN vec : vec[j] # linea
      BY <3>1 DEF Names
    <3>3. vec'[cant] = linea /\ \A j \in DOMAIN vec : vec'[j] = vec[j]
      BY <1>7, <2>2
    <3>4. Unicos'
      BY <2>3, <3>1, <3>2, <3>3 DEF Unicos
    <3>. QED BY <1>1, <2>1, <2>4, <3>1, <3>4 DEF Faltan
  <2>6. m.resta \in SUBSET Nat
    BY <1>2, <1>7 DEF Lineas
  <2>. QED BY <1>3, <1>7, <2>3, <2>5, <2>6
<1>. QED BY <1>4, <1>5, <1>6, <1>7 DEF registrarNombra

LEMMA Sabe_Periodos ==
    ASSUME TypeOK, Forma, NEW m, m = Cima, Sabe(m), NEW x, x = Cima',
           leerPeriodosConfig
    PROVE Sabe(x)'
<1>1. /\ UNCHANGED <<vec, cant, foto, archivos>> /\ pila # <<>>
      /\ cargado \in [{"cambios", "modls"} -> Nat]
  BY DEF leerPeriodosConfig, En, tabla, TypeOK
<1>2. (Numerada' <=> Numerada) /\ (Todas' <=> Todas)
  BY <1>1, Igual
<1>3. CASE /\ En("leer_cambios") /\ Sigue("leer_modls")
           /\ cargado' = [cargado EXCEPT !.cambios = archivos["nucleo"].v]
  <2>1. m.pc = "leer_cambios" /\ x.pc = "leer_modls"
    BY <1>1, <1>3, EnCurso, Nuevo DEF Sigue
  <2>2. K("cambios")'
    BY <1>1, <1>3 DEF K
  <2>. QED BY <1>2, <2>1, <2>2
           DEF Sabe, Antes, Parando, Iniciando, Lanzando
<1>4. CASE /\ En("leer_modls") /\ Sigue("inicializar")
           /\ cargado' = [cargado EXCEPT !.modls = archivos["nucleo"].v]
  <2>1. m.pc = "leer_modls" /\ x.pc = "inicializar"
    BY <1>1, <1>4, EnCurso, Nuevo DEF Sigue
  <2>2. K("modls")'
    BY <1>1, <1>4 DEF K
  <2>3. K("cambios") => K("cambios")'
    BY <1>1, <1>4 DEF K
  <2>. QED BY <1>2, <2>1, <2>2, <2>3
           DEF Sabe, Leidos, Antes, Parando, Iniciando, Lanzando
<1>. QED BY <1>3, <1>4 DEF leerPeriodosConfig

LEMMA Sabe_Inicia ==
    ASSUME TypeOK, Forma, NEW m, m = Cima, Sabe(m), NEW x, x = Cima',
           inicializar, archivos["confs"].v >= 1
    PROVE Sabe(x)'
<1>1. /\ UNCHANGED <<vec, cant, foto, archivos, cargado>> /\ pila # <<>>
      /\ dir \in Nat /\ DOMAIN vec \in SUBSET Nat
      /\ iniciados \in [Palabras -> Nat]
      /\ \A k \in DOMAIN vec : vec[k] \in Palabras
      /\ archivos["confs"].v \in Nat
  BY DatosTipo DEF inicializar, En, tabla, TypeOK
<1>2. PICK c \in {"inicializar", "i_source", "i_modulo", "i_test"} : En(c)
  BY DEF inicializar
<1>3. m.pc = c /\ Cima.resta \in SUBSET Nat
  BY <1>2, EnCurso
<1>4. Leidos /\ Leidos'
  <2>1. Leidos
    BY <1>2, <1>3 DEF Sabe, Iniciando
  <2>. QED BY <1>1, <2>1, Igual
<1>5. \A k \in DOMAIN vec : vec[k] # 0 /\ k # 0
  <2>1. 0 \notin Names /\ DOMAIN vec = 1 .. cant
    BY <1>4 DEF Leidos, Todas, Numerada
  <2>. QED BY <2>1 DEF Names
<1>6. CASE Sigue("falla")
  <2>1. x.pc = "falla"
    BY <1>1, <1>6, Nuevo DEF Sigue
  <2>. QED BY <1>4, <2>1 DEF Sabe, Antes, Parando, Iniciando, Lanzando
<1>7. ASSUME NEW S \in SUBSET Nat, NEW d \in Nat,
             ParaDir(S, d, "i_source", "lanza_modper"), UNCHANGED iniciados,
             \A k \in DOMAIN vec : k \notin S => Leyo(k)
      PROVE Sabe(x)'
  <2>1. \A k : Leyo(k)' <=> Leyo(k)
    BY <1>1, <1>7, Igual
  <2>2. CASE S = {} /\ Pon("lanza_modper", {}, 0)
    <3>1. x.pc = "lanza_modper"
      BY <1>1, <2>2, Nuevo
    <3>2. TodosLeidos'
      BY <1>1, <1>7, <2>1, <2>2 DEF TodosLeidos
    <3>. QED BY <1>4, <3>1, <3>2
             DEF Sabe, Antes, Parando, Iniciando, Lanzando
  <2>3. CASE dir' \in S /\ Pon("i_source", S \ {dir'}, 0)
    <3>1. x.pc = "i_source" /\ x.resta = S \ {dir'}
      BY <1>1, <2>3, Nuevo
    <3>2. \A k \in DOMAIN vec' : k \notin x.resta \cup {dir'} => Leyo(k)'
      BY <1>1, <1>7, <2>1, <3>1
    <3>. QED BY <1>4, <3>1, <3>2
             DEF Sabe, Antes, Parando, Iniciando, Lanzando
  <2>. QED BY <1>7, <2>2, <2>3, Bucles
<1>8. CASE /\ En("inicializar") /\ UNCHANGED iniciados
           /\ ParaDir(DOMAIN vec, 0, "i_source", "lanza_modper")
  BY <1>1, <1>7, <1>8
<1>9. CASE /\ En("i_test") /\ UNCHANGED iniciados
           /\ ParaDir(Cima.resta, dir, "i_source", "lanza_modper")
  <2>1. \A k \in DOMAIN vec : k \notin Cima.resta => Leyo(k)
    <3>1. m.pc = "i_test"
      BY <1>9, EnCurso
    <3>. QED BY <3>1 DEF Sabe
  <2>. QED BY <1>1, <1>3, <1>7, <1>9, <2>1
<1>10. CASE /\ En("i_source") /\ ~ SinNombre /\ UNCHANGED iniciados
            /\ Pon("i_modulo", Cima.resta, Nombrado)
  <2>1. m.pc = "i_source"
    BY <1>10, EnCurso
  <2>2. \A k \in DOMAIN vec : k \notin m.resta \cup {dir} => Leyo(k)
    BY <2>1 DEF Sabe
  <2>3. x.pc = "i_modulo" /\ x.resta = m.resta /\ x.modulo = Nombrado
    BY <1>1, <1>10, Nuevo
  <2>4. \A k : Leyo(k)' <=> Leyo(k)
    BY <1>1, <1>10, Igual
  <2>5. dir \in DOMAIN vec => Nombrado = vec[dir]
    BY DEF Nombrado
  <2>6. \A k \in DOMAIN vec' :
           k \notin x.resta /\ vec'[k] # x.modulo => Leyo(k)'
    BY <1>1, <2>2, <2>3, <2>4, <2>5
  <2>. QED BY <1>4, <2>3, <2>6
           DEF Sabe, Antes, Parando, Iniciando, Lanzando
<1>11. CASE /\ En("i_modulo") /\ Sigue("i_test")
            /\ IF Cima.modulo = 0 THEN UNCHANGED iniciados
               ELSE iniciados' = [iniciados EXCEPT ![Cima.modulo] =
                                     archivos["confs"].v]
  <2>1. m.pc = "i_modulo" /\ Cima.modulo \in Palabras
    BY <1>11, EnCurso
  <2>2. \A k \in DOMAIN vec : k \notin m.resta /\ vec[k] # m.modulo => Leyo(k)
    BY <2>1 DEF Sabe
  <2>3. x.pc = "i_test" /\ x.resta = m.resta
    BY <1>1, <1>11, Nuevo DEF Sigue
  <2>4. ASSUME NEW k \in DOMAIN vec, k \notin m.resta PROVE Leyo(k)'
    <3>1. CASE vec[k] = m.modulo
      <4>1. m.modulo # 0
        BY <1>5, <3>1
      <4>2. iniciados'[vec[k]] = archivos["confs"].v
        BY <1>1, <1>11, <2>1, <3>1, <4>1
      <4>. QED BY <1>1, <4>2 DEF Leyo
    <3>2. CASE vec[k] # m.modulo
      <4>1. Leyo(k)
        BY <2>2, <2>4, <3>2
      <4>2. iniciados'[vec[k]] = iniciados[vec[k]]
        BY <1>1, <1>11, <3>2
      <4>. QED BY <1>1, <4>1, <4>2 DEF Leyo
    <3>. QED BY <3>1, <3>2
  <2>. QED BY <1>1, <1>4, <2>3, <2>4
           DEF Sabe, Antes, Parando, Iniciando, Lanzando
<1>. QED BY <1>6, <1>8, <1>9, <1>10, <1>11 DEF inicializar

LEMMA Sabe_Lanza ==
    ASSUME Forma, NEW m, m = Cima, Sabe(m), NEW x, x = Cima', LanzaModPer
    PROVE Sabe(x)'
<1>1. m.pc = "lanza_modper" /\ x.pc = "lanza_verif"
  BY EnCurso, Nuevo DEF LanzaModPer, Sigue
<1>2. UNCHANGED <<vec, cant, foto, archivos, cargado, iniciados>>
  BY DEF LanzaModPer, config, tabla
<1>3. Leidos' /\ TodosLeidos'
  BY <1>1, <1>2, Igual DEF Sabe, Lanzando
<1>. QED BY <1>1, <1>3 DEF Sabe, Antes, Parando, Iniciando, Lanzando
-----------------------------------------------------------------------------
(* A reload on top is the one that counts.                                 *)
MandaDice == pila # <<>> /\ Cima.f \in Recargas =>
    \A m \in Marcos : Manda(m) <=> m = Cima

LEMMA MandaLee == TypeOK /\ Forma => MandaDice
<1>. SUFFICES ASSUME TypeOK, Forma, pila # <<>>, Cima.f \in Recargas,
                     NEW m \in Marcos
              PROVE Manda(m) <=> m = Cima
  BY DEF MandaDice
<1>1. PilaDice
  BY PilaLee
<1>2. Len(pila) \in DOMAIN pila /\ Cima = pila[Len(pila)]
  BY Tope
<1>3. Hay(Cima.f) /\ Arriba(Cima.f)
  BY <1>2 DEF Hay, Arriba
<1>4. Cima.f # "USR2" => \A g \in Funciones : Hay(g) <=> g = Cima.f
  BY <1>1, <1>3 DEF PilaDice, Recargas
<1>5. ASSUME m = Cima PROVE Manda(m)
  BY <1>2, <1>4, <1>5 DEF Manda, Funciones
<1>6. ASSUME Manda(m) PROVE m = Cima
  <2>1. PICK k \in DOMAIN pila : pila[k] = m
    BY <1>6 DEF Manda
  <2>2. /\ m.f \in Recargas /\ (m.f = "USR2" \/ ~ Hay("USR2"))
        /\ Hay(m.f) /\ m.f \in Funciones
    BY <1>6, <2>1 DEF Manda, Hay, Recargas, Funciones
  <2>3. m.f = Cima.f
    BY <1>3, <1>4, <2>2
  <2>. QED BY <1>2, <2>1, <2>3 DEF Forma, Bien
<1>. QED BY <1>5, <1>6

LEMMA MandaLeera == (TypeOK /\ Forma)' => MandaDice'
  BY MandaLee, PTL

(* What the shell kept of a file gets no newer than the file.              *)
LEMMA Fecha_Recarga ==
    ASSUME TypeOK, Fecha, Recarga PROVE Fecha'
<1>1. /\ UNCHANGED archivos /\ foto \in Fotos
      /\ \A f \in Archivos : archivos[f].v \in Nat
  BY DatosTipo DEF Recarga, LeeConfig, EmpiezaKill, KillVerif, KillModPer,
     detenerModulos, unsetearVecs, registrarLee, registrarNombra,
     leerPeriodosConfig, inicializar, LanzaModPer, LanzaVerif, TypeOK
<1>2. ASSUME NEW f \in Archivos
      PROVE foto'[f] \in {foto[f], archivos[f], Version(0)}
  <2>1. \/ UNCHANGED foto
        \/ \E g \in Archivos : \/ foto' = [foto EXCEPT ![g] = archivos[g]]
                               \/ foto' = [foto EXCEPT ![g] = Version(0)]
    <3>1. {"listas", "nucleo", "confs"} \subseteq Archivos
      BY DEF Archivos
    <3>. QED BY <3>1
      DEF Recarga, LeeConfig, EmpiezaKill, KillVerif, KillModPer, config,
          detenerModulos, unsetearVecs, registrarLee, registrarNombra,
          leerPeriodosConfig, inicializar, LanzaModPer, LanzaVerif
  <2>. QED BY <1>1, <2>1 DEF Fotos
<1>3. Version(0).v = 0
  BY DEF Version
<1>. QED BY <1>1, <1>2, <1>3 DEF Fecha

(* A step outside the reload takes nothing from what it knows: it reads no *)
(* file, and a file that is modified is not what was kept of it.           *)
LEMMA Sabe_Queda ==
    ASSUME UNCHANGED <<foto, tabla, iniciados, cargado>>, anidada => anidada',
           \A f \in Archivos : foto[f] = archivos'[f] =>
                                  archivos'[f] = archivos[f]
    PROVE /\ Reposo /\ UNCHANGED vigias => Reposo'
          /\ \A m : /\ Sabe(m)
                    /\ m.pc \in Pasos
                    /\ m.pc # "i_source" \/ UNCHANGED dir
                    => Sabe(m)'
<1>1. /\ UNCHANGED <<vec, cant, foto, linea, cola, indice>>
      /\ {"listas", "nucleo", "confs"} \subseteq Archivos
  BY DEF tabla, Archivos
<1>2. /\ Numerada' <=> Numerada
      /\ (Todas' <=> Todas) /\ Lista' = Lista /\ (Arrancados' <=> Arrancados)
      /\ \A R : Falta(R)' <=> Falta(R)
  BY <1>1, Igual
<1>3. \A x : K(x) => K(x)'
  BY <1>1 DEF K
<1>4. \A k : Leyo(k) => Leyo(k)'
  BY <1>1 DEF Leyo
<1>5. TodosLeidos => TodosLeidos'
  BY <1>1, <1>4 DEF TodosLeidos
<1>6. Leidos => Leidos'
  BY <1>2, <1>3 DEF Leidos
<1>7. Reposo /\ UNCHANGED vigias => Reposo'
  BY <1>1, <1>5, <1>6 DEF Reposo
<1>8. ASSUME NEW m, Sabe(m), m.pc \in Pasos,
             m.pc # "i_source" \/ UNCHANGED dir
      PROVE Sabe(m)'
  <2>1. CASE m.pc \in Antes \cup Parando \cup Lanzando
    BY <1>2, <1>5, <1>6, <1>8, <2>1
       DEF Sabe, Antes, Parando, Iniciando, Lanzando
  <2>2. CASE m.pc \in Ventana
    BY <1>1, <1>2, <1>8, <2>2
       DEF Sabe, Ventana, Antes, Parando, Iniciando, Lanzando
  <2>3. CASE m.pc \in Leyendo
    BY <1>2, <1>3, <1>6, <1>8, <2>3
       DEF Sabe, Leyendo, Antes, Parando, Iniciando, Lanzando
  <2>4. CASE m.pc \in Iniciando
    <3>1. Leidos'
      BY <1>6, <1>8, <2>4 DEF Sabe
    <3>2. CASE m.pc = "i_source" /\ UNCHANGED dir
      BY <1>1, <1>4, <1>8, <3>1, <3>2
         DEF Sabe, Antes, Parando, Iniciando, Lanzando
    <3>3. CASE m.pc = "i_modulo"
      BY <1>1, <1>4, <1>8, <3>1, <3>3
         DEF Sabe, Antes, Parando, Iniciando, Lanzando
    <3>4. CASE m.pc = "i_test"
      BY <1>1, <1>4, <1>8, <3>1, <3>4
         DEF Sabe, Antes, Parando, Iniciando, Lanzando
    <3>5. CASE m.pc = "falla"
      BY <3>1, <3>5 DEF Sabe, Antes, Parando, Iniciando, Lanzando
    <3>. QED BY <1>8, <2>4, <3>2, <3>3, <3>4, <3>5 DEF Iniciando
  <2>. QED BY <1>8, <2>1, <2>2, <2>3, <2>4 DEF Pasos
<1>. QED BY <1>7, <1>8

(* Where all has been read a reload knows what it needs.                   *)
LEMMA Sabe_Completo ==
    ASSUME Leidos', TodosLeidos', NEW m, m.pc \notin Ventana PROVE Sabe(m)'
<1>1. Arrancados'
  BY DEF Arrancados, TodosLeidos, Leyo
<1>. QED BY <1>1
     DEF Sabe, Leidos, TodosLeidos, Ventana, Antes, Parando, Iniciando,
         Lanzando

-----------------------------------------------------------------------------
(* A reload goes on.                                                       *)
LEMMA Lectura_Mando ==
    ASSUME TypeOK, Forma, CuentasInv, LecturaInv, Recarga, ~ LanzaVerif,
           (TypeOK /\ Forma)'
    PROVE LecturaInv'
<1>1. /\ UNCHANGED <<archivos, sesion, cuenta>> /\ \E c, d : Mando(c, d)
  BY Ruta
<1>2. PICK c, d : Mando(c, d)
  BY <1>1
<1>3. /\ Cima.f \in Recargas /\ pila # <<>> /\ pila' # <<>>
      /\ Cima'.f = Cima.f
      /\ \A g : Hay(g)' <=> Hay(g)
      /\ DOMAIN pila' = DOMAIN pila /\ pila'[Len(pila)] = Cima'
      /\ \A k \in DOMAIN pila \ {Len(pila)} : pila'[k] = pila[k]
  <2>1. PICK R \in SUBSET Nat, y \in Palabras :
           Pon(d, R, y) /\ (d \in Lineas => R \subseteq Palabras)
    BY <1>2 DEF Mando, Va
  <2>2. c \in Pasos \ {"falla"} /\ d \in Pasos /\ En(c)
    BY <1>2 DEF Mando, Va
  <2>3. Cima.f \in Recargas /\ pila # <<>>
    BY <2>2, EnCurso
  <2>4. /\ pila' # <<>>
        /\ Cima' = [f |-> Cima.f, pc |-> d, resta |-> R, modulo |-> y]
        /\ \A g : Hay(g)' <=> Hay(g)
        /\ DOMAIN pila' = DOMAIN pila /\ pila'[Len(pila)] = Cima'
        /\ \A k \in DOMAIN pila \ {Len(pila)} : pila'[k] = pila[k]
    BY <2>1, <2>2, Avanza
  <2>5. Cima'.f = Cima.f
    BY <2>4
  <2>. QED BY <2>3, <2>4, <2>5
<1>4. /\ Len(pila) \in DOMAIN pila /\ Cima = pila[Len(pila)]
      /\ Cima \in Marcos /\ Len(pila) \in Nat /\ DOMAIN pila = 1 .. Len(pila)
  BY <1>3, Tope
<1>5. Fecha'
  BY Fecha_Recarga DEF LecturaInv
<1>6. Recargando'
  BY <1>3, <1>4 DEF Recargando, Recargas
<1>7. ASSUME ~ mezclada'
      PROVE Orden' /\ \A m \in Marcos : Manda(m)' => Sabe(m)'
  <2>1. ~ mezclada
    BY <1>1, <1>7 DEF cuenta
  <2>2. Orden /\ \A m \in Marcos : Manda(m) => Sabe(m)
    BY <2>1 DEF LecturaInv
  <2>3. /\ \A k \in DOMAIN pila : pila'[k].f = pila[k].f
        /\ \A j, k \in DOMAIN pila : j < k => pila'[j] = pila[j]
    BY <1>3, <1>4
  <2>4. Orden'
    BY <1>3, <2>2, <2>3 DEF Orden
  <2>5. Sabe(Cima)
    BY <1>3, <1>4, <2>2, MandaLee DEF MandaDice
  <2>6. ASSUME NEW m, m = Cima, NEW x, x = Cima' PROVE Sabe(x)'
    <3>1. Sabe(m) /\ archivos["confs"].v >= 1
      BY <2>5, <2>6 DEF LecturaInv, Fecha, Archivos
    <3>. QED BY <1>1, <2>6, <3>1, Sabe_Antes, Sabe_Detener, Sabe_Unsetear,
                Sabe_Lee, Sabe_Nombra, Sabe_Periodos, Sabe_Inicia, Sabe_Lanza
             DEF Recarga
  <2>7. \A m \in Marcos : Manda(m)' => m = Cima'
    BY <1>3, MandaLeera DEF MandaDice
  <2>. QED BY <2>4, <2>6, <2>7
<1>. QED BY <1>5, <1>6, <1>7 DEF LecturaInv

(* A reload ends: what it knows is left to the shell, or to the request    *)
(* that it interrupted.                                                    *)
LEMMA Lectura_Fin ==
    ASSUME TypeOK, Forma, CuentasInv, LecturaInv, LanzaVerif
    PROVE LecturaInv'
<1>1. /\ UNCHANGED <<archivos, config, sesion, mezclada>>
      /\ En("lanza_verif") /\ vigias' = Append(vigias, foto)
      /\ pila' = Front(pila) /\ pila # <<>>
  BY DEF LanzaVerif, cuenta, En
<1>2. /\ Cima.f \in Recargas /\ Cima.pc = "lanza_verif"
      /\ Hay(Cima.f) /\ Arriba(Cima.f) /\ P(Cima.f, "lanza_verif")
  <2>1. "lanza_verif" \in Pasos \ {"falla"}
    BY DEF Pasos, Lanzando
  <2>. QED BY <1>1, <2>1, EnCurso
<1>3. /\ Len(pila) \in DOMAIN pila /\ Cima = pila[Len(pila)]
      /\ Cima \in Marcos /\ Len(pila) \in Nat /\ DOMAIN pila = 1 .. Len(pila)
  BY <1>1, Tope
<1>4. /\ DOMAIN pila' = DOMAIN pila \ {Len(pila)}
      /\ \A k \in DOMAIN pila' : pila'[k] = pila[k]
      /\ \A g : Hay(g)' <=> g # Cima.f /\ Hay(g)
  BY <1>1, Baja
<1>5. Fecha'
  BY <1>1 DEF LecturaInv, Fecha, config
<1>6. ASSUME ~ mezclada'
      PROVE /\ Orden' /\ Reposo'
            /\ \A m \in Marcos : Manda(m)' => Sabe(m)'
  <2>1. Orden /\ \A m \in Marcos : Manda(m) => Sabe(m)
    BY <1>1, <1>6 DEF LecturaInv
  <2>2. Orden'
    BY <1>4, <2>1 DEF Orden
  <2>3. Sabe(Cima)
    BY <1>1, <1>2, <1>3, <2>1, MandaLee DEF MandaDice
  <2>4. Leidos' /\ TodosLeidos'
    <3>1. Leidos /\ TodosLeidos
      BY <1>2, <2>3 DEF Sabe, Lanzando
    <3>. QED BY <1>1, <3>1, Igual DEF config, tabla
  <2>5. Reposo'
    <3>1. Len(vigias) + 1 \in DOMAIN vigias'
          /\ vigias'[Len(vigias) + 1] = foto'
      BY <1>1 DEF TypeOK, config
    <3>. QED BY <2>4, <3>1 DEF Reposo
  <2>6. ASSUME NEW m \in Marcos, Manda(m)' PROVE Sabe(m)'
    <3>1. PICK k \in DOMAIN pila \ {Len(pila)} : pila[k] = m
      BY <1>4, <2>6 DEF Manda
    <3>2. m.f \in Recargas /\ m.f # Cima.f /\ Hay(m.f)
      BY <1>3, <2>6, <3>1 DEF Manda, Forma, Bien, Hay
    <3>3. PilaDice
      BY PilaLee
    <3>4. Cima.f = "USR2"
      BY <1>2, <3>2, <3>3 DEF PilaDice, Recargas, Funciones
    <3>5. m.f # "inicio"
      BY <1>2, <3>2, <3>3, <3>4 DEF PilaDice, CuentasInv, Recargas
    <3>6. m.pc \notin Ventana
      <4>1. m.f = "pedido" /\ k < Len(pila)
        BY <1>3, <3>1, <3>2, <3>4, <3>5 DEF Recargas
      <4>. QED BY <1>3, <2>1, <3>1, <3>4, <4>1 DEF Orden
    <3>. QED BY <2>4, <3>6, Sabe_Completo
  <2>. QED BY <2>2, <2>5, <2>6
<1>. QED BY <1>5, <1>6 DEF LecturaInv

(* The rest of the steps while the shell is in a reload, or in none.       *)
LEMMA Lectura_Periodicos ==
    ASSUME TypeOK, Forma, LecturaInv, Periodicos PROVE LecturaInv'
<1>1. /\ pila # <<>> /\ Cima.f = "USR1"
      /\ UNCHANGED <<archivos, foto, tabla, iniciados, cargado, vigias,
                     sesion, cuenta>>
      /\ \A g \in Recargas : Hay(g)' <=> Hay(g)
      /\ DOMAIN pila' \subseteq DOMAIN pila
      /\ \A k \in DOMAIN pila' : /\ pila'[k].f = pila[k].f
                                 /\ k = Len(pila) \/ pila'[k] = pila[k]
  BY Bucle
<1>2. /\ Len(pila) \in DOMAIN pila /\ Cima = pila[Len(pila)]
      /\ Len(pila) \in Nat /\ DOMAIN pila = 1 .. Len(pila)
  BY <1>1, Tope
<1>3. \A k \in DOMAIN pila' : k < Len(pila) => pila'[k] = pila[k]
  BY <1>1, <1>2
<1>4. Fecha'
  BY <1>1 DEF LecturaInv, Fecha
<1>5. ASSUME ~ mezclada'
      PROVE /\ Orden' /\ (sesion' = "viva" /\ ~ Recargando' => Reposo')
            /\ \A m \in Marcos : Manda(m)' => Sabe(m)'
  <2>1. /\ Orden /\ (sesion = "viva" /\ ~ Recargando => Reposo)
        /\ \A m \in Marcos : Manda(m) => Sabe(m)
    BY <1>1, <1>5 DEF LecturaInv, cuenta
  <2>2. /\ UNCHANGED <<foto, tabla, iniciados, cargado, archivos, vigias>>
        /\ anidada => anidada'
    BY <1>1 DEF cuenta
  <2>3. Orden'
    <3>1. ASSUME NEW j \in DOMAIN pila', NEW k \in DOMAIN pila', j < k
          PROVE pila'[j] = pila[j] /\ pila'[k].f = pila[k].f
      BY <1>1, <1>2, <3>1
    <3>. QED BY <1>1, <2>1, <3>1 DEF Orden
  <2>4. Recargando => Recargando'
    <3>1. ASSUME NEW k \in DOMAIN pila, pila[k].f # "USR1"
          PROVE \E j \in DOMAIN pila' : pila'[j].f # "USR1"
      <4>1. pila[k].f \in Recargas
        <5>1. pila[k] \in Marcos
          BY DEF TypeOK
        <5>. QED BY <3>1, <5>1 DEF Marcos, Recargas
      <4>2. Hay(pila[k].f)
        BY DEF Hay
      <4>3. PICK j \in DOMAIN pila' : pila'[j].f = pila[k].f
        BY <1>1, <4>1, <4>2 DEF Hay
      <4>. QED BY <3>1, <4>3
    <3>. QED BY <3>1 DEF Recargando
  <2>5. Reposo => Reposo'
    BY <2>2, Sabe_Queda
  <2>6. ASSUME NEW m \in Marcos, Manda(m)' PROVE Sabe(m)'
    <3>1. PICK k \in DOMAIN pila' : pila'[k] = m
      BY <2>6 DEF Manda
    <3>2. m.f \in Recargas /\ (m.f = "USR2" \/ ~ Hay("USR2"))
      BY <1>1, <2>6 DEF Manda, Recargas
    <3>3. k \in DOMAIN pila /\ k # Len(pila) /\ pila[k] = m
      BY <1>1, <1>2, <3>1, <3>2 DEF Recargas
    <3>4. Sabe(m) /\ m.pc # "i_source"
      <4>1. Manda(m) /\ k < Len(pila)
        BY <1>2, <3>2, <3>3 DEF Manda
      <4>. QED BY <1>1, <1>2, <2>1, <3>3, <4>1 DEF Orden
    <3>5. m.pc \in Pasos
      BY <3>2, <3>3 DEF Forma, Bien, Propios, Recargas
    <3>. QED BY <2>2, <3>4, <3>5, Sabe_Queda
  <2>. QED BY <1>1, <2>1, <2>3, <2>4, <2>5, <2>6
<1>. QED BY <1>4, <1>5 DEF LecturaInv

LEMMA Lectura_Fuera ==
    ASSUME TypeOK, Forma, LecturaInv, Fuera PROVE LecturaInv'
<1>1. /\ UNCHANGED <<config, vigias, pila, sesion, anidada, mezclada>>
      /\ \A f \in Archivos : \/ archivos'[f] = archivos[f]
                             \/ archivos'[f].v = archivos[f].v + 1
  BY Fuera_Deja
<1>2. \A f \in Archivos : archivos[f].v \in Nat /\ foto[f].v \in Nat
  BY DEF TypeOK, Fotos, Versiones
<1>3. Fecha
  BY DEF LecturaInv
<1>4. Fecha'
  <2>1. ASSUME NEW f \in Archivos
        PROVE foto[f].v <= archivos'[f].v /\ archivos'[f].v >= 1
    BY <1>1, <1>2, <1>3 DEF Fecha
  <2>. QED BY <1>1, <2>1 DEF Fecha, config
<1>5. \A f \in Archivos : foto[f] = archivos'[f] => archivos'[f] = archivos[f]
  <2>. SUFFICES ASSUME NEW f \in Archivos, archivos'[f] # archivos[f]
                PROVE foto[f].v # archivos'[f].v
    OBVIOUS
  <2>. QED BY <1>1, <1>2, <1>3 DEF Fecha
<1>6. /\ Orden' <=> Orden
      /\ Recargando' <=> Recargando
      /\ \A m \in Marcos : Manda(m)' <=> Manda(m)
  BY <1>1 DEF Orden, Recargando, Manda, Hay
<1>7. \A m \in Marcos : Manda(m) => m.pc \in Pasos
  BY DEF Manda, Forma, Bien, Propios, Recargas
<1>8. /\ Reposo => Reposo'
      /\ \A m \in Marcos : Manda(m) /\ Sabe(m) => Sabe(m)'
  BY <1>1, <1>5, <1>7, Sabe_Queda DEF config
<1>. QED BY <1>1, <1>4, <1>6, <1>8 DEF LecturaInv

LEMMA Marco_Es == \A h, d : Marco(h, d).f = h /\ Marco(h, d).pc = d
  BY DEF Marco

(* Something begins: a trap or the request of the user.                    *)
LEMMA Lectura_Orden ==
    ASSUME TypeOK, Forma, Orden,
           \/ Pide
           \/ /\ Trap("USR1") \/ Trap("USR2")
              /\ ~ mezclada'
    PROVE Orden'
<1>1. CASE Pide
  <2>1. pila' = <<Marco("pedido", "kill_verif")>>
    BY <1>1 DEF Pide
  <2>2. DOMAIN pila' = {1}
    BY <2>1
  <2>. QED BY <2>2 DEF Orden
<1>2. ASSUME NEW h \in {"USR1", "USR2"}, Trap(h), ~ mezclada' PROVE Orden'
  <2>1. \A k \in DOMAIN pila :
           /\ h = "USR2" /\ pila[k].f = "pedido" => pila[k].pc \notin Ventana
           /\ h = "USR1" => pila[k].pc # "i_source"
    BY <1>2 DEF Trap
  <2>2. PICK n : /\ n \notin DOMAIN pila
                 /\ DOMAIN pila' = DOMAIN pila \cup {n} /\ pila'[n].f = h
                 /\ \A k \in DOMAIN pila : n > k
    <3>1. PICK d, n : /\ n \notin DOMAIN pila
                      /\ DOMAIN pila' = DOMAIN pila \cup {n}
                      /\ pila'[n] = Marco(h, d)
                      /\ \A k \in DOMAIN pila : n > k
      BY <1>2, Entra
    <3>. QED BY <3>1, Marco_Es
  <2>3. \A k \in DOMAIN pila : pila'[k] = pila[k]
    BY <1>2, Entra
  <2>4. ASSUME NEW j \in DOMAIN pila', NEW k \in DOMAIN pila', j < k
        PROVE j \in DOMAIN pila /\ (k \in DOMAIN pila \/ pila'[k].f = h)
    <3>1. DOMAIN pila' \subseteq Nat
      <4>1. Bien'
        BY <1>2, Entra
      <4>. QED BY <4>1 DEF Bien
    <3>. QED BY <2>2, <2>4, <3>1
  <2>5. \A j, k \in DOMAIN pila' : j < k =>
           /\ pila'[k].f = "USR1" => pila'[j].pc # "i_source"
           /\ pila'[k].f = "USR2" /\ pila'[j].f = "pedido" =>
                 pila'[j].pc \notin Ventana
    BY <2>1, <2>3, <2>4 DEF Orden
  <2>. QED BY <2>5 DEF Orden
<1>. QED BY <1>1, <1>2

LEMMA Lectura_USR1 ==
    ASSUME TypeOK, Forma, LecturaInv, Trap("USR1") PROVE LecturaInv'
<1>1. /\ UNCHANGED <<archivos, config, vigias, sesion>>
      /\ (anidada => anidada') /\ (mezclada => mezclada')
  <2>1. UNCHANGED <<archivos, config, vigias, sesion>>
    BY DEF Trap
  <2>. QED BY <2>1, Zenon DEF Trap
<1>2. PICK n : /\ n \notin DOMAIN pila
               /\ DOMAIN pila' = DOMAIN pila \cup {n} /\ pila'[n].f = "USR1"
  <2>1. PICK n : /\ n \notin DOMAIN pila
                 /\ DOMAIN pila' = DOMAIN pila \cup {n}
                 /\ pila'[n] = Marco("USR1", "for")
    BY Entra
  <2>. QED BY <2>1, Marco_Es
<1>3. /\ \A k \in DOMAIN pila : pila'[k] = pila[k]
      /\ \A g : Hay(g)' <=> Hay(g) \/ g = "USR1"
  BY Entra
<1>4. Fecha'
  BY <1>1 DEF LecturaInv, Fecha, config
<1>5. ASSUME ~ mezclada'
      PROVE /\ Orden' /\ (sesion' = "viva" /\ ~ Recargando' => Reposo')
            /\ \A m \in Marcos : Manda(m)' => Sabe(m)'
  <2>1. /\ Orden /\ (sesion = "viva" /\ ~ Recargando => Reposo)
        /\ \A m \in Marcos : Manda(m) => Sabe(m)
    BY <1>1, <1>5 DEF LecturaInv
  <2>2. Orden'
    BY <1>5, <2>1, Lectura_Orden
  <2>3. Recargando => Recargando'
    BY <1>2, <1>3 DEF Recargando
  <2>4. /\ Reposo => Reposo'
        /\ \A m : Sabe(m) /\ m.pc \in Pasos => Sabe(m)'
    BY <1>1, Sabe_Queda DEF config
  <2>5. ASSUME NEW m \in Marcos, Manda(m)' PROVE Manda(m) /\ m.pc \in Pasos
    <3>1. m.f \in Recargas /\ m.f # "USR1" /\ (m.f = "USR2" \/ ~ Hay("USR2"))
      BY <1>3, <2>5 DEF Manda, Recargas
    <3>2. PICK k \in DOMAIN pila : pila[k] = m
      BY <1>2, <1>3, <2>5, <3>1 DEF Manda
    <3>. QED BY <3>1, <3>2 DEF Manda, Forma, Bien, Propios
  <2>. QED BY <1>1, <2>1, <2>2, <2>3, <2>4, <2>5
<1>. QED BY <1>4, <1>5 DEF LecturaInv

LEMMA Lectura_Entra ==
    ASSUME TypeOK, Forma, CuentasInv, LecturaInv, Pide \/ Trap("USR2"),
           (TypeOK /\ Forma)'
    PROVE LecturaInv'
<1>1. /\ UNCHANGED <<archivos, config, vigias, sesion>> /\ sesion = "viva"
      /\ mezclada => mezclada'
  <2>1. UNCHANGED <<archivos, config, vigias, sesion>> /\ sesion = "viva"
    BY DEF Trap, Pide
  <2>2. mezclada => mezclada'
    BY Zenon DEF Trap, Pide
  <2>. QED BY <2>1, <2>2
<1>2. /\ pila' # <<>> /\ Cima'.f \in {"pedido", "USR2"}
      /\ Cima'.pc \in {"kill_verif", "config_listas"} /\ Cima'.f \in Recargas
  <2>1. /\ pila' # <<>>
        /\ \/ Cima' = Marco("pedido", "kill_verif")
           \/ Cima' = Marco("USR2", "config_listas")
    BY Entra
  <2>. QED BY <2>1, Marco_Es DEF Recargas
<1>3. Recargando'
  <2>1. PICK k \in DOMAIN pila' : pila'[k] = Cima'
    <3>1. pila' \in Seq(Marcos)
      BY DEF TypeOK
    <3>2. Len(pila') \in DOMAIN pila'
      BY <1>2, <3>1
    <3>. QED BY <3>2 DEF Cima, Last
  <2>. QED BY <1>2, <2>1 DEF Recargando
<1>4. Fecha'
  BY <1>1 DEF LecturaInv, Fecha, config
<1>5. ASSUME ~ mezclada'
      PROVE Orden' /\ \A m \in Marcos : Manda(m)' => Sabe(m)'
  <2>1. /\ Orden /\ (~ Recargando => Reposo)
        /\ \A m \in Marcos : Manda(m) => Sabe(m)
    BY <1>1, <1>5 DEF LecturaInv
  <2>2. Orden'
    BY <1>5, <2>1, Lectura_Orden
  <2>3. \A m \in Marcos : Manda(m)' => m = Cima'
    BY <1>2, MandaLeera DEF MandaDice
  <2>4. CASE ~ Recargando
    <3>1. Leidos' /\ TodosLeidos'
      BY <1>1, <2>1, <2>4, Igual DEF Reposo, config, tabla
    <3>2. \A m : m = Cima' => m.pc \notin Ventana
      BY <1>2 DEF Ventana
    <3>. QED BY <2>2, <2>3, <3>1, <3>2, Sabe_Completo
  <2>5. CASE Recargando
    <3>1. Trap("USR2") /\ Cima'.pc = "config_listas"
      <4>1. ~ Pide
        BY <2>5 DEF Pide, Recargando
      <4>2. Trap("USR2")
        BY <4>1
      <4>3. Cima' = Marco("USR2", "config_listas")
        BY <4>2, Entra
      <4>. QED BY <4>2, <4>3, Marco_Es
    <3>2. Hay("pedido") /\ ~ Hay("USR2")
      <4>1. "USR2" \in pend /\ ~ Hay("USR2")
        BY <3>1 DEF Trap, Atendible, Hay
      <4>. QED BY <2>5, <4>1, PilaLee DEF PilaDice, CuentasInv, Recargas
    <3>3. PICK k \in DOMAIN pila : pila[k].f = "pedido"
      BY <3>2 DEF Hay
    <3>4. anidada' /\ pila[k].pc \notin Ventana
      BY <1>5, <3>1, <3>3 DEF Trap
    <3>5. Sabe(pila[k]) /\ pila[k].pc \in Pasos
      <4>1. pila[k] \in Marcos /\ Propios(pila[k])
        BY DEF Forma, Bien
      <4>2. Manda(pila[k])
        BY <3>2, <3>3 DEF Manda, Recargas
      <4>. QED BY <2>1, <3>3, <4>1, <4>2 DEF Propios
    <3>6. Numerada
      BY <3>4, <3>5 DEF Sabe, Leidos, Pasos, Leyendo
    <3>7. Numerada'
      BY <1>1, <3>6, Igual DEF config, tabla
    <3>8. \A m : m = Cima' => Sabe(m)'
      BY <3>1, <3>4, <3>7 DEF Sabe, Antes, Parando, Iniciando, Lanzando
    <3>. QED BY <2>2, <2>3, <3>8
  <2>. QED BY <2>4, <2>5
<1>. QED BY <1>3, <1>4, <1>5 DEF LecturaInv

LEMMA LecturaPaso ==
    ASSUME TypeOK, Forma, CuentasInv, LecturaInv, [Next]_vars,
           (TypeOK /\ Forma)'
    PROVE LecturaInv'
<1>1. CASE Falla \/ Sale
  <2>1. salirFunc /\ UNCHANGED <<archivos, config>>
    BY <1>1 DEF Falla, Sale
  <2>2. DOMAIN pila' = {} /\ sesion' = "fin"
    BY <2>1, Salida
  <2>3. Fecha'
    BY <2>1 DEF LecturaInv, Fecha, config
  <2>4. Orden' /\ \A m \in Marcos : ~ Manda(m)'
    BY <2>2 DEF Orden, Manda
  <2>. QED BY <2>2, <2>3, <2>4 DEF LecturaInv
<1>2. CASE Recarga
  BY <1>2, Lectura_Mando, Lectura_Fin
<1>. QED BY <1>1, <1>2, Pasos_De, Lectura_Periodicos, Lectura_Fuera,
            Lectura_USR1, Lectura_Entra

LEMMA Lectura_Inicio == ASSUME Init PROVE LecturaInv
<1>1. pila = <<Marco("inicio", "r_cero")>>
  BY DEF Init
<1>2. DOMAIN pila = {1} /\ pila[1] = Marco("inicio", "r_cero")
  BY <1>1
<1>3. Recargando /\ Orden
  BY <1>2 DEF Recargando, Orden, Marco
<1>4. Fecha
  BY DEF Init, Fecha, Version
<1>5. DOMAIN vec = {}
  BY DEF Init
<1>6. ASSUME NEW m \in Marcos, Manda(m) PROVE Sabe(m)
  <2>1. m.pc = "r_cero"
    BY <1>2, <1>6 DEF Manda, Marco
  <2>. QED BY <1>5, <2>1 DEF Sabe, Antes, Parando, Iniciando, Lanzando
<1>. QED BY <1>3, <1>4, <1>6 DEF LecturaInv

(* What a reload has read is what it kept of the files, or the file has    *)
(* been modified since, in each of its commands and when it is over.       *)
THEOREM LecturaCorrecta ==
    Spec => [](TypeOK /\ Forma /\ CuentasInv /\ InicioInv /\ LecturaInv)
<1>1. Init => TypeOK /\ Forma /\ CuentasInv /\ InicioInv /\ LecturaInv
  BY InicioTipo, Cuentas_Inicio, Inicio_Inicio, Lectura_Inicio
<1>2. /\ TypeOK /\ Forma /\ CuentasInv /\ InicioInv /\ LecturaInv
      /\ [Next]_vars
      => TypeOK' /\ Forma' /\ CuentasInv' /\ InicioInv' /\ LecturaInv'
  BY TipoPaso, CuentasPaso, InicioPaso, LecturaPaso
<1>. QED BY <1>1, <1>2, PTL DEF Spec

(* No change of a file is lost by registrar, leerPeriodosConfig, the start *)
(* of the modules and the jobs that watch the files, wherever the traps    *)
(* fall, but for a USR2 while an actualizar_modulos changes the names.     *)
THEOREM CambiosVistos == Spec => []SinCambioPerdido
<1>1. TypeOK /\ LecturaInv => SinCambioPerdido
  <2>. SUFFICES ASSUME TypeOK, LecturaInv, sesion = "viva", ~ mezclada,
                       NEW f \in Archivos, ~ Recargando
                PROVE \/ AlDia(f)
                      \/ \E i \in DOMAIN vigias : vigias[i][f] # archivos[f]
    BY DEF SinCambioPerdido
  <2>1. Reposo
    BY DEF LecturaInv
  <2>2. PICK i \in DOMAIN vigias : vigias[i] = foto
    BY <2>1 DEF Reposo
  <2>3. CASE foto[f] # archivos[f]
    BY <2>2, <2>3
  <2>4. CASE foto[f] = archivos[f]
    <3>1. /\ Names = Lista \ {0} /\ Unicos /\ K("cambios") /\ K("modls")
          /\ \A k \in DOMAIN vec : Leyo(k)
      BY <2>1 DEF Reposo, Leidos, Todas, TodosLeidos
    <3>2. DOMAIN cargado = {"cambios", "modls"}
      BY DEF TypeOK
    <3>3. CASE f = "listas"
      BY <2>4, <3>1, <3>3 DEF AlDia, Names, Lista, Unicos
    <3>4. CASE f = "nucleo"
      BY <2>4, <3>1, <3>2, <3>4 DEF AlDia, K
    <3>5. CASE f = "confs"
      BY <2>4, <3>1, <3>5 DEF AlDia, Leyo
    <3>. QED BY <3>3, <3>4, <3>5 DEF Archivos
  <2>. QED BY <2>3, <2>4
<1>. QED BY <1>1, LecturaCorrecta, PTL

(* executePeriodicos runs with all the modules that have a name started: a *)
(* reload it interrupts has not begun to stop them or has started all.     *)
THEOREM PeriodicosArrancados == Spec => []PeriodicosListos
<1>1. TypeOK /\ Forma /\ InicioInv /\ LecturaInv => PeriodicosListos
  <2>. SUFFICES ASSUME TypeOK, Forma, InicioInv, LecturaInv, pila # <<>>,
                       Cima.f = "USR1", ~ anidada
                PROVE Arrancados
    BY DEF PeriodicosListos, Arrancados
  <2>1. ~ mezclada /\ sesion = "viva"
    BY DEF InicioInv, Forma, TypeOK
  <2>2. TodosLeidos => Arrancados
    BY DEF TodosLeidos, Arrancados, Leyo
  <2>3. CASE ~ Recargando
    BY <2>1, <2>2, <2>3 DEF LecturaInv, Reposo
  <2>4. CASE Recargando
    <3>1. PICK g \in Recargas : Hay(g) /\ (g = "USR2" \/ ~ Hay("USR2"))
      BY <2>4, PilaLee DEF PilaDice, Recargas
    <3>2. PICK k \in DOMAIN pila : pila[k].f = g
      BY <3>1 DEF Hay
    <3>3. pila[k] \in Marcos /\ Propios(pila[k])
      BY DEF Forma, Bien
    <3>4. Manda(pila[k]) /\ P(g, pila[k].pc)
      BY <3>1, <3>2 DEF Manda, P
    <3>5. Sabe(pila[k]) /\ pila[k].pc \in Pasos
      BY <2>1, <3>1, <3>2, <3>3, <3>4 DEF LecturaInv, Propios, Recargas
    <3>6. pila[k].pc \notin Detenidos
      BY <3>1, <3>4 DEF InicioInv, Arriba, Recargas
    <3>7. pila[k].pc \in Antes \cup Lanzando
      BY <3>5, <3>6 DEF Pasos, Detenidos
    <3>. QED BY <2>2, <3>5, <3>7 DEF Sabe
  <2>. QED BY <2>3, <2>4
<1>. QED BY <1>1, LecturaCorrecta, PTL
=============================================================================
