--------------------------- MODULE ConexionProofs ---------------------------
(***************************************************************************)
(* The connections between the PIs and the PP, for any clients, any number *)
(* of places, of suspensions and of clients that vanish.                   *)
(*                                                                         *)
(* Everything the PP knows of a client is the number of a descriptor.  The *)
(* invariant says what that number is worth: who is connected to it, whose *)
(* image and messages carry it, and how many suspended images there are    *)
(* for the resumptions that may still come by it.                          *)
(***************************************************************************)
EXTENDS Conexion, FiniteSetTheorems, SequenceTheorems, TLAPS

(* How many elements of s are of the set.                                  *)
Cuenta(s, V) == Cardinality({i \in DOMAIN s : s[i] \in V})

(* Where a client that was not admitted is: waiting to be accepted, or in  *)
(* the hands of LTSconex; and one just admitted.                           *)
EnCola(c)   == \E i \in DOMAIN backlog : backlog[i] = c
EnMano(c)   == lts.pc = "hand" /\ lts.cl = c
EnScript(c) == lts.pc = "script" /\ lts.cl = c
Entra(c)    == lts.pc \in {"push", "demora"} /\ lts.cl = c

-----------------------------------------------------------------------------
(* A client has one connection, and who has not connected has none.        *)
RedInv ==
    /\ \A f, g \in Fds : conex[f] = conex[g] /\ conex[f] # Nadie => f = g
    /\ \A i, j \in DOMAIN backlog : backlog[i] = backlog[j] => i = j
    /\ \A f \in Fds : \A i \in DOMAIN backlog : conex[f] # backlog[i]
    /\ \A c \in Clientes : pi[c] = "afuera" => ~ Abierta(c)
    /\ pp = "fin" => backlog = <<>> /\ \A f \in Fds : conex[f] = Nadie

(* What epoll_wait reported is still so when LTSconex comes to it.         *)
EventosInv ==
    /\ eventos[serverfd] # "no" => backlog # <<>>
    /\ \A f \in Fds : eventos[f] # "no" =>
          /\ conex[f] \in Clientes
          /\ eventos[f] = "in" => aPP[conex[f]] # <<>>
          /\ eventos[f] = "hup" => Ido(conex[f])

LtsInv ==
    lts.pc \in {"hand", "script", "push", "demora"} =>
        /\ lts.cl \in Clientes /\ lts.fd \in Fds
        /\ pp # "fin" => conex[lts.fd] = lts.cl
        /\ eventos[lts.fd] = "no"

(* What a client has done tells what there is between it and the PP.  Once *)
(* admitted its descriptor is its own while it is connected, and it sends  *)
(* only resumptions.                                                       *)
Fase(c) ==
    /\ pi[c] \in {"afuera", "conecta"} => aPP[c] = <<>>
    /\ pi[c] \in {"afuera", "conecta"} \cup Idos => aPI[c] = <<>>
    /\ pi[c] = "hand" => aPI[c] \in {<<>>, <<Msg("!", c)>>}
    /\ fd[c] # 0 => pi[c] \in {"resp", "lee", "enter", "fin", "error", "caido"}
    /\ \A i \in DOMAIN aPI[c] : /\ aPI[c][i].tipo = "F" => fd[c] = 0
                                /\ fd[c] = 0 => aPI[c][i].de = c
FaseNuevo(c) ==
    /\ EnCola(c) \/ EnMano(c) =>
          /\ fd[c] = 0 /\ aPI[c] = <<>> /\ aPP[c] \in {<<>>, <<"#">>}
          /\ pi[c] \in {"conecta", "hand", "caido"}
    /\ EnScript(c) =>
          /\ fd[c] = 0 /\ aPP[c] \in {<<>>, <<"N">>}
          /\ pi[c] \in {"hand", "resp", "caido"}
          /\ pi[c] = "hand" => aPP[c] = <<>>
          /\ pi[c] = "resp" => aPI[c] = <<>>
FaseDentro(c) ==
    \A f \in Fds : conex[f] = c =>
        \/ EnMano(c) \/ EnScript(c)
        \/ /\ fd[c] = f /\ \A i \in DOMAIN aPP[c] : aPP[c][i] = "R"
           /\ pi[c] = "resp" => aPI[c] # <<>>
FasesInv == \A c \in Clientes :
    Fase(c) /\ (pp # "fin" => FaseNuevo(c) /\ FaseDentro(c))

(* The PP leaves no client without its connection but the refused.         *)
AbiertasInv ==
    pp # "fin" => \A c \in Clientes :
        pi[c] \in {"conecta", "hand", "resp", "lee", "enter"} =>
            \/ Abierta(c)
            \/ \E i \in DOMAIN aPI[c] : aPI[c][i].tipo = "F"

(* The images and the messages, and their descriptors.                     *)
ImagenFd == \A c \in Clientes :
    /\ proc[c] # "afuera" => fd[c] # 0
    /\ fd[c] # 0 /\ proc[c] = "afuera" <=> Entra(c)
    /\ Entra(c) => fd[c] = lts.fd
ColasInv ==
    /\ \A i \in DOMAIN LFIFO : proc[LFIFO[i]] = "demorado"
    /\ \A i, j \in DOMAIN LFIFO : LFIFO[i] = LFIFO[j] => i = j
    /\ \A i \in DOMAIN LPS : proc[LPS[i]] = "suspendido"
    /\ \A i, j \in DOMAIN LPS : LPS[i] = LPS[j] => i = j
ProcerInv ==
    /\ procer.pc # "espera" => procer.img \in Clientes
    /\ procer.pc = "ejecuta" => proc[procer.img] = "ejecuta"
    /\ procer.pc = "avisa" => proc[procer.img] \in {"suspendido", "memoria"}
    /\ procer.pc = "libera" => proc[procer.img] = "finalizado"
ImagenInv == ImagenFd /\ ColasInv /\ ProcerInv
MensajesInv ==
    \A i \in DOMAIN sendingList :
        /\ sendingList[i].tipo \in {"N", "S", "T"}
        /\ sendingList[i].fd = fd[sendingList[i].de]
        /\ proc[sendingList[i].de] # "afuera"
        /\ sendingList[i].tipo = "T" => proc[sendingList[i].de] = "finalizado"

(* There are as many images to resume by a descriptor as resumptions may   *)
(* come by it, those of the messages not yet sent included.                *)
EsS      == [tipo : {"S"}, de : Clientes]
EsSDe(f) == [fd : {f}, tipo : {"S"}, de : Clientes]
DeFd(f)  == {c \in Clientes : fd[c] = f}
PorVenir(f) == Cuenta(sendingList, EsSDe(f))
               + UnoSi(procer.pc = "avisa" /\ fd[procer.img] = f)
Del(avisos, enviado, estado) ==
    Cuenta(avisos, EsS) + Cuenta(enviado, {"R"}) + UnoSi(estado = "enter")
EnCamino(f) == IF conex[f] = Nadie THEN 0
               ELSE Del(aPI[conex[f]], aPP[conex[f]], pi[conex[f]])
ReanudaInv ==
    /\ lts.pc # "segv"
    /\ \A f \in Fds : PorVenir(f) + EnCamino(f) <= Cuenta(LPS, DeFd(f))

(* On a descriptor that nobody vanished from, a process with something to  *)
(* say has its own client connected, and the T is the last that it says.   *)
Pendiente(p) == \/ fd[p] # 0 /\ proc[p] # "finalizado"
                \/ \E i \in DOMAIN sendingList : sendingList[i].de = p
LimpioInv ==
    pp # "fin" => \A p \in Clientes :
        ~ Sucio(fd[p]) /\ Pendiente(p) =>
            /\ conex[fd[p]] = p /\ pi[p] # "fin"
            /\ \A j \in DOMAIN aPI[p] : aPI[p][j].tipo # "T"
UltimoInv ==
    \A i, j \in DOMAIN sendingList :
        i < j /\ sendingList[i].de = sendingList[j].de
            => sendingList[i].tipo # "T"

AvisadosInv ==
    pp # "fin" => \A c \in Clientes : proc[c] = "finalizado" => Avisado(c)

ConexInv ==
    /\ RedInv /\ EventosInv /\ LtsInv /\ FasesInv /\ AbiertasInv
    /\ ImagenInv /\ MensajesInv /\ ReanudaInv
    /\ LimpioInv /\ UltimoInv /\ AvisadosInv

(* The inductive invariant.                                                *)
IInv == /\ TypeOK /\ ConexInv /\ LugaresExactos
        /\ RespuestaPrimero /\ AvisosPropios /\ NadieDesconectado
-----------------------------------------------------------------------------
(* Sequences: an element more, the first one less, the i-th one less.      *)
LEMMA Agrega ==
    ASSUME NEW S, NEW s \in Seq(S), NEW e \in S
    PROVE LET t == Append(s, e)
          IN  /\ t \in Seq(S) /\ t # <<>> /\ Len(s) \in Nat
              /\ DOMAIN s = 1 .. Len(s) /\ DOMAIN t = 1 .. Len(s) + 1
              /\ \A i \in DOMAIN s : i \in DOMAIN t /\ t[i] = s[i]
              /\ Len(s) + 1 \in DOMAIN t /\ t[Len(s) + 1] = e
              /\ \A i \in DOMAIN t : \/ i \in DOMAIN s /\ t[i] = s[i]
                                     \/ i = Len(s) + 1 /\ t[i] = e
  OBVIOUS

LEMMA Cola ==
    ASSUME NEW S, NEW s \in Seq(S), s # <<>>
    PROVE LET t == Tail(s)
          IN  /\ t \in Seq(S) /\ 1 \in DOMAIN s /\ s[1] = Head(s)
              /\ Head(s) \in S
              /\ \A i \in DOMAIN t : i + 1 \in DOMAIN s /\ t[i] = s[i + 1]
              /\ \A i \in DOMAIN s :
                    i = 1 \/ (i - 1 \in DOMAIN t /\ t[i - 1] = s[i])
<1> DEFINE n == Len(s)
           t == Tail(s)
<1>1. /\ t \in Seq(S) /\ n \in Nat \ {0} /\ DOMAIN s = 1 .. n
      /\ s[1] = Head(s) /\ Head(s) \in S
      /\ DOMAIN t = 1 .. n - 1 /\ \A i \in 1 .. n - 1 : t[i] = s[i + 1]
  OBVIOUS
<1>. HIDE DEF n, t
<1>2. \A i \in DOMAIN t : i + 1 \in DOMAIN s /\ t[i] = s[i + 1]
  BY <1>1
<1>3. ASSUME NEW i \in DOMAIN s, i # 1
      PROVE i - 1 \in DOMAIN t /\ t[i - 1] = s[i]
  <2>1. i - 1 \in 1 .. n - 1 /\ (i - 1) + 1 = i
    BY <1>1, <1>3
  <2>. QED BY <1>1, <2>1
<1>4. 1 \in DOMAIN s
  BY <1>1
<1>. QED BY <1>1, <1>2, <1>3, <1>4 DEF t

(* The place in s of element k of s without the i-th.                      *)
Salta(k, i) == IF k < i THEN k ELSE k + 1

LEMMA Saca ==
    ASSUME NEW S, NEW s \in Seq(S), NEW i \in DOMAIN s
    PROVE LET t == RemoveAt(s, i)
          IN  /\ t \in Seq(S) /\ DOMAIN t \subseteq Nat
              /\ \A k \in DOMAIN t : /\ Salta(k, i) \in DOMAIN s
                                    /\ Salta(k, i) # i
                                    /\ t[k] = s[Salta(k, i)]
              /\ \A k, l \in DOMAIN t : k < l => Salta(k, i) < Salta(l, i)
              /\ \A m \in DOMAIN s : m # i =>
                    \E k \in DOMAIN t : Salta(k, i) = m
<1> DEFINE n == Len(s)
           a == SubSeq(s, 1, i - 1)
           b == SubSeq(s, i + 1, n)
           t == RemoveAt(s, i)
<1>1. n \in Nat /\ DOMAIN s = 1 .. n /\ i \in 1 .. n
  OBVIOUS
<1>2. a \in Seq(S) /\ Len(a) = i - 1 /\ \A k \in 1 .. i - 1 : a[k] = s[k]
  BY <1>1
<1>3. /\ b \in Seq(S) /\ Len(b) = n - i
      /\ \A k \in 1 .. n - i : b[k] = s[k + i]
  BY <1>1
<1>4. t = a \o b
  BY DEF RemoveAt
<1>. HIDE DEF a, b, t, n
<1>5. /\ t \in Seq(S) /\ Len(t) = (i - 1) + (n - i)
      /\ \A k \in 1 .. Len(a) + Len(b) :
            t[k] = IF k <= Len(a) THEN a[k] ELSE b[k - Len(a)]
  <2>1. /\ a \o b \in Seq(S) /\ Len(a \o b) = Len(a) + Len(b)
        /\ \A k \in 1 .. Len(a) + Len(b) :
              (a \o b)[k] = IF k <= Len(a) THEN a[k] ELSE b[k - Len(a)]
    <3>1. a \in Seq(S) /\ b \in Seq(S)
      BY <1>2, <1>3
    <3>. QED BY <3>1, ConcatProperties
  <2>. QED BY <1>2, <1>3, <1>4, <2>1
<1>6. Len(t) = n - 1 /\ DOMAIN t = 1 .. n - 1
  BY <1>1, <1>5
<1>7. \A k \in 1 .. n - 1 : k \in 1 .. Len(a) + Len(b)
  BY <1>1, <1>2, <1>3
<1>8. ASSUME NEW k \in DOMAIN t
      PROVE /\ Salta(k, i) \in DOMAIN s /\ Salta(k, i) # i
            /\ t[k] = s[Salta(k, i)]
  <2>1. CASE k < i
    <3>1. k <= Len(a) /\ k \in 1 .. i - 1
      BY <1>1, <1>2, <1>6, <2>1
    <3>2. t[k] = s[k]
      BY <1>2, <1>5, <1>6, <1>7, <3>1
    <3>. QED BY <1>1, <1>6, <2>1, <3>2 DEF Salta
  <2>2. CASE ~ (k < i)
    <3>1. /\ ~ (k <= Len(a)) /\ k - Len(a) \in 1 .. n - i
          /\ (k - Len(a)) + i = k + 1 /\ k + 1 \in 1 .. n
      BY <1>1, <1>2, <1>6, <2>2
    <3>2. t[k] = b[k - Len(a)]
      BY <1>5, <1>6, <1>7, <3>1
    <3>3. t[k] = s[k + 1]
      BY <1>3, <3>1, <3>2
    <3>. QED BY <1>1, <1>6, <2>2, <3>1, <3>3 DEF Salta
  <2>. QED BY <2>1, <2>2
<1>9. \A k, l \in DOMAIN t : k < l => Salta(k, i) < Salta(l, i)
  BY <1>1, <1>6 DEF Salta
<1>10. ASSUME NEW m \in DOMAIN s, m # i
       PROVE \E k \in DOMAIN t : Salta(k, i) = m
  <2>1. CASE m < i
    <3>1. m \in DOMAIN t /\ Salta(m, i) = m
      BY <1>1, <1>6, <2>1 DEF Salta
    <3>. QED BY <3>1
  <2>2. CASE ~ (m < i)
    <3>1. m - 1 \in DOMAIN t /\ Salta(m - 1, i) = m
      BY <1>1, <1>6, <1>10, <2>2 DEF Salta
    <3>. QED BY <3>1
  <2>. QED BY <2>1, <2>2
<1>11. t \in Seq(S) /\ DOMAIN t \subseteq Nat
  BY <1>1, <1>5, <1>6
<1>. QED BY <1>8, <1>9, <1>10, <1>11 DEF t

-----------------------------------------------------------------------------
(* How many elements of a sequence are of a set.                           *)
LEMMA CuentaNat ==
    ASSUME NEW S, NEW s \in Seq(S), NEW V
    PROVE /\ Cuenta(s, V) \in Nat
          /\ IsFiniteSet({i \in DOMAIN s : s[i] \in V})
          /\ Cuenta(s, V) = 0 <=> \A i \in DOMAIN s : s[i] \notin V
<1> DEFINE A == {i \in DOMAIN s : s[i] \in V}
<1>1. Len(s) \in Nat /\ DOMAIN s = 1 .. Len(s)
  OBVIOUS
<1>2. IsFiniteSet(1 .. Len(s))
  BY <1>1, FS_Interval
<1>3. IsFiniteSet(A) /\ Cardinality(A) \in Nat
  BY <1>1, <1>2, FS_Subset, FS_CardinalityType
<1>4. Cardinality(A) = 0 <=> A = {}
  BY <1>3, FS_EmptySet
<1>. QED BY <1>3, <1>4 DEF Cuenta

LEMMA CuentaAgrega ==
    ASSUME NEW S, NEW s \in Seq(S), NEW e \in S, NEW V
    PROVE Cuenta(Append(s, e), V) = Cuenta(s, V) + UnoSi(e \in V)
<1> DEFINE n == Len(s) + 1
           t == Append(s, e)
           A == {i \in DOMAIN s : s[i] \in V}
           B == {i \in DOMAIN t : t[i] \in V}
<1>1. /\ Len(s) \in Nat /\ DOMAIN s = 1 .. Len(s) /\ DOMAIN t = 1 .. n
      /\ t[n] = e /\ \A i \in 1 .. Len(s) : t[i] = s[i]
  OBVIOUS
<1>2. IsFiniteSet(A) /\ Cardinality(A) \in Nat
  BY CuentaNat DEF Cuenta
<1>3. n \notin A
  BY <1>1
<1>4. Cuenta(s, V) = Cardinality(A) /\ Cuenta(t, V) = Cardinality(B)
  BY DEF Cuenta
<1>5. CASE e \in V
  <2>1. B = A \cup {n}
    BY <1>1, <1>5
  <2>2. Cardinality(B) = Cardinality(A) + 1
    BY <1>2, <1>3, <2>1, FS_AddElement
  <2>. HIDE DEF A, B
  <2>. QED BY <1>4, <1>5, <2>2 DEF UnoSi
<1>6. CASE e \notin V
  <2>1. B = A
    BY <1>1, <1>6
  <2>. HIDE DEF A, B
  <2>. QED BY <1>2, <1>4, <1>6, <2>1 DEF UnoSi
<1>. QED BY <1>5, <1>6

(* t is s without its i-th element.                                        *)
Sin(t, s, i, f) ==
    /\ \A k \in DOMAIN t : /\ f[k] \in DOMAIN s /\ f[k] # i /\ t[k] = s[f[k]]
    /\ \A k, l \in DOMAIN t : f[k] = f[l] => k = l
    /\ \A m \in DOMAIN s : m # i => \E k \in DOMAIN t : f[k] = m

LEMMA CuentaSin ==
    ASSUME NEW S, NEW s \in Seq(S), NEW t \in Seq(S), NEW i \in DOMAIN s,
           NEW g, Sin(t, s, i, g), NEW V
    PROVE Cuenta(s, V) = Cuenta(t, V) + UnoSi(s[i] \in V)
<1> DEFINE A == {k \in DOMAIN s : s[k] \in V}
           B == {k \in DOMAIN t : t[k] \in V}
           C == A \ {i}
           f == [k \in B |-> g[k]]
<1>1. /\ IsFiniteSet(A) /\ Cardinality(A) \in Nat
      /\ IsFiniteSet(B) /\ Cardinality(B) \in Nat
  BY CuentaNat DEF Cuenta
<1>2. f \in Bijection(B, C)
  <2>1. \A k \in B : g[k] \in C
    BY DEF Sin
  <2>2. f \in [B -> C]
    BY <2>1
  <2>3. \A k, l \in B : f[k] = f[l] => k = l
    BY DEF Sin
  <2>4. \A m \in C : \E k \in B : f[k] = m
    BY DEF Sin
  <2>. HIDE DEF f, B, C
  <2>. QED BY <2>2, <2>3, <2>4 DEF Bijection, Injection, Surjection, IsInjective
<1>3. Cardinality(C) = Cardinality(B)
  <2>. HIDE DEF f, B, C
  <2>1. ExistsBijection(B, C)
    BY <1>2 DEF ExistsBijection
  <2>. QED BY <1>1, <2>1, FS_Bijection
<1>4. Cardinality(C) = IF i \in A THEN Cardinality(A) - 1 ELSE Cardinality(A)
  BY <1>1, FS_RemoveElement
<1>5. i \in A <=> s[i] \in V
  OBVIOUS
<1>6. Cuenta(s, V) = Cardinality(A) /\ Cuenta(t, V) = Cardinality(B)
  BY DEF Cuenta
<1>. HIDE DEF A, B, C, f
<1>7. CASE i \in A
  <2>1. Cardinality(A) = Cardinality(B) + 1
    BY <1>1, <1>3, <1>4, <1>7
  <2>. QED BY <1>5, <1>6, <1>7, <2>1 DEF UnoSi
<1>8. CASE i \notin A
  <2>1. Cardinality(A) = Cardinality(B) + 0
    BY <1>1, <1>3, <1>4, <1>8
  <2>. QED BY <1>5, <1>6, <1>8, <2>1 DEF UnoSi
<1>. QED BY <1>7, <1>8

LEMMA CuentaCola ==
    ASSUME NEW S, NEW s \in Seq(S), s # <<>>, NEW V
    PROVE Cuenta(s, V) = Cuenta(Tail(s), V) + UnoSi(Head(s) \in V)
<1> DEFINE t == Tail(s)
           f == [k \in DOMAIN t |-> k + 1]
<1>1. /\ t \in Seq(S) /\ 1 \in DOMAIN s /\ s[1] = Head(s)
      /\ \A k \in DOMAIN t : k + 1 \in DOMAIN s /\ t[k] = s[k + 1] /\ k \in Nat
      /\ \A k \in DOMAIN t : k + 1 # 1
      /\ \A k \in DOMAIN s : k = 1 \/ (k - 1 \in DOMAIN t /\ (k - 1) + 1 = k)
  OBVIOUS
<1>. HIDE DEF t
<1>2. Sin(t, s, 1, f)
  <2>1. \A k, l \in DOMAIN t : f[k] = f[l] => k = l
    BY <1>1
  <2>2. ASSUME NEW m \in DOMAIN s, m # 1
        PROVE \E k \in DOMAIN t : f[k] = m
    <3>1. m - 1 \in DOMAIN t /\ f[m - 1] = m
      BY <1>1, <2>2
    <3>. QED BY <3>1
  <2>. QED BY <1>1, <2>1, <2>2 DEF Sin
<1>. HIDE DEF f
<1>3. Cuenta(s, V) = Cuenta(t, V) + UnoSi(s[1] \in V)
  BY <1>1, <1>2, CuentaSin
<1>. QED BY <1>1, <1>3 DEF t

LEMMA CuentaSaca ==
    ASSUME NEW S, NEW s \in Seq(S), NEW i \in DOMAIN s, NEW V
    PROVE Cuenta(s, V) = Cuenta(RemoveAt(s, i), V) + UnoSi(s[i] \in V)
<1> DEFINE t == RemoveAt(s, i)
           f == [k \in DOMAIN t |-> Salta(k, i)]
<1>1. /\ t \in Seq(S) /\ DOMAIN t \subseteq Nat
      /\ \A k \in DOMAIN t : /\ Salta(k, i) \in DOMAIN s
                            /\ Salta(k, i) # i
                            /\ t[k] = s[Salta(k, i)]
      /\ \A m \in DOMAIN s : m # i => \E k \in DOMAIN t : Salta(k, i) = m
  BY Saca
<1>. HIDE DEF t
<1>2. \A k, l \in DOMAIN t : Salta(k, i) = Salta(l, i) => k = l
  <2>1. \A k, l \in Nat : Salta(k, i) = Salta(l, i) => k = l
    BY DEF Salta
  <2>. QED BY <1>1, <2>1
<1>3. Sin(t, s, i, f)
  BY <1>1, <1>2 DEF Sin
<1>. HIDE DEF f
<1>4. Cuenta(s, V) = Cuenta(t, V) + UnoSi(s[i] \in V)
  BY <1>1, <1>3, CuentaSin
<1>. QED BY <1>4 DEF t

-----------------------------------------------------------------------------
LEMMA CuentasNat ==
    TypeOK => /\ \A f : PorVenir(f) \in Nat
              /\ \A c \in Clientes : Del(aPI[c], aPP[c], pi[c]) \in Nat
              /\ \A f \in Fds : EnCamino(f) \in Nat
              /\ \A V : Cuenta(LPS, V) \in Nat
<1>. SUFFICES ASSUME TypeOK
     PROVE /\ \A f : PorVenir(f) \in Nat
           /\ \A c \in Clientes : Del(aPI[c], aPP[c], pi[c]) \in Nat
           /\ \A f \in Fds : EnCamino(f) \in Nat
           /\ \A V : Cuenta(LPS, V) \in Nat
  OBVIOUS
<1>1. \A V : Cuenta(sendingList, V) \in Nat /\ Cuenta(LPS, V) \in Nat
  BY CuentaNat DEF TypeOK, TipoPP
<1>2. \A f : PorVenir(f) \in Nat
  BY <1>1 DEF PorVenir, UnoSi
<1>3. ASSUME NEW c \in Clientes PROVE Del(aPI[c], aPP[c], pi[c]) \in Nat
  <2>1. /\ aPI[c] \in Seq([tipo : {"!", "N", "S", "T"} \cup Respuestas,
                            de : Clientes])
        /\ aPP[c] \in Seq({"#", "N", "R"})
    BY DEF TypeOK, TipoPI
  <2>2. Cuenta(aPI[c], EsS) \in Nat /\ Cuenta(aPP[c], {"R"}) \in Nat
    BY <2>1, CuentaNat
  <2>. QED BY <2>2 DEF Del, UnoSi
<1>4. \A f \in Fds : EnCamino(f) \in Nat
  BY <1>3 DEF EnCamino, TypeOK, TipoPP
<1>. QED BY <1>1, <1>2, <1>3, <1>4

LEMMA CuentasNatDespues ==
    TypeOK' => /\ \A f : PorVenir(f)' \in Nat
               /\ \A c \in Clientes : Del(aPI'[c], aPP'[c], pi'[c]) \in Nat
               /\ \A f \in Fds : EnCamino(f)' \in Nat
               /\ \A V : Cuenta(LPS', V) \in Nat
<1>1. (\A f : PorVenir(f) \in Nat)' <=> \A f : PorVenir(f)' \in Nat
  OBVIOUS
<1>2. (\A c \in Clientes : Del(aPI[c], aPP[c], pi[c]) \in Nat)'
         <=> \A c \in Clientes : Del(aPI'[c], aPP'[c], pi'[c]) \in Nat
  OBVIOUS
<1>3. (\A f \in Fds : EnCamino(f) \in Nat)'
         <=> \A f \in Fds : EnCamino(f)' \in Nat
  OBVIOUS
<1>4. (\A V : Cuenta(LPS, V) \in Nat)' <=> \A V : Cuenta(LPS', V) \in Nat
  OBVIOUS
<1>. QED BY <1>1, <1>2, <1>3, <1>4, CuentasNat, PTL

LEMMA LosFds == 0 \notin Fds /\ serverfd \notin Fds
<1>1. Cardinality(Clientes) \in Nat
  BY ClientesAssumption, FS_CardinalityType
<1>. QED BY <1>1 DEF Fds, serverfd

(***************************************************************************)
(* The PI.  A step of the PI of c that takes messages from its socket, or  *)
(* sends one, and that brings about no more resumptions than it answers.   *)
(***************************************************************************)
PIResta(c) ==
    /\ UNCHANGED <<conex, fd, plan, sendingList, eventos, lts, pp>>
    /\ \A d \in Clientes \ {c} :
          pi'[d] = pi[d] /\ aPI'[d] = aPI[d] /\ aPP'[d] = aPP[d]
    /\ pi[c] \notin Idos
    /\ \A i \in DOMAIN aPI'[c] : \E j \in DOMAIN aPI[c] :
          aPI'[c][i] = aPI[c][j]
    /\ pi'[c] = "fin" => \E j \in DOMAIN aPI[c] : aPI[c][j].tipo = "T"
    /\ \A j \in DOMAIN aPI[c] : aPI[c][j].tipo = "T" =>
          pi'[c] \in Idos \/ \E i \in DOMAIN aPI'[c] : aPI'[c][i] = aPI[c][j]
    /\ Del(aPI'[c], aPP'[c], pi'[c]) <= Del(aPI[c], aPP[c], pi[c])
PIBien(c) ==
    /\ PIResta(c) /\ UNCHANGED backlog
    /\ pi[c] # "afuera" /\ pi'[c] # "afuera"
    /\ aPP[c] # <<>> => aPP'[c] # <<>>

LEMMA PI_Red ==
    ASSUME IInv, NEW c \in Clientes, PIBien(c)
    PROVE RedInv' /\ EventosInv' /\ LtsInv'
<1>1. /\ UNCHANGED <<backlog, conex, eventos, lts, pp>>
      /\ pi[c] \notin Idos \cup {"afuera"} /\ pi'[c] # "afuera"
      /\ aPP[c] # <<>> => aPP'[c] # <<>>
      /\ \A d \in Clientes \ {c} : pi'[d] = pi[d] /\ aPP'[d] = aPP[d]
  BY DEF PIBien, PIResta
<1>2. RedInv'
  BY <1>1 DEF RedInv, Abierta, IInv, ConexInv
<1>3. EventosInv'
  BY <1>1 DEF EventosInv, Ido, IInv, ConexInv
<1>4. LtsInv'
  BY <1>1 DEF LtsInv, IInv, ConexInv
<1>. QED BY <1>2, <1>3, <1>4

LEMMA PI_Resto ==
    ASSUME IInv, TypeOK', NEW c \in Clientes, PIResta(c)
    PROVE /\ ImagenInv' /\ MensajesInv' /\ UltimoInv' /\ LugaresExactos'
          /\ AvisosPropios' /\ ReanudaInv' /\ LimpioInv' /\ AvisadosInv'
<1>1. /\ UNCHANGED <<conex, fd, sendingList, eventos, lts, pp>>
      /\ UNCHANGED <<proc, pasos, LFIFO, LPS, sem, procer, senales>>
      /\ \A d \in Clientes \ {c} :
            pi'[d] = pi[d] /\ aPI'[d] = aPI[d] /\ aPP'[d] = aPP[d]
      /\ pi[c] \notin Idos
  BY DEF PIResta, plan
<1>2. \A i \in DOMAIN aPI'[c] : \E j \in DOMAIN aPI[c] :
         aPI'[c][i] = aPI[c][j]
  BY DEF PIResta
<1>3. ImagenInv' /\ MensajesInv' /\ UltimoInv'
  BY <1>1 DEF ImagenInv, ImagenFd, ColasInv, ProcerInv, MensajesInv,
              UltimoInv, Entra, IInv, ConexInv
<1>4. LugaresExactos'
  BY <1>1 DEF LugaresExactos, Cuantos, IInv
<1>5. \A f : Sucio(f) => Sucio(f)'
  BY <1>1 DEF Sucio, Idos
<1>6. AvisosPropios'
  <2>1. ASSUME NEW d \in Clientes, NEW i \in DOMAIN aPI'[d], aPI'[d][i].de # d
        PROVE Sucio(fd[d])'
    <3>1. \E j \in DOMAIN aPI[d] : aPI'[d][i] = aPI[d][j]
      BY <1>1, <1>2
    <3>2. Sucio(fd[d])
      BY <2>1, <3>1 DEF IInv, AvisosPropios
    <3>. QED BY <1>1, <1>5, <3>2 DEF Sucio
  <2>. QED BY <2>1 DEF AvisosPropios
<1>7. ReanudaInv'
  <2>1. \A f : PorVenir(f)' = PorVenir(f)
    BY <1>1 DEF PorVenir, Cuenta, EsSDe
  <2>2. \A d \in Clientes :
           Del(aPI'[d], aPP'[d], pi'[d]) <= Del(aPI[d], aPP[d], pi[d])
    <3>1. Del(aPI'[c], aPP'[c], pi'[c]) <= Del(aPI[c], aPP[c], pi[c])
      BY DEF PIResta
    <3>2. \A d \in Clientes : Del(aPI[d], aPP[d], pi[d]) \in Nat
      BY CuentasNat DEF IInv
    <3>. QED BY <1>1, <3>1, <3>2
  <2>3. ASSUME NEW f \in Fds
        PROVE /\ EnCamino(f)' <= EnCamino(f)
              /\ EnCamino(f)' \in Nat /\ EnCamino(f) \in Nat
    <3>1. /\ conex' = conex /\ conex[f] \in Clientes \cup {Nadie}
          /\ EnCamino(f)' \in Nat /\ EnCamino(f) \in Nat
      BY <1>1, CuentasNat, CuentasNatDespues DEF IInv, TypeOK, TipoPP
    <3>. QED BY <2>2, <3>1 DEF EnCamino
  <2>4. ASSUME NEW f \in Fds
        PROVE PorVenir(f)' + EnCamino(f)' <= Cuenta(LPS', DeFd(f)')
    <3>1. PorVenir(f) + EnCamino(f) <= Cuenta(LPS, DeFd(f))
      BY DEF IInv, ConexInv, ReanudaInv
    <3>2. PorVenir(f) \in Nat /\ Cuenta(LPS, DeFd(f)) \in Nat
      BY CuentasNat DEF IInv
    <3>3. LPS' = LPS /\ DeFd(f)' = DeFd(f) /\ PorVenir(f)' = PorVenir(f)
      BY <1>1, <2>1 DEF DeFd
    <3>. QED BY <2>3, <3>1, <3>2, <3>3
  <2>. QED BY <1>1, <2>4 DEF ReanudaInv, IInv, ConexInv
<1>8. LimpioInv'
  <2>1. ASSUME pp # "fin", NEW p \in Clientes, ~ Sucio(fd[p])', Pendiente(p)'
        PROVE /\ conex[fd[p]] = p /\ pi'[p] # "fin"
              /\ \A j \in DOMAIN aPI'[p] : aPI'[p][j].tipo # "T"
    <3>1. Pendiente(p)
      BY <1>1, <2>1 DEF Pendiente
    <3>2. ~ Sucio(fd[p])
      BY <1>1, <2>1 DEF Sucio, Idos
    <3>3. /\ conex[fd[p]] = p /\ pi[p] # "fin"
          /\ \A j \in DOMAIN aPI[p] : aPI[p][j].tipo # "T"
      BY <2>1, <3>1, <3>2 DEF LimpioInv, IInv, ConexInv
    <3>4. CASE p = c
      <4>1. pi'[p] # "fin"
        BY <3>3, <3>4 DEF PIResta
      <4>2. \A j \in DOMAIN aPI'[p] : aPI'[p][j].tipo # "T"
        BY <1>2, <3>3, <3>4
      <4>. QED BY <3>3, <4>1, <4>2
    <3>5. CASE p # c
      BY <1>1, <3>3, <3>5
    <3>. QED BY <3>4, <3>5
  <2>. QED BY <1>1, <2>1 DEF LimpioInv
<1>9. AvisadosInv'
  <2>1. ASSUME pp # "fin", NEW d \in Clientes, proc[d] = "finalizado"
        PROVE Avisado(d)'
    <3>1. Avisado(d)
      BY <2>1 DEF AvisadosInv, IInv, ConexInv
    <3>2. CASE \E i \in DOMAIN sendingList :
                  sendingList[i] = [fd |-> fd[d], tipo |-> "T", de |-> d]
      BY <1>1, <3>2 DEF Avisado
    <3>3. CASE \E i \in DOMAIN aPI[d] : aPI[d][i] = Msg("T", d)
      <4>1. PICK j \in DOMAIN aPI[d] : aPI[d][j] = Msg("T", d)
        BY <3>3
      <4>2. CASE d = c
        <5>1. aPI[c][j].tipo = "T"
          BY <4>1, <4>2 DEF Msg
        <5>2. \/ pi'[c] \in Idos
              \/ \E i \in DOMAIN aPI'[c] : aPI'[c][i] = aPI[c][j]
          BY <4>1, <4>2, <5>1 DEF PIResta
        <5>. QED BY <4>1, <4>2, <5>2 DEF Avisado, Ido, Msg
      <4>3. CASE d # c
        BY <1>1, <4>1, <4>3 DEF Avisado, Msg
      <4>. QED BY <4>2, <4>3
    <3>4. CASE Ido(d)
      BY <1>1, <3>4 DEF Avisado, Ido
    <3>. QED BY <3>1, <3>2, <3>3, <3>4 DEF Avisado
  <2>. QED BY <1>1, <2>1 DEF AvisadosInv
<1>. QED BY <1>3, <1>4, <1>6, <1>7, <1>8, <1>9

(* What the invariant says of one client.                                  *)
RespuestaDe(c) == \A i \in DOMAIN aPI[c] :
    /\ (aPI[c][i].tipo \in Respuestas) <=> (pi[c] = "resp" /\ i = 1)
    /\ (aPI[c][i].tipo \in Respuestas) => aPI[c][i].de = c
AbiertaDe(c) ==
    pi[c] \in {"conecta", "hand", "resp", "lee", "enter"} =>
        Abierta(c) \/ \E i \in DOMAIN aPI[c] : aPI[c][i].tipo = "F"
DelC(c) ==
    /\ Fase(c) /\ RespuestaDe(c)
    /\ pp # "fin" => /\ FaseNuevo(c) /\ FaseDentro(c) /\ AbiertaDe(c)
                     /\ pi[c] # "error"

LEMMA LosDelC ==
    FasesInv /\ RespuestaPrimero /\ AbiertasInv /\ NadieDesconectado
        <=> \A c \in Clientes : DelC(c)
  BY DEF FasesInv, RespuestaPrimero, AbiertasInv, NadieDesconectado,
         DelC, RespuestaDe, AbiertaDe

LEMMA LosDelCDespues ==
    (\A c \in Clientes : DelC(c)')
        => FasesInv' /\ RespuestaPrimero' /\ AbiertasInv' /\ NadieDesconectado'
<1>1. (\A c \in Clientes : DelC(c))' <=> \A c \in Clientes : DelC(c)'
  OBVIOUS
<1>. QED BY <1>1, LosDelC, PTL

(* What the invariant says of a client is so while nothing of it changes.  *)
LEMMA OtroIgual ==
    ASSUME UNCHANGED <<backlog, conex, fd, lts, pp>>, NEW d, DelC(d),
           pi'[d] = pi[d], aPI'[d] = aPI[d], aPP'[d] = aPP[d]
    PROVE DelC(d)'
<1>1. Fase(d) => Fase(d)'
  BY DEF Fase
<1>2. FaseNuevo(d) => FaseNuevo(d)'
  BY DEF FaseNuevo, EnCola, EnMano, EnScript
<1>3. FaseDentro(d) => FaseDentro(d)'
  BY DEF FaseDentro, EnMano, EnScript
<1>4. RespuestaDe(d) => RespuestaDe(d)'
  BY DEF RespuestaDe
<1>5. AbiertaDe(d) => AbiertaDe(d)'
  BY DEF AbiertaDe, Abierta
<1>. QED BY <1>1, <1>2, <1>3, <1>4, <1>5 DEF DelC

LEMMA PI_Paso ==
    ASSUME IInv, TypeOK', NEW c \in Clientes, PIBien(c), DelC(c)'
    PROVE IInv'
<1>1. \A d \in Clientes : DelC(d)'
  <2>1. /\ UNCHANGED <<backlog, conex, fd, lts, pp>>
        /\ \A d \in Clientes \ {c} :
              pi'[d] = pi[d] /\ aPI'[d] = aPI[d] /\ aPP'[d] = aPP[d]
    BY DEF PIBien, PIResta
  <2>2. \A d \in Clientes : DelC(d)
    BY LosDelC DEF IInv, ConexInv
  <2>3. ASSUME NEW d \in Clientes, d # c PROVE DelC(d)'
    BY <2>1, <2>2, <2>3, OtroIgual
  <2>. QED BY <2>3
<1>2. FasesInv' /\ RespuestaPrimero' /\ AbiertasInv' /\ NadieDesconectado'
  BY <1>1, LosDelCDespues
<1>3. PIResta(c)
  BY DEF PIBien
<1>. QED BY <1>2, <1>3, PI_Red, PI_Resto DEF IInv, ConexInv

(* The messages to a PI and to the PP.                                     *)
AvisoPI  == [tipo : {"!", "N", "S", "T"} \cup Respuestas, de : Clientes]
EnvioPI  == {"#", "N", "R"}
EstadoPI == {"afuera", "conecta", "hand", "resp", "lee", "enter"} \cup Idos

LEMMA TiposPI ==
    TypeOK => /\ pi \in [Clientes -> EstadoPI]
              /\ aPI \in [Clientes -> Seq(AvisoPI)]
              /\ aPP \in [Clientes -> Seq(EnvioPI)]
              /\ backlog \in Seq(Clientes)
  BY DEF TypeOK, TipoPI, AvisoPI, EnvioPI, EstadoPI

LEMMA TiposPIDespues ==
    ASSUME TypeOK, UNCHANGED <<conex, fd, plan, sendingList, eventos, lts, pp>>,
           pi' \in [Clientes -> EstadoPI], aPI' \in [Clientes -> Seq(AvisoPI)],
           aPP' \in [Clientes -> Seq(EnvioPI)], backlog' \in Seq(Clientes),
           caidas' \in Nat
    PROVE TypeOK'
<1>1. TipoPI'
  BY DEF TipoPI, AvisoPI, EnvioPI, EstadoPI
<1>2. TipoPP'
  BY DEF TypeOK, TipoPP, plan
<1>3. TipoHilos'
  BY DEF TypeOK, TipoHilos, plan
<1>. QED BY <1>1, <1>2, <1>3 DEF TypeOK

LEMMA MandaHace ==
    ASSUME TypeOK, NEW c \in Clientes, NEW m \in EnvioPI, Manda(c, m)
    PROVE /\ aPP' \in [Clientes -> Seq(EnvioPI)]
          /\ \A d \in Clientes \ {c} : aPP'[d] = aPP[d]
          /\ aPP'[c] = (IF Abierta(c) THEN Append(aPP[c], m) ELSE aPP[c])
          /\ aPP[c] # <<>> => aPP'[c] # <<>>
          /\ Cuenta(aPP'[c], {"R"}) <= Cuenta(aPP[c], {"R"}) + UnoSi(m = "R")
          /\ Cuenta(aPP'[c], {"R"}) \in Nat /\ Cuenta(aPP[c], {"R"}) \in Nat
<1>1. /\ aPP \in [Clientes -> Seq(EnvioPI)] /\ aPP[c] \in Seq(EnvioPI)
  BY TiposPI
<1>2. /\ Append(aPP[c], m) \in Seq(EnvioPI) /\ Append(aPP[c], m) # <<>>
  BY <1>1, Agrega
<1>3. aPP' = [aPP EXCEPT ![c] = IF Abierta(c) THEN Append(@, m) ELSE @]
  BY DEF Manda
<1>4. /\ aPP' \in [Clientes -> Seq(EnvioPI)]
      /\ \A d \in Clientes \ {c} : aPP'[d] = aPP[d]
      /\ aPP'[c] = (IF Abierta(c) THEN Append(aPP[c], m) ELSE aPP[c])
  BY <1>1, <1>2, <1>3
<1>5. Cuenta(aPP[c], {"R"}) \in Nat
  BY <1>1, CuentaNat
<1>6. Cuenta(Append(aPP[c], m), {"R"})
         = Cuenta(aPP[c], {"R"}) + UnoSi(m \in {"R"})
  BY <1>1, CuentaAgrega
<1>7. UnoSi(m \in {"R"}) = UnoSi(m = "R") /\ UnoSi(m = "R") \in Nat
  BY DEF UnoSi
<1>8. /\ Cuenta(aPP'[c], {"R"}) <= Cuenta(aPP[c], {"R"}) + UnoSi(m = "R")
      /\ Cuenta(aPP'[c], {"R"}) \in Nat
  BY <1>4, <1>5, <1>6, <1>7
<1>. QED BY <1>2, <1>4, <1>5, <1>8

LEMMA Paso_PISaluda ==
    ASSUME IInv, NEW c \in Clientes, PISaluda(c) PROVE IInv'
<1>1. /\ pi[c] = "conecta" /\ pi' = [pi EXCEPT ![c] = "hand"]
      /\ Manda(c, "#")
      /\ UNCHANGED <<aPI, backlog, conex, fd, plan, sendingList, eventos, lts,
                     pp, caidas>>
  BY DEF PISaluda
<1>2. /\ pi \in [Clientes -> EstadoPI] /\ aPI \in [Clientes -> Seq(AvisoPI)]
      /\ backlog \in Seq(Clientes) /\ caidas \in Nat
  BY TiposPI DEF IInv, TypeOK, TipoHilos
<1>3. /\ aPP' \in [Clientes -> Seq(EnvioPI)]
      /\ \A d \in Clientes \ {c} : aPP'[d] = aPP[d]
      /\ aPP'[c] = (IF Abierta(c) THEN Append(aPP[c], "#") ELSE aPP[c])
      /\ aPP[c] # <<>> => aPP'[c] # <<>>
      /\ Cuenta(aPP'[c], {"R"}) <= Cuenta(aPP[c], {"R"}) + UnoSi("#" = "R")
      /\ Cuenta(aPP'[c], {"R"}) \in Nat /\ Cuenta(aPP[c], {"R"}) \in Nat
  BY <1>1, MandaHace DEF IInv, EnvioPI
<1>4. /\ pi' \in [Clientes -> EstadoPI] /\ pi'[c] = "hand"
      /\ \A d \in Clientes \ {c} : pi'[d] = pi[d]
  BY <1>1, <1>2 DEF EstadoPI
<1>5. TypeOK'
  BY <1>1, <1>2, <1>3, <1>4, TiposPIDespues DEF IInv
<1>6. DelC(c)
  BY LosDelC DEF IInv, ConexInv
<1>7. /\ aPI[c] = <<>> /\ aPP[c] = <<>> /\ fd[c] = 0
  BY <1>1, <1>6 DEF DelC, Fase
<1>8. PIBien(c)
  <2>1. Cuenta(aPI[c], EsS) \in Nat
    BY <1>2, CuentaNat
  <2>2. Del(aPI'[c], aPP'[c], pi'[c]) <= Del(aPI[c], aPP[c], pi[c])
    BY <1>1, <1>3, <1>4, <2>1 DEF Del, UnoSi
  <2>3. DOMAIN aPI[c] = {}
    BY <1>7
  <2>. QED BY <1>1, <1>3, <1>4, <2>2, <2>3 DEF PIBien, PIResta, Idos
<1>9. DelC(c)'
  <2>1. Fase(c)'
    BY <1>1, <1>4, <1>7 DEF Fase, Idos
  <2>2. RespuestaDe(c)'
    BY <1>1, <1>7 DEF RespuestaDe
  <2>3. ASSUME pp # "fin" PROVE FaseNuevo(c)'
    <3>1. aPP'[c] \in {<<>>, <<"#">>}
      BY <1>3, <1>7
    <3>2. ~ EnScript(c)
      BY <1>1, <1>6, <2>3 DEF DelC, FaseNuevo
    <3>. QED BY <1>1, <1>4, <1>7, <3>1, <3>2 DEF FaseNuevo, EnScript
  <2>4. ASSUME pp # "fin" PROVE FaseDentro(c)'
    <3>1. \A f \in Fds : conex[f] = c => EnMano(c) \/ EnScript(c)
      BY <1>6, <1>7, <2>4, LosFds DEF DelC, FaseDentro
    <3>. QED BY <1>1, <3>1 DEF FaseDentro, EnMano, EnScript
  <2>5. ASSUME pp # "fin" PROVE AbiertaDe(c)'
    <3>1. Abierta(c)
      BY <1>1, <1>6, <1>7, <2>5 DEF DelC, AbiertaDe
    <3>. QED BY <1>1, <3>1 DEF AbiertaDe, Abierta
  <2>. QED BY <1>1, <1>4, <2>1, <2>2, <2>3, <2>4, <2>5 DEF DelC
<1>. QED BY <1>5, <1>8, <1>9, PI_Paso

LEMMA RecibeHace ==
    ASSUME TypeOK, NEW c \in Clientes, aPI[c] # <<>>,
           aPI' = [aPI EXCEPT ![c] = Tail(@)]
    PROVE /\ aPI' \in [Clientes -> Seq(AvisoPI)]
          /\ \A d \in Clientes \ {c} : aPI'[d] = aPI[d]
          /\ 1 \in DOMAIN aPI[c] /\ aPI[c][1] = Head(aPI[c])
          /\ \A i \in DOMAIN aPI'[c] : /\ i + 1 \in DOMAIN aPI[c] /\ i + 1 # 1
                                      /\ aPI'[c][i] = aPI[c][i + 1]
          /\ \A i \in DOMAIN aPI[c] :
                i = 1 \/ \E j \in DOMAIN aPI'[c] : aPI'[c][j] = aPI[c][i]
          /\ Cuenta(aPI[c], EsS)
                = Cuenta(aPI'[c], EsS) + UnoSi(Head(aPI[c]).tipo = "S")
          /\ Cuenta(aPI'[c], EsS) \in Nat /\ Cuenta(aPI[c], EsS) \in Nat
<1>1. aPI \in [Clientes -> Seq(AvisoPI)] /\ aPI[c] \in Seq(AvisoPI)
  BY TiposPI
<1> DEFINE s == aPI[c]
           t == Tail(aPI[c])
<1>2. /\ t \in Seq(AvisoPI) /\ 1 \in DOMAIN s /\ s[1] = Head(s)
      /\ Head(s) \in AvisoPI
      /\ \A i \in DOMAIN t : i + 1 \in DOMAIN s /\ t[i] = s[i + 1]
      /\ \A i \in DOMAIN s :
            i = 1 \/ (i - 1 \in DOMAIN t /\ t[i - 1] = s[i])
  BY <1>1, Cola
<1>3. /\ aPI' \in [Clientes -> Seq(AvisoPI)] /\ aPI'[c] = t
      /\ \A d \in Clientes \ {c} : aPI'[d] = aPI[d]
  BY <1>1, <1>2
<1>4. Cuenta(s, EsS) = Cuenta(t, EsS) + UnoSi(Head(s) \in EsS)
  BY <1>1, CuentaCola
<1>5. Head(s) \in EsS <=> Head(s).tipo = "S"
  BY <1>2 DEF EsS, AvisoPI
<1>6. Cuenta(t, EsS) \in Nat /\ Cuenta(s, EsS) \in Nat
  BY <1>1, <1>2, CuentaNat
<1>7. \A i \in DOMAIN t : i \in Nat /\ i >= 1
  BY <1>2
<1>8. \A i \in DOMAIN t : i + 1 # 1
  BY <1>7
<1>9. UnoSi(Head(s) \in EsS) = UnoSi(Head(s).tipo = "S")
  BY <1>5 DEF UnoSi
<1>. QED BY <1>2, <1>3, <1>4, <1>6, <1>8, <1>9

(* The PI ends: nothing that it had to read is left to it.                 *)
LEMMA PI_Termina ==
    ASSUME IInv, NEW c \in Clientes, NEW e \in Idos,
           pi[c] \notin Idos \cup {"afuera"}, pi' = [pi EXCEPT ![c] = e],
           aPI' = [aPI EXCEPT ![c] = <<>>],
           UNCHANGED <<aPP, backlog, conex, fd, plan, sendingList, eventos,
                       lts, pp>>, caidas' \in Nat,
           e = "fin" => pi[c] = "lee"
                        /\ \E j \in DOMAIN aPI[c] : aPI[c][j].tipo = "T",
           e = "error" => pp = "fin",
           e = "rechazado" => pi[c] = "resp" /\ fd[c] = 0 /\ aPI[c] # <<>>
    PROVE IInv'
<1>1. /\ pi \in [Clientes -> EstadoPI] /\ aPI \in [Clientes -> Seq(AvisoPI)]
      /\ aPP \in [Clientes -> Seq(EnvioPI)] /\ backlog \in Seq(Clientes)
      /\ aPI[c] \in Seq(AvisoPI) /\ aPP[c] \in Seq(EnvioPI)
  BY TiposPI DEF IInv
<1>2. /\ pi' \in [Clientes -> EstadoPI] /\ pi'[c] = e
      /\ \A d \in Clientes \ {c} : pi'[d] = pi[d]
  BY <1>1 DEF EstadoPI
<1>3. /\ aPI' \in [Clientes -> Seq(AvisoPI)] /\ aPI'[c] = <<>>
      /\ \A d \in Clientes \ {c} : aPI'[d] = aPI[d]
  <2>1. <<>> \in Seq(AvisoPI)
    OBVIOUS
  <2>. QED BY <1>1, <2>1
<1>4. TypeOK'
  BY <1>1, <1>2, <1>3, TiposPIDespues DEF IInv
<1>5. DelC(c)
  BY LosDelC DEF IInv, ConexInv
<1>6. DOMAIN aPI'[c] = {}
  BY <1>3
<1>7. PIBien(c)
  <2>1. Cuenta(aPI[c], EsS) \in Nat /\ Cuenta(aPP[c], {"R"}) \in Nat
    BY <1>1, CuentaNat
  <2>2. Cuenta(aPI'[c], EsS) = 0
    <3>1. aPI'[c] \in Seq(AvisoPI)
      BY <1>3
    <3>. QED BY <1>6, <3>1, CuentaNat
  <2>3. Del(aPI'[c], aPP'[c], pi'[c]) <= Del(aPI[c], aPP[c], pi[c])
    BY <1>2, <2>1, <2>2 DEF Del, UnoSi, Idos
  <2>. QED BY <1>2, <1>3, <1>6, <2>3 DEF PIBien, PIResta, Idos
<1>8. DelC(c)'
  <2>1. Fase(c)'
    BY <1>2, <1>3, <1>5, <1>6 DEF Fase, Idos, DelC
  <2>2. RespuestaDe(c)'
    BY <1>6 DEF RespuestaDe
  <2>3. ASSUME pp # "fin" PROVE FaseNuevo(c)'
    <3>1. EnCola(c) \/ EnMano(c) \/ EnScript(c) => e = "caido"
      BY <1>5, <2>3 DEF DelC, FaseNuevo, Idos
    <3>2. FaseNuevo(c)
      BY <1>5, <2>3 DEF DelC
    <3>3. /\ EnCola(c)' <=> EnCola(c)
          /\ EnMano(c)' <=> EnMano(c)
          /\ EnScript(c)' <=> EnScript(c)
      BY DEF EnCola, EnMano, EnScript
    <3>. QED BY <1>2, <1>3, <3>1, <3>2, <3>3 DEF FaseNuevo
  <2>4. ASSUME pp # "fin" PROVE FaseDentro(c)'
    BY <1>2, <1>5, <2>4 DEF DelC, FaseDentro, EnMano, EnScript, Idos
  <2>5. AbiertaDe(c)'
    BY <1>2 DEF AbiertaDe, Idos
  <2>. QED BY <1>2, <2>1, <2>2, <2>3, <2>4, <2>5 DEF DelC
<1>. QED BY <1>4, <1>7, <1>8, PI_Paso

(* The PI reads a message that is neither a refusal nor its end.           *)
LEMMA PI_Sigue ==
    ASSUME IInv, NEW c \in Clientes, NEW e \in {"lee", "enter"},
           pi[c] \in {"resp", "lee"}, pi' = [pi EXCEPT ![c] = e],
           aPI[c] # <<>>, aPI' = [aPI EXCEPT ![c] = Tail(@)],
           UNCHANGED <<aPP, backlog, conex, fd, plan, sendingList, eventos,
                       lts, pp, caidas>>,
           Head(aPI[c]).tipo \notin {"F", "T"},
           e = "enter" => Head(aPI[c]).tipo = "S"
    PROVE IInv'
<1>1. /\ pi \in [Clientes -> EstadoPI] /\ aPI \in [Clientes -> Seq(AvisoPI)]
      /\ aPP \in [Clientes -> Seq(EnvioPI)] /\ backlog \in Seq(Clientes)
      /\ aPP[c] \in Seq(EnvioPI) /\ caidas \in Nat
  BY TiposPI DEF IInv, TypeOK, TipoHilos
<1>2. /\ pi' \in [Clientes -> EstadoPI] /\ pi'[c] = e
      /\ \A d \in Clientes \ {c} : pi'[d] = pi[d]
  BY <1>1 DEF EstadoPI
<1>3. /\ aPI' \in [Clientes -> Seq(AvisoPI)]
      /\ \A d \in Clientes \ {c} : aPI'[d] = aPI[d]
      /\ 1 \in DOMAIN aPI[c] /\ aPI[c][1] = Head(aPI[c])
      /\ \A i \in DOMAIN aPI'[c] : /\ i + 1 \in DOMAIN aPI[c] /\ i + 1 # 1
                                  /\ aPI'[c][i] = aPI[c][i + 1]
      /\ \A i \in DOMAIN aPI[c] :
            i = 1 \/ \E j \in DOMAIN aPI'[c] : aPI'[c][j] = aPI[c][i]
      /\ Cuenta(aPI[c], EsS)
            = Cuenta(aPI'[c], EsS) + UnoSi(Head(aPI[c]).tipo = "S")
      /\ Cuenta(aPI'[c], EsS) \in Nat /\ Cuenta(aPI[c], EsS) \in Nat
  BY RecibeHace DEF IInv
<1>4. TypeOK'
  BY <1>1, <1>2, <1>3, TiposPIDespues DEF IInv
<1>5. DelC(c)
  BY LosDelC DEF IInv, ConexInv
<1>6. \A i \in DOMAIN aPI'[c] : \E j \in DOMAIN aPI[c] :
         j # 1 /\ aPI'[c][i] = aPI[c][j]
  BY <1>3
<1>7. PIBien(c)
  <2>1. Cuenta(aPP[c], {"R"}) \in Nat
    BY <1>1, CuentaNat
  <2>2. Del(aPI'[c], aPP'[c], pi'[c]) <= Del(aPI[c], aPP[c], pi[c])
    BY <1>2, <1>3, <2>1 DEF Del, UnoSi
  <2>3. \A j \in DOMAIN aPI[c] : aPI[c][j].tipo = "T" =>
           \E i \in DOMAIN aPI'[c] : aPI'[c][i] = aPI[c][j]
    BY <1>3
  <2>. QED BY <1>2, <1>3, <1>6, <2>2, <2>3 DEF PIBien, PIResta, Idos
<1>8. DelC(c)'
  <2>1. Fase(c)'
    BY <1>2, <1>5, <1>6 DEF Fase, Idos, DelC
  <2>2. RespuestaDe(c)'
    BY <1>2, <1>5, <1>6 DEF RespuestaDe, DelC
  <2>3. ASSUME pp # "fin" PROVE ~ (EnCola(c) \/ EnMano(c) \/ EnScript(c))
    BY <1>5, <2>3 DEF DelC, FaseNuevo
  <2>4. ASSUME pp # "fin" PROVE FaseNuevo(c)'
    BY <2>3, <2>4 DEF FaseNuevo, EnCola, EnMano, EnScript
  <2>5. ASSUME pp # "fin" PROVE FaseDentro(c)'
    BY <1>2, <1>5, <2>3, <2>5 DEF DelC, FaseDentro, EnMano, EnScript
  <2>6. ASSUME pp # "fin" PROVE AbiertaDe(c)'
    <3>1. \A i \in DOMAIN aPI[c] : aPI[c][i].tipo # "F"
      BY <1>3, <1>5 DEF DelC, RespuestaDe, Respuestas
    <3>2. Abierta(c)
      BY <1>5, <2>6, <3>1 DEF DelC, AbiertaDe
    <3>. QED BY <3>2 DEF AbiertaDe, Abierta
  <2>. QED BY <1>2, <2>1, <2>2, <2>4, <2>5, <2>6 DEF DelC
<1>. QED BY <1>4, <1>7, <1>8, PI_Paso

LEMMA Paso_PIRespuesta ==
    ASSUME IInv, NEW c \in Clientes, PIRespuesta(c) PROVE IInv'
<1>1. /\ pi[c] = "resp" /\ aPI[c] # <<>>
      /\ UNCHANGED <<aPP, backlog, conex, fd, plan, sendingList, eventos, lts,
                     pp, caidas>>
  BY DEF PIRespuesta
<1>2. DelC(c) /\ aPI[c] \in Seq(AvisoPI) /\ caidas' \in Nat
  BY <1>1, LosDelC, TiposPI DEF IInv, ConexInv, TypeOK, TipoHilos
<1>3. 1 \in DOMAIN aPI[c] /\ aPI[c][1] = Head(aPI[c])
  BY <1>1, <1>2, Cola
<1>4. Head(aPI[c]).tipo \in Respuestas
  BY <1>1, <1>2, <1>3 DEF DelC, RespuestaDe
<1>5. CASE Head(aPI[c]).tipo = "F"
  <2>1. /\ pi' = [pi EXCEPT ![c] = "rechazado"]
        /\ aPI' = [aPI EXCEPT ![c] = <<>>]
    BY <1>5 DEF PIRespuesta
  <2>2. fd[c] = 0
    <3>1. Fase(c)
      BY <1>2 DEF DelC
    <3>2. \A i \in DOMAIN aPI[c] : aPI[c][i].tipo = "F" => fd[c] = 0
      BY <3>1, Zenon DEF Fase
    <3>. QED BY <1>3, <1>5, <3>2
  <2>. QED BY <1>1, <1>2, <2>1, <2>2, PI_Termina DEF Idos
<1>6. CASE Head(aPI[c]).tipo # "F"
  <2>1. /\ pi' = [pi EXCEPT ![c] = "lee"]
        /\ aPI' = [aPI EXCEPT ![c] = Tail(@)]
    BY <1>6 DEF PIRespuesta
  <2>2. Head(aPI[c]).tipo \notin {"F", "T"}
    BY <1>4, <1>6 DEF Respuestas
  <2>. QED BY <1>1, <2>1, <2>2, PI_Sigue
<1>. QED BY <1>5, <1>6

LEMMA Paso_PILee ==
    ASSUME IInv, NEW c \in Clientes, PILee(c) PROVE IInv'
<1>1. /\ pi[c] = "lee" /\ aPI[c] # <<>>
      /\ UNCHANGED <<aPP, backlog, conex, fd, plan, sendingList, eventos, lts,
                     pp, caidas>>
  BY DEF PILee
<1>2. /\ DelC(c) /\ aPI[c] \in Seq(AvisoPI) /\ caidas' \in Nat
      /\ pi \in [Clientes -> EstadoPI]
  BY <1>1, LosDelC, TiposPI DEF IInv, ConexInv, TypeOK, TipoHilos
<1>3. 1 \in DOMAIN aPI[c] /\ aPI[c][1] = Head(aPI[c])
  BY <1>1, <1>2, Cola
<1>4. Head(aPI[c]).tipo # "F"
  BY <1>1, <1>2, <1>3 DEF DelC, RespuestaDe, Respuestas
<1>5. CASE Head(aPI[c]).tipo = "T"
  <2>1. /\ pi' = [pi EXCEPT ![c] = "fin"]
        /\ aPI' = [aPI EXCEPT ![c] = <<>>]
    BY <1>5 DEF PILee
  <2>2. \E j \in DOMAIN aPI[c] : aPI[c][j].tipo = "T"
    BY <1>3, <1>5
  <2>. QED BY <1>1, <1>2, <2>1, <2>2, PI_Termina DEF Idos
<1>6. CASE Head(aPI[c]).tipo = "S"
  <2>1. /\ pi' = [pi EXCEPT ![c] = "enter"]
        /\ aPI' = [aPI EXCEPT ![c] = Tail(@)]
    BY <1>6 DEF PILee
  <2>. QED BY <1>1, <1>6, <2>1, PI_Sigue
<1>7. CASE Head(aPI[c]).tipo \notin {"S", "T"}
  <2>1. /\ pi' = [pi EXCEPT ![c] = "lee"]
        /\ aPI' = [aPI EXCEPT ![c] = Tail(@)]
    BY <1>1, <1>2, <1>7 DEF PILee
  <2>. QED BY <1>1, <1>4, <1>7, <2>1, PI_Sigue
<1>. QED BY <1>5, <1>6, <1>7

LEMMA Paso_PICae ==
    ASSUME IInv, NEW c \in Clientes, PICae(c) PROVE IInv'
<1>1. /\ pi[c] \in {"conecta", "hand", "resp", "lee", "enter"}
      /\ pi' = [pi EXCEPT ![c] = "caido"] /\ aPI' = [aPI EXCEPT ![c] = <<>>]
      /\ UNCHANGED <<aPP, backlog, conex, fd, plan, sendingList, eventos, lts,
                     pp>>
      /\ caidas' = caidas + 1
  BY DEF PICae
<1>2. caidas' \in Nat
  BY <1>1 DEF IInv, TypeOK, TipoHilos
<1>. QED BY <1>1, <1>2, PI_Termina DEF Idos

LEMMA Paso_PIDesconectado ==
    ASSUME IInv, NEW c \in Clientes, PIDesconectado(c) PROVE IInv'
<1>1. /\ pi[c] \in {"hand", "resp", "lee"}
      /\ aPI[c] = <<>> /\ ~ Abierta(c)
      /\ pi' = [pi EXCEPT ![c] = "error"]
      /\ UNCHANGED <<aPI, aPP, backlog, conex, fd, plan, sendingList, eventos,
                     lts, pp, caidas>>
  BY DEF PIDesconectado, red
<1>2. /\ DelC(c) /\ caidas' \in Nat /\ aPI \in [Clientes -> Seq(AvisoPI)]
  BY <1>1, LosDelC, TiposPI DEF IInv, ConexInv, TypeOK, TipoHilos
<1>3. pp = "fin"
  BY <1>1, <1>2 DEF DelC, AbiertaDe
<1>4. aPI' = [aPI EXCEPT ![c] = <<>>]
  BY <1>1, <1>2
<1>. QED BY <1>1, <1>2, <1>3, <1>4, PI_Termina DEF Idos

LEMMA Paso_PIReanuda ==
    ASSUME IInv, NEW c \in Clientes, PIReanuda(c) PROVE IInv'
<1>1. /\ pi[c] = "enter"
      /\ UNCHANGED <<backlog, conex, fd, plan, sendingList, eventos, lts, pp,
                     caidas>>
  BY DEF PIReanuda
<1>2. /\ DelC(c) /\ caidas' \in Nat /\ caidas \in Nat
      /\ pi \in [Clientes -> EstadoPI] /\ aPI \in [Clientes -> Seq(AvisoPI)]
      /\ backlog \in Seq(Clientes) /\ aPP[c] \in Seq(EnvioPI)
  BY <1>1, LosDelC, TiposPI DEF IInv, ConexInv, TypeOK, TipoHilos
<1>3. \A i \in DOMAIN aPI[c] : aPI[c][i].tipo # "F"
  BY <1>1, <1>2 DEF DelC, RespuestaDe, Respuestas
<1>4. CASE /\ ~ Abierta(c) /\ pi' = [pi EXCEPT ![c] = "error"]
           /\ aPI' = [aPI EXCEPT ![c] = <<>>] /\ UNCHANGED aPP
  <2>1. pp = "fin"
    BY <1>1, <1>2, <1>3, <1>4 DEF DelC, AbiertaDe
  <2>. QED BY <1>1, <1>2, <1>4, <2>1, PI_Termina DEF Idos
<1>5. CASE pi' = [pi EXCEPT ![c] = "lee"] /\ Manda(c, "R") /\ UNCHANGED aPI
  <2>1. /\ aPP' \in [Clientes -> Seq(EnvioPI)]
        /\ \A d \in Clientes \ {c} : aPP'[d] = aPP[d]
        /\ aPP'[c] = (IF Abierta(c) THEN Append(aPP[c], "R") ELSE aPP[c])
        /\ aPP[c] # <<>> => aPP'[c] # <<>>
        /\ Cuenta(aPP'[c], {"R"}) <= Cuenta(aPP[c], {"R"}) + UnoSi("R" = "R")
        /\ Cuenta(aPP'[c], {"R"}) \in Nat /\ Cuenta(aPP[c], {"R"}) \in Nat
    BY <1>5, MandaHace DEF IInv, EnvioPI
  <2>2. /\ pi' \in [Clientes -> EstadoPI] /\ pi'[c] = "lee"
        /\ \A d \in Clientes \ {c} : pi'[d] = pi[d]
    BY <1>2, <1>5 DEF EstadoPI
  <2>3. TypeOK'
    BY <1>1, <1>2, <1>5, <2>1, <2>2, TiposPIDespues DEF IInv
  <2>4. PIBien(c)
    <3>1. Cuenta(aPI[c], EsS) \in Nat
      BY <1>2, CuentaNat
    <3>2. Del(aPI'[c], aPP'[c], pi'[c]) <= Del(aPI[c], aPP[c], pi[c])
      BY <1>1, <1>5, <2>1, <2>2, <3>1 DEF Del, UnoSi
    <3>. QED BY <1>1, <1>5, <2>1, <2>2, <3>2 DEF PIBien, PIResta, Idos
  <2>5. DelC(c)'
    <3>1. Fase(c)'
      BY <1>1, <1>2, <1>5, <2>2 DEF Fase, Idos, DelC
    <3>2. RespuestaDe(c)'
      BY <1>1, <1>2, <1>5, <2>2 DEF RespuestaDe, DelC
    <3>3. ASSUME pp # "fin" PROVE ~ (EnCola(c) \/ EnMano(c) \/ EnScript(c))
      BY <1>1, <1>2, <3>3 DEF DelC, FaseNuevo
    <3>4. ASSUME pp # "fin" PROVE FaseNuevo(c)'
      BY <1>1, <3>3, <3>4 DEF FaseNuevo, EnCola, EnMano, EnScript
    <3>5. ASSUME pp # "fin" PROVE FaseDentro(c)'
      <4>1. (\A i \in DOMAIN aPP[c] : aPP[c][i] = "R")
               => \A i \in DOMAIN aPP'[c] : aPP'[c][i] = "R"
        <5>1. "R" \in EnvioPI
          BY DEF EnvioPI
        <5>2. \A i \in DOMAIN Append(aPP[c], "R") :
                 \/ i \in DOMAIN aPP[c] /\ Append(aPP[c], "R")[i] = aPP[c][i]
                 \/ Append(aPP[c], "R")[i] = "R"
          BY <1>2, <5>1, Agrega
        <5>. QED BY <2>1, <5>2
      <4>. QED BY <1>1, <1>2, <2>2, <3>3, <3>5, <4>1
               DEF DelC, FaseDentro, EnMano, EnScript
    <3>6. ASSUME pp # "fin" PROVE AbiertaDe(c)'
      BY <1>1, <1>2, <1>3, <3>6 DEF DelC, AbiertaDe, Abierta
    <3>. QED BY <1>1, <2>2, <3>1, <3>2, <3>4, <3>5, <3>6 DEF DelC
  <2>. QED BY <2>3, <2>4, <2>5, PI_Paso
<1>. QED BY <1>4, <1>5 DEF PIReanuda

LEMMA Paso_PIScript ==
    ASSUME IInv, NEW c \in Clientes, PIScript(c) PROVE IInv'
<1>1. /\ pi[c] = "hand" /\ pi' = [pi EXCEPT ![c] = "resp"]
      /\ aPI[c] # <<>> /\ aPI' = [aPI EXCEPT ![c] = Tail(@)]
      /\ Manda(c, "N")
      /\ UNCHANGED <<backlog, conex, fd, plan, sendingList, eventos, lts, pp,
                     caidas>>
  BY DEF PIScript
<1>2. /\ DelC(c) /\ caidas' \in Nat
      /\ pi \in [Clientes -> EstadoPI] /\ aPI \in [Clientes -> Seq(AvisoPI)]
      /\ backlog \in Seq(Clientes) /\ aPP[c] \in Seq(EnvioPI)
  BY <1>1, LosDelC, TiposPI DEF IInv, ConexInv, TypeOK, TipoHilos
<1>3. /\ aPP' \in [Clientes -> Seq(EnvioPI)]
      /\ \A d \in Clientes \ {c} : aPP'[d] = aPP[d]
      /\ aPP'[c] = (IF Abierta(c) THEN Append(aPP[c], "N") ELSE aPP[c])
      /\ aPP[c] # <<>> => aPP'[c] # <<>>
      /\ Cuenta(aPP'[c], {"R"}) <= Cuenta(aPP[c], {"R"}) + UnoSi("N" = "R")
      /\ Cuenta(aPP'[c], {"R"}) \in Nat /\ Cuenta(aPP[c], {"R"}) \in Nat
  BY <1>1, MandaHace DEF IInv, EnvioPI
<1>4. /\ aPI' \in [Clientes -> Seq(AvisoPI)]
      /\ \A d \in Clientes \ {c} : aPI'[d] = aPI[d]
      /\ \A i \in DOMAIN aPI'[c] : /\ i + 1 \in DOMAIN aPI[c] /\ i + 1 # 1
                                  /\ aPI'[c][i] = aPI[c][i + 1]
      /\ Cuenta(aPI[c], EsS)
            = Cuenta(aPI'[c], EsS) + UnoSi(Head(aPI[c]).tipo = "S")
      /\ Cuenta(aPI'[c], EsS) \in Nat /\ Cuenta(aPI[c], EsS) \in Nat
  BY <1>1, RecibeHace DEF IInv
<1>5. /\ pi' \in [Clientes -> EstadoPI] /\ pi'[c] = "resp"
      /\ \A d \in Clientes \ {c} : pi'[d] = pi[d]
  BY <1>1, <1>2 DEF EstadoPI
<1>6. TypeOK'
  BY <1>1, <1>2, <1>3, <1>4, <1>5, TiposPIDespues DEF IInv
<1>7. /\ aPI[c] = <<Msg("!", c)>> /\ fd[c] = 0
      /\ \A j \in DOMAIN aPI[c] : aPI[c][j].tipo = "!"
  <2>1. aPI[c] = <<Msg("!", c)>> /\ fd[c] = 0
    BY <1>1, <1>2 DEF DelC, Fase
  <2>. QED BY <2>1 DEF Msg
<1>8. aPI'[c] = <<>>
  <2>1. aPI'[c] = Tail(<<Msg("!", c)>>)
    BY <1>1, <1>2, <1>7
  <2>. QED BY <2>1
<1>9. PIBien(c)
  <2>1. Del(aPI'[c], aPP'[c], pi'[c]) <= Del(aPI[c], aPP[c], pi[c])
    BY <1>1, <1>3, <1>4, <1>5 DEF Del, UnoSi
  <2>2. \A i \in DOMAIN aPI'[c] : \E j \in DOMAIN aPI[c] :
           aPI'[c][i] = aPI[c][j]
    BY <1>4
  <2>. QED BY <1>1, <1>3, <1>4, <1>5, <1>7, <2>1, <2>2
           DEF PIBien, PIResta, Idos
<1>10. DelC(c)'
  <2>1. DOMAIN aPI'[c] = {}
    BY <1>8
  <2>2. Fase(c)'
    BY <1>1, <1>5, <1>7, <1>8, <2>1 DEF Fase, Idos
  <2>3. RespuestaDe(c)'
    BY <2>1 DEF RespuestaDe
  <2>4. ASSUME pp # "fin" PROVE FaseNuevo(c)'
    <3>1. ~ (EnCola(c) \/ EnMano(c))
      BY <1>1, <1>2, <2>4 DEF DelC, FaseNuevo
    <3>2. EnScript(c) => aPP[c] = <<>>
      BY <1>1, <1>2, <2>4 DEF DelC, FaseNuevo
    <3>3. EnScript(c) => aPP'[c] \in {<<>>, <<"N">>}
      <4>1. Append(<<>>, "N") = <<"N">>
        OBVIOUS
      <4>. QED BY <1>3, <3>2, <4>1
    <3>. QED BY <1>1, <1>5, <1>7, <1>8, <3>1, <3>3
             DEF FaseNuevo, EnCola, EnMano, EnScript
  <2>5. ASSUME pp # "fin" PROVE FaseDentro(c)'
    <3>1. \A f \in Fds : conex[f] = c => EnMano(c) \/ EnScript(c)
      BY <1>2, <1>7, <2>5, LosFds DEF DelC, FaseDentro
    <3>. QED BY <1>1, <3>1 DEF FaseDentro, EnMano, EnScript
  <2>6. ASSUME pp # "fin" PROVE AbiertaDe(c)'
    BY <1>1, <1>2, <1>7, <2>6 DEF DelC, AbiertaDe, Abierta
  <2>. QED BY <1>1, <1>5, <2>2, <2>3, <2>4, <2>5, <2>6 DEF DelC
<1>. QED BY <1>6, <1>9, <1>10, PI_Paso

LEMMA Paso_PIConecta ==
    ASSUME IInv, NEW c \in Clientes, PIConecta(c) PROVE IInv'
<1>1. /\ pi[c] = "afuera" /\ pp # "fin" /\ pi' = [pi EXCEPT ![c] = "conecta"]
      /\ backlog' = Append(backlog, c)
      /\ UNCHANGED <<aPI, aPP, conex, fd, plan, sendingList, eventos, lts, pp,
                     caidas>>
  BY DEF PIConecta
<1>2. /\ pi \in [Clientes -> EstadoPI] /\ aPI \in [Clientes -> Seq(AvisoPI)]
      /\ aPP \in [Clientes -> Seq(EnvioPI)] /\ backlog \in Seq(Clientes)
      /\ caidas' \in Nat
  BY <1>1, TiposPI DEF IInv, TypeOK, TipoHilos
<1>3. /\ backlog' \in Seq(Clientes) /\ backlog' # <<>>
      /\ \A i \in DOMAIN backlog :
            i \in DOMAIN backlog' /\ backlog'[i] = backlog[i]
      /\ Len(backlog) + 1 \in DOMAIN backlog' /\ backlog'[Len(backlog) + 1] = c
      /\ \A i \in DOMAIN backlog' :
            \/ i \in DOMAIN backlog /\ backlog'[i] = backlog[i]
            \/ i = Len(backlog) + 1 /\ backlog'[i] = c
  BY <1>1, <1>2, Agrega, SMTT(30)
<1>4. /\ pi' \in [Clientes -> EstadoPI] /\ pi'[c] = "conecta"
      /\ \A d \in Clientes \ {c} : pi'[d] = pi[d]
  BY <1>1, <1>2 DEF EstadoPI
<1>5. TypeOK'
  BY <1>1, <1>2, <1>3, <1>4, TiposPIDespues DEF IInv
<1>6. /\ ~ Abierta(c) /\ \A d \in Clientes : DelC(d)
  BY <1>1, LosDelC DEF IInv, ConexInv, RedInv
<1>7. aPI[c] = <<>> /\ aPP[c] = <<>> /\ fd[c] = 0
  BY <1>1, <1>6 DEF DelC, Fase
<1>8. PIResta(c)
  <2>1. Cuenta(aPI[c], EsS) \in Nat /\ Cuenta(aPP[c], {"R"}) \in Nat
    BY <1>2, CuentaNat
  <2>2. Del(aPI'[c], aPP'[c], pi'[c]) <= Del(aPI[c], aPP[c], pi[c])
    BY <1>1, <1>4, <2>1 DEF Del, UnoSi
  <2>3. DOMAIN aPI[c] = {}
    BY <1>7
  <2>. QED BY <1>1, <1>4, <2>2, <2>3 DEF PIResta, Idos
<1>9. RedInv'
  BY <1>1, <1>3, <1>4, <1>6 DEF RedInv, Abierta, IInv, ConexInv
<1>10. EventosInv' /\ LtsInv'
  BY <1>1, <1>3, <1>4 DEF EventosInv, LtsInv, Ido, Idos, IInv, ConexInv
<1>11. ASSUME NEW d \in Clientes, d # c PROVE DelC(d)'
  <2>1. EnCola(d)' <=> EnCola(d)
    BY <1>3, <1>11 DEF EnCola
  <2>2. Abierta(d)' <=> Abierta(d)
    BY <1>1, <1>3, <1>11 DEF Abierta
  <2>3. pi'[d] = pi[d] /\ DelC(d)
    BY <1>4, <1>6, <1>11
  <2>4. Fase(d)' /\ RespuestaDe(d)'
    BY <1>1, <2>3 DEF DelC, Fase, RespuestaDe
  <2>5. FaseNuevo(d)' /\ FaseDentro(d)'
    BY <1>1, <2>1, <2>3 DEF DelC, FaseNuevo, FaseDentro, EnMano, EnScript
  <2>6. AbiertaDe(d)'
    BY <1>1, <2>2, <2>3 DEF DelC, AbiertaDe
  <2>. QED BY <1>1, <2>3, <2>4, <2>5, <2>6 DEF DelC
<1>12. DelC(c)'
  <2>1. Fase(c)' /\ RespuestaDe(c)'
    <3>1. DOMAIN aPI'[c] = {}
      BY <1>1, <1>7
    <3>. QED BY <1>1, <1>4, <1>7, <3>1 DEF Fase, RespuestaDe, Idos
  <2>2. ~ EnScript(c) /\ \A f \in Fds : conex[f] # c
    BY <1>1, <1>6 DEF DelC, FaseNuevo, Abierta
  <2>3. FaseNuevo(c)' /\ FaseDentro(c)'
    BY <1>1, <1>4, <1>7, <2>2 DEF FaseNuevo, FaseDentro, EnScript
  <2>4. AbiertaDe(c)'
    BY <1>3 DEF AbiertaDe, Abierta
  <2>. QED BY <1>1, <1>4, <2>1, <2>3, <2>4 DEF DelC
<1>13. FasesInv' /\ RespuestaPrimero' /\ AbiertasInv' /\ NadieDesconectado'
  <2>1. \A d \in Clientes : DelC(d)'
    BY <1>11, <1>12
  <2>. QED BY <2>1, LosDelCDespues
<1>. QED BY <1>5, <1>8, <1>9, <1>10, <1>13, PI_Resto DEF IInv, ConexInv

-----------------------------------------------------------------------------
(***************************************************************************)
(* The places.  A step that moves one process, and what it gives and takes *)
(* from the semaphores.                                                    *)
(***************************************************************************)
Memoria == {"memoria", "ejecuta"}
Entran  == UnoSi(lts.pc \in {"push", "demora"})
Empuja  == UnoSi(lts.pc = "push")
Sale    == UnoSi(procer.pc = "libera")

LEMMA CambiaCuantos ==
    ASSUME NEW X, proc \in [Clientes -> X], NEW p \in Clientes, NEW e,
           proc' = [proc EXCEPT ![p] = e], NEW E
    PROVE LET A == {c \in Clientes : proc[c] \in E}
              B == {c \in Clientes : proc'[c] \in E}
          IN  /\ Cardinality(A) \in Nat /\ Cardinality(B) \in Nat
              /\ Cardinality(B) + UnoSi(proc[p] \in E)
                    = Cardinality(A) + UnoSi(e \in E)
<1> DEFINE A == {c \in Clientes : proc[c] \in E}
           B == {c \in Clientes : proc'[c] \in E}
<1>1. IsFiniteSet(A) /\ Cardinality(A) \in Nat
  BY ClientesAssumption, FS_Subset, FS_CardinalityType
<1>2. proc'[p] = e /\ \A c \in Clientes \ {p} : proc'[c] = proc[c]
  OBVIOUS
<1>3. p \in A <=> proc[p] \in E
  OBVIOUS
<1>4. B = IF e \in E THEN A \cup {p} ELSE A \ {p}
  BY <1>2
<1>5. IsFiniteSet(B) /\ Cardinality(B) \in Nat
  BY ClientesAssumption, FS_Subset, FS_CardinalityType
<1>. HIDE DEF A, B
<1>6. /\ Cardinality(A \cup {p})
            = IF p \in A THEN Cardinality(A) ELSE Cardinality(A) + 1
      /\ Cardinality(A \ {p})
            = IF p \in A THEN Cardinality(A) - 1 ELSE Cardinality(A)
  BY <1>1, FS_AddElement, FS_RemoveElement
<1>7. Cardinality(B) + UnoSi(proc[p] \in E) = Cardinality(A) + UnoSi(e \in E)
  BY <1>1, <1>3, <1>4, <1>6 DEF UnoSi
<1>. QED BY <1>1, <1>5, <1>7 DEF A, B

LEMMA Balance ==
    ASSUME NEW a \in Nat, NEW b \in Nat, NEW c \in Nat, NEW d \in Nat,
           NEW u \in Nat, NEW v \in Nat, NEW x \in Nat, NEW y \in Nat,
           NEW m, d + u = c + v, b + v + y = a + u + x, a + c + x = m
    PROVE b + d + y = m
  OBVIOUS

(* What the process occupies, and the semaphores, before and after.        *)
Mueve(p, e) ==
    /\ proc' = [proc EXCEPT ![p] = e]
    /\ sem'.MPS + UnoSi(e \in EnSistema) + (Entran' + Sale')
          = sem.MPS + UnoSi(proc[p] \in EnSistema) + (Entran + Sale)
    /\ sem'.MMP + UnoSi(e \in Memoria) + (Empuja' + Sale')
          = sem.MMP + UnoSi(proc[p] \in Memoria) + (Empuja + Sale)

LEMMA Lugares ==
    ASSUME TypeOK, TypeOK', LugaresExactos, NEW p \in Clientes, NEW e,
           Mueve(p, e)
    PROVE LugaresExactos'
<1> DEFINE S == {c \in Clientes : proc[c] \in EnSistema}
           T == {c \in Clientes : proc'[c] \in EnSistema}
           M == {c \in Clientes : proc[c] \in Memoria}
           N == {c \in Clientes : proc'[c] \in Memoria}
<1>1. proc \in [Clientes -> EnSistema \cup {"afuera", "finalizado"}]
  BY DEF TypeOK, TipoPP
<1>2. /\ Cardinality(S) \in Nat /\ Cardinality(T) \in Nat
      /\ Cardinality(T) + UnoSi(proc[p] \in EnSistema)
            = Cardinality(S) + UnoSi(e \in EnSistema)
  BY <1>1, CambiaCuantos DEF Mueve
<1>3. /\ Cardinality(M) \in Nat /\ Cardinality(N) \in Nat
      /\ Cardinality(N) + UnoSi(proc[p] \in Memoria)
            = Cardinality(M) + UnoSi(e \in Memoria)
  BY <1>1, CambiaCuantos DEF Mueve
<1>4. /\ sem.MPS \in Nat /\ sem.MMP \in Nat
      /\ sem'.MPS \in Nat /\ sem'.MMP \in Nat
  BY DEF TypeOK, TipoPP
<1>5. /\ Entran \in Nat /\ Entran' \in Nat /\ Empuja \in Nat /\ Empuja' \in Nat
      /\ Sale \in Nat /\ Sale' \in Nat
  BY DEF Entran, Empuja, Sale, UnoSi
<1>11. /\ UnoSi(e \in EnSistema) \in Nat /\ UnoSi(proc[p] \in EnSistema) \in Nat
       /\ UnoSi(e \in Memoria) \in Nat /\ UnoSi(proc[p] \in Memoria) \in Nat
  BY DEF UnoSi
<1>6. /\ sem.MPS + Cardinality(S) + Entran + Sale = MPS
      /\ sem.MMP + Cardinality(M) + Empuja + Sale = MMP
  BY DEF LugaresExactos, Cuantos, Entran, Empuja, Sale, Memoria
<1>. HIDE DEF S, T, M, N
<1>7. /\ sem.MPS + Cardinality(S) + (Entran + Sale) = MPS
      /\ sem.MMP + Cardinality(M) + (Empuja + Sale) = MMP
      /\ Entran + Sale \in Nat /\ Entran' + Sale' \in Nat
      /\ Empuja + Sale \in Nat /\ Empuja' + Sale' \in Nat
  <2>1. sem.MPS + Cardinality(S) + (Entran + Sale) = MPS
    BY <1>2, <1>4, <1>5, <1>6
  <2>2. sem.MMP + Cardinality(M) + (Empuja + Sale) = MMP
    BY <1>3, <1>4, <1>5, <1>6
  <2>3. \A i, j \in Nat : i + j \in Nat
    OBVIOUS
  <2>4. Entran + Sale \in Nat /\ Empuja + Sale \in Nat
    BY <1>5, <2>3
  <2>5. Entran' + Sale' \in Nat /\ Empuja' + Sale' \in Nat
    BY <1>5, <2>3
  <2>. QED BY <2>1, <2>2, <2>4, <2>5
<1>8. sem'.MPS + Cardinality(T) + (Entran' + Sale') = MPS
  <2> DEFINE a == sem.MPS
             b == sem'.MPS
             c == Cardinality(S)
             d == Cardinality(T)
             u == UnoSi(proc[p] \in EnSistema)
             v == UnoSi(e \in EnSistema)
             x == Entran + Sale
             y == Entran' + Sale'
  <2>1. /\ a \in Nat /\ b \in Nat /\ c \in Nat /\ d \in Nat
        /\ u \in Nat /\ v \in Nat /\ x \in Nat /\ y \in Nat
    BY <1>2, <1>4, <1>7, <1>11
  <2>2. d + u = c + v /\ b + v + y = a + u + x /\ a + c + x = MPS
    BY <1>2, <1>7 DEF Mueve
  <2>. HIDE DEF a, b, c, d, u, v, x, y
  <2>3. b + d + y = MPS
    BY <2>1, <2>2, Balance
  <2>. QED BY <2>3 DEF b, d, y
<1>9. sem'.MMP + Cardinality(N) + (Empuja' + Sale') = MMP
  <2> DEFINE a == sem.MMP
             b == sem'.MMP
             c == Cardinality(M)
             d == Cardinality(N)
             u == UnoSi(proc[p] \in Memoria)
             v == UnoSi(e \in Memoria)
             x == Empuja + Sale
             y == Empuja' + Sale'
  <2>1. /\ a \in Nat /\ b \in Nat /\ c \in Nat /\ d \in Nat
        /\ u \in Nat /\ v \in Nat /\ x \in Nat /\ y \in Nat
    BY <1>3, <1>4, <1>7, <1>11
  <2>2. d + u = c + v /\ b + v + y = a + u + x /\ a + c + x = MMP
    BY <1>3, <1>7 DEF Mueve
  <2>. HIDE DEF a, b, c, d, u, v, x, y
  <2>3. b + d + y = MMP
    BY <2>1, <2>2, Balance
  <2>. QED BY <2>3 DEF b, d, y
<1>10. /\ sem'.MPS + Cardinality(T) + Entran' + Sale' = MPS
       /\ sem'.MMP + Cardinality(N) + Empuja' + Sale' = MMP
  BY <1>2, <1>3, <1>4, <1>5, <1>8, <1>9
<1>. QED BY <1>10
         DEF LugaresExactos, Cuantos, Entran, Empuja, Sale, Memoria, T, N

(***************************************************************************)
(* The other threads of the PP.  They touch neither the clients nor their  *)
(* connections.                                                            *)
(***************************************************************************)
Interno ==
    /\ UNCHANGED <<pi, red, conex, fd, eventos, lts, caidas>>
    /\ pp # "fin" /\ pp' # "fin"
    /\ \A c \in Clientes :
          /\ proc'[c] = "afuera" <=> proc[c] = "afuera"
          /\ proc[c] = "finalizado" => proc'[c] = "finalizado"

LEMMA Int_Igual ==
    ASSUME IInv, Interno
    PROVE /\ RedInv' /\ EventosInv' /\ LtsInv' /\ FasesInv' /\ AbiertasInv'
          /\ RespuestaPrimero' /\ AvisosPropios' /\ NadieDesconectado'
          /\ ImagenFd'
<1>1. /\ UNCHANGED <<pi, aPI, aPP, backlog, conex, fd, eventos, lts>>
      /\ pp # "fin" /\ pp' # "fin"
  BY DEF Interno, red
<1>2. RedInv' /\ EventosInv' /\ LtsInv'
  BY <1>1 DEF RedInv, Abierta, EventosInv, Ido, LtsInv, IInv, ConexInv
<1>3. FasesInv'
  BY <1>1 DEF FasesInv, Fase, FaseNuevo, FaseDentro, EnCola, EnMano, EnScript,
              IInv, ConexInv
<1>4. AbiertasInv' /\ RespuestaPrimero' /\ NadieDesconectado'
  BY <1>1 DEF AbiertasInv, Abierta, RespuestaPrimero, NadieDesconectado,
              IInv, ConexInv
<1>5. AvisosPropios'
  BY <1>1 DEF AvisosPropios, Sucio, IInv
<1>6. ImagenFd'
  BY <1>1 DEF Interno, ImagenFd, ImagenInv, Entra, IInv, ConexInv
<1>. QED BY <1>2, <1>3, <1>4, <1>5, <1>6

(* The messages queued.                                                    *)
AvisoPP == [fd : Fds, tipo : {"N", "S", "T"} \cup Respuestas, de : Clientes]

LEMMA Int_Tipos ==
    ASSUME TypeOK, Interno,
           proc' \in [Clientes -> EnSistema \cup {"afuera", "finalizado"}],
           pasos' \in [Clientes -> Nat],
           LFIFO' \in Seq(Clientes), LPS' \in Seq(Clientes),
           sendingList' \in Seq(AvisoPP), sem' \in [MPS : Nat, MMP : Nat],
           procer' \in [pc : {"espera", "ejecuta", "avisa", "libera"},
                        img : Clientes \cup {Nadie}],
           pp' \in {"vivo", "sale", "fin"}, senales' \in Nat
    PROVE TypeOK'
<1>1. UNCHANGED <<pi, aPI, aPP, backlog, conex, fd, eventos, lts, caidas>>
  BY DEF Interno, red
<1>2. TipoPI'
  BY <1>1 DEF TypeOK, TipoPI
<1>3. TipoPP'
  BY <1>1 DEF TypeOK, TipoPP, AvisoPP
<1>4. TipoHilos'
  BY <1>1 DEF TypeOK, TipoHilos
<1>. QED BY <1>2, <1>3, <1>4 DEF TypeOK

LEMMA TiposLista ==
    TypeOK => /\ sendingList \in Seq(AvisoPP)
              /\ \A i \in DOMAIN sendingList :
                    /\ sendingList[i] \in AvisoPP
                    /\ sendingList[i].de \in Clientes
<1>. SUFFICES ASSUME TypeOK
     PROVE /\ sendingList \in Seq(AvisoPP)
           /\ \A i \in DOMAIN sendingList :
                 /\ sendingList[i] \in AvisoPP
                 /\ sendingList[i].de \in Clientes
  OBVIOUS
<1>1. sendingList \in Seq(AvisoPP)
  BY DEF TypeOK, TipoPP, AvisoPP
<1>2. \A i \in DOMAIN sendingList : sendingList[i] \in AvisoPP
  BY <1>1
<1>. QED BY <1>1, <1>2 DEF AvisoPP

(* A step that says nothing to the clients.                                *)
LEMMA Int_Calla ==
    ASSUME IInv, Interno, UNCHANGED sendingList,
           \A c \in Clientes :
               proc'[c] = "finalizado" => proc[c] = "finalizado"
    PROVE MensajesInv' /\ LimpioInv' /\ UltimoInv' /\ AvisadosInv'
<1>1. /\ UNCHANGED <<pi, aPI, conex, fd>> /\ pp # "fin" /\ pp' # "fin"
      /\ \A c \in Clientes :
            /\ proc'[c] = "afuera" <=> proc[c] = "afuera"
            /\ proc[c] = "finalizado" <=> proc'[c] = "finalizado"
  BY DEF Interno, red
<1>2. \A i \in DOMAIN sendingList : sendingList[i].de \in Clientes
  BY TiposLista DEF IInv
<1>3. MensajesInv'
  BY <1>1, <1>2 DEF MensajesInv, IInv, ConexInv
<1>4. UltimoInv'
  BY DEF UltimoInv, IInv, ConexInv
<1>5. LimpioInv'
  BY <1>1 DEF LimpioInv, Sucio, Pendiente, IInv, ConexInv
<1>6. AvisadosInv'
  BY <1>1 DEF AvisadosInv, Avisado, Ido, IInv, ConexInv
<1>. QED BY <1>3, <1>4, <1>5, <1>6

(* t is s with the message m behind.                                       *)
UnoMas(t, s, m) ==
    /\ \A i \in DOMAIN s : i \in DOMAIN t /\ t[i] = s[i]
    /\ \E k \in DOMAIN t :
          /\ t[k] = m
          /\ \A i \in DOMAIN t :
                i = k \/ (i \in DOMAIN s /\ i < k /\ t[i] = s[i])

(* A step that queues a message to the client of p.                        *)
LEMMA EncolaHace ==
    ASSUME IInv, NEW p \in Clientes, NEW t \in {"N", "S", "T"}, fd[p] # 0,
           Encola(p, t)
    PROVE LET m == [fd |-> fd[p], tipo |-> t, de |-> p]
          IN  /\ m \in AvisoPP /\ sendingList' \in Seq(AvisoPP)
              /\ UnoMas(sendingList', sendingList, m)
<1> DEFINE m == [fd |-> fd[p], tipo |-> t, de |-> p]
           n == Len(sendingList)
<1>1. sendingList \in Seq(AvisoPP) /\ sendingList' = Append(sendingList, m)
  BY TiposLista DEF IInv, Encola
<1>2. m \in AvisoPP
  BY DEF IInv, TypeOK, TipoPP, AvisoPP
<1>. HIDE DEF m
<1>4. /\ sendingList' \in Seq(AvisoPP) /\ n \in Nat
      /\ DOMAIN sendingList = 1 .. n
      /\ \A i \in DOMAIN sendingList : /\ i \in DOMAIN sendingList'
                                      /\ sendingList'[i] = sendingList[i]
      /\ n + 1 \in DOMAIN sendingList' /\ sendingList'[n + 1] = m
      /\ \A i \in DOMAIN sendingList' :
            \/ i \in DOMAIN sendingList /\ sendingList'[i] = sendingList[i]
            \/ i = n + 1
  BY <1>1, <1>2, Agrega
<1>5. \A i \in DOMAIN sendingList' :
         i = n + 1 \/ (/\ i \in DOMAIN sendingList /\ i < n + 1
                       /\ sendingList'[i] = sendingList[i])
  BY <1>4
<1>7. \E k \in DOMAIN sendingList' :
         /\ sendingList'[k] = m
         /\ \A i \in DOMAIN sendingList' :
               i = k \/ (/\ i \in DOMAIN sendingList /\ i < k
                         /\ sendingList'[i] = sendingList[i])
  BY <1>4, <1>5
<1>8. UnoMas(sendingList', sendingList, m)
  BY <1>4, <1>7 DEF UnoMas
<1>. QED BY <1>2, <1>4, <1>8 DEF m

LEMMA EncolaCuenta ==
    ASSUME IInv, NEW p \in Clientes, NEW t \in {"N", "S", "T"}, fd[p] # 0,
           Encola(p, t), NEW f
    PROVE Cuenta(sendingList', EsSDe(f))
             = Cuenta(sendingList, EsSDe(f)) + UnoSi(t = "S" /\ fd[p] = f)
<1> DEFINE m == [fd |-> fd[p], tipo |-> t, de |-> p]
<1>1. sendingList \in Seq(AvisoPP) /\ sendingList' = Append(sendingList, m)
  BY TiposLista DEF IInv, Encola
<1>2. m \in AvisoPP
  BY DEF IInv, TypeOK, TipoPP, AvisoPP
<1>3. m \in EsSDe(f) <=> t = "S" /\ fd[p] = f
  BY DEF EsSDe
<1>. HIDE DEF m
<1>4. Cuenta(sendingList', EsSDe(f))
         = Cuenta(sendingList, EsSDe(f)) + UnoSi(m \in EsSDe(f))
  BY <1>1, <1>2, CuentaAgrega
<1>5. UnoSi(m \in EsSDe(f)) = UnoSi(t = "S" /\ fd[p] = f)
  BY <1>3 DEF UnoSi
<1>. QED BY <1>4, <1>5

LEMMA Int_Dice ==
    ASSUME IInv, Interno, NEW p \in Clientes, NEW t \in {"N", "S", "T"},
           Encola(p, t), proc[p] \notin {"afuera", "finalizado"},
           proc'[p] = "finalizado" <=> t = "T",
           \A c \in Clientes \ {p} :
               proc'[c] = "finalizado" => proc[c] = "finalizado"
    PROVE MensajesInv' /\ LimpioInv' /\ UltimoInv' /\ AvisadosInv'
<1>1. /\ UNCHANGED <<pi, aPI, conex, fd>> /\ pp # "fin" /\ pp' # "fin"
      /\ \A c \in Clientes :
            /\ proc'[c] = "afuera" <=> proc[c] = "afuera"
            /\ proc[c] = "finalizado" => proc'[c] = "finalizado"
  BY DEF Interno, red
<1>2. fd[p] # 0
  BY DEF IInv, ConexInv, ImagenInv, ImagenFd
<1> DEFINE m == [fd |-> fd[p], tipo |-> t, de |-> p]
<1>3. /\ \A i \in DOMAIN sendingList : /\ i \in DOMAIN sendingList'
                                      /\ sendingList'[i] = sendingList[i]
      /\ \E k \in DOMAIN sendingList' :
            /\ sendingList'[k] = m
            /\ \A i \in DOMAIN sendingList' :
                  i = k \/ (/\ i \in DOMAIN sendingList /\ i < k
                            /\ sendingList'[i] = sendingList[i])
  <2>1. UnoMas(sendingList', sendingList, m)
    BY <1>2, EncolaHace
  <2>. HIDE DEF m
  <2>. QED BY <2>1 DEF UnoMas
<1>4. PICK k \in DOMAIN sendingList' :
         /\ sendingList'[k] = m
         /\ \A i \in DOMAIN sendingList' :
               i = k \/ (/\ i \in DOMAIN sendingList /\ i < k
                         /\ sendingList'[i] = sendingList[i])
  BY <1>3
<1>5. m.fd = fd[p] /\ m.tipo = t /\ m.de = p
  OBVIOUS
<1>. HIDE DEF m
<1>6. \A i \in DOMAIN sendingList : sendingList[i].de \in Clientes
  BY TiposLista DEF IInv
<1>7. \A i \in DOMAIN sendingList :
         /\ sendingList[i].tipo \in {"N", "S", "T"}
         /\ sendingList[i].fd = fd[sendingList[i].de]
         /\ proc[sendingList[i].de] # "afuera"
         /\ sendingList[i].tipo = "T" => proc[sendingList[i].de] = "finalizado"
  BY DEF IInv, ConexInv, MensajesInv
<1>8. MensajesInv'
  BY <1>1, <1>4, <1>5, <1>6, <1>7 DEF MensajesInv
<1>9. UltimoInv'
  <2>1. ASSUME NEW i \in DOMAIN sendingList', NEW j \in DOMAIN sendingList',
               i < j, sendingList'[i].de = sendingList'[j].de
        PROVE sendingList'[i].tipo # "T"
    <3>1. i \in Nat /\ j \in Nat /\ k \in Nat
      <4>1. sendingList' \in Seq(AvisoPP)
        BY <1>2, EncolaHace
      <4>. QED BY <4>1
    <3>2. i # k /\ i \in DOMAIN sendingList /\ sendingList'[i] = sendingList[i]
      BY <1>4, <2>1, <3>1
    <3>3. CASE j = k
      BY <1>4, <1>5, <1>7, <2>1, <3>2, <3>3
    <3>4. CASE j # k
      <4>1. j \in DOMAIN sendingList /\ sendingList'[j] = sendingList[j]
        BY <1>4, <3>4
      <4>. QED BY <2>1, <3>2, <4>1 DEF IInv, ConexInv, UltimoInv
    <3>. QED BY <3>3, <3>4
  <2>. QED BY <2>1 DEF UltimoInv
<1>10. LimpioInv'
  <2>1. ASSUME NEW d \in Clientes, Pendiente(d)' PROVE Pendiente(d)
    BY <1>1, <1>2, <1>4, <1>5, <2>1 DEF Pendiente
  <2>2. \A f : Sucio(f)' <=> Sucio(f)
    BY <1>1 DEF Sucio
  <2>3. ASSUME NEW d \in Clientes, ~ Sucio(fd[d])', Pendiente(d)'
        PROVE /\ conex[fd[d]] = d /\ pi[d] # "fin"
              /\ \A j \in DOMAIN aPI[d] : aPI[d][j].tipo # "T"
    <3>1. ~ Sucio(fd[d])
      BY <1>1, <2>3 DEF Sucio
    <3>. QED BY <1>1, <2>1, <2>3, <3>1 DEF LimpioInv, IInv, ConexInv
  <2>. QED BY <1>1, <2>3 DEF LimpioInv
<1>11. AvisadosInv'
  <2>1. ASSUME NEW d \in Clientes, proc'[d] = "finalizado"
        PROVE Avisado(d)'
    <3>1. CASE d = p
      BY <1>1, <1>4, <2>1, <3>1 DEF Avisado, m
    <3>2. CASE d # p
      <4>1. Avisado(d)
        BY <1>1, <2>1, <3>2 DEF AvisadosInv, IInv, ConexInv
      <4>. QED BY <1>1, <1>3, <4>1 DEF Avisado, Ido
    <3>. QED BY <3>1, <3>2
  <2>. QED BY <2>1 DEF AvisadosInv
<1>. QED BY <1>8, <1>9, <1>10, <1>11

(* The resumptions, when as many images come as messages to their clients. *)
LEMMA Int_Reanuda ==
    ASSUME IInv, TypeOK', Interno,
           \A f \in Fds : PorVenir(f)' + Cuenta(LPS, DeFd(f))
                             <= PorVenir(f) + Cuenta(LPS', DeFd(f))
    PROVE ReanudaInv'
<1>1. UNCHANGED <<pi, aPI, aPP, conex, fd, lts>>
  BY DEF Interno, red
<1>2. ASSUME NEW f \in Fds
      PROVE PorVenir(f)' + EnCamino(f)' <= Cuenta(LPS', DeFd(f)')
  <2>1. EnCamino(f)' = EnCamino(f) /\ DeFd(f)' = DeFd(f)
    BY <1>1 DEF EnCamino, Del, Cuenta, DeFd
  <2>2. PorVenir(f) + EnCamino(f) <= Cuenta(LPS, DeFd(f))
    BY DEF IInv, ConexInv, ReanudaInv
  <2>3. /\ PorVenir(f) \in Nat /\ PorVenir(f)' \in Nat /\ EnCamino(f) \in Nat
        /\ Cuenta(LPS, DeFd(f)) \in Nat /\ Cuenta(LPS', DeFd(f)) \in Nat
    BY CuentasNat, CuentasNatDespues DEF IInv
  <2>4. PorVenir(f)' + Cuenta(LPS, DeFd(f))
           <= PorVenir(f) + Cuenta(LPS', DeFd(f))
    OBVIOUS
  <2>. QED BY <2>1, <2>2, <2>3, <2>4
<1>. QED BY <1>1, <1>2 DEF ReanudaInv, IInv, ConexInv

LEMMA Int_Paso ==
    ASSUME IInv, Interno, TypeOK', ColasInv', ProcerInv', ReanudaInv',
           LugaresExactos', MensajesInv', LimpioInv', UltimoInv', AvisadosInv'
    PROVE IInv'
  BY Int_Igual DEF IInv, ConexInv, ImagenInv

(* What the invariant says, in the form that these steps use.              *)
LEMMA TiposInt ==
    TypeOK => /\ proc \in [Clientes -> EnSistema \cup {"afuera", "finalizado"}]
              /\ pasos \in [Clientes -> Nat]
              /\ LFIFO \in Seq(Clientes) /\ LPS \in Seq(Clientes)
              /\ sendingList \in Seq(AvisoPP)
              /\ sem \in [MPS : Nat, MMP : Nat]
              /\ procer \in [pc : {"espera", "ejecuta", "avisa", "libera"},
                             img : Clientes \cup {Nadie}]
              /\ pp \in {"vivo", "sale", "fin"} /\ senales \in Nat
  BY DEF TypeOK, TipoPP, TipoHilos, AvisoPP

LEMMA Paso_SIGINT == ASSUME IInv, SIGINT PROVE IInv'
<1>1. /\ UNCHANGED <<pi, red, conex, fd, sendingList, eventos, lts, caidas>>
      /\ UNCHANGED <<proc, pasos, LFIFO, LPS, sem, procer, senales>>
      /\ pp = "vivo" /\ pp' = "sale"
  BY DEF SIGINT, plan
<1>2. Interno
  BY <1>1 DEF Interno
<1>3. TypeOK'
  BY <1>1, <1>2, TiposInt, Int_Tipos DEF IInv
<1>4. ColasInv' /\ ProcerInv' /\ LugaresExactos'
  BY <1>1 DEF ColasInv, ProcerInv, LugaresExactos, Cuantos, ImagenInv,
              IInv, ConexInv
<1>5. MensajesInv' /\ LimpioInv' /\ UltimoInv' /\ AvisadosInv'
  BY <1>1, <1>2, Int_Calla
<1>6. ReanudaInv'
  <2>1. \A f \in Fds : PorVenir(f)' = PorVenir(f) /\ PorVenir(f) \in Nat
    BY <1>1, <1>2, CuentasNat DEF PorVenir, Cuenta, IInv, Interno
  <2>2. \A V : Cuenta(LPS, V) \in Nat
    BY CuentasNat DEF IInv
  <2>. QED BY <1>1, <1>2, <1>3, <2>1, <2>2, Int_Reanuda
<1>. QED BY <1>2, <1>3, <1>4, <1>5, <1>6, Int_Paso

LEMMA Paso_LTSnew == ASSUME IInv, LTSnew PROVE IInv'
<1> DEFINE c == Head(LFIFO)
<1>1. /\ UNCHANGED <<pi, red, conex, fd, sendingList, eventos, lts, caidas>>
      /\ UNCHANGED <<pp, pasos, LPS, procer, senales>> /\ pp # "fin"
      /\ LFIFO # <<>> /\ LFIFO' = Tail(LFIFO) /\ sem.MMP > 0
      /\ sem' = [sem EXCEPT !.MMP = @ - 1]
      /\ proc' = [proc EXCEPT ![c] = "memoria"]
  BY DEF LTSnew
<1>2. /\ LFIFO' \in Seq(Clientes) /\ c \in Clientes
      /\ 1 \in DOMAIN LFIFO /\ LFIFO[1] = c
      /\ \A i \in DOMAIN LFIFO' : /\ i + 1 \in DOMAIN LFIFO /\ i + 1 # 1
                                 /\ LFIFO'[i] = LFIFO[i + 1]
  <2>1. LFIFO \in Seq(Clientes)
    BY TiposInt DEF IInv
  <2>2. \A i \in DOMAIN Tail(LFIFO) : i \in Nat /\ i >= 1
    BY <1>1, <2>1
  <2>3. \A i \in DOMAIN Tail(LFIFO) : i + 1 # 1
    BY <2>2
  <2>. QED BY <1>1, <2>1, <2>3, Cola
<1>. HIDE DEF c
<1>3. proc[c] = "demorado"
  BY <1>2 DEF IInv, ConexInv, ImagenInv, ColasInv
<1>4. proc'[c] = "memoria" /\ \A d \in Clientes \ {c} : proc'[d] = proc[d]
  BY <1>1, <1>2, TiposInt DEF IInv
<1>5. Interno
  BY <1>1, <1>3, <1>4 DEF Interno
<1>6. TypeOK'
  <2>1. proc' \in [Clientes -> EnSistema \cup {"afuera", "finalizado"}]
    BY <1>1, TiposInt DEF IInv, EnSistema
  <2>2. sem' \in [MPS : Nat, MMP : Nat]
    <3>1. sem \in [MPS : Nat, MMP : Nat] /\ sem.MMP \in Nat
      BY TiposInt DEF IInv
    <3>2. sem.MMP - 1 \in Nat
      BY <1>1, <3>1
    <3>. QED BY <1>1, <3>1, <3>2
  <2>3. /\ pasos' \in [Clientes -> Nat] /\ LPS' \in Seq(Clientes)
        /\ sendingList' \in Seq(AvisoPP) /\ pp' \in {"vivo", "sale", "fin"}
        /\ procer' \in [pc : {"espera", "ejecuta", "avisa", "libera"},
                        img : Clientes \cup {Nadie}]
        /\ senales' \in Nat
    BY <1>1, TiposInt DEF IInv
  <2>. QED BY <1>2, <1>5, <2>1, <2>2, <2>3, Int_Tipos DEF IInv
<1>7. ColasInv'
  <2>1. \A i \in DOMAIN LFIFO : LFIFO[i] \in Clientes
    BY TiposInt DEF IInv
  <2>2. \A i \in DOMAIN LPS : LPS[i] \in Clientes /\ LPS[i] # c
    BY <1>3, TiposInt DEF IInv, ConexInv, ImagenInv, ColasInv
  <2>3. \A i \in DOMAIN LFIFO' : LFIFO'[i] # c
    BY <1>2 DEF IInv, ConexInv, ImagenInv, ColasInv
  <2>4. \A i \in DOMAIN LFIFO' : proc'[LFIFO'[i]] = "demorado"
    BY <1>2, <1>4, <2>1, <2>3 DEF IInv, ConexInv, ImagenInv, ColasInv
  <2>5. \A i, j \in DOMAIN LFIFO' : LFIFO'[i] = LFIFO'[j] => i = j
    <3>1. ASSUME NEW i \in DOMAIN LFIFO', NEW j \in DOMAIN LFIFO',
                 LFIFO'[i] = LFIFO'[j]
          PROVE i = j
      <4>1. i + 1 = j + 1
        BY <1>2, <3>1 DEF IInv, ConexInv, ImagenInv, ColasInv
      <4>2. i \in Nat /\ j \in Nat
        BY <1>2
      <4>. QED BY <4>1, <4>2
    <3>. QED BY <3>1
  <2>. QED BY <1>1, <1>4, <2>2, <2>4, <2>5
           DEF IInv, ConexInv, ImagenInv, ColasInv
<1>8. ProcerInv'
  BY <1>1, <1>3, <1>4 DEF IInv, ConexInv, ImagenInv, ProcerInv
<1>9. LugaresExactos'
  <2>1. /\ Entran' = Entran /\ Empuja' = Empuja /\ Sale' = Sale
        /\ sem'.MPS = sem.MPS /\ sem'.MMP = sem.MMP - 1
        /\ sem.MMP \in Nat /\ sem.MPS \in Nat
    BY <1>1, TiposInt DEF IInv, Entran, Empuja, Sale
  <2>2. /\ UnoSi("memoria" \in EnSistema) = 1
        /\ UnoSi("memoria" \in Memoria) = 1
        /\ UnoSi(proc[c] \in EnSistema) = 1 /\ UnoSi(proc[c] \in Memoria) = 0
    BY <1>3 DEF UnoSi, EnSistema, Memoria
  <2>3. Entran \in Nat /\ Empuja \in Nat /\ Sale \in Nat
    BY DEF Entran, Empuja, Sale, UnoSi
  <2>4. Mueve(c, "memoria")
    BY <1>1, <2>1, <2>2, <2>3 DEF Mueve
  <2>. QED BY <1>2, <1>6, <2>4, Lugares DEF IInv
<1>10. MensajesInv' /\ LimpioInv' /\ UltimoInv' /\ AvisadosInv'
  BY <1>1, <1>4, <1>5, Int_Calla
<1>11. ReanudaInv'
  <2>1. \A f \in Fds : PorVenir(f)' = PorVenir(f) /\ PorVenir(f) \in Nat
    BY <1>1, CuentasNat DEF PorVenir, Cuenta, IInv
  <2>2. \A V : Cuenta(LPS, V) \in Nat
    BY CuentasNat DEF IInv
  <2>. QED BY <1>1, <1>5, <1>6, <2>1, <2>2, Int_Reanuda
<1>. QED BY <1>5, <1>6, <1>7, <1>8, <1>9, <1>10, <1>11, Int_Paso

(* A step of a process that is in no list.                                 *)
LEMMA Proc_Cambia ==
    ASSUME IInv, NEW p \in Clientes,
           NEW e \in EnSistema \cup {"afuera", "finalizado"},
           proc' = [proc EXCEPT ![p] = e]
    PROVE /\ proc' \in [Clientes -> EnSistema \cup {"afuera", "finalizado"}]
          /\ proc'[p] = e /\ \A d \in Clientes \ {p} : proc'[d] = proc[d]
          /\ UNCHANGED <<LFIFO, LPS>>
             /\ proc[p] \notin {"demorado", "suspendido"} => ColasInv'
<1>1. proc \in [Clientes -> EnSistema \cup {"afuera", "finalizado"}]
  BY TiposInt DEF IInv
<1>2. proc' \in [Clientes -> EnSistema \cup {"afuera", "finalizado"}]
  BY <1>1
<1>3. proc'[p] = e /\ \A d \in Clientes \ {p} : proc'[d] = proc[d]
  BY <1>1
<1>4. ASSUME UNCHANGED <<LFIFO, LPS>>, proc[p] \notin {"demorado", "suspendido"}
      PROVE ColasInv'
  <2>1. \A i \in DOMAIN LFIFO : LFIFO[i] \in Clientes
    BY TiposInt DEF IInv
  <2>2. \A i \in DOMAIN LPS : LPS[i] \in Clientes
    BY TiposInt DEF IInv
  <2>. QED BY <1>3, <1>4, <2>1, <2>2
           DEF ColasInv, ImagenInv, IInv, ConexInv
<1>. QED BY <1>2, <1>3, <1>4

LEMMA Int_ReanudaIgual ==
    ASSUME IInv, TypeOK', Interno, UNCHANGED LPS,
           \A f \in Fds : PorVenir(f)' = PorVenir(f)
    PROVE ReanudaInv'
<1>1. \A f \in Fds : PorVenir(f) \in Nat
  BY CuentasNat DEF IInv
<1>2. \A V : Cuenta(LPS, V) \in Nat
  BY CuentasNat DEF IInv
<1>. QED BY <1>1, <1>2, Int_Reanuda

LEMMA Paso_ProcerToma ==
    ASSUME IInv, NEW p \in Clientes, ProcerToma(p) PROVE IInv'
<1>1. /\ UNCHANGED <<pi, red, conex, fd, sendingList, eventos, lts, caidas>>
      /\ UNCHANGED <<pp, pasos, LFIFO, LPS, sem, senales>> /\ pp # "fin"
      /\ procer.pc = "espera" /\ procer' = [pc |-> "ejecuta", img |-> p]
      /\ proc[p] = "memoria" /\ proc' = [proc EXCEPT ![p] = "ejecuta"]
  BY DEF ProcerToma
<1>2. /\ proc' \in [Clientes -> EnSistema \cup {"afuera", "finalizado"}]
      /\ proc'[p] = "ejecuta" /\ \A d \in Clientes \ {p} : proc'[d] = proc[d]
      /\ ColasInv'
  BY <1>1, Proc_Cambia DEF EnSistema
<1>3. Interno
  BY <1>1, <1>2 DEF Interno
<1>4. TypeOK'
  <2>1. procer' \in [pc : {"espera", "ejecuta", "avisa", "libera"},
                     img : Clientes \cup {Nadie}]
    BY <1>1
  <2>2. /\ pasos' \in [Clientes -> Nat] /\ LPS' \in Seq(Clientes)
        /\ LFIFO' \in Seq(Clientes) /\ sem' \in [MPS : Nat, MMP : Nat]
        /\ sendingList' \in Seq(AvisoPP) /\ pp' \in {"vivo", "sale", "fin"}
        /\ senales' \in Nat
    BY <1>1, TiposInt DEF IInv
  <2>. QED BY <1>2, <1>3, <2>1, <2>2, Int_Tipos DEF IInv
<1>5. ProcerInv'
  BY <1>1, <1>2 DEF ProcerInv
<1>6. LugaresExactos'
  <2>1. /\ Entran' = Entran /\ Empuja' = Empuja /\ Sale' = 0 /\ Sale = 0
        /\ sem' = sem
    BY <1>1 DEF Entran, Empuja, Sale, UnoSi
  <2>2. /\ UnoSi("ejecuta" \in EnSistema) = 1
        /\ UnoSi("ejecuta" \in Memoria) = 1
        /\ UnoSi(proc[p] \in EnSistema) = 1 /\ UnoSi(proc[p] \in Memoria) = 1
    BY <1>1 DEF UnoSi, EnSistema, Memoria
  <2>3. Mueve(p, "ejecuta")
    BY <1>1, <2>1, <2>2 DEF Mueve
  <2>. QED BY <1>4, <2>3, Lugares DEF IInv
<1>7. MensajesInv' /\ LimpioInv' /\ UltimoInv' /\ AvisadosInv'
  BY <1>1, <1>2, <1>3, Int_Calla
<1>8. ReanudaInv'
  <2>1. \A f \in Fds : PorVenir(f)' = PorVenir(f)
    BY <1>1 DEF PorVenir, Cuenta, UnoSi
  <2>. QED BY <1>1, <1>3, <1>4, <2>1, Int_ReanudaIgual
<1>. QED BY <1>2, <1>3, <1>4, <1>5, <1>6, <1>7, <1>8, Int_Paso

LEMMA Paso_ProcerImprime == ASSUME IInv, ProcerImprime PROVE IInv'
<1> DEFINE p == procer.img
<1>1. /\ UNCHANGED <<pi, red, conex, fd, eventos, lts, caidas>>
      /\ UNCHANGED <<proc, pp, LFIFO, LPS, sem, procer, senales>> /\ pp # "fin"
      /\ procer.pc = "ejecuta" /\ Encola(p, "N")
      /\ pasos' = [pasos EXCEPT ![p] = @ + 1]
  BY DEF ProcerImprime
<1>2. p \in Clientes /\ proc[p] = "ejecuta" /\ fd[p] # 0
  BY <1>1 DEF IInv, ConexInv, ImagenInv, ImagenFd, ProcerInv
<1>3. Interno
  BY <1>1 DEF Interno
<1>. HIDE DEF p
<1>4. TypeOK'
  <2>1. pasos' \in [Clientes -> Nat]
    <3>1. pasos \in [Clientes -> Nat]
      BY TiposInt DEF IInv
    <3>2. pasos[p] + 1 \in Nat
      BY <1>2, <3>1
    <3>. QED BY <1>1, <3>1, <3>2
  <2>2. sendingList' \in Seq(AvisoPP)
    BY <1>1, <1>2, EncolaHace
  <2>3. /\ proc' \in [Clientes -> EnSistema \cup {"afuera", "finalizado"}]
        /\ LFIFO' \in Seq(Clientes) /\ LPS' \in Seq(Clientes)
        /\ sem' \in [MPS : Nat, MMP : Nat] /\ pp' \in {"vivo", "sale", "fin"}
        /\ procer' \in [pc : {"espera", "ejecuta", "avisa", "libera"},
                        img : Clientes \cup {Nadie}]
        /\ senales' \in Nat
    BY <1>1, TiposInt DEF IInv
  <2>. QED BY <1>3, <2>1, <2>2, <2>3, Int_Tipos DEF IInv
<1>5. ColasInv' /\ ProcerInv' /\ LugaresExactos'
  BY <1>1 DEF ColasInv, ProcerInv, LugaresExactos, Cuantos, ImagenInv,
              IInv, ConexInv
<1>6. MensajesInv' /\ LimpioInv' /\ UltimoInv' /\ AvisadosInv'
  BY <1>1, <1>2, <1>3, Int_Dice
<1>7. ReanudaInv'
  <2>1. ASSUME NEW f \in Fds PROVE PorVenir(f)' = PorVenir(f)
    <3>1. Cuenta(sendingList', EsSDe(f))
             = Cuenta(sendingList, EsSDe(f)) + UnoSi("N" = "S" /\ fd[p] = f)
      BY <1>1, <1>2, EncolaCuenta
    <3>2. UnoSi("N" = "S" /\ fd[p] = f) = 0
      BY DEF UnoSi
    <3>3. Cuenta(sendingList, EsSDe(f)) \in Nat
      BY CuentaNat, TiposLista DEF IInv
    <3>4. Cuenta(sendingList', EsSDe(f)) = Cuenta(sendingList, EsSDe(f))
      BY <3>1, <3>2, <3>3
    <3>. QED BY <1>1, <3>4 DEF PorVenir, EsSDe
  <2>. QED BY <1>1, <1>3, <1>4, <2>1, Int_ReanudaIgual
<1>. QED BY <1>3, <1>4, <1>5, <1>6, <1>7, Int_Paso

LEMMA Paso_ProcerDeja == ASSUME IInv, ProcerDeja PROVE IInv'
<1> DEFINE p == procer.img
<1>1. /\ UNCHANGED <<pi, red, conex, fd, sendingList, eventos, lts, caidas>>
      /\ UNCHANGED <<pp, LFIFO, LPS, sem, senales>> /\ pp # "fin"
      /\ procer.pc = "ejecuta" /\ procer' = [pc |-> "espera", img |-> Nadie]
      /\ pasos' = [pasos EXCEPT ![p] = @ + 1]
      /\ proc' = [proc EXCEPT ![p] = "memoria"]
  BY DEF ProcerDeja
<1>2. p \in Clientes /\ proc[p] = "ejecuta"
  BY <1>1 DEF IInv, ConexInv, ImagenInv, ProcerInv
<1>. HIDE DEF p
<1>3. /\ proc' \in [Clientes -> EnSistema \cup {"afuera", "finalizado"}]
      /\ proc'[p] = "memoria" /\ \A d \in Clientes \ {p} : proc'[d] = proc[d]
      /\ ColasInv'
  BY <1>1, <1>2, Proc_Cambia DEF EnSistema
<1>4. Interno
  BY <1>1, <1>2, <1>3 DEF Interno
<1>5. TypeOK'
  <2>1. procer' \in [pc : {"espera", "ejecuta", "avisa", "libera"},
                     img : Clientes \cup {Nadie}]
    BY <1>1
  <2>2. pasos' \in [Clientes -> Nat]
    <3>1. pasos \in [Clientes -> Nat]
      BY TiposInt DEF IInv
    <3>2. pasos[p] + 1 \in Nat
      BY <1>2, <3>1
    <3>. QED BY <1>1, <3>1, <3>2
  <2>3. /\ LPS' \in Seq(Clientes)
        /\ LFIFO' \in Seq(Clientes) /\ sem' \in [MPS : Nat, MMP : Nat]
        /\ sendingList' \in Seq(AvisoPP) /\ pp' \in {"vivo", "sale", "fin"}
        /\ senales' \in Nat
    BY <1>1, TiposInt DEF IInv
  <2>. QED BY <1>3, <1>4, <2>1, <2>2, <2>3, Int_Tipos DEF IInv
<1>6. ProcerInv'
  BY <1>1 DEF ProcerInv
<1>7. LugaresExactos'
  <2>1. /\ Entran' = Entran /\ Empuja' = Empuja /\ Sale' = 0 /\ Sale = 0
        /\ sem' = sem
    BY <1>1 DEF Entran, Empuja, Sale, UnoSi
  <2>2. /\ UnoSi("memoria" \in EnSistema) = 1
        /\ UnoSi("memoria" \in Memoria) = 1
        /\ UnoSi(proc[p] \in EnSistema) = 1 /\ UnoSi(proc[p] \in Memoria) = 1
    BY <1>2 DEF UnoSi, EnSistema, Memoria
  <2>3. Mueve(p, "memoria")
    BY <1>1, <2>1, <2>2 DEF Mueve
  <2>. QED BY <1>2, <1>5, <2>3, Lugares DEF IInv
<1>8. MensajesInv' /\ LimpioInv' /\ UltimoInv' /\ AvisadosInv'
  BY <1>1, <1>3, <1>4, Int_Calla
<1>9. ReanudaInv'
  <2>1. \A f \in Fds : PorVenir(f)' = PorVenir(f)
    BY <1>1 DEF PorVenir, Cuenta, UnoSi
  <2>. QED BY <1>1, <1>4, <1>5, <2>1, Int_ReanudaIgual
<1>. QED BY <1>3, <1>4, <1>5, <1>6, <1>7, <1>8, <1>9, Int_Paso

LEMMA Paso_ProcerSuspende == ASSUME IInv, ProcerSuspende PROVE IInv'
<1> DEFINE p == procer.img
<1>1. /\ UNCHANGED <<pi, red, conex, fd, sendingList, eventos, lts, caidas>>
      /\ UNCHANGED <<pp, pasos, LFIFO>> /\ pp # "fin"
      /\ procer.pc = "ejecuta" /\ procer' = [procer EXCEPT !.pc = "avisa"]
      /\ LPS' = Append(LPS, p) /\ sem' = [sem EXCEPT !.MMP = @ + 1]
      /\ proc' = [proc EXCEPT ![p] = "suspendido"] /\ senales' = senales + 1
  BY DEF ProcerSuspende
<1>2. p \in Clientes /\ proc[p] = "ejecuta"
  BY <1>1 DEF IInv, ConexInv, ImagenInv, ProcerInv
<1>3. procer'.pc = "avisa" /\ procer'.img = p
  BY <1>1, TiposInt DEF IInv
<1>. HIDE DEF p
<1>4. /\ proc' \in [Clientes -> EnSistema \cup {"afuera", "finalizado"}]
      /\ proc'[p] = "suspendido"
      /\ \A d \in Clientes \ {p} : proc'[d] = proc[d]
  BY <1>1, <1>2, Proc_Cambia DEF EnSistema
<1>5. Interno
  BY <1>1, <1>2, <1>4 DEF Interno
<1>6. LPS \in Seq(Clientes)
  BY TiposInt DEF IInv
<1>7. /\ LPS' \in Seq(Clientes)
      /\ \A i \in DOMAIN LPS' : \/ i \in DOMAIN LPS /\ LPS'[i] = LPS[i]
                                \/ i = Len(LPS) + 1 /\ LPS'[i] = p
  BY <1>1, <1>2, <1>6, Agrega
<1>8. /\ sem \in [MPS : Nat, MMP : Nat] /\ sem' \in [MPS : Nat, MMP : Nat]
      /\ sem'.MPS = sem.MPS /\ sem'.MMP = sem.MMP + 1
      /\ sem.MPS \in Nat /\ sem.MMP \in Nat
  <2>1. sem \in [MPS : Nat, MMP : Nat] /\ sem.MMP \in Nat /\ sem.MPS \in Nat
    BY TiposInt DEF IInv
  <2>2. sem.MMP + 1 \in Nat
    BY <2>1
  <2>. QED BY <1>1, <2>1, <2>2
<1>9. TypeOK'
  <2>1. procer' \in [pc : {"espera", "ejecuta", "avisa", "libera"},
                     img : Clientes \cup {Nadie}]
    BY <1>1, TiposInt DEF IInv
  <2>2. senales \in Nat
    BY TiposInt DEF IInv
  <2>3. senales' \in Nat
    BY <1>1, <2>2
  <2>4. /\ LFIFO' \in Seq(Clientes) /\ pasos' \in [Clientes -> Nat]
        /\ sendingList' \in Seq(AvisoPP) /\ pp' \in {"vivo", "sale", "fin"}
    BY <1>1, TiposInt DEF IInv
  <2>. QED BY <1>4, <1>5, <1>7, <1>8, <2>1, <2>3, <2>4, Int_Tipos DEF IInv
<1>10. ProcerInv'
  BY <1>2, <1>3, <1>4 DEF ProcerInv
<1>11. ColasInv'
  <2>1. \A i \in DOMAIN LFIFO : LFIFO[i] \in Clientes
    BY TiposInt DEF IInv
  <2>2. \A i \in DOMAIN LPS : LPS[i] \in Clientes
    BY <1>6
  <2>. QED BY <1>1, <1>2, <1>4, <1>7, <2>1, <2>2
           DEF ColasInv, ImagenInv, IInv, ConexInv
<1>12. LugaresExactos'
  <2>1. Entran' = Entran /\ Empuja' = Empuja /\ Sale' = 0 /\ Sale = 0
    BY <1>1, <1>3 DEF Entran, Empuja, Sale, UnoSi
  <2>2. /\ UnoSi("suspendido" \in EnSistema) = 1
        /\ UnoSi("suspendido" \in Memoria) = 0
        /\ UnoSi(proc[p] \in EnSistema) = 1 /\ UnoSi(proc[p] \in Memoria) = 1
    BY <1>2 DEF UnoSi, EnSistema, Memoria
  <2>3. Entran \in Nat /\ Empuja \in Nat
    BY DEF Entran, Empuja, UnoSi
  <2>4. Mueve(p, "suspendido")
    BY <1>1, <1>8, <2>1, <2>2, <2>3 DEF Mueve
  <2>. QED BY <1>2, <1>9, <2>4, Lugares DEF IInv
<1>13. MensajesInv' /\ LimpioInv' /\ UltimoInv' /\ AvisadosInv'
  BY <1>1, <1>4, <1>5, Int_Calla
<1>14. ReanudaInv'
  <2>1. ASSUME NEW f \in Fds
        PROVE PorVenir(f)' + Cuenta(LPS, DeFd(f))
                 <= PorVenir(f) + Cuenta(LPS', DeFd(f))
    <3>1. Cuenta(LPS', DeFd(f)) = Cuenta(LPS, DeFd(f)) + UnoSi(p \in DeFd(f))
      BY <1>1, <1>2, <1>6, CuentaAgrega
    <3>2. UnoSi(p \in DeFd(f)) = UnoSi(fd[p] = f) /\ UnoSi(fd[p] = f) \in Nat
      BY <1>2 DEF DeFd, UnoSi
    <3>3. PorVenir(f)' = Cuenta(sendingList, EsSDe(f)) + UnoSi(fd[p] = f)
      BY <1>1, <1>3 DEF PorVenir, EsSDe, Cuenta
    <3>4. PorVenir(f) = Cuenta(sendingList, EsSDe(f)) + 0
      BY <1>1 DEF PorVenir, UnoSi
    <3>5. /\ Cuenta(LPS, DeFd(f)) \in Nat
          /\ Cuenta(sendingList, EsSDe(f)) \in Nat
      BY <1>6, CuentaNat, TiposLista DEF IInv
    <3>6. /\ PorVenir(f)' = PorVenir(f) + UnoSi(fd[p] = f)
          /\ Cuenta(LPS', DeFd(f)) = Cuenta(LPS, DeFd(f)) + UnoSi(fd[p] = f)
          /\ PorVenir(f) \in Nat
      BY <3>1, <3>2, <3>3, <3>4, <3>5
    <3>. QED BY <3>2, <3>5, <3>6
  <2>. QED BY <1>5, <1>9, <2>1, Int_Reanuda
<1>. QED BY <1>5, <1>9, <1>10, <1>11, <1>12, <1>13, <1>14, Int_Paso

LEMMA Paso_ProcerAvisaPI == ASSUME IInv, ProcerAvisaPI PROVE IInv'
<1> DEFINE p == procer.img
<1>1. /\ UNCHANGED <<pi, red, conex, fd, eventos, lts, caidas>>
      /\ UNCHANGED <<proc, pp, pasos, LFIFO, LPS, sem, senales>> /\ pp # "fin"
      /\ procer.pc = "avisa" /\ Encola(p, "S")
      /\ procer' = [pc |-> "espera", img |-> Nadie]
  BY DEF ProcerAvisaPI
<1>2. p \in Clientes /\ proc[p] \in {"suspendido", "memoria"} /\ fd[p] # 0
  BY <1>1 DEF IInv, ConexInv, ImagenInv, ImagenFd, ProcerInv
<1>3. Interno
  BY <1>1 DEF Interno
<1>. HIDE DEF p
<1>4. TypeOK'
  <2>1. procer' \in [pc : {"espera", "ejecuta", "avisa", "libera"},
                     img : Clientes \cup {Nadie}]
    BY <1>1
  <2>2. sendingList' \in Seq(AvisoPP)
    BY <1>1, <1>2, EncolaHace
  <2>3. /\ proc' \in [Clientes -> EnSistema \cup {"afuera", "finalizado"}]
        /\ LFIFO' \in Seq(Clientes) /\ LPS' \in Seq(Clientes)
        /\ sem' \in [MPS : Nat, MMP : Nat] /\ pp' \in {"vivo", "sale", "fin"}
        /\ pasos' \in [Clientes -> Nat] /\ senales' \in Nat
    BY <1>1, TiposInt DEF IInv
  <2>. QED BY <1>3, <2>1, <2>2, <2>3, Int_Tipos DEF IInv
<1>5. ColasInv' /\ ProcerInv'
  BY <1>1 DEF ColasInv, ProcerInv, ImagenInv, IInv, ConexInv
<1>6. LugaresExactos'
  <2>1. Sale' = 0 /\ Sale = 0
    BY <1>1 DEF Sale, UnoSi
  <2>. QED BY <1>1, <2>1 DEF LugaresExactos, Cuantos, Sale, IInv
<1>7. MensajesInv' /\ LimpioInv' /\ UltimoInv' /\ AvisadosInv'
  <2>1. /\ proc[p] \notin {"afuera", "finalizado"}
        /\ proc'[p] = "finalizado" <=> "S" = "T"
        /\ \A c \in Clientes \ {p} :
              proc'[c] = "finalizado" => proc[c] = "finalizado"
    BY <1>1, <1>2
  <2>. QED BY <1>1, <1>2, <1>3, <2>1, Int_Dice
<1>8. ReanudaInv'
  <2>1. ASSUME NEW f \in Fds PROVE PorVenir(f)' = PorVenir(f)
    <3>1. Cuenta(sendingList', EsSDe(f))
             = Cuenta(sendingList, EsSDe(f)) + UnoSi("S" = "S" /\ fd[p] = f)
      BY <1>1, <1>2, EncolaCuenta
    <3>2. /\ UnoSi("S" = "S" /\ fd[p] = f) = UnoSi(fd[p] = f)
          /\ UnoSi(fd[p] = f) \in Nat
      BY DEF UnoSi
    <3>3. Cuenta(sendingList, EsSDe(f)) \in Nat
      BY CuentaNat, TiposLista DEF IInv
    <3>4. PorVenir(f)' = Cuenta(sendingList', EsSDe(f)) + 0
      BY <1>1 DEF PorVenir, EsSDe, UnoSi
    <3>5. PorVenir(f) = Cuenta(sendingList, EsSDe(f)) + UnoSi(fd[p] = f)
      BY <1>1 DEF PorVenir, p
    <3>. QED BY <3>1, <3>2, <3>3, <3>4, <3>5
  <2>. QED BY <1>1, <1>3, <1>4, <2>1, Int_ReanudaIgual
<1>. QED BY <1>3, <1>4, <1>5, <1>6, <1>7, <1>8, Int_Paso

LEMMA Paso_ProcerFinaliza == ASSUME IInv, ProcerFinaliza PROVE IInv'
<1> DEFINE p == procer.img
<1>1. /\ UNCHANGED <<pi, red, conex, fd, eventos, lts, caidas>>
      /\ UNCHANGED <<pp, pasos, LFIFO, LPS, sem, senales>> /\ pp # "fin"
      /\ procer.pc = "ejecuta" /\ Encola(p, "T")
      /\ procer' = [procer EXCEPT !.pc = "libera"]
      /\ proc' = [proc EXCEPT ![p] = "finalizado"]
  BY DEF ProcerFinaliza
<1>2. p \in Clientes /\ proc[p] = "ejecuta" /\ fd[p] # 0
  BY <1>1 DEF IInv, ConexInv, ImagenInv, ImagenFd, ProcerInv
<1>3. procer'.pc = "libera" /\ procer'.img = p
  BY <1>1, TiposInt DEF IInv
<1>. HIDE DEF p
<1>4. /\ proc' \in [Clientes -> EnSistema \cup {"afuera", "finalizado"}]
      /\ proc'[p] = "finalizado"
      /\ \A d \in Clientes \ {p} : proc'[d] = proc[d]
      /\ ColasInv'
  BY <1>1, <1>2, Proc_Cambia
<1>5. Interno
  BY <1>1, <1>2, <1>4 DEF Interno
<1>6. TypeOK'
  <2>1. procer' \in [pc : {"espera", "ejecuta", "avisa", "libera"},
                     img : Clientes \cup {Nadie}]
    BY <1>1, TiposInt DEF IInv
  <2>2. sendingList' \in Seq(AvisoPP)
    BY <1>1, <1>2, EncolaHace
  <2>3. /\ LFIFO' \in Seq(Clientes) /\ LPS' \in Seq(Clientes)
        /\ sem' \in [MPS : Nat, MMP : Nat] /\ pp' \in {"vivo", "sale", "fin"}
        /\ pasos' \in [Clientes -> Nat] /\ senales' \in Nat
    BY <1>1, TiposInt DEF IInv
  <2>. QED BY <1>4, <1>5, <2>1, <2>2, <2>3, Int_Tipos DEF IInv
<1>7. ProcerInv'
  BY <1>2, <1>3, <1>4 DEF ProcerInv
<1>8. LugaresExactos'
  <2>1. Entran' = Entran /\ Empuja' = Empuja /\ Sale' = 1 /\ Sale = 0
    BY <1>1, <1>3 DEF Entran, Empuja, Sale, UnoSi
  <2>2. /\ UnoSi("finalizado" \in EnSistema) = 0
        /\ UnoSi("finalizado" \in Memoria) = 0
        /\ UnoSi(proc[p] \in EnSistema) = 1 /\ UnoSi(proc[p] \in Memoria) = 1
    BY <1>2 DEF UnoSi, EnSistema, Memoria
  <2>3. /\ Entran \in Nat /\ Empuja \in Nat
        /\ sem.MPS \in Nat /\ sem.MMP \in Nat /\ sem' = sem
    BY <1>1, TiposInt DEF Entran, Empuja, UnoSi, IInv
  <2>4. Mueve(p, "finalizado")
    BY <1>1, <2>1, <2>2, <2>3 DEF Mueve
  <2>. QED BY <1>2, <1>6, <2>4, Lugares DEF IInv
<1>9. MensajesInv' /\ LimpioInv' /\ UltimoInv' /\ AvisadosInv'
  <2>1. /\ proc[p] \notin {"afuera", "finalizado"}
        /\ proc'[p] = "finalizado" <=> "T" = "T"
        /\ \A c \in Clientes \ {p} :
              proc'[c] = "finalizado" => proc[c] = "finalizado"
    BY <1>2, <1>4
  <2>. QED BY <1>1, <1>2, <1>5, <2>1, Int_Dice
<1>10. ReanudaInv'
  <2>1. ASSUME NEW f \in Fds PROVE PorVenir(f)' = PorVenir(f)
    <3>1. Cuenta(sendingList', EsSDe(f))
             = Cuenta(sendingList, EsSDe(f)) + UnoSi("T" = "S" /\ fd[p] = f)
      BY <1>1, <1>2, EncolaCuenta
    <3>2. UnoSi("T" = "S" /\ fd[p] = f) = 0
      BY DEF UnoSi
    <3>3. Cuenta(sendingList, EsSDe(f)) \in Nat
      BY CuentaNat, TiposLista DEF IInv
    <3>4. PorVenir(f)' = Cuenta(sendingList', EsSDe(f)) + 0
      BY <1>3 DEF PorVenir, EsSDe, UnoSi
    <3>5. PorVenir(f) = Cuenta(sendingList, EsSDe(f)) + 0
      BY <1>1 DEF PorVenir, UnoSi
    <3>. QED BY <3>1, <3>2, <3>3, <3>4, <3>5
  <2>. QED BY <1>1, <1>5, <1>6, <2>1, Int_ReanudaIgual
<1>. QED BY <1>4, <1>5, <1>6, <1>7, <1>8, <1>9, <1>10, Int_Paso

LEMMA Paso_ProcerLibera == ASSUME IInv, ProcerLibera PROVE IInv'
<1> DEFINE p == procer.img
<1>1. /\ UNCHANGED <<pi, red, conex, fd, sendingList, eventos, lts, caidas>>
      /\ UNCHANGED <<proc, pp, pasos, LFIFO, LPS, senales>> /\ pp # "fin"
      /\ procer.pc = "libera" /\ procer' = [pc |-> "espera", img |-> Nadie]
      /\ sem' = [MPS |-> sem.MPS + 1, MMP |-> sem.MMP + 1]
  BY DEF ProcerLibera
<1>2. p \in Clientes /\ proc[p] = "finalizado"
  BY <1>1 DEF IInv, ConexInv, ImagenInv, ProcerInv
<1>3. Interno
  BY <1>1 DEF Interno
<1>. HIDE DEF p
<1>4. /\ sem' \in [MPS : Nat, MMP : Nat]
      /\ sem'.MPS = sem.MPS + 1 /\ sem'.MMP = sem.MMP + 1
      /\ sem.MPS \in Nat /\ sem.MMP \in Nat
  <2>1. sem.MMP \in Nat /\ sem.MPS \in Nat
    BY TiposInt DEF IInv
  <2>2. sem.MMP + 1 \in Nat /\ sem.MPS + 1 \in Nat
    BY <2>1
  <2>. QED BY <1>1, <2>1, <2>2
<1>5. TypeOK'
  <2>1. procer' \in [pc : {"espera", "ejecuta", "avisa", "libera"},
                     img : Clientes \cup {Nadie}]
    BY <1>1
  <2>2. /\ LFIFO' \in Seq(Clientes) /\ LPS' \in Seq(Clientes)
        /\ proc' \in [Clientes -> EnSistema \cup {"afuera", "finalizado"}]
        /\ sendingList' \in Seq(AvisoPP) /\ pp' \in {"vivo", "sale", "fin"}
        /\ pasos' \in [Clientes -> Nat] /\ senales' \in Nat
    BY <1>1, TiposInt DEF IInv
  <2>. QED BY <1>3, <1>4, <2>1, <2>2, Int_Tipos DEF IInv
<1>6. ColasInv' /\ ProcerInv'
  BY <1>1 DEF ColasInv, ProcerInv, ImagenInv, IInv, ConexInv
<1>7. LugaresExactos'
  <2>1. Entran' = Entran /\ Empuja' = Empuja /\ Sale' = 0 /\ Sale = 1
    BY <1>1 DEF Entran, Empuja, Sale, UnoSi
  <2>2. UnoSi(proc[p] \in EnSistema) = 0 /\ UnoSi(proc[p] \in Memoria) = 0
    BY <1>2 DEF UnoSi, EnSistema, Memoria
  <2>3. Entran \in Nat /\ Empuja \in Nat
    BY DEF Entran, Empuja, UnoSi
  <2>4. proc' = [proc EXCEPT ![p] = proc[p]]
    BY <1>1, TiposInt DEF IInv
  <2>5. Mueve(p, proc[p])
    BY <1>4, <2>1, <2>2, <2>3, <2>4 DEF Mueve
  <2>. QED BY <1>2, <1>5, <2>5, Lugares DEF IInv
<1>8. MensajesInv' /\ LimpioInv' /\ UltimoInv' /\ AvisadosInv'
  BY <1>1, <1>3, Int_Calla
<1>9. ReanudaInv'
  <2>1. \A f \in Fds : PorVenir(f)' = PorVenir(f)
    BY <1>1 DEF PorVenir, Cuenta, UnoSi
  <2>. QED BY <1>1, <1>3, <1>5, <2>1, Int_ReanudaIgual
<1>. QED BY <1>3, <1>4, <1>5, <1>6, <1>7, <1>8, <1>9, Int_Paso

-----------------------------------------------------------------------------
(***************************************************************************)
(* LTSconex.                                                               *)
(***************************************************************************)
Evs == [Fds \cup {serverfd} -> {"no", "hup", "in", "out"}]
Lts == [pc : {"epoll", "hand", "script", "push", "demora", "segv"},
        cl : Clientes \cup {Nadie}, fd : Fds \cup {serverfd}]

LEMMA TiposLTS ==
    TypeOK => /\ conex \in [Fds -> Clientes \cup {Nadie}]
              /\ fd \in [Clientes -> Fds \cup {0}]
              /\ eventos \in Evs /\ lts \in Lts
  BY DEF TypeOK, TipoPP, TipoHilos, Evs, Lts

LEMMA LTS_Tipos ==
    ASSUME TypeOK, UNCHANGED <<pi, pasos, procer, pp, senales, caidas>>,
           aPI' \in [Clientes -> Seq(AvisoPI)],
           aPP' \in [Clientes -> Seq(EnvioPI)], backlog' \in Seq(Clientes),
           conex' \in [Fds -> Clientes \cup {Nadie}],
           fd' \in [Clientes -> Fds \cup {0}],
           proc' \in [Clientes -> EnSistema \cup {"afuera", "finalizado"}],
           LFIFO' \in Seq(Clientes), LPS' \in Seq(Clientes),
           sendingList' \in Seq(AvisoPP), sem' \in [MPS : Nat, MMP : Nat],
           eventos' \in Evs, lts' \in Lts
    PROVE TypeOK'
<1>1. TipoPI'
  BY DEF TypeOK, TipoPI, AvisoPI, EnvioPI
<1>2. TipoPP'
  BY DEF TypeOK, TipoPP, AvisoPP
<1>3. TipoHilos'
  BY DEF TypeOK, TipoHilos, Evs, Lts
<1>. QED BY <1>1, <1>2, <1>3 DEF TypeOK

(* A step that changes nothing of the plan.                                *)
LEMMA LTS_Quieto ==
    ASSUME IInv, UNCHANGED <<fd, proc, LFIFO, LPS, sem, procer>>,
           lts.pc \notin {"push", "demora"}, lts'.pc \notin {"push", "demora"}
    PROVE ImagenInv' /\ LugaresExactos'
<1>1. ImagenInv'
  BY DEF ImagenInv, ImagenFd, ColasInv, ProcerInv, Entra, IInv, ConexInv
<1>2. LugaresExactos'
  <2>1. /\ UnoSi(lts.pc \in {"push", "demora"})' = 0
        /\ UnoSi(lts.pc \in {"push", "demora"}) = 0
        /\ UnoSi(lts.pc = "push")' = 0 /\ UnoSi(lts.pc = "push") = 0
    BY DEF UnoSi
  <2>2. /\ UnoSi(procer.pc = "libera")' = UnoSi(procer.pc = "libera")
        /\ \A E : Cuantos(E)' = Cuantos(E)
    BY DEF Cuantos
  <2>. QED BY <2>1, <2>2 DEF LugaresExactos, Cuantos, IInv
<1>. QED BY <1>1, <1>2

LEMMA LTS_Calla ==
    ASSUME IInv, UNCHANGED <<fd, proc, sendingList>>
    PROVE MensajesInv' /\ UltimoInv'
  BY DEF MensajesInv, UltimoInv, IInv, ConexInv

LEMMA PendienteFd ==
    ASSUME IInv, NEW p \in Clientes, Pendiente(p) PROVE fd[p] \in Fds
<1>1. fd[p] # 0
  BY DEF Pendiente, MensajesInv, ImagenInv, ImagenFd, IInv, ConexInv
<1>. QED BY <1>1, TiposLTS DEF IInv

(* Some of the events of the last epoll_wait, handled.                     *)
Menos == \A g \in Fds \cup {serverfd} : eventos'[g] \in {eventos[g], "no"}

LEMMA EventoHace ==
    ASSUME IInv, NEW f \in Fds \cup {serverfd}, NEW t, Evento(f, t)
    PROVE /\ pp # "fin" /\ lts.pc = "epoll" /\ eventos[f] = t
          /\ eventos' \in Evs /\ eventos'[f] = "no" /\ Menos
<1>1. eventos \in Evs
  BY TiposLTS DEF IInv
<1>2. eventos' = [eventos EXCEPT ![f] = "no"]
  BY DEF Evento
<1>. QED BY <1>1, <1>2 DEF Evento, Menos, Evs

(* A step that changes nothing but the events.                             *)
LEMMA LTS_Eventos ==
    ASSUME IInv, eventos' \in Evs, EventosInv', lts.pc = "epoll",
           UNCHANGED <<pi, red, conex, fd, plan, sendingList, lts, pp, caidas>>
    PROVE IInv'
<1>1. /\ UNCHANGED <<pi, aPI, aPP, backlog, conex, fd, sendingList, lts, pp,
                     caidas>>
      /\ UNCHANGED <<proc, pasos, LFIFO, LPS, sem, procer, senales>>
  BY DEF red, plan
<1>2. TypeOK'
  BY <1>1, LTS_Tipos, TiposLTS, TiposInt, TiposPI DEF IInv
<1>3. RedInv' /\ LtsInv'
  BY <1>1 DEF RedInv, Abierta, LtsInv, IInv, ConexInv
<1>4. FasesInv' /\ AbiertasInv' /\ RespuestaPrimero' /\ NadieDesconectado'
  <2>1. \A d \in Clientes : DelC(d)
    BY LosDelC DEF IInv, ConexInv
  <2>2. \A d \in Clientes : DelC(d)'
    BY <1>1, <2>1, OtroIgual
  <2>. QED BY <2>2, LosDelCDespues
<1>5. ImagenInv' /\ LugaresExactos' /\ MensajesInv' /\ UltimoInv'
  BY <1>1, LTS_Quieto, LTS_Calla
<1>6. AvisosPropios' /\ LimpioInv' /\ AvisadosInv'
  BY <1>1 DEF AvisosPropios, LimpioInv, Sucio, Pendiente, AvisadosInv,
              Avisado, Ido, IInv, ConexInv
<1>7. ReanudaInv'
  <2>1. /\ lts.pc # "segv"
        /\ \A f \in Fds : PorVenir(f) + EnCamino(f) <= Cuenta(LPS, DeFd(f))
    BY DEF ReanudaInv, IInv, ConexInv
  <2>2. ASSUME NEW f \in Fds
        PROVE /\ PorVenir(f)' = PorVenir(f) /\ EnCamino(f)' = EnCamino(f)
              /\ DeFd(f)' = DeFd(f)
    BY <1>1 DEF PorVenir, EnCamino, DeFd
  <2>. QED BY <1>1, <2>1, <2>2 DEF ReanudaInv
<1>. QED BY <1>2, <1>3, <1>4, <1>5, <1>6, <1>7 DEF IInv, ConexInv

LEMMA EventosMenos ==
    ASSUME IInv, Menos, UNCHANGED <<pi, aPP, backlog, conex>>
    PROVE EventosInv'
<1>1. /\ eventos'[serverfd] # "no" => backlog # <<>>
      /\ \A f \in Fds : eventos'[f] # "no" =>
            /\ conex[f] \in Clientes
            /\ eventos'[f] = "in" => aPP[conex[f]] # <<>>
            /\ eventos'[f] = "hup" => Ido(conex[f])
  BY DEF Menos, EventosInv, IInv, ConexInv
<1>. QED BY <1>1 DEF EventosInv, Ido

LEMMA Paso_LTSPosterga ==
    ASSUME IInv, NEW f \in Fds, LTSPosterga(f) PROVE IInv'
<1>1. /\ Evento(f, "in")
      /\ UNCHANGED <<pi, red, conex, fd, plan, sendingList, lts, pp, caidas>>
  BY DEF LTSPosterga
<1>2. eventos' \in Evs /\ Menos /\ lts.pc = "epoll"
  BY <1>1, EventoHace
<1>3. EventosInv'
  BY <1>1, <1>2, EventosMenos DEF red
<1>. QED BY <1>1, <1>2, <1>3, LTS_Eventos

LEMMA Paso_EpollWait == ASSUME IInv, EpollWait PROVE IInv'
<1>1. /\ lts.pc = "epoll" /\ eventos' = [f \in DOMAIN eventos |-> Listo(f)]
      /\ UNCHANGED <<pi, red, conex, fd, plan, sendingList, lts, pp, caidas>>
  BY DEF EpollWait
<1>2. DOMAIN eventos = Fds \cup {serverfd}
  BY TiposLTS DEF IInv, Evs
<1>3. \A f : Listo(f) \in {"no", "hup", "in", "out"}
  BY DEF Listo
<1>4. eventos' \in Evs
  BY <1>1, <1>2, <1>3 DEF Evs
<1>5. EventosInv'
  <2>1. eventos'[serverfd] # "no" => backlog # <<>>
    BY <1>1, <1>2 DEF Listo
  <2>2. ASSUME NEW f \in Fds, eventos'[f] # "no"
        PROVE /\ conex[f] \in Clientes
              /\ eventos'[f] = "in" => aPP[conex[f]] # <<>>
              /\ eventos'[f] = "hup" => Ido(conex[f])
    <3>1. f # serverfd /\ eventos'[f] = Listo(f)
      BY <1>1, <1>2, LosFds
    <3>2. conex[f] \in Clientes \cup {Nadie}
      BY TiposLTS DEF IInv
    <3>. QED BY <2>2, <3>1, <3>2 DEF Listo
  <2>3. UNCHANGED <<pi, aPP, backlog, conex>>
    BY <1>1 DEF red
  <2>. QED BY <2>1, <2>2, <2>3 DEF EventosInv, Ido
<1>. QED BY <1>1, <1>4, <1>5, LTS_Eventos

(* LTSconex closes f, which is the connection of c.                        *)
Cerrando(f, c) ==
    /\ Cierra(f) /\ conex[f] = c /\ pp # "fin"
    /\ UNCHANGED <<pi, backlog, fd, pp>>
    /\ \A d \in Clientes \ {c} : aPI'[d] = aPI[d]
    /\ \/ lts.pc = "epoll" /\ lts' = lts
       \/ lts.pc \in {"hand", "script"} /\ lts.fd = f /\ lts' = EnEpoll
    /\ Menos /\ eventos'[f] = "no"

LEMMA CierraHace ==
    ASSUME IInv, NEW f \in Fds, NEW c \in Clientes, Cerrando(f, c)
    PROVE /\ conex' \in [Fds -> Clientes \cup {Nadie}] /\ conex'[f] = Nadie
          /\ \A g \in Fds \ {f} : conex'[g] = conex[g] /\ conex[g] # c
          /\ aPP' \in [Clientes -> Seq(EnvioPI)] /\ aPP'[c] = <<>>
          /\ \A d \in Clientes \ {c} : aPP'[d] = aPP[d]
          /\ c # Nadie /\ ~ EnCola(c)
<1>1. /\ conex \in [Fds -> Clientes \cup {Nadie}] /\ c # Nadie
      /\ aPP \in [Clientes -> Seq(EnvioPI)] /\ <<>> \in Seq(EnvioPI)
  BY TiposLTS, TiposPI, ClientesAssumption DEF IInv
<1>2. conex[f] = c /\ conex' = [conex EXCEPT ![f] = Nadie]
  BY DEF Cerrando, Cierra
<1>3. aPP' = [aPP EXCEPT ![c] = <<>>]
  BY DEF Cerrando, Cierra
<1>4. \A g \in Fds \ {f} : conex[g] # c
  BY <1>1, <1>2 DEF RedInv, IInv, ConexInv
<1>5. ~ EnCola(c)
  BY <1>2 DEF RedInv, EnCola, IInv, ConexInv
<1>6. /\ conex' \in [Fds -> Clientes \cup {Nadie}] /\ conex'[f] = Nadie
      /\ \A g \in Fds \ {f} : conex'[g] = conex[g]
  BY <1>1, <1>2
<1>7. /\ aPP' \in [Clientes -> Seq(EnvioPI)] /\ aPP'[c] = <<>>
      /\ \A d \in Clientes \ {c} : aPP'[d] = aPP[d]
  BY <1>1, <1>3
<1>. QED BY <1>1, <1>4, <1>5, <1>6, <1>7

LEMMA Cierre_Red ==
    ASSUME IInv, NEW f \in Fds, NEW c \in Clientes, Cerrando(f, c)
    PROVE RedInv' /\ EventosInv' /\ LtsInv'
<1>1. /\ conex'[f] = Nadie /\ c # Nadie
      /\ \A g \in Fds \ {f} : conex'[g] = conex[g] /\ conex[g] # c
      /\ \A d \in Clientes \ {c} : aPP'[d] = aPP[d]
  BY CierraHace
<1>2. /\ UNCHANGED <<pi, backlog, pp>> /\ pp # "fin"
      /\ Menos /\ eventos'[f] = "no"
  BY DEF Cerrando
<1>3. conex \in [Fds -> Clientes \cup {Nadie}] /\ backlog \in Seq(Clientes)
  BY TiposLTS, TiposPI DEF IInv
<1>4. RedInv'
  <2>1. \A g, h \in Fds : conex'[g] = conex'[h] /\ conex'[g] # Nadie => g = h
    BY <1>1 DEF RedInv, IInv, ConexInv
  <2>2. \A g \in Fds : \A i \in DOMAIN backlog : conex'[g] # backlog[i]
    <3>1. \A i \in DOMAIN backlog : backlog[i] \in Clientes
      BY <1>3
    <3>. QED BY <1>1, <3>1, ClientesAssumption DEF RedInv, IInv, ConexInv
  <2>3. \A d \in Clientes : pi[d] = "afuera" => ~ Abierta(d)'
    <3>1. \A d \in Clientes : Abierta(d)' => Abierta(d)
      BY <1>1, <1>2, ClientesAssumption DEF Abierta
    <3>. QED BY <3>1 DEF RedInv, IInv, ConexInv
  <2>. QED BY <1>2, <2>1, <2>2, <2>3 DEF RedInv, IInv, ConexInv
<1>5. EventosInv'
  <2>1. eventos'[serverfd] # "no" => backlog # <<>>
    BY <1>2 DEF Menos, EventosInv, IInv, ConexInv
  <2>2. ASSUME NEW g \in Fds, eventos'[g] # "no"
        PROVE /\ conex'[g] \in Clientes
              /\ eventos'[g] = "in" => aPP'[conex'[g]] # <<>>
              /\ eventos'[g] = "hup" => Ido(conex'[g])
    <3>1. g # f /\ eventos'[g] = eventos[g]
      BY <1>2, <2>2 DEF Menos
    <3>2. conex'[g] = conex[g] /\ conex[g] # c
      BY <1>1, <3>1
    <3>. QED BY <1>1, <2>2, <3>1, <3>2 DEF EventosInv, IInv, ConexInv
  <2>. QED BY <1>2, <2>1, <2>2 DEF EventosInv, Ido
<1>6. LtsInv'
  BY DEF Cerrando, LtsInv, EnEpoll
<1>. QED BY <1>4, <1>5, <1>6

LEMMA Cierre_Fases ==
    ASSUME IInv, NEW f \in Fds, NEW c \in Clientes, Cerrando(f, c),
           Fase(c)', RespuestaDe(c)', AbiertaDe(c)'
    PROVE FasesInv' /\ AbiertasInv' /\ RespuestaPrimero' /\ NadieDesconectado'
<1>1. /\ conex'[f] = Nadie /\ c # Nadie /\ ~ EnCola(c)
      /\ \A g \in Fds \ {f} : conex'[g] = conex[g] /\ conex[g] # c
      /\ \A d \in Clientes \ {c} : aPP'[d] = aPP[d]
  BY CierraHace
<1>2. /\ UNCHANGED <<pi, backlog, fd, pp>> /\ pp # "fin" /\ conex[f] = c
      /\ \A d \in Clientes \ {c} : aPI'[d] = aPI[d]
  BY DEF Cerrando
<1>3. lts'.pc = "epoll"
  BY DEF Cerrando, EnEpoll
<1>4. \A d \in Clientes : DelC(d)
  BY LosDelC DEF IInv, ConexInv
<1>5. DelC(c)'
  <2>1. FaseNuevo(c)' /\ FaseDentro(c)'
    BY <1>1, <1>2, <1>3
       DEF FaseNuevo, FaseDentro, EnCola, EnMano, EnScript
  <2>. QED BY <1>2, <1>4, <2>1 DEF DelC
<1>6. ASSUME NEW d \in Clientes, d # c PROVE DelC(d)'
  <2>1. DelC(d) /\ pi'[d] = pi[d] /\ aPI'[d] = aPI[d] /\ aPP'[d] = aPP[d]
    BY <1>1, <1>2, <1>4, <1>6
  <2>2. ~ EnMano(d) /\ ~ EnScript(d)
    <3>1. CASE lts.pc = "epoll"
      BY <3>1 DEF EnMano, EnScript
    <3>2. CASE lts.pc \in {"hand", "script"} /\ lts.fd = f
      <4>1. lts.cl = c
        BY <1>2, <3>2 DEF LtsInv, IInv, ConexInv
      <4>. QED BY <1>6, <4>1 DEF EnMano, EnScript
    <3>. QED BY <3>1, <3>2 DEF Cerrando
  <2>3. Fase(d)' /\ RespuestaDe(d)'
    BY <1>2, <2>1 DEF DelC, Fase, RespuestaDe
  <2>4. FaseNuevo(d)'
    BY <1>2, <1>3, <2>1 DEF DelC, FaseNuevo, EnCola, EnMano, EnScript
  <2>5. FaseDentro(d)'
    <3>1. \A g \in Fds : conex'[g] = d => conex[g] = d
      BY <1>1, ClientesAssumption
    <3>. QED BY <1>2, <2>1, <2>2, <3>1 DEF DelC, FaseDentro
  <2>6. AbiertaDe(d)'
    <3>1. Abierta(d) => Abierta(d)'
      BY <1>1, <1>2, <1>6 DEF Abierta
    <3>. QED BY <1>2, <2>1, <3>1 DEF DelC, AbiertaDe
  <2>. QED BY <1>2, <2>1, <2>3, <2>4, <2>5, <2>6 DEF DelC
<1>7. \A d \in Clientes : DelC(d)'
  BY <1>5, <1>6
<1>. QED BY <1>7, LosDelCDespues

LEMMA Cierre_Ido ==
    ASSUME IInv, NEW f \in Fds, NEW c \in Clientes, Cerrando(f, c),
           Ido(c), aPI'[c] = aPI[c]
    PROVE Fase(c)' /\ RespuestaDe(c)' /\ AbiertaDe(c)'
<1>1. DelC(c)
  BY LosDelC DEF IInv, ConexInv
<1>2. UNCHANGED <<pi, fd>> /\ pi[c] \in Idos /\ aPP'[c] = <<>>
  BY CierraHace DEF Cerrando, Ido
<1>3. Fase(c)' /\ RespuestaDe(c)'
  BY <1>1, <1>2 DEF DelC, Fase, RespuestaDe
<1>4. AbiertaDe(c)'
  BY <1>2 DEF AbiertaDe, Idos
<1>. QED BY <1>3, <1>4

(* The process of a client that is there is not by the closed connection.  *)
LEMMA Cierre_Limpio ==
    ASSUME IInv, NEW f \in Fds, NEW c \in Clientes, Cerrando(f, c),
           Ido(c) \/ fd[c] = 0,
           NEW p \in Clientes, ~ Sucio(fd[p]), Pendiente(p)
    PROVE /\ conex'[fd[p]] = p /\ pi[p] # "fin" /\ p # c
          /\ \A j \in DOMAIN aPI[p] : aPI[p][j].tipo # "T"
<1>1. fd[p] \in Fds /\ fd[p] # 0
  BY PendienteFd, LosFds
<1>2. pp # "fin" /\ conex[f] = c
  BY DEF Cerrando
<1>3. /\ conex[fd[p]] = p /\ pi[p] # "fin"
      /\ \A j \in DOMAIN aPI[p] : aPI[p][j].tipo # "T"
  BY <1>2 DEF LimpioInv, IInv, ConexInv
<1>4. fd[p] # f
  <2>1. ASSUME fd[p] = f PROVE FALSE
    <3>1. p = c /\ Ido(p)
      BY <1>1, <1>2, <1>3, <2>1
    <3>2. pi[p] # "rechazado"
      <4>1. Fase(p)
        BY DEF FasesInv, IInv, ConexInv
      <4>. QED BY <1>1, <4>1 DEF Fase
    <3>3. pi[p] # "error"
      BY <1>2 DEF NadieDesconectado, IInv
    <3>4. pi[p] # "caido"
      BY DEF Sucio
    <3>. QED BY <1>3, <3>1, <3>2, <3>3, <3>4 DEF Ido, Idos
  <2>. QED BY <2>1
<1>5. conex'[fd[p]] = conex[fd[p]] /\ conex[fd[p]] # c
  BY <1>1, <1>4, CierraHace
<1>. QED BY <1>3, <1>5

LEMMA Cierre_Camino ==
    ASSUME IInv, NEW f \in Fds, NEW c \in Clientes, Cerrando(f, c)
    PROVE /\ EnCamino(f)' = 0
          /\ \A g \in Fds \ {f} : EnCamino(g)' = EnCamino(g)
<1>1. /\ conex'[f] = Nadie
      /\ \A g \in Fds \ {f} : conex'[g] = conex[g] /\ conex[g] # c
      /\ \A d \in Clientes \ {c} : aPP'[d] = aPP[d]
  BY CierraHace
<1>2. pi' = pi /\ \A d \in Clientes \ {c} : aPI'[d] = aPI[d]
  BY DEF Cerrando
<1>3. conex \in [Fds -> Clientes \cup {Nadie}]
  BY TiposLTS DEF IInv
<1>4. EnCamino(f)' = 0
  BY <1>1 DEF EnCamino
<1>5. ASSUME NEW g \in Fds \ {f} PROVE EnCamino(g)' = EnCamino(g)
  <2>1. conex'[g] = conex[g] /\ conex[g] # c
    BY <1>1
  <2>2. CASE conex[g] = Nadie
    BY <2>1, <2>2 DEF EnCamino
  <2>3. CASE conex[g] # Nadie
    <3>1. conex[g] \in Clientes \ {c}
      BY <1>3, <2>1, <2>3
    <3>2. /\ aPP'[conex[g]] = aPP[conex[g]] /\ aPI'[conex[g]] = aPI[conex[g]]
          /\ pi'[conex[g]] = pi[conex[g]]
      BY <1>1, <1>2, <3>1
    <3>. QED BY <2>1, <2>3, <3>2 DEF EnCamino, Del, Cuenta, EsS
  <2>. QED BY <2>2, <2>3
<1>. QED BY <1>4, <1>5

LEMMA LTS_Reanuda ==
    ASSUME IInv, TypeOK', lts'.pc # "segv",
           UNCHANGED <<sendingList, procer, fd, LPS>>,
           \A f \in Fds : EnCamino(f)' <= EnCamino(f)
    PROVE ReanudaInv'
<1>1. ASSUME NEW f \in Fds
      PROVE PorVenir(f)' + EnCamino(f)' <= Cuenta(LPS', DeFd(f)')
  <2>1. PorVenir(f) + EnCamino(f) <= Cuenta(LPS, DeFd(f))
    BY DEF ReanudaInv, IInv, ConexInv
  <2>2. /\ PorVenir(f) \in Nat /\ EnCamino(f) \in Nat /\ EnCamino(f)' \in Nat
        /\ Cuenta(LPS, DeFd(f)) \in Nat
    BY CuentasNat, CuentasNatDespues DEF IInv
  <2>3. PorVenir(f)' = PorVenir(f) /\ DeFd(f)' = DeFd(f)
    BY DEF PorVenir, Cuenta, EsSDe, DeFd
  <2>4. EnCamino(f)' <= EnCamino(f)
    OBVIOUS
  <2>5. PorVenir(f) + EnCamino(f)' <= Cuenta(LPS, DeFd(f))
    BY <2>1, <2>2, <2>4
  <2>. QED BY <2>3, <2>5
<1>. QED BY <1>1 DEF ReanudaInv

LEMMA LTS_Avisos ==
    ASSUME IInv, UNCHANGED <<pi, fd, proc, sendingList, pp>>,
           \A d \in Clientes : \A i \in DOMAIN aPI[d] :
              \E j \in DOMAIN aPI'[d] : aPI'[d][j] = aPI[d][i],
           \A d \in Clientes : \A i \in DOMAIN aPI'[d] :
              \/ aPI'[d][i].de = d
              \/ \E j \in DOMAIN aPI[d] : aPI'[d][i] = aPI[d][j]
    PROVE AvisadosInv' /\ AvisosPropios'
<1>1. ASSUME NEW d \in Clientes, Avisado(d) PROVE Avisado(d)'
  <2>1. CASE \E i \in DOMAIN sendingList :
                sendingList[i] = [fd |-> fd[d], tipo |-> "T", de |-> d]
    BY <2>1 DEF Avisado
  <2>2. CASE \E i \in DOMAIN aPI[d] : aPI[d][i] = Msg("T", d)
    BY <2>2 DEF Avisado, Msg
  <2>3. CASE Ido(d)
    BY <2>3 DEF Avisado, Ido
  <2>. QED BY <1>1, <2>1, <2>2, <2>3 DEF Avisado
<1>2. AvisadosInv'
  BY <1>1 DEF AvisadosInv, IInv, ConexInv
<1>3. AvisosPropios'
  BY DEF AvisosPropios, Sucio, IInv
<1>. QED BY <1>2, <1>3

LEMMA LTS_Limpio ==
    ASSUME IInv, UNCHANGED <<pi, fd, proc, sendingList, pp>>,
           \A p \in Clientes : ~ Sucio(fd[p]) /\ Pendiente(p) =>
              /\ conex'[fd[p]] = p /\ pi[p] # "fin"
              /\ \A j \in DOMAIN aPI'[p] : aPI'[p][j].tipo # "T"
    PROVE LimpioInv'
  BY DEF LimpioInv, Sucio, Pendiente

(* LTSconex closes the connection of a client that has gone.               *)
LEMMA Cierre_Todo ==
    ASSUME IInv, eventos' \in Evs, NEW f \in Fds, NEW c \in Clientes,
           Cerrando(f, c), Ido(c),
           UNCHANGED <<aPI, sendingList, plan, caidas>>
    PROVE IInv'
<1>1. /\ UNCHANGED <<aPI, sendingList, caidas, pi, backlog, fd, pp>>
      /\ UNCHANGED <<proc, pasos, LFIFO, LPS, sem, procer, senales>>
      /\ \/ lts.pc = "epoll" /\ lts' = lts
         \/ lts.pc \in {"hand", "script"} /\ lts.fd = f /\ lts' = EnEpoll
  BY DEF Cerrando, plan
<1>2. /\ conex' \in [Fds -> Clientes \cup {Nadie}]
      /\ aPP' \in [Clientes -> Seq(EnvioPI)]
  BY CierraHace
<1>3. lts' \in Lts /\ lts'.pc = "epoll"
  BY <1>1, TiposLTS DEF IInv, EnEpoll, Lts
<1>4. TypeOK'
  BY <1>1, <1>2, <1>3, LTS_Tipos, TiposLTS, TiposInt, TiposPI DEF IInv
<1>5. RedInv' /\ EventosInv' /\ LtsInv'
  BY Cierre_Red
<1>6. FasesInv' /\ AbiertasInv' /\ RespuestaPrimero' /\ NadieDesconectado'
  BY <1>1, Cierre_Fases, Cierre_Ido
<1>7. ImagenInv' /\ LugaresExactos' /\ MensajesInv' /\ UltimoInv'
  BY <1>1, <1>3, LTS_Quieto, LTS_Calla
<1>8. AvisosPropios' /\ AvisadosInv'
  BY <1>1, LTS_Avisos
<1>9. LimpioInv'
  <2>1. ASSUME NEW p \in Clientes, ~ Sucio(fd[p]), Pendiente(p)
        PROVE /\ conex'[fd[p]] = p /\ pi[p] # "fin"
              /\ \A j \in DOMAIN aPI'[p] : aPI'[p][j].tipo # "T"
    BY <1>1, <2>1, Cierre_Limpio
  <2>. QED BY <1>1, <2>1, LTS_Limpio
<1>10. ReanudaInv'
  <2>1. \A g \in Fds : EnCamino(g) \in Nat
    BY CuentasNat DEF IInv
  <2>2. \A g \in Fds : EnCamino(g)' <= EnCamino(g)
    BY <2>1, Cierre_Camino
  <2>. QED BY <1>1, <1>3, <1>4, <2>2, LTS_Reanuda
<1>. QED BY <1>4, <1>5, <1>6, <1>7, <1>8, <1>9, <1>10 DEF IInv, ConexInv

LEMMA Paso_LTSCierra ==
    ASSUME IInv, NEW f \in Fds, LTSCierra(f) PROVE IInv'
<1>1. /\ Evento(f, "hup") /\ Cierra(f)
      /\ UNCHANGED <<pi, aPI, backlog, fd, plan, sendingList, lts, pp, caidas>>
  BY DEF LTSCierra
<1>2. /\ pp # "fin" /\ lts.pc = "epoll" /\ eventos[f] = "hup"
      /\ eventos' \in Evs /\ eventos'[f] = "no" /\ Menos
  BY <1>1, EventoHace
<1>3. conex[f] \in Clientes /\ Ido(conex[f])
  BY <1>2 DEF EventosInv, IInv, ConexInv
<1>4. Cerrando(f, conex[f])
  BY <1>1, <1>2 DEF Cerrando
<1>. QED BY <1>1, <1>2, <1>3, <1>4, Cierre_Todo

(* LTSconex with a client in its hands.                                    *)
LEMMA EnLasManos ==
    ASSUME IInv, lts.pc \in {"hand", "script", "push", "demora"}, pp # "fin"
    PROVE /\ lts.cl \in Clientes /\ lts.fd \in Fds /\ conex[lts.fd] = lts.cl
          /\ eventos[lts.fd] = "no" /\ ~ EnCola(lts.cl) /\ DelC(lts.cl)
          /\ \A g \in Fds : conex[g] = lts.cl => g = lts.fd
<1>1. /\ lts.cl \in Clientes /\ lts.fd \in Fds /\ conex[lts.fd] = lts.cl
      /\ eventos[lts.fd] = "no"
  BY DEF LtsInv, IInv, ConexInv
<1>2. lts.cl # Nadie
  BY <1>1, ClientesAssumption
<1>3. /\ ~ EnCola(lts.cl)
      /\ \A g \in Fds : conex[g] = lts.cl => g = lts.fd
  BY <1>1, <1>2 DEF RedInv, EnCola, IInv, ConexInv
<1>4. DelC(lts.cl)
  BY <1>1, LosDelC DEF IInv, ConexInv
<1>. QED BY <1>1, <1>3, <1>4

LEMMA LTS_CierraManos ==
    ASSUME IInv, lts.pc \in {"hand", "script"}, pp # "fin", Cierra(lts.fd),
           lts' = EnEpoll, Ido(lts.cl),
           UNCHANGED <<pi, aPI, backlog, fd, plan, sendingList, eventos, pp,
                       caidas>>
    PROVE IInv'
<1>1. /\ lts.cl \in Clientes /\ lts.fd \in Fds /\ conex[lts.fd] = lts.cl
      /\ eventos[lts.fd] = "no" /\ eventos \in Evs
  BY EnLasManos, TiposLTS DEF IInv
<1>2. Menos
  BY DEF Menos
<1>3. Cerrando(lts.fd, lts.cl)
  BY <1>1, <1>2 DEF Cerrando
<1>. QED BY <1>1, <1>3, Cierre_Todo

LEMMA Paso_LTSSinScript == ASSUME IInv, LTSSinScript PROVE IInv'
  BY LTS_CierraManos DEF LTSSinScript

(* What is written to a client that has nothing to read.                   *)
LEMMA EscribeVacio ==
    ASSUME IInv, NEW c \in Clientes, NEW m \in AvisoPI, Escribe(c, m),
           aPI[c] = <<>>, m.tipo # "S"
    PROVE /\ aPI' \in [Clientes -> Seq(AvisoPI)]
          /\ \A d \in Clientes \ {c} : aPI'[d] = aPI[d]
          /\ aPI'[c] = IF Ido(c) THEN <<>> ELSE <<m>>
          /\ \A i \in DOMAIN aPI'[c] : i = 1 /\ aPI'[c][i] = m
          /\ ~ Ido(c) => 1 \in DOMAIN aPI'[c]
          /\ Cuenta(aPI'[c], EsS) = 0
<1>1. aPI \in [Clientes -> Seq(AvisoPI)] /\ <<m>> \in Seq(AvisoPI)
  BY TiposPI DEF IInv
<1>2. Append(<<>>, m) = <<m>>
  OBVIOUS
<1>3. aPI' = [aPI EXCEPT ![c] = IF Ido(c) THEN @ ELSE Append(@, m)]
  BY DEF Escribe
<1>4. aPI' = [aPI EXCEPT ![c] = IF Ido(c) THEN <<>> ELSE <<m>>]
  BY <1>1, <1>2, <1>3
<1>5. <<>> \in Seq(AvisoPI)
  OBVIOUS
<1>6. /\ aPI' \in [Clientes -> Seq(AvisoPI)]
      /\ \A d \in Clientes \ {c} : aPI'[d] = aPI[d]
      /\ aPI'[c] = IF Ido(c) THEN <<>> ELSE <<m>>
  BY <1>1, <1>4, <1>5
<1>7. /\ \A i \in DOMAIN aPI'[c] : i = 1 /\ aPI'[c][i] = m
      /\ ~ Ido(c) => 1 \in DOMAIN aPI'[c]
  <2>1. DOMAIN <<m>> = {1} /\ <<m>>[1] = m /\ DOMAIN <<>> = {}
    OBVIOUS
  <2>. QED BY <1>6, <2>1
<1>8. Cuenta(aPI'[c], EsS) = 0
  <2>1. aPI'[c] \in Seq(AvisoPI)
    BY <1>6
  <2>2. \A i \in DOMAIN aPI'[c] : aPI'[c][i] \notin EsS
    BY <1>7 DEF EsS
  <2>. QED BY <2>1, <2>2, CuentaNat
<1>. QED BY <1>6, <1>7, <1>8

(* LTSconex goes on with the client c that it has in its hands.            *)
Sostiene(c, x) ==
    /\ lts.pc \in {"hand", "script"} /\ lts.cl = c /\ pp # "fin"
    /\ lts' = [lts EXCEPT !.pc = x] /\ x \in {"script", "push", "demora"}
    /\ UNCHANGED <<pi, backlog, conex, eventos, pp>>
    /\ \A d \in Clientes \ {c} :
          aPI'[d] = aPI[d] /\ aPP'[d] = aPP[d] /\ fd'[d] = fd[d]

LEMMA Sostiene_Lts ==
    ASSUME IInv, NEW c \in Clientes, NEW x, Sostiene(c, x)
    PROVE lts' \in Lts /\ lts'.pc = x /\ lts'.cl = c /\ lts'.fd = lts.fd
  BY TiposLTS DEF Sostiene, Lts, IInv

LEMMA Sostiene_Red ==
    ASSUME IInv, NEW c \in Clientes, NEW x, Sostiene(c, x)
    PROVE /\ RedInv' /\ EventosInv' /\ LtsInv'
          /\ \A d \in Clientes \ {c} : DelC(d)'
<1>1. /\ lts.cl = c /\ lts.pc \in {"hand", "script"} /\ pp # "fin"
      /\ UNCHANGED <<pi, backlog, conex, eventos, pp>>
      /\ \A d \in Clientes \ {c} :
            aPI'[d] = aPI[d] /\ aPP'[d] = aPP[d] /\ fd'[d] = fd[d]
  BY DEF Sostiene
<1>2. /\ lts.fd \in Fds /\ conex[lts.fd] = c /\ eventos[lts.fd] = "no"
      /\ \A g \in Fds : conex[g] = c => g = lts.fd
  BY <1>1, EnLasManos
<1>3. /\ lts'.pc = x /\ lts'.cl = c /\ lts'.fd = lts.fd
      /\ x \in {"script", "push", "demora"}
  BY Sostiene_Lts DEF Sostiene
<1>4. RedInv'
  BY <1>1 DEF RedInv, Abierta, IInv, ConexInv
<1>5. EventosInv'
  <2>1. \A f \in Fds : eventos[f] # "no" =>
           conex[f] \in Clientes \ {c} /\ aPP'[conex[f]] = aPP[conex[f]]
    BY <1>1, <1>2 DEF EventosInv, IInv, ConexInv
  <2>. QED BY <1>1, <2>1 DEF EventosInv, Ido, IInv, ConexInv
<1>6. LtsInv'
  BY <1>1, <1>2, <1>3 DEF LtsInv
<1>7. ASSUME NEW d \in Clientes \ {c} PROVE DelC(d)'
  <2>1. /\ DelC(d) /\ pi'[d] = pi[d] /\ aPI'[d] = aPI[d]
        /\ aPP'[d] = aPP[d] /\ fd'[d] = fd[d]
    BY <1>1, LosDelC DEF IInv, ConexInv
  <2>2. /\ ~ EnMano(d) /\ ~ EnScript(d) /\ ~ EnMano(d)' /\ ~ EnScript(d)'
        /\ EnCola(d)' <=> EnCola(d)
    BY <1>1, <1>3 DEF EnMano, EnScript, EnCola
  <2>3. Fase(d)' /\ RespuestaDe(d)'
    BY <2>1 DEF DelC, Fase, RespuestaDe
  <2>4. FaseNuevo(d)' /\ FaseDentro(d)' /\ AbiertaDe(d)'
    BY <1>1, <2>1, <2>2
       DEF DelC, FaseNuevo, FaseDentro, AbiertaDe, Abierta
  <2>. QED BY <1>1, <2>1, <2>3, <2>4 DEF DelC
<1>. QED BY <1>4, <1>5, <1>6, <1>7

(* makeHandshake with c, whether c sends its code or has gone.             *)
Saluda(c) ==
    /\ lts.pc = "hand" /\ lts.cl = c /\ pp # "fin"
    /\ lts' = [lts EXCEPT !.pc = "script"]
    /\ UNCHANGED <<pi, backlog, conex, fd, plan, sendingList, eventos, pp,
                   caidas>>
    /\ \/ /\ aPP[c] # <<>> /\ aPP' = [aPP EXCEPT ![c] = Tail(@)]
          /\ Escribe(c, Msg("!", c))
       \/ aPP[c] = <<>> /\ Ido(c) /\ UNCHANGED <<aPI, aPP>>

LEMMA Paso_Handshake ==
    ASSUME IInv, NEW c \in Clientes, Saluda(c) PROVE IInv'
<1>0. /\ lts.pc = "hand" /\ lts.cl = c /\ pp # "fin"
       /\ lts' = [lts EXCEPT !.pc = "script"]
       /\ UNCHANGED <<pi, backlog, conex, fd, sendingList, eventos, pp, caidas>>
       /\ UNCHANGED <<proc, pasos, LFIFO, LPS, sem, procer, senales>>
  BY DEF Saluda, plan
<1>1. /\ lts.fd \in Fds /\ conex[lts.fd] = c
      /\ ~ EnCola(c) /\ DelC(c) /\ \A g \in Fds : conex[g] = c => g = lts.fd
  BY <1>0, EnLasManos
<1>2. EnMano(c)
  BY <1>0 DEF EnMano
<1>3. /\ fd[c] = 0 /\ aPI[c] = <<>> /\ aPP[c] \in {<<>>, <<"#">>}
      /\ pi[c] \in {"conecta", "hand", "caido"}
      /\ aPP[c] # <<>> => pi[c] # "conecta"
  <2>1. FaseNuevo(c) /\ Fase(c)
    BY <1>1, <1>0 DEF DelC
  <2>2. aPP[c] # <<>> => pi[c] # "conecta"
    BY <2>1 DEF Fase
  <2>. QED BY <1>2, <2>1, <2>2 DEF FaseNuevo
<1>4. aPI \in [Clientes -> Seq(AvisoPI)] /\ aPP \in [Clientes -> Seq(EnvioPI)]
  BY TiposPI DEF IInv
<1>5. Msg("!", c) \in AvisoPI /\ Msg("!", c).tipo = "!" /\ Msg("!", c).de = c
  BY DEF Msg, AvisoPI
<1>6. /\ aPP' \in [Clientes -> Seq(EnvioPI)] /\ aPP'[c] = <<>>
      /\ \A d \in Clientes \ {c} : aPP'[d] = aPP[d]
      /\ pi[c] \in {"hand", "caido"}
  <2>1. CASE aPP[c] # <<>> /\ aPP' = [aPP EXCEPT ![c] = Tail(@)]
    <3>1. Tail(<<"#">>) = <<>> /\ <<>> \in Seq(EnvioPI)
      OBVIOUS
    <3>. QED BY <1>3, <1>4, <2>1, <3>1
  <2>2. CASE aPP[c] = <<>> /\ Ido(c) /\ UNCHANGED aPP
    BY <1>3, <1>4, <2>2 DEF Ido, Idos
  <2>. QED BY <2>1, <2>2 DEF Saluda
<1>7. /\ aPI' \in [Clientes -> Seq(AvisoPI)]
      /\ \A d \in Clientes \ {c} : aPI'[d] = aPI[d]
      /\ aPI'[c] \in {<<>>, <<Msg("!", c)>>}
      /\ Ido(c) => aPI'[c] = <<>>
      /\ \A i \in DOMAIN aPI'[c] : aPI'[c][i] = Msg("!", c)
      /\ Cuenta(aPI'[c], EsS) = 0
  <2>1. CASE Escribe(c, Msg("!", c))
    <3>. DEFINE m == Msg("!", c)
    <3>. HIDE DEF m
    <3>1. m \in AvisoPI /\ m.tipo # "S" /\ Escribe(c, m)
      BY <1>5, <2>1 DEF m
    <3>2. /\ aPI' \in [Clientes -> Seq(AvisoPI)]
          /\ \A d \in Clientes \ {c} : aPI'[d] = aPI[d]
          /\ aPI'[c] = IF Ido(c) THEN <<>> ELSE <<m>>
          /\ \A i \in DOMAIN aPI'[c] : i = 1 /\ aPI'[c][i] = m
          /\ Cuenta(aPI'[c], EsS) = 0
      BY <1>3, <3>1, EscribeVacio
    <3>. QED BY <3>2 DEF m
  <2>2. CASE UNCHANGED aPI
    <3>1. aPI[c] \in Seq(AvisoPI) /\ \A i \in DOMAIN aPI[c] : FALSE
      BY <1>3, <1>4
    <3>2. Cuenta(aPI[c], EsS) = 0
      BY <3>1, CuentaNat
    <3>. QED BY <1>3, <1>4, <2>2, <3>1, <3>2
  <2>. QED BY <2>1, <2>2 DEF Saluda
<1>8. Sostiene(c, "script")
  BY <1>6, <1>7, <1>0 DEF Sostiene
<1>9. lts' \in Lts /\ lts'.pc = "script" /\ lts'.cl = c /\ lts'.fd = lts.fd
  BY <1>8, Sostiene_Lts
<1>10. TypeOK'
  BY <1>6, <1>7, <1>9, <1>0, LTS_Tipos, TiposLTS, TiposInt, TiposPI DEF IInv
<1>11. /\ RedInv' /\ EventosInv' /\ LtsInv'
       /\ \A d \in Clientes \ {c} : DelC(d)'
  BY <1>8, Sostiene_Red
<1>12. DelC(c)'
  <2>1. \A i \in DOMAIN aPI'[c] : aPI'[c][i].tipo = "!" /\ aPI'[c][i].de = c
    BY <1>5, <1>7
  <2>2. Fase(c)'
    <3>1. aPP'[c] = <<>> /\ pi'[c] \in {"hand", "caido"} /\ fd'[c] = 0
      BY <1>3, <1>6, <1>0
    <3>2. pi'[c] = "caido" => aPI'[c] = <<>>
      <4>1. (Ido(c) => aPI'[c] = <<>>) /\ pi' = pi
        BY <1>7, <1>0
      <4>. QED BY <4>1 DEF Ido, Idos
    <3>3. aPI'[c] \in {<<>>, <<Msg("!", c)>>}
      BY <1>7
    <3>. HIDE DEF Msg
    <3>. QED BY <2>1, <3>1, <3>2, <3>3 DEF Fase, Idos
  <2>3. RespuestaDe(c)'
    BY <1>6, <1>0, <2>1 DEF RespuestaDe, Respuestas
  <2>4. FaseNuevo(c)'
    BY <1>1, <1>3, <1>6, <1>9, <1>0 DEF FaseNuevo, EnCola, EnMano, EnScript
  <2>5. FaseDentro(c)'
    BY <1>9 DEF FaseDentro, EnScript
  <2>6. AbiertaDe(c)'
    BY <1>1, <1>0 DEF AbiertaDe, Abierta
  <2>. QED BY <1>6, <1>0, <2>2, <2>3, <2>4, <2>5, <2>6 DEF DelC
<1>13. FasesInv' /\ AbiertasInv' /\ RespuestaPrimero' /\ NadieDesconectado'
  <2>1. \A d \in Clientes : DelC(d)'
    BY <1>11, <1>12
  <2>. QED BY <2>1, LosDelCDespues
<1>14. ImagenInv' /\ LugaresExactos' /\ MensajesInv' /\ UltimoInv'
  BY <1>9, <1>0, LTS_Quieto, LTS_Calla
<1>15. AvisosPropios' /\ AvisadosInv'
  <2>1. DOMAIN aPI[c] = {}
    BY <1>3
  <2>2. \A d \in Clientes : \A i \in DOMAIN aPI[d] :
           \E j \in DOMAIN aPI'[d] : aPI'[d][j] = aPI[d][i]
    BY <1>7, <2>1
  <2>3. \A d \in Clientes : \A i \in DOMAIN aPI'[d] :
           \/ aPI'[d][i].de = d
           \/ \E j \in DOMAIN aPI[d] : aPI'[d][i] = aPI[d][j]
    BY <1>5, <1>7
  <2>. QED BY <1>0, <2>2, <2>3, LTS_Avisos
<1>16. LimpioInv'
  <2>1. ASSUME NEW p \in Clientes, ~ Sucio(fd[p]), Pendiente(p)
        PROVE /\ conex'[fd[p]] = p /\ pi[p] # "fin"
              /\ \A j \in DOMAIN aPI'[p] : aPI'[p][j].tipo # "T"
    <3>1. fd[p] # 0
      BY <2>1, PendienteFd, LosFds
    <3>2. /\ conex[fd[p]] = p /\ pi[p] # "fin"
          /\ \A j \in DOMAIN aPI[p] : aPI[p][j].tipo # "T"
      BY <1>0, <2>1 DEF LimpioInv, IInv, ConexInv
    <3>. QED BY <1>3, <1>7, <1>0, <3>1, <3>2
  <2>. QED BY <1>0, <2>1, LTS_Limpio
<1>17. ReanudaInv'
  <2>1. ASSUME NEW g \in Fds PROVE EnCamino(g)' <= EnCamino(g)
    <3>1. EnCamino(g) \in Nat /\ conex[g] \in Clientes \cup {Nadie}
      BY CuentasNat, TiposLTS DEF IInv
    <3>2. CASE conex[g] = c
      <4>1. Cuenta(aPP'[c], {"R"}) = 0
        <5>1. aPP'[c] \in Seq(EnvioPI) /\ \A i \in DOMAIN aPP'[c] : FALSE
          BY <1>6
        <5>. QED BY <5>1, CuentaNat
      <4>2. Del(aPI'[c], aPP'[c], pi[c]) = 0
        BY <1>6, <1>7, <4>1 DEF Del, UnoSi
      <4>3. EnCamino(g)' = 0
        BY <1>0, <3>2, <4>2 DEF EnCamino
      <4>. QED BY <3>1, <4>3
    <3>3. CASE conex[g] # c
      <4>1. EnCamino(g)' = EnCamino(g)
        BY <1>6, <1>7, <1>0, <3>1, <3>3 DEF EnCamino, Del, Cuenta, EsS
      <4>. QED BY <3>1, <4>1
    <3>. QED BY <3>2, <3>3
  <2>. QED BY <1>9, <1>10, <1>0, <2>1, LTS_Reanuda
<1>. QED BY <1>10, <1>11, <1>13, <1>14, <1>15, <1>16, <1>17 DEF IInv, ConexInv

LEMMA Paso_LTSHandshake == ASSUME IInv, LTSHandshake PROVE IInv'
<1>1. /\ pp # "fin" /\ lts.pc = "hand"
      /\ UNCHANGED <<pi, backlog, fd, plan, sendingList, eventos, pp, caidas>>
  BY DEF LTSHandshake
<1>2. CASE /\ aPP[lts.cl] # <<>> /\ aPP' = [aPP EXCEPT ![lts.cl] = Tail(@)]
           /\ Escribe(lts.cl, Msg("!", lts.cl))
           /\ lts' = [lts EXCEPT !.pc = "script"] /\ UNCHANGED conex
  <2>1. lts.cl \in Clientes
    BY <1>1, EnLasManos
  <2>. QED BY <1>1, <1>2, <2>1, Paso_Handshake DEF Saluda
<1>3. CASE /\ aPP[lts.cl] = <<>> /\ Ido(lts.cl)
           /\ lts' = [lts EXCEPT !.pc = "script"]
           /\ UNCHANGED <<aPI, aPP, conex>>
  <2>1. lts.cl \in Clientes
    BY <1>1, EnLasManos
  <2>. QED BY <1>1, <1>3, <2>1, Paso_Handshake DEF Saluda
<1>4. CASE /\ Ido(lts.cl) /\ Cierra(lts.fd) /\ lts' = EnEpoll /\ UNCHANGED aPI
  BY <1>1, <1>4, LTS_CierraManos
<1>. QED BY <1>2, <1>3, <1>4 DEF LTSHandshake

(* accept: c, the oldest of the backlog, is connected to f.                *)
LEMMA Acepta_Red ==
    ASSUME IInv, NEW c, NEW f \in Fds, backlog # <<>>, c = Head(backlog),
           conex[f] = Nadie, conex' = [conex EXCEPT ![f] = c],
           backlog' = Tail(backlog), UNCHANGED <<pi, pp>>
    PROVE /\ RedInv' /\ c \in Clientes /\ EnCola(c)
          /\ backlog' \in Seq(Clientes)
          /\ conex' \in [Fds -> Clientes \cup {Nadie}] /\ conex'[f] = c
          /\ \A g \in Fds \ {f} : conex'[g] = conex[g] /\ conex[g] # c
          /\ \A d \in Clientes \ {c} :
                (EnCola(d)' <=> EnCola(d)) /\ (Abierta(d)' <=> Abierta(d))
<1>1. backlog \in Seq(Clientes) /\ conex \in [Fds -> Clientes \cup {Nadie}]
  BY TiposPI, TiposLTS DEF IInv
<1>2. /\ \A g, h \in Fds : conex[g] = conex[h] /\ conex[g] # Nadie => g = h
      /\ \A i, j \in DOMAIN backlog : backlog[i] = backlog[j] => i = j
      /\ \A g \in Fds : \A i \in DOMAIN backlog : conex[g] # backlog[i]
      /\ \A d \in Clientes : pi[d] = "afuera" => ~ Abierta(d)
      /\ pp = "fin" => backlog = <<>> /\ \A g \in Fds : conex[g] = Nadie
  BY DEF RedInv, IInv, ConexInv
<1>3. /\ 1 \in DOMAIN backlog /\ backlog[1] = c /\ c \in Clientes
      /\ backlog' \in Seq(Clientes)
      /\ \A i \in DOMAIN backlog' :
            i + 1 \in DOMAIN backlog /\ backlog'[i] = backlog[i + 1]
      /\ \A i \in DOMAIN backlog :
            i = 1 \/ (i - 1 \in DOMAIN backlog' /\ backlog'[i - 1] = backlog[i])
  BY <1>1, Cola
<1>4. \A i \in DOMAIN backlog' : i \in Nat /\ i + 1 # 1
  <2>1. DOMAIN backlog' = 1 .. Len(backlog') /\ Len(backlog') \in Nat
    BY <1>3
  <2>. QED BY <2>1
<1>5. /\ conex'[f] = c
      /\ \A g \in Fds \ {f} : conex'[g] = conex[g] /\ conex[g] # c
  BY <1>1, <1>2, <1>3
<1>6. \A i \in DOMAIN backlog' : backlog'[i] # c
  BY <1>2, <1>3, <1>4
<1>7. \A i, j \in DOMAIN backlog' : backlog'[i] = backlog'[j] => i = j
  BY <1>2, <1>3, <1>4
<1>8. \A g \in Fds : \A i \in DOMAIN backlog' : conex'[g] # backlog'[i]
  BY <1>2, <1>3, <1>5, <1>6
<1>9. \A g, h \in Fds : conex'[g] = conex'[h] /\ conex'[g] # Nadie => g = h
  BY <1>2, <1>5
<1>10. \A d \in Clientes \ {c} : EnCola(d)' <=> EnCola(d)
  <2>1. ASSUME NEW d \in Clientes \ {c}, NEW i \in DOMAIN backlog,
               backlog[i] = d
        PROVE \E j \in DOMAIN backlog' : backlog'[j] = d
    BY <1>3, <2>1
  <2>2. ASSUME NEW d \in Clientes \ {c}, NEW i \in DOMAIN backlog',
               backlog'[i] = d
        PROVE \E j \in DOMAIN backlog : backlog[j] = d
    BY <1>3, <2>2
  <2>. QED BY <2>1, <2>2 DEF EnCola
<1>11. \A d \in Clientes \ {c} : Abierta(d)' <=> Abierta(d)
  <2>1. ASSUME NEW d \in Clientes \ {c}
        PROVE (\E g \in Fds : conex'[g] = d) <=> \E g \in Fds : conex[g] = d
    BY <1>5, ClientesAssumption
  <2>2. \A d : Abierta(d) <=> (\E g \in Fds : conex[g] = d) \/ EnCola(d)
    BY DEF Abierta, EnCola
  <2>3. \A d : Abierta(d)' <=> (\E g \in Fds : conex'[g] = d) \/ EnCola(d)'
    BY DEF Abierta, EnCola
  <2>. QED BY <1>10, <2>1, <2>2, <2>3
<1>12. EnCola(c) /\ Abierta(c)
  BY <1>3 DEF EnCola, Abierta
<1>13. \A d \in Clientes : pi'[d] = "afuera" => ~ Abierta(d)'
  BY <1>2, <1>11, <1>12
<1>14. RedInv'
  <2>1. pp' # "fin"
    BY <1>2
  <2>. QED BY <1>7, <1>8, <1>9, <1>13, <2>1 DEF RedInv
<1>. QED BY <1>1, <1>3, <1>5, <1>10, <1>11, <1>12, <1>14

LEMMA Paso_LTSAcepta == ASSUME IInv, LTSAcepta PROVE IInv'
<1> DEFINE c == Head(backlog)
<1>1. /\ pp # "fin" /\ lts.pc = "epoll" /\ eventos[serverfd] = "in"
      /\ eventos' \in Evs /\ eventos'[serverfd] = "no" /\ Menos
  BY EventoHace DEF LTSAcepta
<1>2. /\ UNCHANGED <<pi, aPI, aPP, fd, sendingList, pp, caidas>>
      /\ UNCHANGED <<proc, pasos, LFIFO, LPS, sem, procer, senales>>
      /\ backlog' = Tail(backlog)
  BY DEF LTSAcepta, plan
<1>3. PICK f \in Fds : /\ conex[f] = Nadie
                       /\ conex' = [conex EXCEPT ![f] = c]
                       /\ lts' = [pc |-> "hand", cl |-> c, fd |-> f]
  BY DEF LTSAcepta, Libre
<1>4. backlog # <<>>
  BY <1>1 DEF EventosInv, IInv, ConexInv
<1>. HIDE DEF c
<1>5. /\ RedInv' /\ c \in Clientes /\ EnCola(c)
      /\ backlog' \in Seq(Clientes)
      /\ conex' \in [Fds -> Clientes \cup {Nadie}] /\ conex'[f] = c
      /\ \A g \in Fds \ {f} : conex'[g] = conex[g] /\ conex[g] # c
      /\ \A d \in Clientes \ {c} :
            (EnCola(d)' <=> EnCola(d)) /\ (Abierta(d)' <=> Abierta(d))
  BY <1>2, <1>3, <1>4, Acepta_Red DEF c
<1>6. /\ lts' \in Lts /\ lts'.pc = "hand" /\ lts'.cl = c /\ lts'.fd = f
  BY <1>3, <1>5 DEF Lts
<1>7. TypeOK'
  BY <1>1, <1>2, <1>5, <1>6, LTS_Tipos, TiposLTS, TiposInt, TiposPI DEF IInv
<1>8. conex[f] \notin Clientes /\ eventos[f] = "no" /\ eventos'[f] = "no"
  <2>1. conex[f] \notin Clientes
    BY <1>3, ClientesAssumption
  <2>2. eventos[f] = "no"
    BY <2>1 DEF EventosInv, IInv, ConexInv
  <2>. QED BY <1>1, <2>1, <2>2 DEF Menos
<1>9. EventosInv'
  <2>1. ASSUME NEW g \in Fds, eventos'[g] # "no"
        PROVE /\ conex'[g] \in Clientes
              /\ eventos'[g] = "in" => aPP'[conex'[g]] # <<>>
              /\ eventos'[g] = "hup" => pi'[conex'[g]] \in Idos
    <3>1. g # f /\ eventos'[g] = eventos[g] /\ conex'[g] = conex[g]
      BY <1>1, <1>5, <1>8, <2>1 DEF Menos
    <3>. QED BY <1>2, <2>1, <3>1 DEF EventosInv, IInv, ConexInv, Ido
  <2>. QED BY <1>1, <2>1 DEF EventosInv, Ido
<1>10. LtsInv'
  BY <1>5, <1>6, <1>8 DEF LtsInv
<1>11. ASSUME NEW d \in Clientes PROVE DelC(d)'
  <2>1. /\ DelC(d) /\ pi'[d] = pi[d] /\ aPI'[d] = aPI[d]
        /\ aPP'[d] = aPP[d] /\ fd'[d] = fd[d]
    BY <1>2, LosDelC DEF IInv, ConexInv
  <2>2. Fase(d)' /\ RespuestaDe(d)'
    BY <2>1 DEF DelC, Fase, RespuestaDe
  <2>3. FaseNuevo(d) /\ FaseDentro(d) /\ AbiertaDe(d) /\ pi[d] # "error"
    BY <1>1, <2>1 DEF DelC
  <2>4. /\ ~ EnMano(d) /\ ~ EnScript(d) /\ ~ EnScript(d)'
        /\ EnMano(d)' <=> d = c
    BY <1>1, <1>6 DEF EnMano, EnScript
  <2>5. EnCola(d)' => EnCola(d)
    BY <1>5
  <2>6. FaseNuevo(d)'
    <3>1. EnCola(d)' \/ EnMano(d)' => EnCola(d)
      BY <1>5, <2>4, <2>5
    <3>. QED BY <2>1, <2>3, <2>4, <3>1 DEF FaseNuevo
  <2>7. FaseDentro(d)'
    <3>1. \A g \in Fds : conex'[g] = d => EnMano(d)' \/ conex[g] = d
      BY <1>5, <2>4
    <3>. QED BY <2>1, <2>3, <2>4, <3>1 DEF FaseDentro
  <2>8. AbiertaDe(d)'
    <3>1. Abierta(d) => Abierta(d)'
      BY <1>5 DEF Abierta
    <3>. QED BY <2>1, <2>3, <3>1 DEF AbiertaDe
  <2>. QED BY <1>1, <2>1, <2>2, <2>3, <2>6, <2>7, <2>8 DEF DelC
<1>12. FasesInv' /\ AbiertasInv' /\ RespuestaPrimero' /\ NadieDesconectado'
  BY <1>11, LosDelCDespues
<1>13. ImagenInv' /\ LugaresExactos' /\ MensajesInv' /\ UltimoInv'
  BY <1>1, <1>2, <1>6, LTS_Quieto, LTS_Calla
<1>14. AvisosPropios' /\ AvisadosInv'
  BY <1>2, LTS_Avisos
<1>15. LimpioInv'
  <2>1. ASSUME NEW p \in Clientes, ~ Sucio(fd[p]), Pendiente(p)
        PROVE /\ conex'[fd[p]] = p /\ pi[p] # "fin"
              /\ \A j \in DOMAIN aPI'[p] : aPI'[p][j].tipo # "T"
    <3>1. /\ conex[fd[p]] = p /\ pi[p] # "fin"
          /\ \A j \in DOMAIN aPI[p] : aPI[p][j].tipo # "T"
      BY <1>1, <2>1 DEF LimpioInv, IInv, ConexInv
    <3>2. fd[p] \in Fds \ {f}
      BY <1>8, <2>1, <3>1, PendienteFd
    <3>. QED BY <1>2, <1>5, <3>1, <3>2
  <2>. QED BY <1>2, <2>1, LTS_Limpio
<1>16. ReanudaInv'
  <2>1. ASSUME NEW g \in Fds PROVE EnCamino(g)' <= EnCamino(g)
    <3>1. EnCamino(g) \in Nat
      BY CuentasNat DEF IInv
    <3>2. CASE g = f
      <4>1. /\ aPI'[c] = <<>> /\ aPP'[c] \in {<<>>, <<"#">>}
            /\ pi'[c] # "enter"
        <5>1. FaseNuevo(c)
          BY <1>1, <1>5, LosDelC DEF DelC, IInv, ConexInv
        <5>. QED BY <1>2, <1>5, <5>1 DEF FaseNuevo
      <4>2. Cuenta(aPI'[c], EsS) = 0
        <5>1. aPI'[c] \in Seq(AvisoPI) /\ \A i \in DOMAIN aPI'[c] : FALSE
          BY <4>1
        <5>. QED BY <5>1, CuentaNat
      <4>3. Cuenta(aPP'[c], {"R"}) = 0
        <5>1. /\ <<>> \in Seq({"#"}) /\ <<"#">> \in Seq({"#"})
              /\ DOMAIN <<>> = {} /\ DOMAIN <<"#">> = {1} /\ <<"#">>[1] = "#"
          OBVIOUS
        <5>2. CASE aPP'[c] = <<>>
          BY <5>1, <5>2, CuentaNat
        <5>3. CASE aPP'[c] = <<"#">>
          <6>1. \A i \in DOMAIN aPP'[c] : aPP'[c][i] \notin {"R"}
            BY <5>1, <5>3
          <6>. QED BY <5>1, <5>3, <6>1, CuentaNat
        <5>. QED BY <4>1, <5>2, <5>3
      <4>4. Del(aPI'[c], aPP'[c], pi'[c]) = 0
        BY <4>1, <4>2, <4>3 DEF Del, UnoSi
      <4>5. EnCamino(g)' = 0
        BY <1>5, <3>2, <4>4, ClientesAssumption DEF EnCamino
      <4>. QED BY <3>1, <4>5
    <3>3. CASE g # f
      <4>1. EnCamino(g)' = EnCamino(g)
        BY <1>2, <1>5, <3>3 DEF EnCamino, Del, Cuenta, EsS
      <4>. QED BY <3>1, <4>1
    <3>. QED BY <3>2, <3>3
  <2>. QED BY <1>2, <1>6, <1>7, <2>1, LTS_Reanuda
<1>. QED BY <1>5, <1>7, <1>9, <1>10, <1>12, <1>13, <1>14, <1>15, <1>16
      DEF IInv, ConexInv

(* The script of c has arrived.                                            *)
LEMMA ConScript ==
    ASSUME IInv, NEW c \in Clientes, pp # "fin", lts.pc = "script", lts.cl = c,
           aPP[c] # <<>>
    PROVE /\ fd[c] = 0 /\ aPI[c] = <<>> /\ aPP[c] = <<"N">>
          /\ pi[c] \in {"resp", "caido"} /\ proc[c] = "afuera"
<1>1. DelC(c) /\ EnScript(c)
  BY EnLasManos DEF EnScript
<1>2. FaseNuevo(c) /\ Fase(c)
  BY <1>1 DEF DelC
<1>3. /\ fd[c] = 0 /\ aPP[c] \in {<<>>, <<"N">>}
      /\ pi[c] \in {"hand", "resp", "caido"}
      /\ pi[c] = "hand" => aPP[c] = <<>>
      /\ pi[c] = "resp" => aPI[c] = <<>>
  BY <1>1, <1>2 DEF FaseNuevo
<1>4. pi[c] = "caido" => aPI[c] = <<>>
  BY <1>2 DEF Fase, Idos
<1>5. proc[c] = "afuera"
  BY <1>3 DEF ImagenInv, ImagenFd, IInv, ConexInv
<1>. QED BY <1>3, <1>4, <1>5

LEMMA Rechaza ==
    ASSUME IInv, LTSRechaza, NEW c, NEW f, c = lts.cl, f = lts.fd PROVE IInv'
<1> DEFINE m == Msg("F", c)
<1>0. /\ pp # "fin" /\ lts.pc = "script" /\ aPP[c] # <<>>
      /\ Escribe(c, m) /\ Cierra(f) /\ lts' = EnEpoll
      /\ UNCHANGED <<pi, backlog, fd, sendingList, eventos, pp, caidas>>
      /\ UNCHANGED <<proc, pasos, LFIFO, LPS, sem, procer, senales>>
  BY DEF LTSRechaza, plan
<1>1. /\ c \in Clientes /\ f \in Fds /\ conex[f] = c /\ eventos[f] = "no"
  BY <1>0, EnLasManos
<1>2. m \in AvisoPI /\ m.tipo = "F" /\ m.de = c
  BY <1>1 DEF Msg, AvisoPI, Respuestas
<1>. HIDE DEF m
<1>3. /\ fd[c] = 0 /\ aPI[c] = <<>> /\ pi[c] \in {"resp", "caido"}
  BY <1>0, <1>1, ConScript
<1>4. /\ aPI' \in [Clientes -> Seq(AvisoPI)]
      /\ \A d \in Clientes \ {c} : aPI'[d] = aPI[d]
      /\ aPI'[c] = IF Ido(c) THEN <<>> ELSE <<m>>
      /\ \A i \in DOMAIN aPI'[c] : i = 1 /\ aPI'[c][i] = m
      /\ ~ Ido(c) => 1 \in DOMAIN aPI'[c]
  BY <1>0, <1>1, <1>2, <1>3, EscribeVacio
<1>5. Cerrando(f, c)
  BY <1>0, <1>1, <1>4 DEF Cerrando, Menos
<1>6. /\ conex' \in [Fds -> Clientes \cup {Nadie}]
      /\ aPP' \in [Clientes -> Seq(EnvioPI)]
  BY <1>1, <1>5, CierraHace
<1>7. TypeOK'
  <2>1. lts' \in Lts
    BY <1>0 DEF EnEpoll, Lts
  <2>. QED BY <1>0, <1>4, <1>6, <2>1, LTS_Tipos, TiposLTS, TiposInt, TiposPI
           DEF IInv
<1>8. RedInv' /\ EventosInv' /\ LtsInv'
  BY <1>1, <1>5, Cierre_Red
<1>9. /\ pi'[c] = pi[c] /\ fd'[c] = 0
      /\ Ido(c) <=> pi[c] = "caido"
      /\ \A i \in DOMAIN aPI'[c] : aPI'[c][i].tipo = "F" /\ aPI'[c][i].de = c
      /\ pi[c] = "resp" => 1 \in DOMAIN aPI'[c]
      /\ pi[c] = "caido" => aPI'[c] = <<>>
  <2>1. Ido(c) <=> pi[c] = "caido"
    BY <1>3 DEF Ido, Idos
  <2>. QED BY <1>0, <1>2, <1>3, <1>4, <2>1
<1>10. Fase(c)'
  BY <1>3, <1>9 DEF Fase, Idos
<1>11. RespuestaDe(c)'
  <2>1. \A i \in DOMAIN aPI'[c] : pi[c] = "resp" /\ i = 1
    BY <1>3, <1>4, <1>9
  <2>. QED BY <1>9, <2>1 DEF RespuestaDe, Respuestas
<1>12. AbiertaDe(c)'
  BY <1>3, <1>9 DEF AbiertaDe
<1>13. FasesInv' /\ AbiertasInv' /\ RespuestaPrimero' /\ NadieDesconectado'
  BY <1>1, <1>5, <1>10, <1>11, <1>12, Cierre_Fases
<1>14. ImagenInv' /\ LugaresExactos' /\ MensajesInv' /\ UltimoInv'
  BY <1>0, LTS_Quieto, LTS_Calla DEF EnEpoll
<1>15. AvisosPropios' /\ AvisadosInv'
  <2>1. DOMAIN aPI[c] = {}
    BY <1>3
  <2>2. \A d \in Clientes : \A i \in DOMAIN aPI[d] :
           \E j \in DOMAIN aPI'[d] : aPI'[d][j] = aPI[d][i]
    BY <1>4, <2>1
  <2>3. \A d \in Clientes : \A i \in DOMAIN aPI'[d] :
           \/ aPI'[d][i].de = d
           \/ \E j \in DOMAIN aPI[d] : aPI'[d][i] = aPI[d][j]
    BY <1>4, <1>9
  <2>. QED BY <1>0, <2>2, <2>3, LTS_Avisos
<1>16. LimpioInv'
  <2>1. ASSUME NEW p \in Clientes, ~ Sucio(fd[p]), Pendiente(p)
        PROVE /\ conex'[fd[p]] = p /\ pi[p] # "fin"
              /\ \A j \in DOMAIN aPI'[p] : aPI'[p][j].tipo # "T"
    <3>1. /\ conex'[fd[p]] = p /\ pi[p] # "fin" /\ p # c
          /\ \A j \in DOMAIN aPI[p] : aPI[p][j].tipo # "T"
      BY <1>1, <1>3, <1>5, <2>1, Cierre_Limpio
    <3>. QED BY <1>4, <3>1
  <2>. QED BY <1>0, <2>1, LTS_Limpio
<1>17. ReanudaInv'
  <2>1. ASSUME NEW g \in Fds PROVE EnCamino(g)' <= EnCamino(g)
    <3>1. EnCamino(g) \in Nat
      BY CuentasNat DEF IInv
    <3>2. EnCamino(g)' = 0 \/ EnCamino(g)' = EnCamino(g)
      BY <1>1, <1>5, Cierre_Camino
    <3>. QED BY <3>1, <3>2
  <2>2. lts'.pc # "segv"
    BY <1>0 DEF EnEpoll
  <2>. QED BY <1>0, <1>7, <2>1, <2>2, LTS_Reanuda
<1>. QED BY <1>7, <1>8, <1>13, <1>14, <1>15, <1>16, <1>17 DEF IInv, ConexInv

LEMMA Paso_LTSRechaza == ASSUME IInv, LTSRechaza PROVE IInv'
  BY Rechaza

(* The image of c, admitted and about to be put in its queue.              *)
Admite(c, f, x, t) ==
    /\ LTSAdmite /\ c = lts.cl /\ f = lts.fd
    /\ x \in {"push", "demora"} /\ t \in {"C", "D"}
    /\ sem' \in [MPS : Nat, MMP : Nat] /\ sem'.MPS + 1 = sem.MPS
    /\ sem'.MMP + UnoSi(x = "push") = sem.MMP
    /\ Escribe(c, Msg(t, c)) /\ lts' = [lts EXCEPT !.pc = x]

LEMMA AdmiteHace ==
    ASSUME IInv, NEW c, NEW f, NEW x, NEW t, Admite(c, f, x, t)
    PROVE /\ c \in Clientes /\ f \in Fds /\ conex[f] = c /\ Sostiene(c, x)
          /\ \A g \in Fds : conex[g] = c => g = f
          /\ fd[c] = 0 /\ pi[c] \in {"resp", "caido"} /\ proc[c] = "afuera"
          /\ aPI[c] = <<>> /\ aPP'[c] = <<>>
          /\ aPP' \in [Clientes -> Seq(EnvioPI)]
          /\ fd'[c] = f /\ fd' \in [Clientes -> Fds \cup {0}]
          /\ \A d \in Clientes \ {c} :
                aPI'[d] = aPI[d] /\ aPP'[d] = aPP[d] /\ fd'[d] = fd[d]
          /\ aPI' \in [Clientes -> Seq(AvisoPI)]
          /\ \A i \in DOMAIN aPI'[c] : i = 1 /\ aPI'[c][i] = Msg(t, c)
          /\ pi[c] = "caido" => aPI'[c] = <<>>
          /\ pi[c] = "resp" => aPI'[c] # <<>>
          /\ Cuenta(aPI'[c], EsS) = 0
<1>0. /\ pp # "fin" /\ lts.pc = "script" /\ aPP[c] # <<>> /\ c = lts.cl
      /\ f = lts.fd /\ aPP' = [aPP EXCEPT ![c] = Tail(@)]
      /\ fd' = [fd EXCEPT ![c] = f] /\ Escribe(c, Msg(t, c))
      /\ UNCHANGED <<pi, backlog, conex, eventos, pp>>
      /\ lts' = [lts EXCEPT !.pc = x] /\ x \in {"push", "demora"}
      /\ t \in {"C", "D"}
  BY DEF Admite, LTSAdmite
<1>1. /\ c \in Clientes /\ f \in Fds /\ conex[f] = c
      /\ \A g \in Fds : conex[g] = c => g = f
  BY <1>0, EnLasManos
<1>2. /\ fd[c] = 0 /\ pi[c] \in {"resp", "caido"} /\ proc[c] = "afuera"
      /\ aPI[c] = <<>> /\ aPP[c] = <<"N">>
  BY <1>0, <1>1, ConScript
<1>3. /\ aPP' \in [Clientes -> Seq(EnvioPI)] /\ aPP'[c] = <<>>
      /\ \A d \in Clientes \ {c} : aPP'[d] = aPP[d]
  <2>1. Tail(<<"N">>) = <<>> /\ <<>> \in Seq(EnvioPI)
    OBVIOUS
  <2>2. aPP \in [Clientes -> Seq(EnvioPI)]
    BY TiposPI DEF IInv
  <2>. QED BY <1>0, <1>1, <1>2, <2>1, <2>2
<1>4. /\ fd' \in [Clientes -> Fds \cup {0}] /\ fd'[c] = f
      /\ \A d \in Clientes \ {c} : fd'[d] = fd[d]
  BY <1>0, <1>1, TiposLTS DEF IInv
<1>5. /\ aPI' \in [Clientes -> Seq(AvisoPI)]
      /\ \A d \in Clientes \ {c} : aPI'[d] = aPI[d]
      /\ \A i \in DOMAIN aPI'[c] : i = 1 /\ aPI'[c][i] = Msg(t, c)
      /\ pi[c] = "caido" => aPI'[c] = <<>>
      /\ pi[c] = "resp" => aPI'[c] # <<>>
      /\ Cuenta(aPI'[c], EsS) = 0
  <2>. DEFINE m == Msg(t, c)
  <2>1. m \in AvisoPI /\ m.tipo # "S"
    BY <1>0, <1>1 DEF Msg, AvisoPI, Respuestas
  <2>. HIDE DEF m
  <2>2. Escribe(c, m)
    BY <1>0 DEF m
  <2>3. /\ aPI' \in [Clientes -> Seq(AvisoPI)]
        /\ \A d \in Clientes \ {c} : aPI'[d] = aPI[d]
        /\ aPI'[c] = IF Ido(c) THEN <<>> ELSE <<m>>
        /\ \A i \in DOMAIN aPI'[c] : i = 1 /\ aPI'[c][i] = m
        /\ Cuenta(aPI'[c], EsS) = 0
    BY <1>1, <1>2, <2>1, <2>2, EscribeVacio
  <2>4. (pi[c] = "caido" => Ido(c)) /\ (pi[c] = "resp" => ~ Ido(c))
    BY DEF Ido, Idos
  <2>5. <<m>> # <<>>
    OBVIOUS
  <2>. QED BY <2>3, <2>4, <2>5 DEF m
<1>6. Sostiene(c, x)
  BY <1>0, <1>3, <1>4, <1>5 DEF Sostiene
<1>. QED BY <1>1, <1>2, <1>3, <1>4, <1>5, <1>6

LEMMA Admite_Paso ==
    ASSUME IInv, NEW c, NEW f, NEW x, NEW t, Admite(c, f, x, t) PROVE IInv'
<1>1. /\ c \in Clientes /\ f \in Fds /\ conex[f] = c /\ Sostiene(c, x)
      /\ \A g \in Fds : conex[g] = c => g = f
      /\ fd[c] = 0 /\ pi[c] \in {"resp", "caido"} /\ proc[c] = "afuera"
      /\ aPI[c] = <<>> /\ aPP'[c] = <<>>
      /\ fd'[c] = f
      /\ \A d \in Clientes \ {c} :
            aPI'[d] = aPI[d] /\ aPP'[d] = aPP[d] /\ fd'[d] = fd[d]
  BY AdmiteHace
<1>2. /\ aPP' \in [Clientes -> Seq(EnvioPI)]
      /\ fd' \in [Clientes -> Fds \cup {0}]
      /\ aPI' \in [Clientes -> Seq(AvisoPI)]
      /\ pi[c] = "caido" => aPI'[c] = <<>>
      /\ pi[c] = "resp" => aPI'[c] # <<>>
      /\ Cuenta(aPI'[c], EsS) = 0
  BY AdmiteHace
<1>3. \A i \in DOMAIN aPI'[c] : i = 1 /\ aPI'[c][i].tipo \in {"C", "D"}
                                /\ aPI'[c][i].de = c
  <2>1. t \in {"C", "D"}
    BY DEF Admite
  <2>2. \A i \in DOMAIN aPI'[c] : i = 1 /\ aPI'[c][i] = Msg(t, c)
    BY AdmiteHace
  <2>3. Msg(t, c).tipo = t /\ Msg(t, c).de = c
    BY DEF Msg
  <2>. QED BY <2>1, <2>2, <2>3
<1>4. /\ UNCHANGED <<pi, backlog, conex, eventos, pp, sendingList, caidas>>
      /\ UNCHANGED <<proc, pasos, LFIFO, LPS, procer, senales>>
      /\ pp # "fin" /\ lts.pc = "script" /\ lts.cl = c /\ lts.fd = f
  BY DEF Admite, LTSAdmite, Responde
<1>5. /\ x \in {"push", "demora"} /\ sem' \in [MPS : Nat, MMP : Nat]
      /\ sem'.MPS + 1 = sem.MPS /\ sem'.MMP + UnoSi(x = "push") = sem.MMP
  BY DEF Admite
<1>6. lts' \in Lts /\ lts'.pc = x /\ lts'.cl = c /\ lts'.fd = f
  BY <1>1, <1>4, Sostiene_Lts
<1>7. TypeOK'
  BY <1>2, <1>4, <1>5, <1>6, LTS_Tipos, TiposLTS, TiposInt, TiposPI DEF IInv
<1>8. /\ RedInv' /\ EventosInv' /\ LtsInv'
      /\ \A d \in Clientes \ {c} : DelC(d)'
  BY <1>1, Sostiene_Red
<1>9. ~ EnCola(c) /\ ~ EnCola(c)' /\ ~ EnMano(c)' /\ ~ EnScript(c)'
  <2>1. ~ EnCola(c)
    BY <1>4, EnLasManos
  <2>. QED BY <1>4, <1>5, <1>6, <2>1 DEF EnCola, EnMano, EnScript
<1>10. f # 0
  BY <1>1, LosFds
<1>11. DelC(c)'
  <2>1. Fase(c)'
    <3>1. pi'[c] \in {"resp", "caido"} /\ fd'[c] # 0
      BY <1>1, <1>4, <1>10
    <3>2. \A i \in DOMAIN aPI'[c] : aPI'[c][i].tipo # "F"
      BY <1>3
    <3>3. pi'[c] = "caido" => aPI'[c] = <<>>
      BY <1>2, <1>4
    <3>. QED BY <3>1, <3>2, <3>3 DEF Fase, Idos
  <2>2. RespuestaDe(c)'
    <3>1. \A i \in DOMAIN aPI'[c] : pi'[c] = "resp" /\ i = 1
      BY <1>1, <1>2, <1>3, <1>4
    <3>. QED BY <1>3, <3>1 DEF RespuestaDe, Respuestas
  <2>3. FaseNuevo(c)'
    BY <1>9 DEF FaseNuevo
  <2>4. FaseDentro(c)'
    <3>1. \A i \in DOMAIN aPP'[c] : aPP'[c][i] = "R"
      BY <1>1
    <3>. QED BY <1>1, <1>2, <1>4, <3>1 DEF FaseDentro
  <2>5. AbiertaDe(c)'
    BY <1>1, <1>4 DEF AbiertaDe, Abierta
  <2>. QED BY <1>1, <1>4, <2>1, <2>2, <2>3, <2>4, <2>5 DEF DelC
<1>12. FasesInv' /\ AbiertasInv' /\ RespuestaPrimero' /\ NadieDesconectado'
  <2>1. \A d \in Clientes : DelC(d)'
    BY <1>8, <1>11
  <2>. QED BY <2>1, LosDelCDespues
<1>13. ImagenInv'
  <2>1. ImagenFd'
    <3>1. ASSUME NEW d \in Clientes \ {c}
          PROVE /\ ~ Entra(d) /\ ~ Entra(d)'
                /\ fd'[d] = fd[d] /\ proc'[d] = proc[d]
      BY <1>1, <1>4, <1>6 DEF Entra
    <3>2. Entra(c)' /\ fd'[c] = lts'.fd /\ fd'[c] # 0 /\ proc'[c] = "afuera"
      BY <1>1, <1>4, <1>5, <1>6, <1>10 DEF Entra
    <3>3. ImagenFd
      BY DEF IInv, ConexInv, ImagenInv
    <3>. QED BY <3>1, <3>2, <3>3 DEF ImagenFd
  <2>. QED BY <1>4, <2>1 DEF ImagenInv, ColasInv, ProcerInv, IInv, ConexInv
<1>14. LugaresExactos'
  <2>1. proc' = [proc EXCEPT ![c] = proc[c]]
    BY <1>4, TiposInt DEF IInv
  <2>2. Entran = 0 /\ Empuja = 0 /\ Entran' = 1 /\ Empuja' = UnoSi(x = "push")
    BY <1>4, <1>5, <1>6 DEF Entran, Empuja, UnoSi
  <2>3. Sale' = Sale /\ Sale \in Nat
    BY <1>4 DEF Sale, UnoSi
  <2>4. /\ sem \in [MPS : Nat, MMP : Nat] /\ UnoSi(x = "push") \in Nat
        /\ UnoSi(proc[c] \in EnSistema) \in Nat
        /\ UnoSi(proc[c] \in Memoria) \in Nat
    BY TiposInt DEF IInv, UnoSi
  <2>5. Mueve(c, proc[c])
    <3>. DEFINE u == UnoSi(proc[c] \in EnSistema)
                v == UnoSi(proc[c] \in Memoria)
                w == UnoSi(x = "push")
                s == Sale
    <3>1. /\ u \in Nat /\ v \in Nat /\ w \in Nat /\ s \in Nat
          /\ sem.MPS \in Nat /\ sem.MMP \in Nat
          /\ sem'.MPS \in Nat /\ sem'.MMP \in Nat
          /\ sem'.MPS + 1 = sem.MPS /\ sem'.MMP + w = sem.MMP
      BY <1>5, <2>3, <2>4
    <3>. HIDE DEF u, v, w, s
    <3>2. /\ sem'.MPS + u + (1 + s) = sem.MPS + u + (0 + s)
          /\ sem'.MMP + v + (w + s) = sem.MMP + v + (0 + s)
      BY <3>1
    <3>. QED BY <2>1, <2>2, <2>3, <3>2 DEF Mueve, u, v, w, s
  <2>. QED BY <1>1, <1>7, <2>5, Lugares DEF IInv
<1>15. MensajesInv' /\ UltimoInv'
  <2>1. \A i \in DOMAIN sendingList : sendingList[i].de \in Clientes \ {c}
    BY <1>1, TiposLista DEF MensajesInv, IInv, ConexInv
  <2>2. MensajesInv'
    BY <1>1, <1>4, <2>1 DEF MensajesInv, IInv, ConexInv
  <2>3. UltimoInv'
    BY <1>4 DEF UltimoInv, IInv, ConexInv
  <2>. QED BY <2>2, <2>3
<1>16. \A d \in Clientes : fd[d] # 0 /\ Sucio(fd[d]) => Sucio(fd[d])'
  BY <1>1, <1>4 DEF Sucio
<1>17. AvisosPropios'
  <2>1. ASSUME NEW d \in Clientes, NEW i \in DOMAIN aPI'[d], aPI'[d][i].de # d
        PROVE Sucio(fd[d])'
    <3>1. d # c /\ aPI'[d] = aPI[d] /\ fd'[d] = fd[d]
      BY <1>1, <1>3, <2>1
    <3>2. Sucio(fd[d])
      BY <2>1, <3>1 DEF AvisosPropios, IInv
    <3>3. fd[d] # 0
      BY <2>1, <3>1 DEF FasesInv, Fase, IInv, ConexInv
    <3>. QED BY <1>16, <3>2, <3>3
  <2>. QED BY <2>1 DEF AvisosPropios
<1>18. AvisadosInv'
  <2>1. ASSUME NEW d \in Clientes, proc[d] = "finalizado" PROVE Avisado(d)'
    <3>1. d # c /\ Avisado(d)
      BY <1>1, <1>4, <2>1 DEF AvisadosInv, IInv, ConexInv
    <3>2. aPI'[d] = aPI[d] /\ fd'[d] = fd[d]
      BY <1>1, <3>1
    <3>. QED BY <1>4, <3>1, <3>2 DEF Avisado, Ido
  <2>. QED BY <1>4, <2>1 DEF AvisadosInv
<1>19. LimpioInv'
  <2>1. ASSUME NEW p \in Clientes, ~ Sucio(fd[p])', Pendiente(p)'
        PROVE /\ conex'[fd'[p]] = p /\ pi'[p] # "fin"
              /\ \A j \in DOMAIN aPI'[p] : aPI'[p][j].tipo # "T"
    <3>1. CASE p = c
      BY <1>1, <1>3, <1>4, <3>1
    <3>2. CASE p # c
      <4>1. /\ fd'[p] = fd[p] /\ pi'[p] = pi[p] /\ aPI'[p] = aPI[p]
            /\ conex' = conex
        BY <1>1, <1>4, <3>2
      <4>2. Pendiente(p)
        BY <1>4, <2>1, <4>1 DEF Pendiente
      <4>3. ~ Sucio(fd[p])
        BY <1>16, <2>1, <4>2, PendienteFd, LosFds
      <4>4. /\ conex[fd[p]] = p /\ pi[p] # "fin"
            /\ \A j \in DOMAIN aPI[p] : aPI[p][j].tipo # "T"
        BY <1>4, <4>2, <4>3 DEF LimpioInv, IInv, ConexInv
      <4>. QED BY <4>1, <4>4
    <3>. QED BY <3>1, <3>2
  <2>. QED BY <2>1 DEF LimpioInv
<1>20. ReanudaInv'
  <2>1. ASSUME NEW g \in Fds
        PROVE /\ PorVenir(g)' = PorVenir(g)
              /\ Cuenta(LPS', DeFd(g)') = Cuenta(LPS, DeFd(g))
    <3>1. procer'.pc = "avisa" /\ fd'[procer'.img] = g
             <=> procer.pc = "avisa" /\ fd[procer.img] = g
      <4>1. procer.pc = "avisa" => procer.img \in Clientes \ {c}
        BY <1>1 DEF ProcerInv, ImagenInv, IInv, ConexInv
      <4>. QED BY <1>1, <1>4, <4>1
    <3>2. PorVenir(g)' = PorVenir(g)
      BY <1>4, <3>1 DEF PorVenir, UnoSi, Cuenta, EsSDe
    <3>3. \A i \in DOMAIN LPS : LPS[i] \in Clientes \ {c}
      <4>1. \A i \in DOMAIN LPS : LPS[i] \in Clientes
        BY TiposInt DEF IInv
      <4>2. \A i \in DOMAIN LPS : proc[LPS[i]] = "suspendido"
        BY DEF ColasInv, ImagenInv, IInv, ConexInv
      <4>. QED BY <1>1, <4>1, <4>2
    <3>4. \A i \in DOMAIN LPS : LPS[i] \in DeFd(g)' <=> LPS[i] \in DeFd(g)
      BY <1>1, <3>3 DEF DeFd
    <3>5. {i \in DOMAIN LPS : LPS[i] \in DeFd(g)'}
             = {i \in DOMAIN LPS : LPS[i] \in DeFd(g)}
      BY <3>4
    <3>. QED BY <1>4, <3>2, <3>5 DEF Cuenta
  <2>2. ASSUME NEW g \in Fds PROVE EnCamino(g)' <= EnCamino(g)
    <3>1. EnCamino(g) \in Nat
      BY CuentasNat DEF IInv
    <3>2. CASE g = f
      <4>1. Cuenta(aPP'[c], {"R"}) = 0
        <5>1. aPP'[c] \in Seq(EnvioPI) /\ \A i \in DOMAIN aPP'[c] : FALSE
          BY <1>1, <1>2
        <5>. QED BY <5>1, CuentaNat
      <4>2. Del(aPI'[c], aPP'[c], pi'[c]) = 0
        BY <1>1, <1>2, <1>4, <4>1 DEF Del, UnoSi
      <4>3. EnCamino(g)' = 0
        BY <1>1, <1>4, <3>2, <4>2, ClientesAssumption DEF EnCamino
      <4>. QED BY <3>1, <4>3
    <3>3. CASE g # f
      <4>1. EnCamino(g)' = EnCamino(g)
        <5>1. conex'[g] = conex[g] /\ conex[g] # c
          BY <1>1, <1>4, <3>3
        <5>2. conex[g] \in Clientes \cup {Nadie}
          BY TiposLTS DEF IInv
        <5>. QED BY <1>1, <1>4, <5>1, <5>2 DEF EnCamino, Del, Cuenta, EsS
      <4>. QED BY <3>1, <4>1
    <3>. QED BY <3>2, <3>3
  <2>3. \A g \in Fds : /\ PorVenir(g) \in Nat /\ EnCamino(g) \in Nat
                       /\ EnCamino(g)' \in Nat /\ Cuenta(LPS, DeFd(g)) \in Nat
                       /\ PorVenir(g) + EnCamino(g) <= Cuenta(LPS, DeFd(g))
    BY <1>7, CuentasNat, CuentasNatDespues DEF IInv, ConexInv, ReanudaInv
  <2>4. \A g \in Fds : PorVenir(g)' + EnCamino(g)' <= Cuenta(LPS', DeFd(g)')
    BY <2>1, <2>2, <2>3
  <2>. QED BY <1>5, <1>6, <2>4 DEF ReanudaInv
<1>. QED BY <1>7, <1>8, <1>12, <1>13, <1>14, <1>15, <1>17, <1>18, <1>19, <1>20
      DEF IInv, ConexInv

LEMMA Paso_LTSAdmite == ASSUME IInv, LTSAdmite PROVE IInv'
<1>1. /\ sem \in [MPS : Nat, MMP : Nat] /\ sem.MPS > 0
      /\ sem' = [MPS |-> sem.MPS - 1,
                 MMP |-> IF sem.MMP > 0 THEN sem.MMP - 1 ELSE 0]
  BY TiposInt DEF IInv, LTSAdmite
<1>2. /\ sem' \in [MPS : Nat, MMP : Nat] /\ sem'.MPS + 1 = sem.MPS
      /\ sem'.MMP + UnoSi(sem.MMP > 0) = sem.MMP
  BY <1>1 DEF UnoSi
<1>3. CASE sem.MMP > 0
  <2>1. Admite(lts.cl, lts.fd, "push", "C")
    BY <1>2, <1>3 DEF Admite, LTSAdmite, Responde, UnoSi
  <2>. QED BY <2>1, Admite_Paso
<1>4. CASE ~ (sem.MMP > 0)
  <2>1. Admite(lts.cl, lts.fd, "demora", "D")
    BY <1>2, <1>4 DEF Admite, LTSAdmite, Responde, UnoSi
  <2>. QED BY <2>1, Admite_Paso
<1>. QED BY <1>3, <1>4

(* The image of c put in its queue.                                        *)
Pone(c, e) ==
    /\ LTSPush /\ c = lts.cl /\ proc' = [proc EXCEPT ![c] = e]
    /\ \/ lts.pc = "push" /\ e = "memoria" /\ LFIFO' = LFIFO
       \/ lts.pc = "demora" /\ e = "demorado" /\ LFIFO' = Append(LFIFO, c)

LEMMA PoneColas ==
    ASSUME IInv, NEW c \in Clientes, NEW e, Pone(c, e), proc[c] = "afuera",
           UNCHANGED LPS
    PROVE ColasInv' /\ LFIFO' \in Seq(Clientes)
<1>1. /\ LFIFO \in Seq(Clientes) /\ LPS \in Seq(Clientes)
      /\ \A d \in Clientes \ {c} : proc'[d] = proc[d]
      /\ proc'[c] = e
  BY TiposInt DEF IInv, Pone
<1>2. /\ \A i \in DOMAIN LFIFO : proc[LFIFO[i]] = "demorado"
      /\ \A i, j \in DOMAIN LFIFO : LFIFO[i] = LFIFO[j] => i = j
      /\ \A i \in DOMAIN LPS : proc[LPS[i]] = "suspendido"
      /\ \A i, j \in DOMAIN LPS : LPS[i] = LPS[j] => i = j
  BY DEF ColasInv, ImagenInv, IInv, ConexInv
<1>3. /\ \A i \in DOMAIN LFIFO : LFIFO[i] \in Clientes \ {c}
      /\ \A i \in DOMAIN LPS : LPS[i] \in Clientes \ {c}
  BY <1>1, <1>2
<1>4. /\ \A i \in DOMAIN LPS : proc'[LPS[i]] = "suspendido"
      /\ \A i \in DOMAIN LFIFO : proc'[LFIFO[i]] = "demorado"
  BY <1>1, <1>2, <1>3
<1>5. CASE LFIFO' = LFIFO
  BY <1>1, <1>2, <1>4, <1>5 DEF ColasInv
<1>6. CASE e = "demorado" /\ LFIFO' = Append(LFIFO, c)
  <2>1. /\ LFIFO' \in Seq(Clientes)
        /\ \A i \in DOMAIN LFIFO' :
              \/ i \in DOMAIN LFIFO /\ LFIFO'[i] = LFIFO[i]
              \/ i = Len(LFIFO) + 1 /\ LFIFO'[i] = c
    BY <1>1, <1>6, Agrega
  <2>2. \A i \in DOMAIN LFIFO' : proc'[LFIFO'[i]] = "demorado"
    BY <1>1, <1>4, <1>6, <2>1
  <2>3. \A i, j \in DOMAIN LFIFO' : LFIFO'[i] = LFIFO'[j] => i = j
    BY <1>2, <1>3, <2>1
  <2>. QED BY <1>2, <1>4, <2>1, <2>2, <2>3 DEF ColasInv
<1>. QED BY <1>5, <1>6 DEF Pone

LEMMA PoneLugares ==
    ASSUME IInv, TypeOK', NEW c \in Clientes, NEW e, Pone(c, e),
           proc[c] = "afuera", UNCHANGED <<sem, procer>>, lts'.pc = "epoll"
    PROVE LugaresExactos'
<1>1. sem \in [MPS : Nat, MMP : Nat]
  BY TiposInt DEF IInv
<1>2. /\ UnoSi(proc[c] \in EnSistema) = 0 /\ UnoSi(proc[c] \in Memoria) = 0
      /\ UnoSi(e \in EnSistema) = 1 /\ Entran = 1
  BY DEF UnoSi, EnSistema, Memoria, Entran, Pone
<1>3. UnoSi(e \in Memoria) = Empuja /\ Empuja \in Nat
  BY DEF UnoSi, Memoria, Empuja, Pone
<1>4. Entran' = 0 /\ Empuja' = 0 /\ Sale' = Sale /\ Sale \in Nat
  BY DEF Entran, Empuja, Sale, UnoSi
<1>5. Mueve(c, e)
  <2>1. /\ sem.MPS + 1 + (0 + Sale) = sem.MPS + 0 + (1 + Sale)
        /\ sem.MMP + Empuja + (0 + Sale) = sem.MMP + 0 + (Empuja + Sale)
    BY <1>1, <1>3, <1>4
  <2>2. proc' = [proc EXCEPT ![c] = e] /\ sem' = sem
    BY DEF Pone
  <2>. QED BY <1>2, <1>3, <1>4, <2>1, <2>2 DEF Mueve
<1>. QED BY <1>5, Lugares DEF IInv

LEMMA Pone_Paso ==
    ASSUME IInv, NEW c, NEW e, Pone(c, e) PROVE IInv'
<1>1. /\ pp # "fin" /\ lts' = EnEpoll /\ c = lts.cl
      /\ lts.pc \in {"push", "demora"}
      /\ UNCHANGED <<pi, aPI, aPP, backlog, conex, fd, eventos, pp, caidas>>
      /\ UNCHANGED <<pasos, LPS, sem, procer, senales, sendingList>>
  BY DEF Pone, LTSPush, red
<1>2. /\ e \in {"memoria", "demorado"} /\ proc' = [proc EXCEPT ![c] = e]
  BY DEF Pone
<1>3. c \in Clientes /\ lts.fd \in Fds /\ Entra(c)
  BY <1>1, EnLasManos DEF Entra
<1>4. fd[c] = lts.fd /\ fd[c] # 0 /\ proc[c] = "afuera"
  BY <1>3, LosFds DEF ImagenFd, ImagenInv, IInv, ConexInv
<1>5. /\ proc' \in [Clientes -> EnSistema \cup {"afuera", "finalizado"}]
      /\ proc'[c] = e /\ \A d \in Clientes \ {c} : proc'[d] = proc[d]
  BY <1>2, <1>3, Proc_Cambia DEF EnSistema
<1>6. ColasInv' /\ LFIFO' \in Seq(Clientes)
  BY <1>1, <1>3, <1>4, PoneColas
<1>7. lts' \in Lts /\ lts'.pc = "epoll"
  BY <1>1 DEF EnEpoll, Lts
<1>8. TypeOK'
  BY <1>1, <1>5, <1>6, <1>7, LTS_Tipos, TiposLTS, TiposInt, TiposPI DEF IInv
<1>9. RedInv' /\ EventosInv' /\ LtsInv'
  <2>1. RedInv'
    BY <1>1 DEF RedInv, Abierta, IInv, ConexInv
  <2>2. EventosInv'
    BY <1>1 DEF EventosInv, Ido, IInv, ConexInv
  <2>. QED BY <1>7, <2>1, <2>2 DEF LtsInv
<1>10. ASSUME NEW d \in Clientes PROVE DelC(d)'
  <2>1. DelC(d)
    BY LosDelC DEF IInv, ConexInv
  <2>2. /\ ~ EnMano(d) /\ ~ EnScript(d) /\ ~ EnMano(d)' /\ ~ EnScript(d)'
        /\ EnCola(d)' <=> EnCola(d)
    BY <1>1, <1>7 DEF EnMano, EnScript, EnCola
  <2>3. Fase(d)' /\ RespuestaDe(d)'
    BY <1>1, <2>1 DEF DelC, Fase, RespuestaDe
  <2>4. FaseNuevo(d)' /\ FaseDentro(d)' /\ AbiertaDe(d)'
    BY <1>1, <2>1, <2>2
       DEF DelC, FaseNuevo, FaseDentro, AbiertaDe, Abierta
  <2>. QED BY <1>1, <2>1, <2>3, <2>4 DEF DelC
<1>11. FasesInv' /\ AbiertasInv' /\ RespuestaPrimero' /\ NadieDesconectado'
  BY <1>10, LosDelCDespues
<1>12. ImagenInv'
  <2>1. ImagenFd'
    <3>1. ASSUME NEW d \in Clientes \ {c}
          PROVE /\ ~ Entra(d) /\ ~ Entra(d)'
                /\ fd'[d] = fd[d] /\ proc'[d] = proc[d]
      BY <1>1, <1>5, <1>7 DEF Entra
    <3>2. ~ Entra(c)' /\ fd'[c] # 0 /\ proc'[c] # "afuera"
      BY <1>1, <1>2, <1>4, <1>5, <1>7 DEF Entra
    <3>3. ImagenFd
      BY DEF IInv, ConexInv, ImagenInv
    <3>. QED BY <3>1, <3>2, <3>3 DEF ImagenFd
  <2>2. ProcerInv'
    <3>1. ProcerInv
      BY DEF IInv, ConexInv, ImagenInv
    <3>2. procer.pc # "espera" => procer.img \in Clientes
      BY <3>1 DEF ProcerInv
    <3>3. procer.pc \in {"espera", "ejecuta", "avisa", "libera"}
      BY TiposInt DEF IInv
    <3>4. procer.pc # "espera" => proc'[procer.img] = proc[procer.img]
      BY <1>4, <1>5, <3>1, <3>2, <3>3 DEF ProcerInv
    <3>. QED BY <1>1, <3>1, <3>3, <3>4 DEF ProcerInv
  <2>. QED BY <1>6, <2>1, <2>2 DEF ImagenInv
<1>13. LugaresExactos'
  BY <1>1, <1>3, <1>4, <1>7, <1>8, PoneLugares
<1>14. MensajesInv' /\ UltimoInv'
  <2>1. \A i \in DOMAIN sendingList : sendingList[i].de \in Clientes \ {c}
    BY <1>4, TiposLista DEF MensajesInv, IInv, ConexInv
  <2>2. MensajesInv'
    BY <1>1, <1>5, <2>1 DEF MensajesInv, IInv, ConexInv
  <2>3. UltimoInv'
    BY <1>1 DEF UltimoInv, IInv, ConexInv
  <2>. QED BY <2>2, <2>3
<1>15. AvisosPropios'
  BY <1>1 DEF AvisosPropios, Sucio, IInv
<1>16. AvisadosInv'
  <2>1. ASSUME NEW d \in Clientes, proc'[d] = "finalizado" PROVE Avisado(d)'
    <3>1. proc[d] = "finalizado"
      BY <1>2, <1>5, <2>1
    <3>2. Avisado(d)
      BY <1>1, <3>1 DEF AvisadosInv, IInv, ConexInv
    <3>. QED BY <1>1, <3>2 DEF Avisado, Ido
  <2>. QED BY <2>1 DEF AvisadosInv
<1>17. LimpioInv'
  <2>1. ASSUME NEW p \in Clientes, Pendiente(p)' PROVE Pendiente(p)
    <3>1. CASE p = c
      BY <1>4, <3>1 DEF Pendiente
    <3>2. CASE p # c
      BY <1>1, <1>5, <2>1, <3>2 DEF Pendiente
    <3>. QED BY <3>1, <3>2
  <2>. QED BY <1>1, <2>1 DEF LimpioInv, Sucio, IInv, ConexInv
<1>18. ReanudaInv'
  <2>1. ASSUME NEW g \in Fds PROVE EnCamino(g)' <= EnCamino(g)
    <3>1. EnCamino(g) \in Nat
      BY CuentasNat DEF IInv
    <3>2. EnCamino(g)' = EnCamino(g)
      BY <1>1 DEF EnCamino, Del, Cuenta, EsS
    <3>. QED BY <3>1, <3>2
  <2>. QED BY <1>1, <1>7, <1>8, <2>1, LTS_Reanuda
<1>. QED BY <1>8, <1>9, <1>11, <1>12, <1>13, <1>14, <1>15, <1>16, <1>17, <1>18
      DEF IInv, ConexInv

LEMMA Paso_LTSPush == ASSUME IInv, LTSPush PROVE IInv'
<1>1. CASE lts.pc = "push" /\ proc' = [proc EXCEPT ![lts.cl] = "memoria"]
           /\ UNCHANGED LFIFO
  <2>1. Pone(lts.cl, "memoria")
    BY <1>1 DEF Pone
  <2>. QED BY <2>1, Pone_Paso
<1>2. CASE lts.pc = "demora" /\ proc' = [proc EXCEPT ![lts.cl] = "demorado"]
           /\ LFIFO' = Append(LFIFO, lts.cl)
  <2>1. Pone(lts.cl, "demorado")
    BY <1>2 DEF Pone
  <2>. QED BY <2>1, Pone_Paso
<1>. QED BY <1>1, <1>2 DEF LTSPush

(* A set of numbers has a first one: there is no endless descent of the    *)
(* finite sets 1 .. i.                                                     *)
LEMMA Primero ==
    ASSUME NEW A \in SUBSET Nat, A # {}
    PROVE \E i \in A : \A j \in A : ~ (j < i)
<1> DEFINE R == StrictSubsetOrdering(Nat)
           F == FiniteSubsetsOf(Nat)
           X == {1 .. i : i \in A}
<1>1. X \subseteq F /\ X # {}
  <2>1. \A i \in A : IsFiniteSet(1 .. i) /\ 1 .. i \in SUBSET Nat
    BY FS_Interval
  <2>. QED BY <2>1 DEF FiniteSubsetsOf
<1>2. IsWellFoundedOn(R, F)
  BY FS_StrictSubsetOrderingWellFounded
<1>3. PICK x \in X : \A y \in X : ~ (<<y, x>> \in R)
  <2>. HIDE DEF R, F, X
  <2>. QED BY <1>1, <1>2, WFMin
<1>4. PICK i \in A : x = 1 .. i
  OBVIOUS
<1>5. ASSUME NEW j \in A, j < i PROVE FALSE
  <2>1. /\ 1 .. j \in X /\ 1 .. j \subseteq 1 .. i
        /\ i \in 1 .. i /\ i \notin 1 .. j
    BY <1>5
  <2>2. <<1 .. j, 1 .. i>> \in R
    BY <2>1 DEF StrictSubsetOrdering
  <2>. QED BY <1>3, <1>4, <2>1, <2>2
<1>. QED BY <1>5

(* There is an image of f to resume when there is an R to read from f.     *)
LEMMA HayQuien ==
    ASSUME IInv, NEW f \in Fds, conex[f] \in Clientes, pp # "fin",
           lts.pc = "epoll", aPP[conex[f]] # <<>>
    PROVE /\ fd[conex[f]] = f /\ \A i \in DOMAIN aPP[conex[f]] :
                                    aPP[conex[f]][i] = "R"
          /\ restoreSuspended(f) # {}
<1> DEFINE d == conex[f]
           A == {i \in DOMAIN LPS : LPS[i] \in DeFd(f)}
<1>1. fd[d] = f /\ \A i \in DOMAIN aPP[d] : aPP[d][i] = "R"
  <2>1. FaseDentro(d) /\ ~ EnMano(d) /\ ~ EnScript(d)
    BY DEF FasesInv, EnMano, EnScript, IInv, ConexInv
  <2>. QED BY <2>1 DEF FaseDentro
<1>2. aPP[d] \in Seq(EnvioPI) /\ LPS \in Seq(Clientes)
  BY TiposPI, TiposInt DEF IInv
<1>3. Cuenta(aPP[d], {"R"}) \in Nat /\ Cuenta(aPP[d], {"R"}) # 0
  <2>1. 1 \in DOMAIN aPP[d]
    BY <1>2
  <2>2. aPP[d][1] \in {"R"}
    BY <1>1, <2>1
  <2>. HIDE DEF d
  <2>. QED BY <1>2, <2>1, <2>2, CuentaNat
<1>4. EnCamino(f) >= 1 /\ EnCamino(f) \in Nat
  <2>1. /\ EnCamino(f) = Del(aPI[d], aPP[d], pi[d]) /\ EnCamino(f) \in Nat
        /\ aPI[d] \in Seq(AvisoPI)
    BY ClientesAssumption, CuentasNat, TiposPI DEF EnCamino, IInv
  <2>2. Cuenta(aPI[d], EsS) \in Nat
    BY <2>1, CuentaNat
  <2>. HIDE DEF d
  <2>3. UnoSi(pi[d] = "enter") \in Nat
    BY DEF UnoSi
  <2>. QED BY <1>3, <2>1, <2>2, <2>3 DEF Del
<1>5. Cuenta(LPS, DeFd(f)) # 0
  <2>1. /\ PorVenir(f) + EnCamino(f) <= Cuenta(LPS, DeFd(f))
        /\ PorVenir(f) \in Nat
    BY CuentasNat DEF IInv, ConexInv, ReanudaInv
  <2>. QED BY <1>4, <2>1
<1>6. A # {}
  BY <1>2, <1>5, CuentaNat
<1>7. A \in SUBSET Nat /\ DOMAIN LPS = 1 .. Len(LPS) /\ Len(LPS) \in Nat
  BY <1>2
<1>8. PICK i \in A : \A j \in A : ~ (j < i)
  BY <1>6, <1>7, Primero
<1>9. i \in restoreSuspended(f)
  <2>1. i \in DOMAIN LPS /\ fd[LPS[i]] = f
    BY DEF DeFd
  <2>2. ASSUME NEW j \in 1 .. i - 1, fd[LPS[j]] = f PROVE FALSE
    <3>1. j \in DOMAIN LPS /\ j < i
      BY <1>7, <2>1
    <3>2. LPS[j] \in Clientes
      BY <1>2, <3>1
    <3>. QED BY <1>8, <2>2, <3>1, <3>2 DEF DeFd
  <2>. QED BY <2>1, <2>2 DEF restoreSuspended
<1>. QED BY <1>1, <1>9

(* The image of f that is the i-th of LPS, resumed by the client d.        *)
Resume(f, d, i, p) ==
    /\ Evento(f, "in") /\ conex[f] = d /\ sem.MMP > 0
    /\ i \in DOMAIN LPS /\ p = LPS[i] /\ fd[p] = f
    /\ LPS' = RemoveAt(LPS, i) /\ proc' = [proc EXCEPT ![p] = "memoria"]
    /\ sem' = [sem EXCEPT !.MMP = @ - 1]
    /\ aPP' = [aPP EXCEPT ![d] = Tail(@)]
    /\ UNCHANGED <<conex, lts, pi, aPI, backlog, fd, pasos, LFIFO, procer,
                   senales, sendingList, pp, caidas>>

LEMMA ResumeColas ==
    ASSUME IInv, NEW f \in Fds, NEW d, NEW i, NEW p, Resume(f, d, i, p)
    PROVE /\ p \in Clientes /\ proc[p] = "suspendido"
          /\ proc' \in [Clientes -> EnSistema \cup {"afuera", "finalizado"}]
          /\ proc'[p] = "memoria"
          /\ \A e \in Clientes \ {p} : proc'[e] = proc[e]
          /\ LPS' \in Seq(Clientes) /\ ColasInv'
          /\ \A g \in Fds : Cuenta(LPS, DeFd(g))
                               = Cuenta(LPS', DeFd(g)) + UnoSi(g = f)
<1>1. /\ i \in DOMAIN LPS /\ p = LPS[i] /\ fd[p] = f /\ LFIFO' = LFIFO
      /\ LPS' = RemoveAt(LPS, i) /\ proc' = [proc EXCEPT ![p] = "memoria"]
  BY DEF Resume
<1>2. LPS \in Seq(Clientes) /\ LFIFO \in Seq(Clientes)
  BY TiposInt DEF IInv
<1>3. /\ \A k \in DOMAIN LFIFO : proc[LFIFO[k]] = "demorado"
      /\ \A k, l \in DOMAIN LFIFO : LFIFO[k] = LFIFO[l] => k = l
      /\ \A k \in DOMAIN LPS : proc[LPS[k]] = "suspendido"
      /\ \A k, l \in DOMAIN LPS : LPS[k] = LPS[l] => k = l
  BY DEF ColasInv, ImagenInv, IInv, ConexInv
<1>4. p \in Clientes /\ proc[p] = "suspendido"
  BY <1>1, <1>2, <1>3
<1>5. /\ proc' \in [Clientes -> EnSistema \cup {"afuera", "finalizado"}]
      /\ proc'[p] = "memoria"
      /\ \A e \in Clientes \ {p} : proc'[e] = proc[e]
  BY <1>1, <1>4, Proc_Cambia DEF EnSistema
<1>6. /\ LPS' \in Seq(Clientes) /\ DOMAIN LPS' \subseteq Nat
      /\ \A k \in DOMAIN LPS' : /\ Salta(k, i) \in DOMAIN LPS
                               /\ Salta(k, i) # i
                               /\ LPS'[k] = LPS[Salta(k, i)]
      /\ \A k, l \in DOMAIN LPS' : k < l => Salta(k, i) < Salta(l, i)
  BY <1>1, <1>2, Saca
<1>7. \A k \in DOMAIN LPS' : LPS'[k] \in Clientes \ {p}
  BY <1>1, <1>2, <1>3, <1>6
<1>8. \A k \in DOMAIN LPS' : proc'[LPS'[k]] = "suspendido"
  BY <1>3, <1>5, <1>6, <1>7
<1>9. \A k, l \in DOMAIN LPS' : LPS'[k] = LPS'[l] => k = l
  <2>1. \A k, l \in Nat : Salta(k, i) = Salta(l, i) => k = l
    BY <1>1, <1>2 DEF Salta
  <2>. QED BY <1>3, <1>6, <2>1
<1>10. ColasInv'
  <2>1. \A k \in DOMAIN LFIFO : LFIFO[k] \in Clientes \ {p}
    BY <1>2, <1>3, <1>4
  <2>2. \A k \in DOMAIN LFIFO : proc'[LFIFO[k]] = "demorado"
    BY <1>3, <1>5, <2>1
  <2>. QED BY <1>1, <1>3, <1>8, <1>9, <2>2 DEF ColasInv
<1>11. ASSUME NEW g \in Fds
       PROVE Cuenta(LPS, DeFd(g)) = Cuenta(LPS', DeFd(g)) + UnoSi(g = f)
  <2>1. Cuenta(LPS, DeFd(g)) = Cuenta(LPS', DeFd(g)) + UnoSi(p \in DeFd(g))
    BY <1>1, <1>2, CuentaSaca
  <2>2. p \in DeFd(g) <=> g = f
    BY <1>1, <1>4 DEF DeFd
  <2>. QED BY <2>1, <2>2 DEF UnoSi
<1>. QED BY <1>4, <1>5, <1>6, <1>10, <1>11

LEMMA Resume_Paso ==
    ASSUME IInv, NEW f \in Fds, NEW d \in Clientes, NEW i, NEW p,
           Resume(f, d, i, p)
    PROVE IInv'
<1>1. /\ UNCHANGED <<conex, lts, pi, aPI, backlog, fd, pasos, LFIFO, procer>>
      /\ UNCHANGED <<senales, sendingList, pp, caidas>>
      /\ sem.MMP > 0 /\ sem' = [sem EXCEPT !.MMP = @ - 1]
      /\ fd[p] = f /\ conex[f] = d /\ aPP' = [aPP EXCEPT ![d] = Tail(@)]
      /\ proc' = [proc EXCEPT ![p] = "memoria"] /\ Evento(f, "in")
  BY DEF Resume
<1>2. /\ pp # "fin" /\ lts.pc = "epoll" /\ eventos[f] = "in"
      /\ eventos' \in Evs /\ eventos'[f] = "no" /\ Menos
  BY <1>1, EventoHace
<1>3. aPP[d] # <<>>
  BY <1>1, <1>2 DEF EventosInv, IInv, ConexInv
<1>4. fd[d] = f /\ \A k \in DOMAIN aPP[d] : aPP[d][k] = "R"
  BY <1>1, <1>2, <1>3, HayQuien
<1>5. /\ p \in Clientes /\ proc[p] = "suspendido"
      /\ proc' \in [Clientes -> EnSistema \cup {"afuera", "finalizado"}]
      /\ proc'[p] = "memoria"
      /\ \A e \in Clientes \ {p} : proc'[e] = proc[e]
      /\ LPS' \in Seq(Clientes) /\ ColasInv'
      /\ \A g \in Fds : Cuenta(LPS, DeFd(g))
                           = Cuenta(LPS', DeFd(g)) + UnoSi(g = f)
  BY ResumeColas
<1>6. /\ aPP' \in [Clientes -> Seq(EnvioPI)]
      /\ \A e \in Clientes \ {d} : aPP'[e] = aPP[e]
      /\ \A k \in DOMAIN aPP'[d] : aPP'[d][k] = "R"
      /\ Cuenta(aPP[d], {"R"}) = Cuenta(aPP'[d], {"R"}) + 1
      /\ Cuenta(aPP'[d], {"R"}) \in Nat
  <2>1. aPP[d] \in Seq(EnvioPI) /\ aPP \in [Clientes -> Seq(EnvioPI)]
    BY TiposPI DEF IInv
  <2>2. /\ aPP'[d] = Tail(aPP[d]) /\ aPP' \in [Clientes -> Seq(EnvioPI)]
        /\ \A e \in Clientes \ {d} : aPP'[e] = aPP[e]
    <3>1. Tail(aPP[d]) \in Seq(EnvioPI)
      BY <1>3, <2>1
    <3>. QED BY <1>1, <2>1, <3>1
  <2>3. /\ 1 \in DOMAIN aPP[d] /\ aPP[d][1] = Head(aPP[d])
        /\ \A k \in DOMAIN Tail(aPP[d]) :
              k + 1 \in DOMAIN aPP[d] /\ Tail(aPP[d])[k] = aPP[d][k + 1]
    BY <1>3, <2>1, Cola
  <2>4. Head(aPP[d]) \in {"R"}
    BY <1>4, <2>3
  <2>5. /\ Cuenta(aPP[d], {"R"})
              = Cuenta(Tail(aPP[d]), {"R"}) + UnoSi(Head(aPP[d]) \in {"R"})
        /\ Cuenta(Tail(aPP[d]), {"R"}) \in Nat
    <3>1. Tail(aPP[d]) \in Seq(EnvioPI)
      BY <1>3, <2>1
    <3>. QED BY <1>3, <2>1, <3>1, CuentaCola, CuentaNat
  <2>. QED BY <1>4, <2>2, <2>3, <2>4, <2>5 DEF UnoSi
<1>7. TypeOK'
  <2>1. sem' \in [MPS : Nat, MMP : Nat]
    <3>1. sem \in [MPS : Nat, MMP : Nat] /\ sem.MMP \in Nat
      BY TiposInt DEF IInv
    <3>2. sem.MMP - 1 \in Nat
      BY <1>1, <3>1
    <3>. QED BY <1>1, <3>1, <3>2
  <2>. QED BY <1>1, <1>2, <1>5, <1>6, <2>1,
              LTS_Tipos, TiposLTS, TiposInt, TiposPI DEF IInv
<1>8. RedInv' /\ EventosInv' /\ LtsInv'
  <2>1. RedInv'
    BY <1>1 DEF RedInv, Abierta, IInv, ConexInv
  <2>2. EventosInv'
    <3>1. ASSUME NEW g \in Fds, eventos'[g] # "no"
          PROVE /\ conex'[g] \in Clientes
                /\ eventos'[g] = "in" => aPP'[conex'[g]] # <<>>
                /\ eventos'[g] = "hup" => pi'[conex'[g]] \in Idos
      <4>1. g # f /\ eventos'[g] = eventos[g]
        BY <1>2, <3>1 DEF Menos
      <4>2. conex[g] \in Clientes \ {d}
        BY <1>1, <3>1, <4>1, ClientesAssumption
           DEF EventosInv, RedInv, IInv, ConexInv
      <4>. QED BY <1>1, <1>6, <3>1, <4>1, <4>2
               DEF EventosInv, IInv, ConexInv, Ido
    <3>2. eventos'[serverfd] # "no" => backlog' # <<>>
      BY <1>1, <1>2 DEF Menos, EventosInv, IInv, ConexInv
    <3>. QED BY <3>1, <3>2 DEF EventosInv, Ido
  <2>. QED BY <1>1, <1>2, <2>1, <2>2 DEF LtsInv
<1>9. ASSUME NEW e \in Clientes PROVE DelC(e)'
  <2>1. DelC(e)
    BY LosDelC DEF IInv, ConexInv
  <2>2. /\ ~ EnMano(e) /\ ~ EnScript(e) /\ ~ EnMano(e)' /\ ~ EnScript(e)'
        /\ EnCola(e)' <=> EnCola(e)
    BY <1>1, <1>2 DEF EnMano, EnScript, EnCola
  <2>3. RespuestaDe(e)' /\ AbiertaDe(e)'
    BY <1>1, <1>2, <2>1 DEF DelC, RespuestaDe, AbiertaDe, Abierta
  <2>4. Fase(e)'
    BY <1>1, <1>3, <1>6, <2>1 DEF DelC, Fase
  <2>5. ~ EnCola(d)
    BY <1>1 DEF RedInv, EnCola, IInv, ConexInv
  <2>6. FaseNuevo(e)'
    BY <1>1, <1>2, <1>6, <2>1, <2>2, <2>5 DEF DelC, FaseNuevo
  <2>7. FaseDentro(e)'
    BY <1>1, <1>2, <1>6, <2>1, <2>2 DEF DelC, FaseDentro
  <2>. QED BY <1>1, <1>2, <2>1, <2>3, <2>4, <2>6, <2>7 DEF DelC
<1>10. FasesInv' /\ AbiertasInv' /\ RespuestaPrimero' /\ NadieDesconectado'
  BY <1>9, LosDelCDespues
<1>11. ImagenInv'
  <2>1. ImagenFd'
    <3>1. \A e \in Clientes : proc'[e] = "afuera" <=> proc[e] = "afuera"
      BY <1>5
    <3>2. \A e \in Clientes : Entra(e)' <=> Entra(e)
      BY <1>1 DEF Entra
    <3>3. ImagenFd
      BY DEF IInv, ConexInv, ImagenInv
    <3>. QED BY <1>1, <3>1, <3>2, <3>3 DEF ImagenFd
  <2>2. ProcerInv'
    <3>1. ProcerInv
      BY DEF IInv, ConexInv, ImagenInv
    <3>2. procer.pc \in {"espera", "ejecuta", "avisa", "libera"}
      BY TiposInt DEF IInv
    <3>. QED BY <1>1, <1>5, <3>1, <3>2 DEF ProcerInv
  <2>. QED BY <1>5, <2>1, <2>2 DEF ImagenInv
<1>12. LugaresExactos'
  <2>1. /\ sem'.MPS = sem.MPS /\ sem'.MMP + 1 = sem.MMP
        /\ sem'.MPS \in Nat /\ sem'.MMP \in Nat
    <3>1. sem \in [MPS : Nat, MMP : Nat] /\ sem.MMP \in Nat /\ sem.MPS \in Nat
      BY TiposInt DEF IInv
    <3>. QED BY <1>1, <3>1
  <2>2. /\ UnoSi("memoria" \in EnSistema) = 1
        /\ UnoSi("memoria" \in Memoria) = 1
        /\ UnoSi(proc[p] \in EnSistema) = 1 /\ UnoSi(proc[p] \in Memoria) = 0
    BY <1>5 DEF UnoSi, EnSistema, Memoria
  <2>3. Entran' = Entran /\ Empuja' = Empuja /\ Sale' = Sale
    BY <1>1 DEF Entran, Empuja, Sale
  <2>4. Entran \in Nat /\ Empuja \in Nat /\ Sale \in Nat
    BY DEF Entran, Empuja, Sale, UnoSi
  <2>5. /\ sem'.MPS + 1 + (Entran + Sale) = sem.MPS + 1 + (Entran + Sale)
        /\ sem'.MMP + 1 + (Empuja + Sale) = sem.MMP + 0 + (Empuja + Sale)
    BY <2>1, <2>4
  <2>6. Mueve(p, "memoria")
    BY <1>1, <2>2, <2>3, <2>5 DEF Mueve
  <2>. QED BY <1>5, <1>7, <2>6, Lugares DEF IInv
<1>13. MensajesInv' /\ UltimoInv'
  <2>1. \A k \in DOMAIN sendingList : sendingList[k].de \in Clientes
    BY TiposLista DEF IInv
  <2>2. /\ \A e \in Clientes : proc[e] # "afuera" => proc'[e] # "afuera"
        /\ \A e \in Clientes : proc[e] = "finalizado" => proc'[e] = "finalizado"
    BY <1>5
  <2>3. MensajesInv'
    BY <1>1, <2>1, <2>2 DEF MensajesInv, IInv, ConexInv
  <2>4. UltimoInv'
    BY <1>1 DEF UltimoInv, IInv, ConexInv
  <2>. QED BY <2>3, <2>4
<1>14. AvisosPropios'
  BY <1>1 DEF AvisosPropios, Sucio, IInv
<1>15. AvisadosInv'
  <2>1. ASSUME NEW e \in Clientes, proc'[e] = "finalizado" PROVE Avisado(e)'
    <3>1. Avisado(e)
      BY <1>2, <1>5, <2>1 DEF AvisadosInv, IInv, ConexInv
    <3>. QED BY <1>1, <3>1 DEF Avisado, Ido
  <2>. QED BY <2>1 DEF AvisadosInv
<1>16. LimpioInv'
  <2>1. ASSUME NEW e \in Clientes, Pendiente(e)' PROVE Pendiente(e)
    BY <1>1, <1>5, <2>1 DEF Pendiente
  <2>. QED BY <1>1, <1>2, <2>1 DEF LimpioInv, Sucio, IInv, ConexInv
<1>17. ReanudaInv'
  <2>1. ASSUME NEW g \in Fds
        PROVE PorVenir(g)' + EnCamino(g)' <= Cuenta(LPS', DeFd(g)')
    <3>1. PorVenir(g)' = PorVenir(g) /\ DeFd(g)' = DeFd(g)
      BY <1>1 DEF PorVenir, Cuenta, EsSDe, DeFd
    <3>2. EnCamino(g) = EnCamino(g)' + UnoSi(g = f)
      <4>1. CASE g = f
        <5>1. EnCamino(g) = Del(aPI[d], aPP[d], pi[d])
          BY <1>1, <4>1, ClientesAssumption DEF EnCamino
        <5>2. EnCamino(g)' = Del(aPI[d], aPP'[d], pi[d])
          BY <1>1, <4>1, ClientesAssumption DEF EnCamino
        <5>3. Cuenta(aPI[d], EsS) \in Nat /\ UnoSi(pi[d] = "enter") \in Nat
          BY TiposPI, CuentaNat DEF IInv, UnoSi
        <5>4. Del(aPI[d], aPP[d], pi[d]) = Del(aPI[d], aPP'[d], pi[d]) + 1
          BY <1>6, <5>3 DEF Del
        <5>. QED BY <4>1, <5>1, <5>2, <5>4 DEF UnoSi
      <4>2. CASE g # f
        <5>1. conex[g] # d
          BY <1>1, <4>2, ClientesAssumption DEF RedInv, IInv, ConexInv
        <5>2. conex[g] \in Clientes \cup {Nadie}
          BY TiposLTS DEF IInv
        <5>3. EnCamino(g)' = EnCamino(g)
          BY <1>1, <1>6, <5>1, <5>2 DEF EnCamino
        <5>4. EnCamino(g) \in Nat
          BY CuentasNat DEF IInv
        <5>. QED BY <4>2, <5>3, <5>4 DEF UnoSi
      <4>. QED BY <4>1, <4>2
    <3>3. /\ PorVenir(g) \in Nat /\ EnCamino(g)' \in Nat
          /\ Cuenta(LPS', DeFd(g)) \in Nat
      BY <1>7, CuentasNat, CuentasNatDespues DEF IInv
    <3>4. Cuenta(LPS, DeFd(g)) = Cuenta(LPS', DeFd(g)) + UnoSi(g = f)
      BY <1>5
    <3>5. PorVenir(g) + EnCamino(g) <= Cuenta(LPS, DeFd(g))
      BY DEF ReanudaInv, IInv, ConexInv
    <3>6. UnoSi(g = f) \in Nat
      BY DEF UnoSi
    <3>. QED BY <3>1, <3>2, <3>3, <3>4, <3>5, <3>6
  <2>. QED BY <1>1, <1>2, <2>1 DEF ReanudaInv
<1>. QED BY <1>7, <1>8, <1>10, <1>11, <1>12, <1>13, <1>14, <1>15, <1>16, <1>17
      DEF IInv, ConexInv

LEMMA Paso_LTSReanuda ==
    ASSUME IInv, NEW f \in Fds, LTSReanuda(f) PROVE IInv'
<1>1. /\ pp # "fin" /\ lts.pc = "epoll" /\ eventos[f] = "in" /\ sem.MMP > 0
  BY DEF LTSReanuda, Evento
<1>2. conex[f] \in Clientes /\ aPP[conex[f]] # <<>>
  BY <1>1 DEF EventosInv, IInv, ConexInv
<1>3. restoreSuspended(f) # {}
  BY <1>1, <1>2, HayQuien
<1>4. PICK i \in restoreSuspended(f) :
         /\ LPS' = RemoveAt(LPS, i)
         /\ proc' = [proc EXCEPT ![LPS[i]] = "memoria"]
  BY <1>3 DEF LTSReanuda
<1>5. i \in DOMAIN LPS /\ fd[LPS[i]] = f
  BY DEF restoreSuspended
<1>6. Resume(f, conex[f], i, LPS[i])
  BY <1>1, <1>3, <1>4, <1>5 DEF Resume, LTSReanuda
<1>. QED BY <1>2, <1>6, Resume_Paso

(* The process of another client on the descriptor of a client has lost    *)
(* its own.                                                                *)
LEMMA AjenoIdo ==
    ASSUME IInv, pp # "fin", lts.pc = "epoll", NEW f \in Fds,
           NEW c \in Clientes, fd[c] = f, conex[f] # c
    PROVE Ido(c)
<1>1. /\ Fase(c) /\ FaseNuevo(c) /\ FaseDentro(c) /\ AbiertaDe(c)
      /\ ~ EnMano(c) /\ ~ EnScript(c)
  BY LosDelC DEF DelC, EnMano, EnScript, IInv, ConexInv
<1>2. fd[c] # 0
  BY LosFds
<1>3. pi[c] \in {"resp", "lee", "enter", "fin", "error", "caido"}
      /\ \A i \in DOMAIN aPI[c] : aPI[c][i].tipo # "F"
  BY <1>1, <1>2 DEF Fase
<1>4. ~ EnCola(c)
  BY <1>1, <1>2 DEF FaseNuevo
<1>5. \A g \in Fds : conex[g] # c
  BY <1>1 DEF FaseDentro
<1>6. ~ Abierta(c)
  BY <1>4, <1>5 DEF Abierta, EnCola
<1>. QED BY <1>1, <1>3, <1>6 DEF AbiertaDe, Ido, Idos

(* The first message for f, that says t of the process q, is taken from    *)
(* the list for the client d.                                              *)
Envia(f, d, i, q, t) ==
    /\ Evento(f, "out") /\ conex[f] = d
    /\ i \in DOMAIN sendingList /\ \A j \in 1 .. i - 1 : sendingList[j].fd # f
    /\ sendingList[i] = [fd |-> f, tipo |-> t, de |-> q]
    /\ sendingList' = RemoveAt(sendingList, i)
    /\ UNCHANGED <<pi, backlog, fd, plan, lts, pp, caidas>>

LEMMA EnviaQuien ==
    ASSUME IInv, NEW f \in Fds, NEW d, NEW i, NEW q, NEW t, Envia(f, d, i, q, t)
    PROVE /\ d \in Clientes /\ q \in Clientes /\ t \in {"N", "S", "T"}
          /\ pp # "fin" /\ lts.pc = "epoll" /\ conex[f] = d
          /\ eventos' \in Evs /\ eventos'[f] = "no" /\ Menos
          /\ fd[q] = f /\ fd[d] = f /\ Pendiente(q)
          /\ t = "T" => proc[q] = "finalizado"
          /\ pi[d] = "resp" => aPI[d] # <<>>
<1>1. /\ pp # "fin" /\ lts.pc = "epoll" /\ eventos[f] = "out"
      /\ eventos' \in Evs /\ eventos'[f] = "no" /\ Menos
      /\ conex[f] = d
  BY EventoHace DEF Envia
<1>2. d \in Clientes
  BY <1>1 DEF EventosInv, IInv, ConexInv
<1>3. fd[d] = f /\ (pi[d] = "resp" => aPI[d] # <<>>)
  <2>1. FaseDentro(d) /\ ~ EnMano(d) /\ ~ EnScript(d)
    BY <1>1, <1>2 DEF FasesInv, EnMano, EnScript, IInv, ConexInv
  <2>. QED BY <1>1, <2>1 DEF FaseDentro
<1>4. /\ i \in DOMAIN sendingList /\ sendingList[i].fd = f
      /\ sendingList[i].tipo = t /\ sendingList[i].de = q
  BY DEF Envia
<1>5. q \in Clientes /\ t \in {"N", "S", "T"} /\ fd[q] = f
      /\ (t = "T" => proc[q] = "finalizado")
  BY <1>4, TiposLista DEF MensajesInv, IInv, ConexInv
<1>6. Pendiente(q)
  BY <1>4 DEF Pendiente
<1>. QED BY <1>1, <1>2, <1>3, <1>5, <1>6

LEMMA EnviaLista ==
    ASSUME IInv, NEW f \in Fds, NEW d, NEW i, NEW q, NEW t, Envia(f, d, i, q, t)
    PROVE /\ sendingList' \in Seq(AvisoPP) /\ MensajesInv' /\ UltimoInv'
          /\ ImagenInv' /\ LugaresExactos'
          /\ \A p \in Clientes : Pendiente(p)' => Pendiente(p)
          /\ t = "T" => \A k \in DOMAIN sendingList' : sendingList'[k].de # q
          /\ \A g \in Fds :
                PorVenir(g) = PorVenir(g)' + UnoSi(t = "S" /\ g = f)
          /\ \A j \in DOMAIN sendingList :
                \/ sendingList[j] = [fd |-> f, tipo |-> t, de |-> q]
                \/ \E k \in DOMAIN sendingList' :
                      sendingList'[k] = sendingList[j]
<1>1. /\ i \in DOMAIN sendingList /\ \A j \in 1 .. i - 1 : sendingList[j].fd # f
      /\ sendingList[i] = [fd |-> f, tipo |-> t, de |-> q]
      /\ sendingList' = RemoveAt(sendingList, i)
      /\ UNCHANGED <<pi, backlog, fd, lts, pp, caidas>>
      /\ UNCHANGED <<proc, pasos, LFIFO, LPS, sem, procer, senales>>
  BY DEF Envia, plan
<1>2. /\ q \in Clientes /\ t \in {"N", "S", "T"} /\ lts.pc = "epoll"
      /\ fd[q] = f
  BY EnviaQuien
<1>3. /\ sendingList \in Seq(AvisoPP)
      /\ \A j \in DOMAIN sendingList : sendingList[j].de \in Clientes
  BY TiposLista DEF IInv
<1>4. /\ sendingList' \in Seq(AvisoPP) /\ DOMAIN sendingList' \subseteq Nat
      /\ \A k \in DOMAIN sendingList' :
            /\ Salta(k, i) \in DOMAIN sendingList /\ Salta(k, i) # i
            /\ sendingList'[k] = sendingList[Salta(k, i)]
      /\ \A k, l \in DOMAIN sendingList' : k < l => Salta(k, i) < Salta(l, i)
      /\ \A j \in DOMAIN sendingList : j # i =>
            \E k \in DOMAIN sendingList' : Salta(k, i) = j
  BY <1>1, <1>3, Saca
<1>5. MensajesInv'
  BY <1>1, <1>4 DEF MensajesInv, IInv, ConexInv
<1>6. UltimoInv'
  BY <1>4 DEF UltimoInv, IInv, ConexInv
<1>7. ImagenInv' /\ LugaresExactos'
  BY <1>1, <1>2, LTS_Quieto
<1>8. \A p \in Clientes : Pendiente(p)' => Pendiente(p)
  BY <1>1, <1>4 DEF Pendiente
<1>9. ASSUME t = "T", NEW k \in DOMAIN sendingList', sendingList'[k].de = q
      PROVE FALSE
  <2>. DEFINE j == Salta(k, i)
  <2>1. j \in DOMAIN sendingList /\ j # i /\ sendingList[j].de = q
    BY <1>4, <1>9
  <2>2. sendingList[j].fd = f
    BY <1>2, <2>1 DEF MensajesInv, IInv, ConexInv
  <2>3. DOMAIN sendingList = 1 .. Len(sendingList) /\ Len(sendingList) \in Nat
    BY <1>3
  <2>. HIDE DEF j
  <2>4. ~ (j < i)
    BY <1>1, <2>1, <2>2, <2>3
  <2>5. i < j
    BY <1>1, <2>1, <2>3, <2>4
  <2>6. sendingList[i].tipo # "T"
    BY <1>1, <2>1, <2>5 DEF UltimoInv, IInv, ConexInv
  <2>. QED BY <1>1, <1>9, <2>6
<1>10. ASSUME NEW g \in Fds
       PROVE PorVenir(g) = PorVenir(g)' + UnoSi(t = "S" /\ g = f)
  <2>1. Cuenta(sendingList, EsSDe(g))
           = Cuenta(sendingList', EsSDe(g)) + UnoSi(sendingList[i] \in EsSDe(g))
    BY <1>1, <1>3, CuentaSaca
  <2>2. sendingList[i] \in EsSDe(g) <=> t = "S" /\ g = f
    BY <1>1, <1>2 DEF EsSDe
  <2>3. /\ Cuenta(sendingList', EsSDe(g)) \in Nat
        /\ UnoSi(t = "S" /\ g = f) \in Nat
        /\ UnoSi(procer.pc = "avisa" /\ fd[procer.img] = g) \in Nat
    BY <1>4, CuentaNat DEF UnoSi
  <2>4. UnoSi(sendingList[i] \in EsSDe(g)) = UnoSi(t = "S" /\ g = f)
    BY <2>2 DEF UnoSi
  <2>5. PorVenir(g)' = Cuenta(sendingList', EsSDe(g))
                       + UnoSi(procer.pc = "avisa" /\ fd[procer.img] = g)
    BY <1>1 DEF PorVenir, EsSDe
  <2>. QED BY <2>1, <2>3, <2>4, <2>5 DEF PorVenir
<1>11. \A j \in DOMAIN sendingList :
          \/ sendingList[j] = [fd |-> f, tipo |-> t, de |-> q]
          \/ \E k \in DOMAIN sendingList' : sendingList'[k] = sendingList[j]
  BY <1>1, <1>4
<1>. QED BY <1>4, <1>5, <1>6, <1>7, <1>8, <1>9, <1>10, <1>11

LEMMA EnviaAvisados ==
    ASSUME IInv, NEW f \in Fds, NEW d, NEW i, NEW q, NEW t,
           Envia(f, d, i, q, t),
           \A e \in Clientes : \A j \in DOMAIN aPI[e] :
              \E k \in DOMAIN aPI'[e] : aPI'[e][k] = aPI[e][j],
           Ido(d) \/ \E k \in DOMAIN aPI'[d] : aPI'[d][k] = Msg(t, q)
    PROVE AvisadosInv'
<1>1. UNCHANGED <<pi, fd, proc, pp>>
  BY DEF Envia, plan
<1>2. ASSUME NEW c \in Clientes, proc[c] = "finalizado" PROVE Avisado(c)'
  <2>1. /\ d \in Clientes /\ pp # "fin" /\ lts.pc = "epoll" /\ conex[f] = d
        /\ fd[q] = f
    BY EnviaQuien
  <2>2. Avisado(c)
    BY <1>2, <2>1 DEF AvisadosInv, IInv, ConexInv
  <2>3. CASE Ido(c)
    BY <1>1, <2>3 DEF Avisado, Ido
  <2>4. CASE \E j \in DOMAIN aPI[c] : aPI[c][j] = Msg("T", c)
    <3>1. \E k \in DOMAIN aPI'[c] : aPI'[c][k] = Msg("T", c)
      BY <2>4
    <3>. QED BY <3>1 DEF Avisado
  <2>5. CASE \E j \in DOMAIN sendingList :
                sendingList[j] = [fd |-> fd[c], tipo |-> "T", de |-> c]
    <3>1. PICK j \in DOMAIN sendingList :
                sendingList[j] = [fd |-> fd[c], tipo |-> "T", de |-> c]
      BY <2>5
    <3>2. \/ sendingList[j] = [fd |-> f, tipo |-> t, de |-> q]
          \/ \E k \in DOMAIN sendingList' : sendingList'[k] = sendingList[j]
      BY EnviaLista
    <3>3. CASE \E k \in DOMAIN sendingList' : sendingList'[k] = sendingList[j]
      BY <1>1, <3>1, <3>3 DEF Avisado
    <3>4. CASE sendingList[j] = [fd |-> f, tipo |-> t, de |-> q]
      <4>1. q = c /\ t = "T"
        BY <3>1, <3>4
      <4>2. CASE c = d
        BY <1>1, <4>1, <4>2 DEF Avisado, Ido
      <4>3. CASE c # d
        <5>1. Ido(c)
          BY <2>1, <4>1, <4>3, AjenoIdo
        <5>. QED BY <1>1, <5>1 DEF Avisado, Ido
      <4>. QED BY <4>2, <4>3
    <3>. QED BY <3>2, <3>3, <3>4
  <2>. QED BY <2>2, <2>3, <2>4, <2>5 DEF Avisado
<1>. QED BY <1>1, <1>2 DEF AvisadosInv

(* The client has gone: it loses the message, and f may be closed.         *)
LEMMA Envia_Ido ==
    ASSUME IInv, NEW f \in Fds, NEW d, NEW i, NEW q, NEW t,
           Envia(f, d, i, q, t),
           Ido(d), UNCHANGED aPI, UNCHANGED <<aPP, conex>> \/ Cierra(f)
    PROVE IInv'
<1>1. /\ UNCHANGED <<pi, backlog, fd, lts, pp, caidas, aPI>>
      /\ UNCHANGED <<proc, pasos, LFIFO, LPS, sem, procer, senales>>
  BY DEF Envia, plan
<1>2. /\ d \in Clientes /\ pp # "fin" /\ lts.pc = "epoll" /\ conex[f] = d
      /\ eventos' \in Evs /\ eventos'[f] = "no" /\ Menos
  BY EnviaQuien
<1>3. /\ sendingList' \in Seq(AvisoPP) /\ MensajesInv' /\ UltimoInv'
      /\ ImagenInv' /\ LugaresExactos'
      /\ \A p \in Clientes : Pendiente(p)' => Pendiente(p)
      /\ \A g \in Fds : PorVenir(g) = PorVenir(g)' + UnoSi(t = "S" /\ g = f)
  BY EnviaLista
<1>4. Cierra(f) => Cerrando(f, d)
  BY <1>1, <1>2 DEF Cerrando
<1>5. /\ conex' \in [Fds -> Clientes \cup {Nadie}]
      /\ aPP' \in [Clientes -> Seq(EnvioPI)]
  <2>1. CASE UNCHANGED <<aPP, conex>>
    BY <2>1, TiposLTS, TiposPI DEF IInv
  <2>2. CASE Cierra(f)
    BY <1>2, <1>4, <2>2, CierraHace
  <2>. QED BY <2>1, <2>2
<1>6. TypeOK'
  BY <1>1, <1>2, <1>3, <1>5, LTS_Tipos, TiposLTS, TiposInt, TiposPI DEF IInv
<1>7. RedInv' /\ EventosInv' /\ LtsInv'
  <2>1. CASE UNCHANGED <<aPP, conex>>
    <3>1. RedInv'
      BY <1>1, <2>1 DEF RedInv, Abierta, IInv, ConexInv
    <3>2. EventosInv'
      BY <1>1, <1>2, <2>1, EventosMenos
    <3>. QED BY <1>1, <1>2, <3>1, <3>2 DEF LtsInv
  <2>2. CASE Cierra(f)
    BY <1>2, <1>4, <2>2, Cierre_Red
  <2>. QED BY <2>1, <2>2
<1>8. FasesInv' /\ AbiertasInv' /\ RespuestaPrimero' /\ NadieDesconectado'
  <2>1. CASE UNCHANGED <<aPP, conex>>
    <3>1. UNCHANGED <<backlog, conex, fd, lts, pp, pi, aPI, aPP>>
      BY <1>1, <2>1
    <3>2. \A e \in Clientes : DelC(e)'
      BY <3>1, LosDelC, OtroIgual DEF IInv, ConexInv
    <3>. QED BY <3>2, LosDelCDespues
  <2>2. CASE Cierra(f)
    <3>1. Fase(d)' /\ RespuestaDe(d)' /\ AbiertaDe(d)'
      BY <1>1, <1>2, <1>4, <2>2, Cierre_Ido
    <3>. QED BY <1>2, <1>4, <2>2, <3>1, Cierre_Fases
  <2>. QED BY <2>1, <2>2
<1>9. AvisosPropios'
  BY <1>1 DEF AvisosPropios, Sucio, IInv
<1>10. AvisadosInv'
  BY <1>1, EnviaAvisados
<1>11. LimpioInv'
  <2>1. ASSUME NEW p \in Clientes, ~ Sucio(fd[p]), Pendiente(p)
        PROVE /\ conex'[fd[p]] = p /\ pi[p] # "fin"
              /\ \A j \in DOMAIN aPI[p] : aPI[p][j].tipo # "T"
    <3>1. CASE UNCHANGED <<aPP, conex>>
      BY <1>2, <2>1, <3>1 DEF LimpioInv, IInv, ConexInv
    <3>2. CASE Cierra(f)
      BY <1>2, <1>4, <2>1, <3>2, Cierre_Limpio
    <3>. QED BY <3>1, <3>2
  <2>. QED BY <1>1, <1>3, <2>1 DEF LimpioInv, Sucio
<1>12. ReanudaInv'
  <2>1. ASSUME NEW g \in Fds
        PROVE PorVenir(g)' + EnCamino(g)' <= Cuenta(LPS', DeFd(g)')
    <3>1. EnCamino(g)' = 0 \/ EnCamino(g)' = EnCamino(g)
      <4>1. CASE UNCHANGED <<aPP, conex>>
        BY <1>1, <4>1 DEF EnCamino, Del, Cuenta, EsS
      <4>2. CASE Cierra(f)
        BY <1>2, <1>4, <4>2, Cierre_Camino
      <4>. QED BY <4>1, <4>2
    <3>2. /\ PorVenir(g) \in Nat /\ PorVenir(g)' \in Nat
          /\ EnCamino(g) \in Nat /\ UnoSi(t = "S" /\ g = f) \in Nat
          /\ Cuenta(LPS, DeFd(g)) \in Nat
      BY <1>6, CuentasNat, CuentasNatDespues DEF IInv, UnoSi
    <3>3. PorVenir(g) + EnCamino(g) <= Cuenta(LPS, DeFd(g))
      BY DEF ReanudaInv, IInv, ConexInv
    <3>4. PorVenir(g) = PorVenir(g)' + UnoSi(t = "S" /\ g = f)
      BY <1>3
    <3>5. Cuenta(LPS', DeFd(g)') = Cuenta(LPS, DeFd(g))
      BY <1>1 DEF Cuenta, DeFd
    <3>. QED BY <3>1, <3>2, <3>3, <3>4, <3>5
  <2>. QED BY <1>1, <1>2, <2>1 DEF ReanudaInv
<1>. QED BY <1>3, <1>6, <1>7, <1>8, <1>9, <1>10, <1>11, <1>12
      DEF IInv, ConexInv

(* The client is there: the message goes out to it.                        *)
LEMMA Envia_Llega ==
    ASSUME IInv, NEW f \in Fds, NEW d, NEW i, NEW q, NEW t,
           Envia(f, d, i, q, t),
           ~ Ido(d), aPI' = [aPI EXCEPT ![d] = Append(@, Msg(t, q))],
           UNCHANGED <<aPP, conex>>
    PROVE IInv'
<1>1. /\ UNCHANGED <<pi, backlog, fd, lts, pp, caidas, aPP, conex>>
      /\ UNCHANGED <<proc, pasos, LFIFO, LPS, sem, procer, senales>>
  BY DEF Envia, plan
<1>2. /\ d \in Clientes /\ q \in Clientes /\ t \in {"N", "S", "T"}
      /\ pp # "fin" /\ lts.pc = "epoll" /\ conex[f] = d
      /\ eventos' \in Evs /\ eventos'[f] = "no" /\ Menos
      /\ fd[q] = f /\ fd[d] = f /\ Pendiente(q)
      /\ t = "T" => proc[q] = "finalizado"
      /\ pi[d] = "resp" => aPI[d] # <<>>
  BY EnviaQuien
<1>3. /\ sendingList' \in Seq(AvisoPP) /\ MensajesInv' /\ UltimoInv'
      /\ ImagenInv' /\ LugaresExactos'
      /\ \A p \in Clientes : Pendiente(p)' => Pendiente(p)
      /\ t = "T" => \A k \in DOMAIN sendingList' : sendingList'[k].de # q
      /\ \A g \in Fds : PorVenir(g) = PorVenir(g)' + UnoSi(t = "S" /\ g = f)
  BY EnviaLista
<1>. DEFINE m == Msg(t, q)
<1>4. m \in AvisoPI /\ m.tipo = t /\ m.de = q /\ (m \in EsS <=> t = "S")
  BY <1>2 DEF Msg, AvisoPI, EsS
<1>. HIDE DEF m
<1>5. /\ aPI' \in [Clientes -> Seq(AvisoPI)]
      /\ \A e \in Clientes \ {d} : aPI'[e] = aPI[e]
      /\ aPI'[d] = Append(aPI[d], m) /\ aPI[d] \in Seq(AvisoPI)
  <2>1. aPI \in [Clientes -> Seq(AvisoPI)]
    BY TiposPI DEF IInv
  <2>2. aPI' = [aPI EXCEPT ![d] = Append(aPI[d], m)]
    BY DEF m
  <2>3. Append(aPI[d], m) \in Seq(AvisoPI)
    BY <1>2, <1>4, <2>1
  <2>. QED BY <1>2, <2>1, <2>2, <2>3
<1>6. /\ aPI'[d] # <<>> /\ Len(aPI[d]) \in Nat
      /\ DOMAIN aPI[d] = 1 .. Len(aPI[d])
      /\ \A j \in DOMAIN aPI[d] : j \in DOMAIN aPI'[d] /\ aPI'[d][j] = aPI[d][j]
      /\ Len(aPI[d]) + 1 \in DOMAIN aPI'[d] /\ aPI'[d][Len(aPI[d]) + 1] = m
      /\ \A j \in DOMAIN aPI'[d] :
            \/ j \in DOMAIN aPI[d] /\ aPI'[d][j] = aPI[d][j]
            \/ j = Len(aPI[d]) + 1 /\ aPI'[d][j] = m
  BY <1>4, <1>5, Agrega
<1>7. TypeOK'
  BY <1>1, <1>2, <1>3, <1>5, LTS_Tipos, TiposLTS, TiposInt, TiposPI DEF IInv
<1>8. RedInv' /\ EventosInv' /\ LtsInv'
  <2>1. RedInv'
    BY <1>1 DEF RedInv, Abierta, IInv, ConexInv
  <2>2. EventosInv'
    BY <1>1, <1>2, EventosMenos
  <2>. QED BY <1>1, <1>2, <2>1, <2>2 DEF LtsInv
<1>9. /\ ~ EnCola(d) /\ ~ EnMano(d) /\ ~ EnScript(d) /\ DelC(d) /\ fd[d] # 0
  <2>1. ~ EnCola(d)
    BY <1>2 DEF RedInv, EnCola, IInv, ConexInv
  <2>. QED BY <1>2, <2>1, LosDelC, LosFds DEF EnMano, EnScript, IInv, ConexInv
<1>10. pi[d] \in {"resp", "lee", "enter"}
  <2>1. Fase(d)
    BY <1>9 DEF DelC
  <2>. QED BY <1>9, <2>1 DEF Fase, Ido, Idos
<1>11. DelC(d)'
  <2>1. Fase(d)'
    <3>1. \A j \in DOMAIN aPI[d] : aPI[d][j].tipo # "F"
      BY <1>9 DEF DelC, Fase
    <3>2. \A j \in DOMAIN aPI'[d] : aPI'[d][j].tipo # "F"
      BY <1>2, <1>4, <1>6, <3>1
    <3>. QED BY <1>1, <1>9, <1>10, <3>2 DEF Fase, Idos
  <2>2. RespuestaDe(d)'
    <3>1. RespuestaDe(d) /\ m.tipo \notin Respuestas
      BY <1>2, <1>4, <1>9 DEF DelC, Respuestas
    <3>2. ~ (pi[d] = "resp" /\ Len(aPI[d]) + 1 = 1)
      <4>1. Len(aPI[d]) = 0 => aPI[d] = <<>>
        BY <1>5
      <4>. QED BY <1>2, <1>6, <4>1
    <3>. QED BY <1>1, <1>6, <3>1, <3>2 DEF RespuestaDe
  <2>3. FaseNuevo(d)'
    BY <1>1, <1>9 DEF FaseNuevo, EnCola, EnMano, EnScript
  <2>4. FaseDentro(d)'
    <3>1. FaseDentro(d)
      BY <1>2, <1>9 DEF DelC
    <3>. QED BY <1>1, <1>6, <1>9, <3>1 DEF FaseDentro
  <2>5. AbiertaDe(d)'
    BY <1>1, <1>2 DEF AbiertaDe, Abierta
  <2>. QED BY <1>1, <1>10, <2>1, <2>2, <2>3, <2>4, <2>5 DEF DelC
<1>12. FasesInv' /\ AbiertasInv' /\ RespuestaPrimero' /\ NadieDesconectado'
  <2>1. ASSUME NEW e \in Clientes \ {d} PROVE DelC(e)'
    <3>1. DelC(e) /\ aPI'[e] = aPI[e]
      BY <1>5, LosDelC DEF IInv, ConexInv
    <3>. QED BY <1>1, <3>1, OtroIgual
  <2>2. \A e \in Clientes : DelC(e)'
    BY <1>11, <2>1
  <2>. QED BY <2>2, LosDelCDespues
<1>13. ~ Sucio(f) => q = d
  BY <1>2 DEF LimpioInv, IInv, ConexInv
<1>14. AvisosPropios'
  <2>1. ASSUME NEW e \in Clientes, NEW j \in DOMAIN aPI'[e], aPI'[e][j].de # e
        PROVE Sucio(fd[e])
    <3>1. CASE e # d
      BY <1>5, <2>1, <3>1 DEF AvisosPropios, IInv
    <3>2. CASE e = d
      <4>1. CASE j \in DOMAIN aPI[d] /\ aPI'[d][j] = aPI[d][j]
        BY <1>2, <2>1, <3>2, <4>1 DEF AvisosPropios, IInv
      <4>2. CASE aPI'[d][j] = m
        BY <1>2, <1>4, <1>13, <2>1, <3>2, <4>2
      <4>. QED BY <1>6, <2>1, <3>2, <4>1, <4>2
    <3>. QED BY <3>1, <3>2
  <2>. QED BY <1>1, <2>1 DEF AvisosPropios, Sucio
<1>15. AvisadosInv'
  <2>1. \A e \in Clientes : \A j \in DOMAIN aPI[e] :
           \E k \in DOMAIN aPI'[e] : aPI'[e][k] = aPI[e][j]
    BY <1>5, <1>6
  <2>2. \E k \in DOMAIN aPI'[d] : aPI'[d][k] = Msg(t, q)
    BY <1>6 DEF m
  <2>. QED BY <2>1, <2>2, EnviaAvisados
<1>16. LimpioInv'
  <2>1. ASSUME NEW p \in Clientes, ~ Sucio(fd[p]), Pendiente(p)'
        PROVE /\ conex[fd[p]] = p /\ pi[p] # "fin"
              /\ \A j \in DOMAIN aPI'[p] : aPI'[p][j].tipo # "T"
    <3>1. Pendiente(p)
      BY <1>3, <2>1
    <3>2. /\ conex[fd[p]] = p /\ pi[p] # "fin"
          /\ \A j \in DOMAIN aPI[p] : aPI[p][j].tipo # "T"
      BY <1>2, <2>1, <3>1 DEF LimpioInv, IInv, ConexInv
    <3>3. CASE p # d
      BY <1>5, <3>2, <3>3
    <3>4. CASE p = d
      <4>1. q = d
        BY <1>2, <1>13, <2>1, <3>4
      <4>2. t # "T"
        BY <1>1, <1>2, <1>3, <2>1, <3>4, <4>1 DEF Pendiente
      <4>3. \A j \in DOMAIN aPI'[d] : aPI'[d][j].tipo # "T"
        BY <1>4, <1>6, <3>2, <3>4, <4>2
      <4>. QED BY <3>2, <3>4, <4>3
    <3>. QED BY <3>3, <3>4
  <2>. QED BY <1>1, <2>1 DEF LimpioInv, Sucio
<1>17. ReanudaInv'
  <2>1. ASSUME NEW g \in Fds
        PROVE PorVenir(g)' + EnCamino(g)' <= Cuenta(LPS', DeFd(g)')
    <3>1. EnCamino(g)' = EnCamino(g) + UnoSi(t = "S" /\ g = f)
      <4>1. CASE g = f
        <5>1. /\ EnCamino(g) = Del(aPI[d], aPP[d], pi[d])
              /\ EnCamino(g)' = Del(aPI'[d], aPP[d], pi[d])
          BY <1>1, <1>2, <4>1, ClientesAssumption DEF EnCamino
        <5>2. Cuenta(aPI'[d], EsS) = Cuenta(aPI[d], EsS) + UnoSi(m \in EsS)
          BY <1>4, <1>5, CuentaAgrega
        <5>3. UnoSi(m \in EsS) = UnoSi(t = "S" /\ g = f)
          BY <1>4, <4>1 DEF UnoSi
        <5>4. /\ Cuenta(aPI[d], EsS) \in Nat /\ Cuenta(aPP[d], {"R"}) \in Nat
              /\ UnoSi(pi[d] = "enter") \in Nat /\ UnoSi(m \in EsS) \in Nat
          BY <1>2, <1>5, TiposPI, CuentaNat DEF IInv, UnoSi
        <5>. QED BY <5>1, <5>2, <5>3, <5>4 DEF Del
      <4>2. CASE g # f
        <5>1. conex[g] # d
          BY <1>2, <4>2, ClientesAssumption DEF RedInv, IInv, ConexInv
        <5>2. conex[g] \in Clientes \cup {Nadie}
          BY TiposLTS DEF IInv
        <5>3. EnCamino(g)' = EnCamino(g)
          BY <1>1, <1>5, <5>1, <5>2 DEF EnCamino
        <5>4. EnCamino(g) \in Nat
          BY CuentasNat DEF IInv
        <5>. QED BY <4>2, <5>3, <5>4 DEF UnoSi
      <4>. QED BY <4>1, <4>2
    <3>2. /\ PorVenir(g) \in Nat /\ PorVenir(g)' \in Nat
          /\ EnCamino(g) \in Nat /\ UnoSi(t = "S" /\ g = f) \in Nat
          /\ Cuenta(LPS, DeFd(g)) \in Nat
      BY <1>7, CuentasNat, CuentasNatDespues DEF IInv, UnoSi
    <3>3. PorVenir(g) + EnCamino(g) <= Cuenta(LPS, DeFd(g))
      BY DEF ReanudaInv, IInv, ConexInv
    <3>4. PorVenir(g) = PorVenir(g)' + UnoSi(t = "S" /\ g = f)
      BY <1>3
    <3>5. Cuenta(LPS', DeFd(g)') = Cuenta(LPS, DeFd(g))
      BY <1>1 DEF Cuenta, DeFd
    <3>. QED BY <3>1, <3>2, <3>3, <3>4, <3>5
  <2>2. lts'.pc # "segv"
    BY <1>1, <1>2
  <2>. QED BY <2>1, <2>2 DEF ReanudaInv
<1>. QED BY <1>3, <1>7, <1>8, <1>12, <1>14, <1>15, <1>16, <1>17
      DEF IInv, ConexInv

LEMMA Paso_LTSEnvia ==
    ASSUME IInv, NEW f \in Fds, LTSEnvia(f) PROVE IInv'
<1>1. /\ UNCHANGED <<pi, backlog, fd, plan, lts, pp, caidas>>
      /\ Evento(f, "out")
  BY DEF LTSEnvia
<1>2. CASE list_fd_msg_get(f) = {}
  <2>1. UNCHANGED <<aPI, aPP, conex, sendingList>>
    BY <1>2 DEF LTSEnvia
  <2>2. lts.pc = "epoll" /\ eventos' \in Evs /\ Menos
    BY <1>1, EventoHace
  <2>3. EventosInv'
    BY <1>1, <2>1, <2>2, EventosMenos
  <2>. QED BY <1>1, <2>1, <2>2, <2>3, LTS_Eventos DEF red
<1>3. CASE list_fd_msg_get(f) # {}
  <2>1. PICK i \in list_fd_msg_get(f) :
           /\ sendingList' = RemoveAt(sendingList, i)
           /\ Escribe(conex[f], Msg(sendingList[i].tipo, sendingList[i].de))
           /\ \/ UNCHANGED <<aPP, conex>>
              \/ Ido(conex[f]) /\ Cierra(f)
    BY <1>3 DEF LTSEnvia
  <2>. DEFINE q == sendingList[i].de
              t == sendingList[i].tipo
  <2>2. /\ i \in DOMAIN sendingList /\ sendingList[i].fd = f
        /\ \A j \in 1 .. i - 1 : sendingList[j].fd # f
    BY DEF list_fd_msg_get
  <2>3. sendingList[i] = [fd |-> f, tipo |-> t, de |-> q]
    <3>1. sendingList[i] \in AvisoPP
      BY <2>2, TiposLista DEF IInv
    <3>. QED BY <2>2, <3>1 DEF AvisoPP
  <2>4. Envia(f, conex[f], i, q, t)
    BY <1>1, <2>1, <2>2, <2>3 DEF Envia
  <2>5. aPI \in [Clientes -> Seq(AvisoPI)]
    BY TiposPI DEF IInv
  <2>. HIDE DEF q, t
  <2>6. CASE Ido(conex[f])
    <3>1. UNCHANGED aPI
      BY <2>1, <2>5, <2>6 DEF Escribe
    <3>. QED BY <2>1, <2>4, <2>6, <3>1, Envia_Ido
  <2>7. CASE ~ Ido(conex[f])
    <3>1. aPI' = [aPI EXCEPT ![conex[f]] = Append(@, Msg(t, q))]
      BY <2>1, <2>7 DEF Escribe, q, t
    <3>. QED BY <2>1, <2>4, <2>7, <3>1, Envia_Llega
  <2>. QED BY <2>6, <2>7
<1>. QED BY <1>2, <1>3

-----------------------------------------------------------------------------
(* The end of the PP, the steps that change nothing, and the start.        *)
LEMMA Paso_PPTermina == ASSUME IInv, PPTermina PROVE IInv'
<1>1. /\ pp = "sale" /\ pp' = "fin" /\ conex' = [f \in Fds |-> Nadie]
      /\ backlog' = <<>> /\ aPP' = [c \in Clientes |-> <<>>]
      /\ eventos' = [f \in DOMAIN eventos |-> "no"]
      /\ UNCHANGED <<pi, fd, sendingList, lts, caidas>>
      /\ UNCHANGED <<proc, pasos, LFIFO, LPS, sem, procer, senales>>
  BY DEF PPTermina, plan
<1>2. aPI \in [Clientes -> Seq(AvisoPI)] /\ <<>> \in Seq(AvisoPI)
  BY TiposPI DEF IInv
<1>3. /\ aPI' \in [Clientes -> Seq(AvisoPI)]
      /\ \A c \in Clientes : aPI'[c] = <<>> \/ aPI'[c] = aPI[c]
  <2>1. PICK P : aPI' = [c \in Clientes |-> IF c \in P THEN <<>> ELSE aPI[c]]
    BY DEF PPTermina
  <2>. QED BY <1>2, <2>1
<1>4. \A c \in Clientes : \A i \in DOMAIN aPI'[c] :
         i \in DOMAIN aPI[c] /\ aPI'[c][i] = aPI[c][i]
  <2>1. DOMAIN <<>> = {}
    OBVIOUS
  <2>. QED BY <1>3, <2>1
<1>5. /\ eventos' \in Evs /\ \A f \in Fds \cup {serverfd} : eventos'[f] = "no"
  <2>1. DOMAIN eventos = Fds \cup {serverfd}
    BY TiposLTS DEF IInv, Evs
  <2>. QED BY <1>1, <2>1 DEF Evs
<1>6. TypeOK'
  <2>1. /\ conex' \in [Fds -> Clientes \cup {Nadie}]
        /\ aPP' \in [Clientes -> Seq(EnvioPI)] /\ backlog' \in Seq(Clientes)
    <3>1. <<>> \in Seq(EnvioPI) /\ <<>> \in Seq(Clientes)
      OBVIOUS
    <3>. QED BY <1>1, <3>1
  <2>2. /\ TipoPI'
    <3>1. pi' \in [Clientes -> EstadoPI]
      BY <1>1, TiposPI DEF IInv
    <3>. QED BY <1>3, <2>1, <3>1 DEF TipoPI, AvisoPI, EnvioPI, EstadoPI
  <2>3. TipoPP'
    BY <1>1, <2>1 DEF TipoPP, TypeOK, IInv
  <2>4. TipoHilos'
    BY <1>1, <1>5 DEF TipoHilos, TypeOK, IInv, Evs
  <2>. QED BY <2>2, <2>3, <2>4 DEF TypeOK
<1>7. RedInv' /\ EventosInv' /\ LtsInv'
  <2>1. \A c \in Clientes : ~ Abierta(c)'
    BY <1>1, ClientesAssumption DEF Abierta
  <2>2. RedInv'
    BY <1>1, <2>1 DEF RedInv
  <2>3. EventosInv'
    BY <1>5 DEF EventosInv
  <2>4. LtsInv'
    BY <1>1, <1>5 DEF LtsInv, IInv, ConexInv
  <2>. QED BY <2>2, <2>3, <2>4
<1>8. ASSUME NEW c \in Clientes PROVE DelC(c)'
  <2>1. DelC(c)
    BY LosDelC DEF IInv, ConexInv
  <2>2. Fase(c)'
    BY <1>1, <1>3, <1>4, <2>1 DEF DelC, Fase
  <2>3. RespuestaDe(c)'
    BY <1>1, <1>4, <2>1 DEF DelC, RespuestaDe
  <2>. QED BY <1>1, <2>2, <2>3 DEF DelC
<1>9. FasesInv' /\ AbiertasInv' /\ RespuestaPrimero' /\ NadieDesconectado'
  BY <1>8, LosDelCDespues
<1>10. ImagenInv' /\ LugaresExactos'
  <2>1. ImagenFd'
    BY <1>1 DEF ImagenFd, Entra, ImagenInv, IInv, ConexInv
  <2>2. ColasInv' /\ ProcerInv'
    BY <1>1 DEF ColasInv, ProcerInv, ImagenInv, IInv, ConexInv
  <2>3. LugaresExactos'
    BY <1>1 DEF LugaresExactos, Cuantos, IInv
  <2>. QED BY <2>1, <2>2, <2>3 DEF ImagenInv
<1>11. MensajesInv' /\ UltimoInv'
  BY <1>1, LTS_Calla
<1>12. AvisosPropios'
  BY <1>1, <1>4 DEF AvisosPropios, Sucio, IInv
<1>13. LimpioInv' /\ AvisadosInv'
  BY <1>1 DEF LimpioInv, AvisadosInv
<1>14. ReanudaInv'
  <2>1. \A f \in Fds : EnCamino(f)' = 0 /\ EnCamino(f) \in Nat
    BY <1>1, CuentasNat DEF EnCamino, IInv
  <2>2. lts'.pc # "segv"
    BY <1>1 DEF ReanudaInv, IInv, ConexInv
  <2>. QED BY <1>1, <1>6, <2>1, <2>2, LTS_Reanuda
<1>. QED BY <1>6, <1>7, <1>9, <1>10, <1>11, <1>12, <1>13, <1>14
      DEF IInv, ConexInv

LEMMA Igual == ASSUME IInv, UNCHANGED vars PROVE IInv'
<1>1. /\ UNCHANGED <<pi, aPI, aPP, backlog, conex, fd, sendingList, eventos>>
      /\ UNCHANGED <<lts, pp, caidas>>
      /\ UNCHANGED <<proc, pasos, LFIFO, LPS, sem, procer, senales>>
  BY DEF vars, red, plan
<1>2. TypeOK'
  <2>1. TipoPI'
    BY <1>1 DEF TypeOK, TipoPI, IInv
  <2>2. TipoPP'
    BY <1>1 DEF TypeOK, TipoPP, IInv
  <2>3. TipoHilos'
    BY <1>1 DEF TypeOK, TipoHilos, IInv
  <2>. QED BY <2>1, <2>2, <2>3 DEF TypeOK
<1>3. RedInv' /\ EventosInv' /\ LtsInv'
  BY <1>1 DEF RedInv, EventosInv, LtsInv, Abierta, Ido, IInv, ConexInv
<1>4. FasesInv' /\ AbiertasInv' /\ RespuestaPrimero' /\ NadieDesconectado'
  <2>1. \A c \in Clientes : DelC(c)'
    BY <1>1, LosDelC, OtroIgual DEF IInv, ConexInv
  <2>. QED BY <2>1, LosDelCDespues
<1>5. ImagenInv'
  BY <1>1 DEF ImagenInv, ImagenFd, ColasInv, ProcerInv, Entra, IInv, ConexInv
<1>6. LugaresExactos'
  BY <1>1 DEF LugaresExactos, Cuantos, IInv
<1>7. MensajesInv' /\ UltimoInv'
  BY <1>1, LTS_Calla
<1>8. AvisosPropios' /\ AvisadosInv'
  BY <1>1, LTS_Avisos
<1>9. LimpioInv'
  BY <1>1 DEF LimpioInv, Sucio, Pendiente, IInv, ConexInv
<1>10. ReanudaInv'
  <2>1. \A f \in Fds : EnCamino(f)' = EnCamino(f) /\ EnCamino(f) \in Nat
    BY <1>1, CuentasNat DEF EnCamino, Del, Cuenta, EsS, IInv
  <2>2. lts'.pc # "segv"
    BY <1>1 DEF ReanudaInv, IInv, ConexInv
  <2>. QED BY <1>1, <1>2, <2>1, <2>2, LTS_Reanuda
<1>. QED BY <1>2, <1>3, <1>4, <1>5, <1>6, <1>7, <1>8, <1>9, <1>10
      DEF IInv, ConexInv

LEMMA Empieza == Init => IInv
<1>. SUFFICES ASSUME Init PROVE IInv
  OBVIOUS
<1>1. /\ pi = [c \in Clientes |-> "afuera"]
      /\ aPI = [c \in Clientes |-> <<>>] /\ aPP = [c \in Clientes |-> <<>>]
      /\ conex = [f \in Fds |-> Nadie] /\ fd = [c \in Clientes |-> 0]
      /\ proc = [c \in Clientes |-> "afuera"]
      /\ pasos = [c \in Clientes |-> 0]
      /\ eventos = [f \in Fds \cup {serverfd} |-> "no"]
  BY DEF Init
<1>2. /\ backlog = <<>> /\ LFIFO = <<>> /\ LPS = <<>> /\ sendingList = <<>>
      /\ sem = [MPS |-> MPS, MMP |-> MMP]
      /\ lts = [pc |-> "epoll", cl |-> Nadie, fd |-> serverfd]
      /\ procer = [pc |-> "espera", img |-> Nadie]
      /\ pp = "vivo" /\ senales = 0 /\ caidas = 0
  BY DEF Init
<1>3. DOMAIN <<>> = {} /\ \A S : <<>> \in Seq(S)
  OBVIOUS
<1>4. TypeOK
  <2>1. TipoPI
    BY <1>1, <1>2, <1>3 DEF TipoPI
  <2>2. TipoPP
    BY <1>1, <1>2, <1>3, CuposAssumption DEF TipoPP, EnSistema
  <2>3. TipoHilos
    BY <1>1, <1>2 DEF TipoHilos
  <2>. QED BY <2>1, <2>2, <2>3 DEF TypeOK
<1>5. RedInv /\ EventosInv /\ LtsInv
  <2>1. RedInv
    BY <1>1, <1>2, <1>3, ClientesAssumption DEF RedInv, Abierta
  <2>2. EventosInv /\ LtsInv
    BY <1>1, <1>2 DEF EventosInv, LtsInv
  <2>. QED BY <2>1, <2>2
<1>6. FasesInv
  <2>1. ASSUME NEW c \in Clientes
        PROVE Fase(c) /\ FaseNuevo(c) /\ FaseDentro(c)
    <3>1. Fase(c)
      BY <1>1, <1>3 DEF Fase
    <3>2. ~ EnCola(c) /\ ~ EnMano(c) /\ ~ EnScript(c)
      BY <1>2, <1>3 DEF EnCola, EnMano, EnScript
    <3>. QED BY <1>1, <3>1, <3>2, ClientesAssumption DEF FaseNuevo, FaseDentro
  <2>. QED BY <2>1 DEF FasesInv
<1>7. AbiertasInv /\ RespuestaPrimero /\ NadieDesconectado
  BY <1>1, <1>3 DEF AbiertasInv, RespuestaPrimero, NadieDesconectado
<1>8. ImagenInv
  BY <1>1, <1>2, <1>3
     DEF ImagenInv, ImagenFd, ColasInv, ProcerInv, Entra
<1>9. MensajesInv /\ UltimoInv /\ AvisosPropios
  BY <1>1, <1>2, <1>3 DEF MensajesInv, UltimoInv, AvisosPropios
<1>10. LimpioInv /\ AvisadosInv
  BY <1>1, <1>2, <1>3 DEF LimpioInv, Pendiente, AvisadosInv
<1>11. LugaresExactos
  <2>1. \A E \in SUBSET EnSistema : {c \in Clientes : proc[c] \in E} = {}
    BY <1>1 DEF EnSistema
  <2>2. Cuantos(EnSistema) = 0 /\ Cuantos({"memoria", "ejecuta"}) = 0
    <3>1. {"memoria", "ejecuta"} \in SUBSET EnSistema
      BY DEF EnSistema
    <3>. QED BY <2>1, <3>1, FS_EmptySet DEF Cuantos
  <2>. QED BY <1>2, <2>2, CuposAssumption DEF LugaresExactos, UnoSi
<1>12. ReanudaInv
  <2>1. \A f \in Fds : PorVenir(f) = 0 /\ EnCamino(f) = 0
    <3>1. \A V : Cuenta(sendingList, V) = 0
      BY <1>2, <1>3, CuentaNat
    <3>. QED BY <1>1, <1>2, <3>1 DEF PorVenir, EnCamino, UnoSi
  <2>2. \A V : Cuenta(LPS, V) = 0
    BY <1>2, <1>3, CuentaNat
  <2>. QED BY <1>2, <2>1, <2>2 DEF ReanudaInv
<1>. QED BY <1>4, <1>5, <1>6, <1>7, <1>8, <1>9, <1>10, <1>11, <1>12
      DEF IInv, ConexInv

LEMMA Paso_Next == ASSUME IInv, [Next]_vars PROVE IInv'
<1>1. CASE LTSconex
  <2>1. CASE EpollWait \/ LTSAcepta \/ LTSHandshake \/ LTSSinScript
    BY <2>1, Paso_EpollWait, Paso_LTSAcepta, Paso_LTSHandshake,
       Paso_LTSSinScript
  <2>2. CASE LTSRechaza \/ LTSAdmite \/ LTSPush
    BY <2>2, Paso_LTSRechaza, Paso_LTSAdmite, Paso_LTSPush
  <2>3. ASSUME NEW f \in Fds, LTSCierra(f) \/ LTSPosterga(f)
                              \/ LTSReanuda(f) \/ LTSEnvia(f)
        PROVE IInv'
    BY <2>3, Paso_LTSCierra, Paso_LTSPosterga, Paso_LTSReanuda, Paso_LTSEnvia
  <2>. QED BY <1>1, <2>1, <2>2, <2>3 DEF LTSconex
<1>2. CASE PROCER
  <2>1. CASE ProcerImprime \/ ProcerDeja \/ ProcerSuspende
    BY <2>1, Paso_ProcerImprime, Paso_ProcerDeja, Paso_ProcerSuspende
  <2>2. CASE ProcerAvisaPI \/ ProcerFinaliza \/ ProcerLibera
    BY <2>2, Paso_ProcerAvisaPI, Paso_ProcerFinaliza, Paso_ProcerLibera
  <2>3. ASSUME NEW p \in Clientes, ProcerToma(p) PROVE IInv'
    BY <2>3, Paso_ProcerToma
  <2>. QED BY <1>2, <2>1, <2>2, <2>3 DEF PROCER
<1>3. CASE LTSnew \/ SIGINT \/ PPTermina
  BY <1>3, Paso_LTSnew, Paso_SIGINT, Paso_PPTermina
<1>4. ASSUME NEW c \in Clientes, PIConecta(c) \/ PI(c) \/ PICae(c)
      PROVE IInv'
  <2>1. CASE PIConecta(c) \/ PICae(c)
    BY <2>1, Paso_PIConecta, Paso_PICae
  <2>2. CASE PISaluda(c) \/ PIScript(c) \/ PIRespuesta(c)
    BY <2>2, Paso_PISaluda, Paso_PIScript, Paso_PIRespuesta
  <2>3. CASE PILee(c) \/ PIReanuda(c) \/ PIDesconectado(c)
    BY <2>3, Paso_PILee, Paso_PIReanuda, Paso_PIDesconectado
  <2>. QED BY <1>4, <2>1, <2>2, <2>3 DEF PI
<1>5. CASE UNCHANGED vars
  BY <1>5, Igual
<1>. QED BY <1>1, <1>2, <1>3, <1>4, <1>5 DEF Next

-----------------------------------------------------------------------------
(* The PP and its clients, whatever they do, keep the invariant: what is   *)
(* connected to each descriptor, what carries its number, and who can      *)
(* still be resumed or told of the end by it.                              *)
THEOREM ConexionCorrecta == Spec => []IInv
<1>1. Init => IInv
  BY Empieza
<1>2. IInv /\ [Next]_vars => IInv'
  BY Paso_Next
<1>. QED BY <1>1, <1>2, PTL DEF Spec

(* Every variable has its type.                                            *)
THEOREM ConexionTipos == Spec => []TypeOK
<1>1. IInv => TypeOK
  BY DEF IInv
<1>. QED BY <1>1, ConexionCorrecta, PTL

(* MPS_sem and MMP_sem, that LTSconex takes without waiting and gives back *)
(* when a client cannot be resumed, count the processes that there are.    *)
THEOREM LugaresContados == Spec => []LugaresExactos
<1>1. IInv => LugaresExactos
  BY DEF IInv
<1>. QED BY <1>1, ConexionCorrecta, PTL

(* The PI reads the answer to its script, its own, before anything else.   *)
THEOREM RespuestaSegura == Spec => []RespuestaPrimero
<1>1. IInv => RespuestaPrimero
  BY DEF IInv
<1>. QED BY <1>1, ConexionCorrecta, PTL

(* accept may hand out a descriptor again with messages waiting for it:    *)
(* only after a client that vanished do they reach another.                *)
THEOREM AvisosDeCadaUno == Spec => []AvisosPropios
<1>1. IInv => AvisosPropios
  BY DEF IInv
<1>. QED BY <1>1, ConexionCorrecta, PTL

(* Only a refused PI, or one that the PP leaves at its end, sees the       *)
(* connection closed.                                                      *)
THEOREM NadieCortado == Spec => []NadieDesconectado
<1>1. IInv => NadieDesconectado
  BY DEF IInv
<1>. QED BY <1>1, ConexionCorrecta, PTL

LEMMA AtendibleDeReanuda == IInv => RAtendible
<1>. SUFFICES ASSUME IInv PROVE RAtendible
  OBVIOUS
<1>1. ASSUME NEW f \in Fds, NEW c, c = conex[f], c # Nadie
      PROVE Pendientes(c, f)
               <= Cardinality({i \in DOMAIN LPS : fd[LPS[i]] = f})
  <2>1. c \in Clientes
    BY <1>1, TiposLTS DEF IInv
  <2>2. /\ aPI[c] \in Seq(AvisoPI) /\ aPP[c] \in Seq(EnvioPI)
        /\ sendingList \in Seq(AvisoPP) /\ LPS \in Seq(Clientes)
    BY <2>1, TiposPI, TiposInt DEF IInv
  <2>3. {i \in DOMAIN aPI[c] : aPI[c][i].tipo = "S"}
           = {i \in DOMAIN aPI[c] : aPI[c][i] \in EsS}
    <3>1. \A i \in DOMAIN aPI[c] : aPI[c][i] \in AvisoPI
      BY <2>2
    <3>2. \A m \in AvisoPI : m.tipo = "S" <=> m \in EsS
      BY DEF AvisoPI, EsS
    <3>. QED BY <3>1, <3>2
  <2>4. {i \in DOMAIN sendingList : /\ sendingList[i].fd = f
                                    /\ sendingList[i].tipo = "S"}
           = {i \in DOMAIN sendingList : sendingList[i] \in EsSDe(f)}
    <3>1. \A i \in DOMAIN sendingList : sendingList[i] \in AvisoPP
      BY <2>2
    <3>2. \A m \in AvisoPP : m.fd = f /\ m.tipo = "S" <=> m \in EsSDe(f)
      BY DEF AvisoPP, EsSDe
    <3>. QED BY <3>1, <3>2
  <2>5. {i \in DOMAIN aPP[c] : aPP[c][i] = "R"}
           = {i \in DOMAIN aPP[c] : aPP[c][i] \in {"R"}}
    OBVIOUS
  <2>6. {i \in DOMAIN LPS : fd[LPS[i]] = f}
           = {i \in DOMAIN LPS : LPS[i] \in DeFd(f)}
    <3>1. \A i \in DOMAIN LPS : LPS[i] \in Clientes
      BY <2>2
    <3>. QED BY <3>1 DEF DeFd
  <2>. DEFINE a == Cuenta(aPI[c], EsS)
              b == Cuenta(sendingList, EsSDe(f))
              r == Cuenta(aPP[c], {"R"})
              u == UnoSi(pi[c] = "enter")
              v == UnoSi(procer.pc = "avisa" /\ fd[procer.img] = f)
              n == Cuenta(LPS, DeFd(f))
  <2>7. /\ a \in Nat /\ b \in Nat /\ r \in Nat /\ n \in Nat
        /\ u \in Nat /\ v \in Nat
    BY <2>2, CuentaNat DEF UnoSi
  <2>8. PorVenir(f) = b + v /\ EnCamino(f) = a + r + u
    BY <1>1 DEF PorVenir, EnCamino, Del
  <2>9. PorVenir(f) + EnCamino(f) <= n
    BY DEF ReanudaInv, IInv, ConexInv
  <2>10. Pendientes(c, f) = a + b + r + u
    BY <2>3, <2>4, <2>5 DEF Pendientes, Cuenta
  <2>11. Cardinality({i \in DOMAIN LPS : fd[LPS[i]] = f}) = n
    BY <2>6 DEF Cuenta
  <2>. HIDE DEF a, b, r, u, v, n
  <2>. QED BY <2>7, <2>8, <2>9, <2>10, <2>11
<1>2. lts.pc # "segv"
  BY DEF ReanudaInv, IInv, ConexInv
<1>. QED BY <1>1, <1>2 DEF RAtendible

(* Every R that LTSconex reads finds an image in LPS by its descriptor,    *)
(* even after clients vanish and their descriptors are handed out again.   *)
THEOREM TodaRAtendida == Spec => []RAtendible
<1>. QED BY AtendibleDeReanuda, ConexionCorrecta, PTL

LEMMA SoloSIGINT ==
    ASSUME [Next]_vars, pp = "vivo", pp' = "sale" PROVE SIGINT
<1>1. ~ LTSconex
  <2>1. ASSUME EpollWait \/ LTSAcepta \/ LTSHandshake \/ LTSSinScript
        PROVE FALSE
    BY <2>1 DEF EpollWait, LTSAcepta, LTSHandshake, LTSSinScript
  <2>2. ASSUME LTSRechaza \/ LTSAdmite \/ LTSPush PROVE FALSE
    BY <2>2 DEF LTSRechaza, LTSAdmite, LTSPush
  <2>3. ASSUME NEW f \in Fds, LTSCierra(f) \/ LTSPosterga(f)
                              \/ LTSReanuda(f) \/ LTSEnvia(f)
        PROVE FALSE
    BY <2>3 DEF LTSCierra, LTSPosterga, LTSReanuda, LTSEnvia
  <2>. QED BY <2>1, <2>2, <2>3 DEF LTSconex
<1>2. ~ PROCER
  <2>1. ASSUME \/ ProcerImprime \/ ProcerDeja \/ ProcerSuspende
               \/ ProcerAvisaPI \/ ProcerFinaliza \/ ProcerLibera
        PROVE FALSE
    BY <2>1 DEF ProcerImprime, ProcerDeja, ProcerSuspende, ProcerAvisaPI,
                ProcerFinaliza, ProcerLibera
  <2>2. ASSUME NEW p \in Clientes, ProcerToma(p) PROVE FALSE
    BY <2>2 DEF ProcerToma
  <2>. QED BY <2>1, <2>2 DEF PROCER
<1>3. ~ LTSnew /\ ~ PPTermina /\ ~ UNCHANGED vars
  BY DEF LTSnew, PPTermina, vars
<1>4. ASSUME NEW c \in Clientes, PIConecta(c) \/ PI(c) \/ PICae(c)
      PROVE FALSE
  BY <1>4 DEF PIConecta, PICae, PI, PISaluda, PIScript, PIRespuesta, PILee,
              PIReanuda, PIDesconectado
<1>. QED BY <1>1, <1>2, <1>3, <1>4 DEF Next

LEMMA NadieDentro ==
    ASSUME IInv, sem.MPS = MPS, pp = "vivo", NEW c \in Clientes, fd[c] # 0
    PROVE proc[c] = "finalizado" /\ Avisado(c)
<1> DEFINE D == {d \in Clientes : proc[d] \in EnSistema}
<1>1. IsFiniteSet(D) /\ Cardinality(D) \in Nat
  BY ClientesAssumption, FS_Subset, FS_CardinalityType
<1>2. /\ sem.MPS + Cardinality(D) + UnoSi(lts.pc \in {"push", "demora"})
            + UnoSi(procer.pc = "libera") = MPS
      /\ UnoSi(lts.pc \in {"push", "demora"}) \in Nat
      /\ UnoSi(procer.pc = "libera") \in Nat
  BY DEF LugaresExactos, Cuantos, UnoSi, IInv
<1>3. Cardinality(D) = 0 /\ UnoSi(lts.pc \in {"push", "demora"}) = 0
  <2>. HIDE DEF D
  <2>. QED BY <1>1, <1>2, CuposAssumption
<1>4. D = {} /\ lts.pc \notin {"push", "demora"}
  BY <1>1, <1>3, FS_EmptySet DEF UnoSi
<1>5. proc[c] # "afuera"
  BY <1>4 DEF ImagenInv, ImagenFd, Entra, IInv, ConexInv
<1>6. proc[c] = "finalizado"
  BY <1>4, <1>5, TiposInt DEF IInv
<1>. QED BY <1>6 DEF AvisadosInv, IInv, ConexInv

(* SIGINT decides the end from one sem_getvalue, with LTSconex and PROCER  *)
(* at work: whoever was admitted has ended and been told, or has gone.     *)
THEOREM DecisionSegura == Spec => DecisionFundada
<1>1. IInv /\ [Next]_vars =>
         [pp = "vivo" /\ pp' = "sale" =>
             \A c \in Clientes : fd[c] # 0 =>
                 proc[c] = "finalizado" /\ Avisado(c)]_vars
  <2>. SUFFICES ASSUME IInv, [Next]_vars, pp = "vivo", pp' = "sale",
                       NEW c \in Clientes, fd[c] # 0
                PROVE proc[c] = "finalizado" /\ Avisado(c)
    OBVIOUS
  <2>1. sem.MPS = MPS
    BY SoloSIGINT DEF SIGINT
  <2>. QED BY <2>1, NadieDentro
<1>. QED BY <1>1, ConexionCorrecta, PTL DEF Spec, DecisionFundada

=============================================================================
