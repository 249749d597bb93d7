---------------------------- MODULE LugarProofs -----------------------------
(***************************************************************************)
(* Where the images are, and the order of the ready ones. No process is in *)
(* two places, every process in the system is in one unless the insertion  *)
(* of a batch may drop the ready ones, and the place tells the state       *)
(* logWriteLSCH last wrote for it. From that follow the guarantee of a     *)
(* blocking I/O, the accounts of MPS and MMP, the life cycle of            *)
(* CicloDeVida and the order of LPL under PRI and SPN.                     *)
(***************************************************************************)
EXTENDS PlanificadorProofs

-----------------------------------------------------------------------------
(* How a push and a pop change the number of times an element occurs.      *)
LEMMA Indices ==
    ASSUME NEW S, NEW s \in Seq(S), NEW x
    PROVE /\ IsFiniteSet({i \in DOMAIN s : s[i] = x})
          /\ Veces(s, x) \in Nat
  BY OcurrenNat DEF Ocurren, Veces

LEMMA VecesVacia == ASSUME NEW x PROVE Veces(<<>>, x) = 0
<1>1. {i \in DOMAIN <<>> : <<>>[i] = x} = {}
  OBVIOUS
<1>. QED BY <1>1, FS_EmptySet DEF Veces

LEMMA VecesAppend ==
    ASSUME NEW S, NEW s \in Seq(S), NEW e \in S, NEW x
    PROVE Veces(Append(s, e), x) = Veces(s, x) + UnoSi(e = x)
<1> DEFINE n == Len(s) + 1
           t == Append(s, e)
           A == {i \in DOMAIN s : s[i] = x}
           B == {i \in DOMAIN t : t[i] = x}
<1>1. /\ Len(s) \in Nat /\ DOMAIN s = 1 .. Len(s) /\ DOMAIN t = 1 .. n
      /\ t[n] = e /\ \A i \in 1 .. Len(s) : t[i] = s[i]
  OBVIOUS
<1>2. IsFiniteSet(A) /\ Cardinality(A) \in Nat
  BY Indices DEF Veces
<1>3. n \notin A
  BY <1>1
<1>6. Veces(s, x) = Cardinality(A) /\ Veces(t, x) = Cardinality(B)
  BY DEF Veces
<1>4. CASE e = x
  <2>1. B = A \cup {n}
    BY <1>1, <1>4
  <2>2. Cardinality(B) = Cardinality(A) + 1
    BY <1>2, <1>3, <2>1, FS_AddElement
  <2>. HIDE DEF A, B
  <2>. QED BY <1>4, <1>6, <2>2 DEF UnoSi
<1>5. CASE e # x
  <2>1. B = A
    BY <1>1, <1>5
  <2>. HIDE DEF A, B
  <2>. QED BY <1>2, <1>5, <1>6, <2>1 DEF UnoSi
<1>. QED BY <1>4, <1>5

LEMMA VecesTail ==
    ASSUME NEW S, NEW s \in Seq(S), s # <<>>, NEW x
    PROVE Veces(s, x) = Veces(Tail(s), x) + UnoSi(Head(s) = x)
<1> DEFINE n == Len(s)
           t == Tail(s)
           A == {i \in DOMAIN s : s[i] = x}
           B == {i \in DOMAIN t : t[i] = x}
           C == A \ {1}
           f == [i \in B |-> i + 1]
<1>1. /\ n \in Nat \ {0} /\ DOMAIN s = 1 .. n /\ DOMAIN t = 1 .. (n - 1)
      /\ s[1] = Head(s) /\ \A i \in 1 .. (n - 1) : t[i] = s[i + 1]
  OBVIOUS
<1>2. IsFiniteSet(A) /\ Cardinality(A) \in Nat
  BY Indices DEF Veces
<1>3. IsFiniteSet(B) /\ Cardinality(B) \in Nat
  <2>1. t \in Seq(S)
    OBVIOUS
  <2>. QED BY <2>1, Indices DEF Veces
<1>4. f \in Bijection(B, C)
  <2>1. \A i \in B : i \in 1 .. (n - 1) /\ i + 1 \in C
    BY <1>1
  <2>2. f \in [B -> C]
    BY <2>1
  <2>3. \A i, j \in B : f[i] = f[j] => i = j
    BY <2>1
  <2>4. \A k \in C : \E i \in B : f[i] = k
    <3>1. TAKE k \in C
    <3>2. k - 1 \in B
      BY <1>1
    <3>3. f[k - 1] = k
      BY <3>2, <1>1
    <3>. QED BY <3>2, <3>3
  <2>. HIDE DEF f, B, C
  <2>. QED BY <2>2, <2>3, <2>4 DEF Bijection, Injection, Surjection, IsInjective
<1>5. Cardinality(C) = Cardinality(B)
  <2>. HIDE DEF f, B, C
  <2>1. ExistsBijection(B, C)
    BY <1>4 DEF ExistsBijection
  <2>. QED BY <1>3, <2>1, FS_Bijection
<1>6. Cardinality(C) = IF 1 \in A THEN Cardinality(A) - 1 ELSE Cardinality(A)
  BY <1>2, FS_RemoveElement
<1>7. 1 \in A <=> Head(s) = x
  BY <1>1
<1>8. Veces(s, x) = Cardinality(A) /\ Veces(t, x) = Cardinality(B)
  BY DEF Veces
<1>. HIDE DEF A, B, C, n, f
<1>. QED BY <1>2, <1>3, <1>5, <1>6, <1>7, <1>8 DEF UnoSi

(* The occurrences of two lists put together.                              *)
LEMMA VecesJuntas ==
    ASSUME NEW S, NEW s \in Seq(S), NEW t \in Seq(S), NEW x
    PROVE Veces(s \o t, x) = Veces(s, x) + Veces(t, x)
<1>1. Ocurren(s \o t, x) = Ocurren(s, x) + Ocurren(t, x)
  BY OcurrenJuntas
<1>. QED BY <1>1 DEF Ocurren, Veces

(* A list put in another order has the same elements.                      *)
Permuta(s, t, n, p) ==
    /\ Len(s) = n /\ Len(t) = n /\ p \in [1 .. n -> 1 .. n]
    /\ \A a \in 1 .. n : t[a] = s[p[a]]
    /\ \A a, b \in 1 .. n : p[a] = p[b] => a = b
    /\ \A c \in 1 .. n : \E a \in 1 .. n : p[a] = c

LEMMA VecesReorden ==
    ASSUME NEW S, NEW s \in Seq(S), NEW t \in Seq(S), NEW x, NEW n \in Nat,
           NEW p, Permuta(s, t, n, p)
    PROVE Veces(t, x) = Veces(s, x)
<1> DEFINE A == {i \in DOMAIN s : s[i] = x}
           B == {i \in DOMAIN t : t[i] = x}
           f == [i \in B |-> p[i]]
<1>1. DOMAIN s = 1 .. n /\ DOMAIN t = 1 .. n
  BY DEF Permuta
<1>2. IsFiniteSet(B)
  BY Indices
<1>3. /\ \A i \in B : i \in 1 .. n /\ p[i] \in A
      /\ \A i, j \in B : p[i] = p[j] => i = j
  BY <1>1 DEF Permuta
<1>4. \A c \in A : \E i \in B : p[i] = c
  BY <1>1 DEF Permuta
<1>5. Veces(s, x) = Cardinality(A) /\ Veces(t, x) = Cardinality(B)
  BY DEF Veces
<1>. HIDE DEF A, B
<1>6. f \in [B -> A]
  BY <1>3
<1>7. \A i, j \in B : f[i] = f[j] => i = j
  BY <1>3
<1>8. \A c \in A : \E i \in B : f[i] = c
  BY <1>4
<1>. HIDE DEF f
<1>9. f \in Bijection(B, A)
  BY <1>6, <1>7, <1>8 DEF Bijection, Injection, Surjection, IsInjective
<1>10. ExistsBijection(B, A)
  BY <1>9 DEF ExistsBijection
<1>. QED BY <1>2, <1>5, <1>10, FS_Bijection

LEMMA VecesReverse ==
    ASSUME NEW S, NEW s \in Seq(S), NEW x
    PROVE Reverse(s) \in Seq(S) /\ Veces(Reverse(s), x) = Veces(s, x)
<1> DEFINE n == Len(s)
           t == Reverse(s)
           p == [a \in 1 .. n |-> (n - a) + 1]
<1>1. n \in Nat /\ \A a \in 1 .. n : (n - a) + 1 \in 1 .. n /\ s[(n - a) + 1] \in S
  OBVIOUS
<1>2. t \in Seq(S) /\ Len(t) = n /\ \A a \in 1 .. n : t[a] = s[(n - a) + 1]
  BY <1>1 DEF Reverse
<1>. HIDE DEF t
<1>3. p \in [1 .. n -> 1 .. n] /\ \A a \in 1 .. n : p[a] = (n - a) + 1
  BY <1>1
<1>. HIDE DEF p
<1>4. \A a \in 1 .. n : t[a] = s[p[a]]
  BY <1>2, <1>3
<1>5. \A a, b \in 1 .. n : p[a] = p[b] => a = b
  BY <1>1, <1>3
<1>6. \A c \in 1 .. n : \E a \in 1 .. n : p[a] = c
  <2>1. ASSUME NEW c \in 1 .. n PROVE p[(n - c) + 1] = c
    BY <1>1, <1>3
  <2>. QED BY <1>1, <2>1
<1>7. Permuta(s, t, n, p)
  BY <1>2, <1>3, <1>4, <1>5, <1>6 DEF Permuta
<1>8. Veces(t, x) = Veces(s, x)
  <2>. HIDE DEF n
  <2>. QED BY <1>1, <1>2, <1>7, VecesReorden
<1>. QED BY <1>2, <1>8 DEF t

LEMMA VecesBurbuja ==
    ASSUME NEW S, NEW s \in Seq(S), NEW K \in Campos(S), NEW x
    PROVE Veces(Burbuja(s, K), x) = Veces(s, x)
<1> DEFINE n == Len(s)
           t == Burbuja(s, K)
<1>1. t \in Seq(S) /\ Len(t) = n /\ EsReorden(s, t, K, n)
  BY BurbujaEs
<1>2. n \in Nat
  OBVIOUS
<1>. HIDE DEF t
<1>3. PICK p : Reordena(s, t, K, n, p)
  BY <1>1 DEF EsReorden
<1>4. Permuta(s, t, n, p)
  BY <1>1, <1>3 DEF Reordena, Permuta
<1>. HIDE DEF n
<1>5. Veces(t, x) = Veces(s, x)
  BY <1>1, <1>2, <1>4, VecesReorden
<1>. QED BY <1>5 DEF t

(* The insertion of a batch repeats no image: what is in the queue after   *)
(* it was in the queue or in the batch.  With an empty batch the images it *)
(* pops are in neither.                                                    *)
LEMMA OrderInsertVeces ==
    ASSUME NEW S, NEW l \in Seq(S), NEW q \in Seq(S), NEW t \in Nat,
           NEW K \in Campos(S), NEW x
    PROVE Veces(orderInsert(l, q, t, K).LPL, x) <= Veces(q, x) + Veces(l, x)
<1> DEFINE n == Len(q)
           k == Extraidos(n, t)
           e == SubSeq(q, 1, k)
           u == SubSeq(q, k + 1, n)
           a == Antepone(e, l)
           o == Burbuja(a, K)
           r == orderInsert(l, q, t, K)
<1>1. /\ k \in 0 .. n /\ e \in Seq(S) /\ Len(e) = k /\ u \in Seq(S)
      /\ Len(u) = n - k /\ a \in Seq(S) /\ r.LPL = u \o o
      /\ o \in Seq(S)
  <2>1. Insertada(S, l, q, t, K)
    BY OrderInsertEs
  <2>. QED BY <2>1, Zenon DEF Insertada
<1>7. n \in Nat
  OBVIOUS
<1>9. /\ Veces(e, x) \in Nat /\ Veces(u, x) \in Nat /\ Veces(l, x) \in Nat
      /\ Veces(a, x) \in Nat
  <2>. HIDE DEF a, e, u
  <2>. QED BY <1>1, Indices
<1>2. q = e \o u
  <2>. HIDE DEF k
  <2>1. /\ 1 \in 1 .. Len(q) + 1 /\ k \in 1 - 1 .. Len(q)
        /\ Len(q) \in k .. Len(q)
    BY <1>1, <1>7
  <2>2. SubSeq(q, 1, k) \o SubSeq(q, k + 1, Len(q)) = SubSeq(q, 1, Len(q))
    BY <2>1, ConcatAdjacentSubSeq
  <2>3. SubSeq(q, 1, Len(q)) = q
    BY SubSeqFull
  <2>. QED BY <2>2, <2>3
<1>. HIDE DEF e, u, k, n
<1>3. Veces(q, x) = Veces(e, x) + Veces(u, x)
  <2>1. Veces(e \o u, x) = Veces(e, x) + Veces(u, x)
    BY <1>1, VecesJuntas
  <2>. QED BY <1>2, <2>1
<1>4. Veces(a, x) <= Veces(e, x) + Veces(l, x)
  <2>1. CASE l = <<>>
    <3>1. a = <<>>
      BY <1>1, <2>1, AnteponeVacia
    <3>2. Veces(a, x) = 0
      BY <3>1, VecesVacia
    <3>. QED BY <1>9, <3>2
  <2>2. CASE l # <<>>
    <3> DEFINE v == Reverse(e)
    <3>1. a = v \o l
      <4>1. Len(l) > 0
        BY <2>2
      <4>. HIDE DEF a
      <4>. QED BY <1>1, <4>1, AnteponeEs DEF a
    <3>2. v \in Seq(S) /\ Veces(v, x) = Veces(e, x)
      BY <1>1, VecesReverse
    <3>. HIDE DEF a, v
    <3>3. Veces(a, x) = Veces(v, x) + Veces(l, x)
      <4>1. Veces(v \o l, x) = Veces(v, x) + Veces(l, x)
        BY <3>2, VecesJuntas
      <4>. QED BY <3>1, <4>1
    <3>. QED BY <1>9, <3>2, <3>3
  <2>. QED BY <2>1, <2>2
<1>. HIDE DEF a
<1>5. Veces(o, x) = Veces(a, x)
  BY <1>1, VecesBurbuja
<1>. HIDE DEF o, r
<1>6. Veces(r.LPL, x) = Veces(u, x) + Veces(o, x)
  <2>1. u \in Seq(S) /\ o \in Seq(S) /\ r.LPL = u \o o
    BY <1>1
  <2>2. Veces(u \o o, x) = Veces(u, x) + Veces(o, x)
    BY <2>1, VecesJuntas
  <2>. QED BY <2>1, <2>2
<1>8. Veces(r.LPL, x) <= Veces(q, x) + Veces(l, x)
  BY <1>3, <1>4, <1>5, <1>6, <1>9
<1>. QED BY <1>8 DEF r

-----------------------------------------------------------------------------
(***************************************************************************)
(* The places an image can be in: the queues, the list of the suspended,   *)
(* the batch of the STS and the hands of each thread, those of LTSconex    *)
(* told apart by what it is about to do with the image.                    *)
(***************************************************************************)
Manos  == {"LPS", "demora", "carga", "reanuda", "lnew", "sts", "procer"}
Sitios == Colas \cup Manos \cup {"LPB", "io", "lote"}

EnMano(s, p) ==
    \/ s = "LPS" /\ p \in LPS
    \/ s = "demora" /\ lts.pc = "demora" /\ lts.img = p
    \/ s = "carga" /\ lts.pc = "encola" /\ lts.q = "LPN" /\ lts.img = p
    \/ s = "reanuda" /\ lts.pc = "encola" /\ lts.q = "LPR" /\ lts.img = p
    \/ s = "lnew" /\ lnew.img = p
    \/ s = "sts" /\ sts.img = p
    \/ /\ s = "procer" /\ procer.img = p /\ ~ procer.ioBlock
       /\ procer.pc \in {"ejecuta", "decide", "colgado"}

(* How many times the image is in the place.                               *)
En(s, p) ==
    IF s \in Colas THEN Veces(cola[s], p)
    ELSE IF s = "LPB" THEN Veces(LPB, [img |-> p, nb |-> FALSE])
    ELSE IF s = "lote" THEN Veces(sts.prioList, p)
    ELSE IF s = "io"
         THEN Cardinality({h \in Hilos : io[h].pc = "es" /\ io[h].img = p})
    ELSE UnoSi(EnMano(s, p))

Suma1(p) == En("LPN", p) + En("LPR", p) + En("LFQ", p) + En("LFIO", p)
Suma2(p) == En("LFIFO", p) + En("LPL", p) + En("LPB", p) + En("lote", p)
Suma3(p) == En("demora", p) + En("carga", p) + En("reanuda", p) + En("io", p)
Suma4(p) == En("LPS", p) + En("lnew", p) + En("sts", p) + En("procer", p)
Suma(p)  == Suma1(p) + Suma2(p) + Suma3(p) + Suma4(p)

(* The state of the images of a place.                                     *)
Clase == [s \in Sitios |->
    IF s \in {"LFIFO", "demora"} THEN "FIFO"
    ELSE IF s \in {"LPN", "carga", "lnew"} THEN "Nuevos"
    ELSE IF s \in {"LPR", "reanuda"} THEN "Reanudados"
    ELSE IF s = "LFQ" THEN "Fin de Quantum"
    ELSE IF s = "LFIO" THEN "Fin I/O"
    ELSE IF s \in {"LPL", "sts", "lote"} THEN "Listos"
    ELSE IF s = "procer" THEN "Ejecucion"
    ELSE IF s = "LPS" THEN "Suspendido"
    ELSE "Bloqueado"]

(***************************************************************************)
(* The inductive invariant: one place each, or none for a ready process    *)
(* where batches are inserted; the state follows the place; a              *)
(* thread that holds nothing points nowhere; who has not connected has no  *)
(* image; a process that blocked has not reached its end (fin_programa is  *)
(* no I/O), so PROCER never frees an image it no longer owns; and the      *)
(* image PROCER is done with is not the one of a blocking request.         *)
(***************************************************************************)
Ocupa(n, e) == IF e = "Listos" /\ ~ DeAUno THEN n \in {0, 1}
                ELSE n = UnoSi(e \in EnSistema)
UnSitio    == \A p \in Procs : Ocupa(Suma(p), lsch[p])
EnSuClase  == \A s \in Sitios, p \in Procs : En(s, p) > 0 => lsch[p] = Clase[s]
ManosLibres ==
    /\ lts.pc \in {"epoll", "avisa"} => lts.img = Nadie
    /\ lnew.pc # "encola" => lnew.img = Nadie
    /\ sts.pc # "push" => sts.img = Nadie
SinConectar == \A p \in Procs :
    pi[p] \in {"afuera", "rechazado"} => lsch[p] = "Afuera"
BloqueaAntesDelFin ==
    procer.pc \in {"ejecuta", "decide"} /\ procer.ioBlock => ~ EnFin
Soltado ==
    procer.pc \notin {"ejecuta", "decide", "colgado"} /\ img \in Procs
        => lsch[img] # "Bloqueado"

LugarInv == /\ UnSitio /\ EnSuClase /\ ManosLibres /\ SinConectar
            /\ BloqueaAntesDelFin /\ Soltado

-----------------------------------------------------------------------------
LEMMA LosSitios ==
    Sitios = {"LPN", "LPR", "LFQ", "LFIO", "LFIFO", "LPL", "LPB", "LPS",
              "demora", "carga", "reanuda", "lnew", "sts", "procer", "io",
              "lote"}
  BY DEF Sitios, Manos, Colas, Entradas

(* The places an image is in are counted.                                  *)
LEMMA EnNat ==
    ASSUME TypeOK, NEW s \in Sitios, NEW p PROVE En(s, p) \in Nat
<1>1. s \in Colas => Veces(cola[s], p) \in Nat
  BY Indices DEF TypeOK, TipoColas
<1>2. Veces(LPB, [img |-> p, nb |-> FALSE]) \in Nat
  BY Indices DEF TypeOK, TipoColas
<1>3. Cardinality({h \in Hilos : io[h].pc = "es" /\ io[h].img = p}) \in Nat
  BY HilosAssumption, FS_Subset, FS_CardinalityType
<1>4. Veces(sts.prioList, p) \in Nat
  BY Indices DEF TypeOK, TipoSTS, LocalesSTS
<1>. QED BY <1>1, <1>2, <1>3, <1>4 DEF En, UnoSi

LEMMA EnNatDespues ==
    ASSUME TypeOK', NEW s \in Sitios, NEW p PROVE En(s, p)' \in Nat
<1>1. s \in Colas => Veces(cola'[s], p) \in Nat
  BY Indices DEF TypeOK, TipoColas
<1>2. Veces(LPB', [img |-> p, nb |-> FALSE]) \in Nat
  BY Indices DEF TypeOK, TipoColas
<1>3. Cardinality({h \in Hilos : io'[h].pc = "es" /\ io'[h].img = p}) \in Nat
  BY HilosAssumption, FS_Subset, FS_CardinalityType
<1>4. (s \in Colas)' <=> s \in Colas
  BY DEF Colas, Entradas
<1>5. Veces(sts'.prioList, p) \in Nat
  BY Indices DEF TypeOK, TipoSTS, LocalesSTS
<1>. QED BY <1>1, <1>2, <1>3, <1>4, <1>5 DEF En, UnoSi

LEMMA SumasNat ==
    ASSUME TypeOK, NEW p
    PROVE /\ Suma1(p) \in Nat /\ Suma2(p) \in Nat
          /\ Suma3(p) \in Nat /\ Suma4(p) \in Nat
<1>1. \A s \in Sitios : En(s, p) \in Nat
  BY EnNat
<1>2. Suma1(p) \in Nat
  BY <1>1, LosSitios DEF Suma1
<1>3. Suma2(p) \in Nat
  BY <1>1, LosSitios DEF Suma2
<1>4. Suma3(p) \in Nat
  BY <1>1, LosSitios DEF Suma3
<1>5. Suma4(p) \in Nat
  BY <1>1, LosSitios DEF Suma4
<1>. QED BY <1>2, <1>3, <1>4, <1>5

LEMMA SumaNat ==
    ASSUME TypeOK, NEW p
    PROVE /\ Suma(p) \in Nat
          /\ \A s \in Sitios : En(s, p) <= Suma(p)
          /\ \A s, t \in Sitios : s # t => En(s, p) + En(t, p) <= Suma(p)
<1>1. \A s \in Sitios : En(s, p) \in Nat
  BY EnNat
<1> DEFINE S1 == {"LPN", "LPR", "LFQ", "LFIO"}
           S2 == {"LFIFO", "LPL", "LPB", "lote"}
           S3 == {"demora", "carga", "reanuda", "io"}
           S4 == {"LPS", "lnew", "sts", "procer"}
<1>2. /\ Suma1(p) \in Nat /\ \A s \in S1 : En(s, p) <= Suma1(p)
      /\ \A s, t \in S1 : s # t => En(s, p) + En(t, p) <= Suma1(p)
  BY <1>1, LosSitios DEF Suma1
<1>3. /\ Suma2(p) \in Nat /\ \A s \in S2 : En(s, p) <= Suma2(p)
      /\ \A s, t \in S2 : s # t => En(s, p) + En(t, p) <= Suma2(p)
  BY <1>1, LosSitios DEF Suma2
<1>4. /\ Suma3(p) \in Nat /\ \A s \in S3 : En(s, p) <= Suma3(p)
      /\ \A s, t \in S3 : s # t => En(s, p) + En(t, p) <= Suma3(p)
  BY <1>1, LosSitios DEF Suma3
<1>5. /\ Suma4(p) \in Nat /\ \A s \in S4 : En(s, p) <= Suma4(p)
      /\ \A s, t \in S4 : s # t => En(s, p) + En(t, p) <= Suma4(p)
  BY <1>1, LosSitios DEF Suma4
<1>6. Sitios = S1 \cup S2 \cup S3 \cup S4
  BY LosSitios
<1>. HIDE DEF S1, S2, S3, S4
<1>7. Suma(p) \in Nat /\ \A s \in Sitios : En(s, p) <= Suma(p)
  BY <1>1, <1>2, <1>3, <1>4, <1>5, <1>6 DEF Suma
<1>8. \A s, t \in Sitios : s # t => En(s, p) + En(t, p) <= Suma(p)
  BY <1>1, <1>2, <1>3, <1>4, <1>5, <1>6 DEF Suma
<1>. QED BY <1>7, <1>8

(* With no thread pointing at an image it does not hold, the count of      *)
(* Apariciones is the sum over the places.                                 *)
LEMMA AparicionesSuma ==
    ASSUME TypeOK, ManosLibres, NEW p \in Procs
    PROVE Apariciones(p) = Suma(p)
<1>1. /\ En("LPN", p) = Veces(cola["LPN"], p)
      /\ En("LPR", p) = Veces(cola["LPR"], p)
      /\ En("LFQ", p) = Veces(cola["LFQ"], p)
      /\ En("LFIO", p) = Veces(cola["LFIO"], p)
      /\ En("LFIFO", p) = Veces(cola["LFIFO"], p)
      /\ En("LPL", p) = Veces(cola["LPL"], p)
      /\ En("LPB", p) = Veces(LPB, [img |-> p, nb |-> FALSE])
      /\ En("lote", p) = Veces(sts.prioList, p)
      /\ En("io", p)
            = Cardinality({h \in Hilos : io[h].pc = "es" /\ io[h].img = p})
  BY DEF En, Colas, Entradas
<1>2. /\ En("LPS", p) = UnoSi(p \in LPS)
      /\ En("lnew", p) = UnoSi(lnew.img = p)
      /\ En("sts", p) = UnoSi(sts.img = p)
      /\ En("procer", p) = UnoSi(/\ procer.img = p
                                 /\ procer.pc \in {"ejecuta", "decide", "colgado"}
                                 /\ ~ procer.ioBlock)
  BY DEF En, EnMano, Colas, Entradas, UnoSi
<1>3. En("demora", p) + En("carga", p) + En("reanuda", p)
          = UnoSi(lts.img = p)
  <2>1. /\ En("demora", p) = UnoSi(lts.pc = "demora" /\ lts.img = p)
        /\ En("carga", p)
              = UnoSi(lts.pc = "encola" /\ lts.q = "LPN" /\ lts.img = p)
        /\ En("reanuda", p)
              = UnoSi(lts.pc = "encola" /\ lts.q = "LPR" /\ lts.img = p)
    BY DEF En, EnMano, Colas, Entradas, UnoSi
  <2>2. /\ lts.pc \in {"epoll", "demora", "encola", "avisa"}
        /\ lts.q \in {"LPN", "LPR"} /\ p # Nadie
    BY ProcsAssumption DEF TypeOK, TipoLTS
  <2>. QED BY <2>1, <2>2 DEF ManosLibres, UnoSi
<1>5. \A s \in Sitios : En(s, p) \in Nat
  BY EnNat
<1>6. Apariciones(p)
        = Suma1(p) + En("LFIFO", p) + En("LPL", p) + En("LPB", p)
          + En("LPS", p) + UnoSi(lts.img = p) + En("lnew", p) + En("sts", p)
          + En("lote", p) + En("procer", p) + En("io", p)
  BY <1>1, <1>2 DEF Apariciones, Suma1
<1>7. /\ Suma1(p) \in Nat /\ En("LFIFO", p) \in Nat /\ En("LPL", p) \in Nat
      /\ En("LPB", p) \in Nat /\ En("LPS", p) \in Nat
      /\ UnoSi(lts.img = p) \in Nat /\ En("lnew", p) \in Nat
      /\ En("sts", p) \in Nat /\ En("procer", p) \in Nat
      /\ En("io", p) \in Nat /\ En("lote", p) \in Nat
  BY <1>5, LosSitios DEF Suma1, UnoSi
<1>8. Suma(p) = Suma1(p)
        + (En("LFIFO", p) + En("LPL", p) + En("LPB", p) + En("lote", p))
        + (UnoSi(lts.img = p) + En("io", p))
        + (En("LPS", p) + En("lnew", p) + En("sts", p) + En("procer", p))
  BY <1>3 DEF Suma, Suma2, Suma3, Suma4
<1>. QED BY <1>6, <1>7, <1>8

-----------------------------------------------------------------------------
(***************************************************************************)
(* A step takes the image p from the place a to the place b, where         *)
(* "afuera" is none of the places, and leaves every other image where it   *)
(* was.                                                                    *)
(***************************************************************************)
Mueve(a, b, p) ==
    \A s \in Sitios, r \in Procs :
        En(s, r)' + UnoSi(s = a /\ r = p) = En(s, r) + UnoSi(s = b /\ r = p)

LEMMA MueveSuma ==
    ASSUME TypeOK, TypeOK', NEW p \in Procs, NEW r \in Procs,
           NEW a \in Sitios \cup {"afuera"}, NEW b \in Sitios \cup {"afuera"},
           Mueve(a, b, p)
    PROVE Suma(r)' + UnoSi(a # "afuera" /\ r = p)
              = Suma(r) + UnoSi(b # "afuera" /\ r = p)
<1>1. \A s \in Sitios : En(s, r) \in Nat
  BY EnNat
<1>2. \A s \in Sitios : En(s, r)' \in Nat
  BY EnNatDespues
<1>3. \A s \in Sitios : En(s, r)' + UnoSi(s = a /\ r = p)
                            = En(s, r) + UnoSi(s = b /\ r = p)
  BY DEF Mueve
<1>4. CASE r # p
  <2>1. \A s \in Sitios : En(s, r)' = En(s, r)
    BY <1>1, <1>2, <1>3, <1>4 DEF UnoSi
  <2>2. /\ Suma1(r)' = Suma1(r) /\ Suma2(r)' = Suma2(r)
        /\ Suma3(r)' = Suma3(r) /\ Suma4(r)' = Suma4(r)
    BY <2>1, LosSitios DEF Suma1, Suma2, Suma3, Suma4
  <2>. QED BY <1>4, <2>2 DEF Suma, UnoSi
<1>5. CASE r = p
  <2>1. \A s \in Sitios : En(s, r)' + UnoSi(s = a) = En(s, r) + UnoSi(s = b)
    BY <1>3, <1>5, Zenon DEF UnoSi
  <2> DEFINE S1 == {"LPN", "LPR", "LFQ", "LFIO"}
             S2 == {"LFIFO", "LPL", "LPB", "lote"}
             S3 == {"demora", "carga", "reanuda", "io"}
             S4 == {"LPS", "lnew", "sts", "procer"}
  <2>2. /\ Suma1(r) \in Nat /\ Suma1(r)' \in Nat
        /\ Suma1(r)' + UnoSi(a \in S1) = Suma1(r) + UnoSi(b \in S1)
    BY <1>1, <1>2, <2>1, LosSitios DEF Suma1, UnoSi
  <2>3. /\ Suma2(r) \in Nat /\ Suma2(r)' \in Nat
        /\ Suma2(r)' + UnoSi(a \in S2) = Suma2(r) + UnoSi(b \in S2)
    BY <1>1, <1>2, <2>1, LosSitios DEF Suma2, UnoSi
  <2>4. /\ Suma3(r) \in Nat /\ Suma3(r)' \in Nat
        /\ Suma3(r)' + UnoSi(a \in S3) = Suma3(r) + UnoSi(b \in S3)
    BY <1>1, <1>2, <2>1, LosSitios DEF Suma3, UnoSi
  <2>5. /\ Suma4(r) \in Nat /\ Suma4(r)' \in Nat
        /\ Suma4(r)' + UnoSi(a \in S4) = Suma4(r) + UnoSi(b \in S4)
    BY <1>1, <1>2, <2>1, LosSitios DEF Suma4, UnoSi
  <2>6. \A x \in {a, b} :
            UnoSi(x \in S1) + UnoSi(x \in S2) + UnoSi(x \in S3)
                + UnoSi(x \in S4) = UnoSi(x # "afuera")
    BY LosSitios DEF UnoSi
  <2>7. \A x \in {a, b} :
            /\ UnoSi(x \in S1) \in Nat /\ UnoSi(x \in S2) \in Nat
            /\ UnoSi(x \in S3) \in Nat /\ UnoSi(x \in S4) \in Nat
    BY DEF UnoSi
  <2>8. UnoSi(a # "afuera" /\ r = p) = UnoSi(a # "afuera")
        /\ UnoSi(b # "afuera" /\ r = p) = UnoSi(b # "afuera")
    BY <1>5 DEF UnoSi
  <2>. HIDE DEF S1, S2, S3, S4
  <2>. QED BY <2>2, <2>3, <2>4, <2>5, <2>6, <2>7, <2>8 DEF Suma
<1>. QED BY <1>4, <1>5

LEMMA ClaseEnSistema == \A s \in Sitios : Clase[s] \in EnSistema
  BY DEF Clase, EnSistema, EnMemoria

(* An image that changes its place and its state together keeps both parts *)
(* of the invariant: it comes from the one place it was in (or from none,  *)
(* if it was not in the system), so no other place is left with an image   *)
(* in the wrong state.                                                     *)
LEMMA Traslado ==
    ASSUME TypeOK, TypeOK', UnSitio, EnSuClase, NEW p \in Procs, NEW e,
           NEW a \in Sitios \cup {"afuera"}, NEW b \in Sitios \cup {"afuera"},
           a # b, Mueve(a, b, p), lsch' = [lsch EXCEPT ![p] = e],
           a = "afuera" => lsch[p] \notin EnSistema,
           b = "afuera" => e \notin EnSistema,
           b \in Sitios => e = Clase[b]
    PROVE UnSitio' /\ EnSuClase'
<1>1. "afuera" \notin Sitios
  BY LosSitios
<1>2. \A r \in Procs : Suma(r) \in Nat /\ \A s \in Sitios : En(s, r) <= Suma(r)
  BY SumaNat
<1>3. \A s \in Sitios, r \in Procs : En(s, r) \in Nat /\ En(s, r)' \in Nat
  BY EnNat, EnNatDespues
<1>4. \A r \in Procs \ {p} : lsch'[r] = lsch[r]
  BY DEF TypeOK, TipoImagenes
<1>5. lsch'[p] = e
  BY DEF TypeOK, TipoImagenes
<1>6. ASSUME NEW r \in Procs \ {p}
      PROVE /\ Ocupa(Suma(r)', lsch'[r])
            /\ \A s \in Sitios : En(s, r)' > 0 => lsch'[r] = Clase[s]
  <2>1. \A s \in Sitios : En(s, r)' = En(s, r)
    BY <1>3 DEF Mueve, UnoSi
  <2>2. Suma(r)' = Suma(r)
    <3>1. Suma1(r)' = Suma1(r) /\ Suma2(r)' = Suma2(r)
          /\ Suma3(r)' = Suma3(r) /\ Suma4(r)' = Suma4(r)
      BY <2>1, LosSitios DEF Suma1, Suma2, Suma3, Suma4
    <3>. QED BY <3>1 DEF Suma
  <2>3. Ocupa(Suma(r), lsch[r])
    BY DEF UnSitio
  <2>4. Ocupa(Suma(r)', lsch'[r])
    BY <2>2, <2>3, <1>4, Zenon
  <2>. QED BY <2>1, <2>4, <1>4 DEF EnSuClase
<1>7. Suma(p) = UnoSi(a # "afuera")
  <2>1. /\ Suma(p) \in {0, 1}
        /\ lsch[p] \notin EnSistema => Suma(p) = 0
    BY DEF UnSitio, Ocupa, UnoSi, EnSistema, EnMemoria
  <2>2. CASE a = "afuera"
    BY <2>1, <2>2 DEF UnoSi
  <2>3. CASE a \in Sitios
    <3>1. En(a, p)' + 1 = En(a, p)
      <4>1. En(a, p)' + UnoSi(a = a /\ p = p) = En(a, p) + UnoSi(a = b /\ p = p)
        BY <2>3 DEF Mueve
      <4>. QED BY <4>1, <1>3, <2>3 DEF UnoSi
    <3>2. En(a, p) > 0
      BY <3>1, <1>3, <2>3
    <3>. QED BY <3>2, <2>1, <1>1, <1>2, <1>3, <2>3 DEF UnoSi
  <2>. QED BY <2>2, <2>3
<1>8. Suma(p)' = UnoSi(b # "afuera")
  <2>1. Suma(p)' + UnoSi(a # "afuera" /\ p = p)
            = Suma(p) + UnoSi(b # "afuera" /\ p = p)
    BY MueveSuma
  <2>2. Suma(p)' \in Nat
    <3>1. \A s \in Sitios : En(s, p)' \in Nat
      BY EnNatDespues
    <3>2. /\ Suma1(p)' \in Nat /\ Suma2(p)' \in Nat
          /\ Suma3(p)' \in Nat /\ Suma4(p)' \in Nat
      BY <3>1, LosSitios DEF Suma1, Suma2, Suma3, Suma4
    <3>. QED BY <3>2 DEF Suma
  <2>. QED BY <2>1, <2>2, <1>7 DEF UnoSi
<1>9. Ocupa(Suma(p)', lsch'[p])
  <2>1. lsch'[p] \in EnSistema <=> b # "afuera"
    BY <1>1, <1>5, ClaseEnSistema
  <2>. QED BY <1>8, <2>1 DEF Ocupa, UnoSi
<1>10. \A s \in Sitios : En(s, p)' > 0 => lsch'[p] = Clase[s]
  <2>1. ASSUME NEW s \in Sitios, s # b PROVE En(s, p)' = 0
    <3>1. En(s, p)' + UnoSi(s = a /\ p = p) = En(s, p) + UnoSi(s = b /\ p = p)
      BY DEF Mueve
    <3>2. En(s, p) <= UnoSi(a # "afuera")
      BY <1>2, <1>7
    <3>3. CASE s = a
      BY <3>1, <3>2, <3>3, <2>1, <1>3, <1>1 DEF UnoSi
    <3>4. CASE s # a
      <4>1. a = "afuera" => En(s, p) = 0
        <5>1. En(s, p) \in Nat
          BY <1>3
        <5>. QED BY <5>1, <3>2 DEF UnoSi
      <4>2. a \in Sitios => En(s, p) = 0
        <5>1. ASSUME a \in Sitios PROVE En(s, p) = 0
          <6>1. En(a, p)' + UnoSi(a = a /\ p = p)
                    = En(a, p) + UnoSi(a = b /\ p = p)
            BY <5>1 DEF Mueve
          <6>2. En(a, p) > 0
            BY <6>1, <1>3, <5>1 DEF UnoSi
          <6>3. En(s, p) + En(a, p) <= Suma(p)
            BY <3>4, <5>1, SumaNat
          <6>. QED BY <6>2, <6>3, <1>3, <1>7, <5>1 DEF UnoSi
        <5>. QED BY <5>1
      <4>. QED BY <3>1, <3>4, <2>1, <4>1, <4>2, <1>3 DEF UnoSi
    <3>. QED BY <3>3, <3>4
  <2>. QED BY <2>1, <1>5
<1>11. UnSitio'
  BY <1>6, <1>9 DEF UnSitio, Ocupa, DeAUno
<1>. QED BY <1>6, <1>10, <1>11 DEF EnSuClase

(* A step that moves no image and changes no state.                        *)
LEMMA Quieto ==
    ASSUME UnSitio, EnSuClase, UNCHANGED lsch,
           \A s \in Sitios, r \in Procs : En(s, r)' = En(s, r)
    PROVE UnSitio' /\ EnSuClase'
<1>1. ASSUME NEW r \in Procs PROVE Suma(r)' = Suma(r)
  <2>1. /\ Suma1(r)' = Suma1(r) /\ Suma2(r)' = Suma2(r)
        /\ Suma3(r)' = Suma3(r) /\ Suma4(r)' = Suma4(r)
    BY LosSitios DEF Suma1, Suma2, Suma3, Suma4
  <2>. QED BY <2>1 DEF Suma
<1>2. ASSUME NEW r \in Procs PROVE Ocupa(Suma(r)', lsch'[r])
  <2>1. Ocupa(Suma(r), lsch[r])
    BY DEF UnSitio
  <2>. QED BY <1>1, <2>1, Zenon
<1>3. UnSitio'
  BY <1>2 DEF UnSitio, Ocupa, DeAUno
<1>. QED BY <1>3 DEF EnSuClase

-----------------------------------------------------------------------------
(* A move, from what happens at its two ends.                              *)
Deja(a, p)  == \A r \in Procs : En(a, r)' + UnoSi(r = p) = En(a, r)
Llega(b, p) == \A r \in Procs : En(b, r)' = En(b, r) + UnoSi(r = p)
Fijos(S)    == \A s \in S, r \in Procs : En(s, r)' = En(s, r)

LEMMA Arma ==
    ASSUME TypeOK, TypeOK', NEW p \in Procs, NEW a, NEW b, a # b,
           Fijos(Sitios \ {a, b}), a \in Sitios => Deja(a, p),
           b \in Sitios => Llega(b, p)
    PROVE Mueve(a, b, p)
<1>1. \A s \in Sitios, r \in Procs : En(s, r) \in Nat /\ En(s, r)' \in Nat
  BY EnNat, EnNatDespues
<1>2. ASSUME NEW s \in Sitios, NEW r \in Procs
      PROVE En(s, r)' + UnoSi(s = a /\ r = p) = En(s, r) + UnoSi(s = b /\ r = p)
  <2>1. En(s, r) \in Nat /\ En(s, r)' \in Nat
    BY <1>1
  <2>2. CASE s = a
    <3>1. En(s, r)' + UnoSi(r = p) = En(s, r)
      BY <2>2 DEF Deja
    <3>. QED BY <2>1, <2>2, <3>1 DEF UnoSi
  <2>3. CASE s = b
    <3>1. En(s, r)' = En(s, r) + UnoSi(r = p)
      BY <2>3 DEF Llega
    <3>. QED BY <2>1, <2>3, <3>1 DEF UnoSi
  <2>4. CASE s \notin {a, b}
    <3>1. En(s, r)' = En(s, r)
      BY <2>4 DEF Fijos
    <3>. QED BY <2>1, <2>4, <3>1 DEF UnoSi
  <2>. QED BY <2>2, <2>3, <2>4
<1>. QED BY <1>2 DEF Mueve

(* The push to a queue and the pop from one.                               *)
LEMMA LlegaCola ==
    ASSUME TipoColas, NEW q \in Colas, NEW p \in Procs,
           cola' = [cola EXCEPT ![q] = Append(@, p)]
    PROVE Llega(q, p) /\ Fijos(Colas \ {q})
<1>1. cola[q] \in Seq(Procs) /\ cola'[q] = Append(cola[q], p)
  BY DEF TipoColas
<1>2. \A s \in Colas \ {q} : cola'[s] = cola[s]
  BY DEF TipoColas
<1>3. \A r \in Procs : Veces(cola'[q], r) = Veces(cola[q], r) + UnoSi(p = r)
  BY <1>1, VecesAppend
<1>4. Llega(q, p)
  BY <1>3 DEF Llega, En, UnoSi
<1>. QED BY <1>2, <1>4 DEF Fijos, En

LEMMA DejaCola ==
    ASSUME TipoColas, NEW q \in Colas, cola[q] # <<>>,
           cola' = [cola EXCEPT ![q] = Tail(@)]
    PROVE Deja(q, Head(cola[q])) /\ Fijos(Colas \ {q})
<1>1. cola[q] \in Seq(Procs) /\ cola'[q] = Tail(cola[q])
  BY DEF TipoColas
<1>2. \A s \in Colas \ {q} : cola'[s] = cola[s]
  BY DEF TipoColas
<1>3. \A r \in Procs : Veces(cola[q], r)
                           = Veces(cola'[q], r) + UnoSi(Head(cola[q]) = r)
  BY <1>1, VecesTail
<1>4. Deja(q, Head(cola[q]))
  BY <1>3 DEF Deja, En, UnoSi
<1>. QED BY <1>2, <1>4 DEF Fijos, En

(* The request of an I/O, and its pop: only a blocking one carries its     *)
(* image.                                                                  *)
LEMMA LlegaLPB ==
    ASSUME TipoColas, NEW p \in Procs, NEW b \in BOOLEAN,
           LPB' = Append(LPB, [img |-> p, nb |-> b])
    PROVE /\ ~ b => Llega("LPB", p)
          /\ b => Fijos({"LPB"})
<1>1. LPB \in Seq(Pedidos) /\ [img |-> p, nb |-> b] \in Pedidos
  BY DEF TipoColas, Pedidos
<1>2. \A r \in Procs : En("LPB", r)' = En("LPB", r)
            + UnoSi([img |-> p, nb |-> b] = [img |-> r, nb |-> FALSE])
  BY <1>1, VecesAppend DEF En, Colas, Entradas
<1>3. \A r \in Procs : En("LPB", r) \in Nat
  BY <1>1, Indices DEF En, Colas, Entradas
<1>4. \A r \in Procs : [img |-> p, nb |-> b] = [img |-> r, nb |-> FALSE]
                           <=> p = r /\ ~ b
  OBVIOUS
<1>5. ASSUME b PROVE Fijos({"LPB"})
  <2>1. \A r \in Procs :
            UnoSi([img |-> p, nb |-> b] = [img |-> r, nb |-> FALSE]) = 0
    BY <1>4, <1>5 DEF UnoSi
  <2>2. \A r \in Procs : En("LPB", r)' = En("LPB", r) + 0
    BY <1>2, <2>1, Zenon
  <2>. QED BY <1>3, <2>2 DEF Fijos
<1>6. ASSUME ~ b PROVE Llega("LPB", p)
  <2>1. \A r \in Procs :
            UnoSi([img |-> p, nb |-> b] = [img |-> r, nb |-> FALSE])
                = UnoSi(r = p)
    BY <1>4, <1>6 DEF UnoSi
  <2>. QED BY <1>2, <1>3, <2>1 DEF Llega
<1>. QED BY <1>5, <1>6

LEMMA DejaLPB ==
    ASSUME TipoColas, LPB # <<>>, LPB' = Tail(LPB)
    PROVE /\ Head(LPB) \in Pedidos
          /\ ~ Head(LPB).nb => Deja("LPB", Head(LPB).img)
          /\ Head(LPB).nb => Fijos({"LPB"})
<1>1. LPB \in Seq(Pedidos) /\ Head(LPB) \in Pedidos /\ Tail(LPB) \in Seq(Pedidos)
  BY DEF TipoColas
<1>2. \A r \in Procs : En("LPB", r) = En("LPB", r)'
            + UnoSi(Head(LPB) = [img |-> r, nb |-> FALSE])
  <2>1. TAKE r \in Procs
  <2> DEFINE x == [img |-> r, nb |-> FALSE]
  <2>2. En("LPB", r) = Veces(LPB, x) /\ En("LPB", r)' = Veces(Tail(LPB), x)
    BY DEF En, Colas, Entradas
  <2>. HIDE DEF x
  <2>3. Veces(LPB, x) = Veces(Tail(LPB), x) + UnoSi(Head(LPB) = x)
    BY <1>1, VecesTail
  <2>. QED BY <2>2, <2>3 DEF x
<1>3. \A r \in Procs : En("LPB", r)' \in Nat
  BY <1>1, Indices DEF En, Colas, Entradas
<1>4. \A r \in Procs : Head(LPB) = [img |-> r, nb |-> FALSE]
                           <=> Head(LPB).img = r /\ ~ Head(LPB).nb
  BY <1>1 DEF Pedidos
<1>5. ASSUME Head(LPB).nb PROVE Fijos({"LPB"})
  <2>1. \A r \in Procs : UnoSi(Head(LPB) = [img |-> r, nb |-> FALSE]) = 0
    BY <1>4, <1>5 DEF UnoSi
  <2>. QED BY <1>2, <1>3, <2>1 DEF Fijos
<1>6. ASSUME ~ Head(LPB).nb PROVE Deja("LPB", Head(LPB).img)
  <2>1. \A r \in Procs : UnoSi(Head(LPB) = [img |-> r, nb |-> FALSE])
                             = UnoSi(r = Head(LPB).img)
    BY <1>4, <1>6 DEF UnoSi
  <2>. QED BY <1>2, <1>3, <2>1 DEF Deja
<1>. QED BY <1>1, <1>5, <1>6

(* An I/O thread that starts a blocking I/O, one that ends it, and one     *)
(* that does neither.                                                      *)
LEMMA CambiaIO ==
    ASSUME TipoIO, NEW h \in Hilos, NEW l \in LocalesIO,
           io' = [io EXCEPT ![h] = l]
    PROVE /\ io[h].pc # "es" /\ l.pc = "es" => Llega("io", l.img)
          /\ io[h].pc = "es" /\ l.pc # "es" => Deja("io", io[h].img)
          /\ io[h].pc # "es" /\ l.pc # "es" => Fijos({"io"})
<1> DEFINE A(r) == {k \in Hilos : io[k].pc = "es" /\ io[k].img = r}
           B(r) == {k \in Hilos : io'[k].pc = "es" /\ io'[k].img = r}
<1>1. io'[h] = l /\ \A k \in Hilos \ {h} : io'[k] = io[k]
  BY DEF TipoIO
<1>2. \A r \in Procs : En("io", r) = Cardinality(A(r))
                       /\ En("io", r)' = Cardinality(B(r))
  BY DEF En, Colas, Entradas
<1>3. \A r : A(r) \in SUBSET Hilos /\ B(r) \in SUBSET Hilos
  OBVIOUS
<1>4. \A r : Cardinality(A(r)) \in Nat /\ Cardinality(B(r)) \in Nat
  BY <1>3, Contar
<1>5. ASSUME io[h].pc # "es", l.pc = "es" PROVE Llega("io", l.img)
  <2>1. \A r \in Procs : r = l.img => h \notin A(r) /\ B(r) = A(r) \cup {h}
    BY <1>1, <1>5
  <2>2. \A r \in Procs : r # l.img => B(r) = A(r)
    BY <1>1, <1>5
  <2>3. \A r \in Procs : r = l.img => Cardinality(B(r)) = Cardinality(A(r)) + 1
    BY <2>1, <1>3, Contar
  <2>. HIDE DEF A, B
  <2>. QED BY <1>2, <1>4, <2>2, <2>3 DEF Llega, UnoSi
<1>6. ASSUME io[h].pc = "es", l.pc # "es" PROVE Deja("io", io[h].img)
  <2>1. \A r \in Procs : r = io[h].img => h \in A(r) /\ B(r) = A(r) \ {h}
    BY <1>1, <1>6
  <2>2. \A r \in Procs : r # io[h].img => B(r) = A(r)
    BY <1>1, <1>6
  <2>3. \A r \in Procs : r = io[h].img
                             => Cardinality(B(r)) = Cardinality(A(r)) - 1
    BY <2>1, <1>3, Contar
  <2>. HIDE DEF A, B
  <2>. QED BY <1>2, <1>4, <2>2, <2>3 DEF Deja, UnoSi
<1>7. ASSUME io[h].pc # "es", l.pc # "es" PROVE Fijos({"io"})
  <2>1. \A r \in Procs : B(r) = A(r)
    BY <1>1, <1>7
  <2>. HIDE DEF A, B
  <2>. QED BY <1>2, <2>1 DEF Fijos
<1>. QED BY <1>5, <1>6, <1>7

(* What a step that leaves alone the variables of a place does to it.      *)
LEMMA Fija ==
    /\ UNCHANGED cola => Fijos(Colas)
    /\ UNCHANGED LPB => Fijos({"LPB"})
    /\ UNCHANGED LPS => Fijos({"LPS"})
    /\ UNCHANGED lts => Fijos({"demora", "carga", "reanuda"})
    /\ lnew'.img = lnew.img => Fijos({"lnew"})
    /\ sts'.img = sts.img => Fijos({"sts"})
    /\ sts'.prioList = sts.prioList => Fijos({"lote"})
    /\ UNCHANGED procer => Fijos({"procer"})
    /\ UNCHANGED io => Fijos({"io"})
<1>1. UNCHANGED cola => Fijos(Colas)
  BY DEF Fijos, En
<1>2. UNCHANGED LPB => Fijos({"LPB"})
  BY DEF Fijos, En, Colas, Entradas
<1>3. UNCHANGED LPS => Fijos({"LPS"})
  BY DEF Fijos, En, EnMano, Colas, Entradas, UnoSi
<1>4. UNCHANGED lts => Fijos({"demora", "carga", "reanuda"})
  BY DEF Fijos, En, EnMano, Colas, Entradas, UnoSi
<1>5. lnew'.img = lnew.img => Fijos({"lnew"})
  BY DEF Fijos, En, EnMano, Colas, Entradas, UnoSi
<1>6. sts'.img = sts.img => Fijos({"sts"})
  BY DEF Fijos, En, EnMano, Colas, Entradas, UnoSi
<1>7. UNCHANGED procer => Fijos({"procer"})
  BY DEF Fijos, En, EnMano, Colas, Entradas, UnoSi
<1>8. UNCHANGED io => Fijos({"io"})
  BY DEF Fijos, En, Colas, Entradas
<1>9. sts'.prioList = sts.prioList => Fijos({"lote"})
  BY DEF Fijos, En, Colas, Entradas
<1>. QED BY <1>1, <1>2, <1>3, <1>4, <1>5, <1>6, <1>7, <1>8, <1>9

(* The places but a few, from each variable.                               *)
LEMMA RestoFijo ==
    ASSUME NEW T, Fijos(Colas \ T),
           \A s \in (Manos \cup {"LPB", "io", "lote"}) \ T : Fijos({s})
    PROVE Fijos(Sitios \ T)
<1>1. ASSUME NEW s \in Sitios \ T, NEW r \in Procs PROVE En(s, r)' = En(s, r)
  <2>1. CASE s \in Colas
    BY <2>1 DEF Fijos
  <2>2. CASE s \notin Colas
    <3>1. Fijos({s})
      BY <2>2 DEF Sitios
    <3>. QED BY <3>1 DEF Fijos
  <2>. QED BY <2>1, <2>2
<1>. QED BY <1>1 DEF Fijos

(* The image PROCER holds.                                                 *)
LEMMA ManoPROCER ==
    \A r \in Procs :
        En("procer", r) = UnoSi(/\ procer.img = r /\ ~ procer.ioBlock
                                /\ procer.pc \in {"ejecuta", "decide", "colgado"})
  BY DEF En, EnMano, Colas, Entradas, UnoSi

LEMMA ManoPROCERDespues ==
    \A r \in Procs :
        En("procer", r)' = UnoSi(/\ procer'.img = r /\ ~ procer'.ioBlock
                                 /\ procer'.pc \in {"ejecuta", "decide", "colgado"})
  BY DEF En, EnMano, Colas, Entradas, UnoSi

(* The image moves and its state becomes, or already was, that of its new  *)
(* place.                                                                  *)
LEMMA Muda ==
    ASSUME TypeOK, TypeOK', LugarInv, NEW p \in Procs, NEW a \in Sitios,
           NEW b \in Sitios, a # b, Deja(a, p), Llega(b, p),
           Fijos(Sitios \ {a, b}), UNCHANGED pi,
           \/ lsch' = [lsch EXCEPT ![p] = Clase[b]]
           \/ UNCHANGED lsch /\ Clase[a] = Clase[b]
    PROVE /\ UnSitio' /\ EnSuClase' /\ SinConectar'
          /\ lsch[p] = Clase[a]
          /\ lsch' = [lsch EXCEPT ![p] = Clase[b]]
<1>1. En(a, p) > 0
  <2>1. En(a, p)' + 1 = En(a, p) /\ En(a, p) \in Nat /\ En(a, p)' \in Nat
    BY EnNat, EnNatDespues DEF Deja, UnoSi
  <2>. QED BY <2>1
<1>2. lsch[p] = Clase[a]
  BY <1>1 DEF LugarInv, EnSuClase
<1>3. lsch' = [lsch EXCEPT ![p] = Clase[b]]
  BY <1>2 DEF TypeOK, TipoImagenes
<1>4. "afuera" \notin Sitios
  BY LosSitios
<1>5. Mueve(a, b, p)
  BY Arma
<1>6. UnSitio' /\ EnSuClase'
  BY <1>3, <1>4, <1>5, Traslado DEF LugarInv
<1>7. SinConectar'
  <2>1. pi[p] \notin {"afuera", "rechazado"}
    BY <1>2, ClaseEnSistema
       DEF LugarInv, SinConectar, EnSistema, EnMemoria
  <2>. QED BY <1>3, <2>1 DEF LugarInv, SinConectar, TypeOK, TipoImagenes
<1>. QED BY <1>2, <1>3, <1>6, <1>7

(* The step of another thread does not disturb what is known of PROCER.    *)
LEMMA OtroHilo ==
    ASSUME TypeOK, LugarInv, UNCHANGED <<procer, PC>>,
           \A r \in Procs : lsch'[r] = "Bloqueado" => lsch[r] = "Bloqueado"
    PROVE BloqueaAntesDelFin' /\ Soltado'
  BY DEF LugarInv, BloqueaAntesDelFin, Soltado, EnFin, img

(* A step of another thread that moves nothing.                            *)
LEMMA Nada ==
    ASSUME TypeOK, LugarInv, UNCHANGED <<lsch, procer, PC>>, Fijos(Sitios),
           ManosLibres', SinConectar'
    PROVE LugarInv'
<1>1. UnSitio' /\ EnSuClase'
  BY Quieto DEF LugarInv, Fijos
<1>2. BloqueaAntesDelFin' /\ Soltado'
  BY OtroHilo
<1>. QED BY <1>1, <1>2 DEF LugarInv

LEMMA IgualesManos ==
    ASSUME ManosLibres, UNCHANGED <<lts, lnew, sts>> PROVE ManosLibres'
  BY DEF ManosLibres
LEMMA IgualConectar ==
    ASSUME SinConectar, UNCHANGED <<pi, lsch>> PROVE SinConectar'
  BY DEF SinConectar

-----------------------------------------------------------------------------
(* LTSconex.                                                               *)
LEMMA Lugar_LTSAcepta ==
    ASSUME TypeOK, TypeOK', LugarInv, NEW p \in Procs, LTSAcepta(p)
    PROVE LugarInv'
<1>1. lsch[p] = "Afuera" /\ lts.img = Nadie /\ lts.pc = "epoll"
  BY DEF LTSAcepta, LugarInv, SinConectar, ManosLibres
<1>2. CASE sem["MPS"] = 0
  <2>1. Fijos(Sitios)
    BY <1>2, Fija, LosSitios DEF LTSAcepta, Fijos, Colas, Entradas
  <2>2. SinConectar'
    BY <1>1, <1>2 DEF LTSAcepta, LugarInv, SinConectar, TypeOK, TipoImagenes
  <2>3. ManosLibres'
    BY <1>2, IgualesManos DEF LTSAcepta, LugarInv
  <2>. QED BY <1>2, <2>1, <2>2, <2>3, Nada DEF LTSAcepta
<1>3. CASE sem["MPS"] # 0
  <2>. PICK b \in {"carga", "demora"} : b = IF HayMMP THEN "carga" ELSE "demora"
    OBVIOUS
  <2>. PICK e : e = Clase[b]
    OBVIOUS
  <2>1. /\ b \in Sitios /\ "afuera" \notin Sitios
        /\ e = IF HayMMP THEN "Nuevos" ELSE "FIFO"
    BY LosSitios DEF Clase
  <2>2. /\ lts' = [pc |-> IF b = "carga" THEN "encola" ELSE "demora",
                   img |-> p, q |-> "LPN"]
        /\ lsch' = [lsch EXCEPT ![p] = e]
        /\ pi' = [pi EXCEPT ![p] = "conectado"]
    BY <1>3, <2>1 DEF LTSAcepta
  <2>3. \A s \in {"demora", "carga", "reanuda"}, r \in Procs :
            /\ En(s, r) = 0
            /\ En(s, r)' = UnoSi(s = b /\ r = p)
    BY <1>1, <2>2, ProcsAssumption DEF En, EnMano, UnoSi, Colas, Entradas
  <2>4. Llega(b, p)
    BY <2>3 DEF Llega, UnoSi
  <2>5. Fijos(Sitios \ {"afuera", b})
    <3>1. Fijos({"demora", "carga", "reanuda"} \ {b})
      BY <2>3 DEF Fijos, UnoSi
    <3>. QED BY <3>1, Fija, LosSitios DEF LTSAcepta, Fijos, Colas, Entradas
  <2>6. Mueve("afuera", b, p)
    BY <2>1, <2>4, <2>5, Arma
  <2>7. lsch[p] \notin EnSistema
    BY <1>1 DEF EnSistema, EnMemoria
  <2>8. UnSitio' /\ EnSuClase'
    BY <2>1, <2>2, <2>6, <2>7, Traslado DEF LugarInv
  <2>9. SinConectar'
    BY <2>2 DEF LugarInv, SinConectar, TypeOK, TipoImagenes
  <2>10. ManosLibres'
    BY <2>2 DEF LTSAcepta, LugarInv, ManosLibres
  <2>11. BloqueaAntesDelFin' /\ Soltado'
    <3>1. \A r \in Procs : lsch'[r] = "Bloqueado" => lsch[r] = "Bloqueado"
      BY <2>1, <2>2 DEF TypeOK, TipoImagenes
    <3>. QED BY <3>1, OtroHilo DEF LTSAcepta
  <2>. QED BY <2>8, <2>9, <2>10, <2>11 DEF LugarInv
<1>. QED BY <1>2, <1>3

LEMMA Lugar_LTSDemora ==
    ASSUME TypeOK, TypeOK', LugarInv, LTSDemora PROVE LugarInv'
<1>1. lts.img \in Procs /\ lts.img # Nadie /\ lts.pc = "demora"
  BY ProcsAssumption DEF LTSDemora, TypeOK, TipoLTS
<1>2. lts' = [lts EXCEPT !.pc = "epoll", !.img = Nadie]
      /\ lts'.pc = "epoll" /\ lts'.img = Nadie
  BY DEF LTSDemora, TypeOK, TipoLTS
<1>3. Llega("LFIFO", lts.img) /\ Fijos(Colas \ {"LFIFO"})
  BY <1>1, LlegaCola DEF LTSDemora, Encola, TypeOK, Colas
<1>4. Deja("demora", lts.img) /\ Fijos({"carga", "reanuda"})
  BY <1>1, <1>2, ProcsAssumption
     DEF Deja, Fijos, En, EnMano, UnoSi, Colas, Entradas
<1>5. Fijos(Sitios \ {"demora", "LFIFO"})
  BY <1>3, <1>4, Fija, LosSitios DEF LTSDemora, Fijos, Colas, Entradas
<1>6. "demora" \in Sitios /\ "LFIFO" \in Sitios
      /\ Clase["demora"] = Clase["LFIFO"]
  BY LosSitios DEF Clase
<1>7. UnSitio' /\ EnSuClase' /\ SinConectar'
  BY <1>1, <1>3, <1>4, <1>5, <1>6, Muda DEF LTSDemora, imagenes
<1>8. ManosLibres'
  BY <1>2 DEF LTSDemora, LugarInv, ManosLibres
<1>9. BloqueaAntesDelFin' /\ Soltado'
  BY OtroHilo DEF LTSDemora, imagenes
<1>. QED BY <1>7, <1>8, <1>9 DEF LugarInv

LEMMA Lugar_LTSEncola ==
    ASSUME TypeOK, TypeOK', LugarInv, LTSEncola PROVE LugarInv'
<1>1. lts.img \in Procs /\ lts.img # Nadie /\ lts.pc = "encola"
      /\ lts.q \in {"LPN", "LPR"}
  BY ProcsAssumption DEF LTSEncola, TypeOK, TipoLTS
<1>. PICK q \in {"LPN", "LPR"} : q = lts.q
  BY <1>1
<1>. PICK a \in {"carga", "reanuda"} :
         a = IF q = "LPN" THEN "carga" ELSE "reanuda"
  OBVIOUS
<1>2. lts'.pc = "avisa" /\ lts'.img = Nadie
  BY DEF LTSEncola, TypeOK, TipoLTS
<1>3. Llega(q, lts.img) /\ Fijos(Colas \ {q})
  BY <1>1, LlegaCola DEF LTSEncola, Encola, TypeOK, Colas, Entradas
<1>4. Deja(a, lts.img) /\ Fijos({"demora", "carga", "reanuda"} \ {a})
  BY <1>1, <1>2, ProcsAssumption
     DEF Deja, Fijos, En, EnMano, UnoSi, Colas, Entradas
<1>5. Fijos(Sitios \ {a, q})
  BY <1>3, <1>4, Fija, LosSitios DEF LTSEncola, Fijos, Colas, Entradas
<1>6. a \in Sitios /\ q \in Sitios /\ Clase[a] = Clase[q] /\ a # q
  BY LosSitios DEF Clase
<1>7. UnSitio' /\ EnSuClase' /\ SinConectar'
  BY <1>1, <1>3, <1>4, <1>5, <1>6, Muda DEF LTSEncola, imagenes
<1>8. ManosLibres'
  BY <1>2 DEF LTSEncola, LugarInv, ManosLibres
<1>9. BloqueaAntesDelFin' /\ Soltado'
  BY OtroHilo DEF LTSEncola, imagenes
<1>. QED BY <1>7, <1>8, <1>9 DEF LugarInv

LEMMA Lugar_LTSAvisa ==
    ASSUME TypeOK, TypeOK', LugarInv, LTSAvisa PROVE LugarInv'
<1>1. lts.img = Nadie /\ lts'.img = Nadie /\ lts'.pc = "epoll"
      /\ lts.pc = "avisa"
  BY DEF LTSAvisa, TypeOK, TipoLTS, LugarInv, ManosLibres
<1>2. Fijos({"demora", "carga", "reanuda"})
  BY <1>1, ProcsAssumption DEF Fijos, En, EnMano, UnoSi, Colas, Entradas
<1>3. Fijos(Sitios)
  BY <1>2, Fija, LosSitios DEF LTSAvisa, Fijos, Colas, Entradas
<1>4. ManosLibres' /\ SinConectar'
  BY <1>1, IgualConectar DEF LTSAvisa, LugarInv, ManosLibres, imagenes
<1>. QED BY <1>3, <1>4, Nada DEF LTSAvisa, imagenes

LEMMA Lugar_LTSReanuda ==
    ASSUME TypeOK, TypeOK', LugarInv, NEW p \in Procs, LTSReanuda(p)
    PROVE LugarInv'
<1>1. lts.img = Nadie /\ lts.pc = "epoll" /\ pi[p] = "reanudar"
  BY DEF LTSReanuda, LugarInv, ManosLibres
<1>2. CASE p \notin LPS
  <2>1. Fijos(Sitios)
    BY <1>2, Fija, LosSitios DEF LTSReanuda, Fijos, Colas, Entradas
  <2>2. SinConectar'
    BY <1>2 DEF LTSReanuda, LugarInv, SinConectar, TypeOK, TipoImagenes
  <2>3. ManosLibres'
    BY <1>2, IgualesManos DEF LTSReanuda, LugarInv
  <2>. QED BY <1>2, <2>1, <2>2, <2>3, Nada DEF LTSReanuda
<1>3. CASE p \in LPS
  <2>1. /\ lts' = [pc |-> "encola", img |-> p, q |-> "LPR"]
        /\ lsch' = [lsch EXCEPT ![p] = "Reanudados"]
        /\ pi' = [pi EXCEPT ![p] = "conectado"]
        /\ LPS' = LPS \ {p}
    BY <1>3 DEF LTSReanuda, restoreSuspended
  <2>2. /\ "LPS" \in Sitios /\ "reanuda" \in Sitios
        /\ "Reanudados" = Clase["reanuda"] /\ "afuera" \notin Sitios
    BY LosSitios DEF Clase
  <2>3. Llega("reanuda", p) /\ Fijos({"demora", "carga"})
    BY <1>1, <2>1, ProcsAssumption
       DEF Llega, Fijos, En, EnMano, UnoSi, Colas, Entradas
  <2>4. Deja("LPS", p)
    BY <1>3, <2>1 DEF Deja, En, EnMano, UnoSi, Colas, Entradas
  <2>5. Fijos(Sitios \ {"LPS", "reanuda"})
    BY <2>3, Fija, LosSitios DEF LTSReanuda, Fijos, Colas, Entradas
  <2>6. Mueve("LPS", "reanuda", p)
    BY <2>2, <2>3, <2>4, <2>5, Arma
  <2>7. UnSitio' /\ EnSuClase'
    BY <2>1, <2>2, <2>6, Traslado DEF LugarInv
  <2>8. SinConectar'
    BY <2>1 DEF LugarInv, SinConectar, TypeOK, TipoImagenes
  <2>9. ManosLibres'
    BY <2>1 DEF LTSReanuda, LugarInv, ManosLibres
  <2>10. BloqueaAntesDelFin' /\ Soltado'
    <3>1. \A r \in Procs : lsch'[r] = "Bloqueado" => lsch[r] = "Bloqueado"
      BY <2>1 DEF TypeOK, TipoImagenes
    <3>. QED BY <3>1, OtroHilo DEF LTSReanuda
  <2>. QED BY <2>7, <2>8, <2>9, <2>10 DEF LugarInv
<1>. QED BY <1>2, <1>3

LEMMA Lugar_LTSEnvia ==
    ASSUME TypeOK, TypeOK', LugarInv, NEW p \in Procs, LTSEnvia(p)
    PROVE LugarInv'
<1>1. Fijos(Sitios)
  BY Fija, LosSitios DEF LTSEnvia, Fijos, Colas, Entradas, hilosPP
<1>2. SinConectar'
  BY DEF LTSEnvia, LugarInv, SinConectar, TypeOK, TipoImagenes, imagenes
<1>3. ManosLibres'
  BY IgualesManos DEF LTSEnvia, LugarInv, hilosPP
<1>. QED BY <1>1, <1>2, <1>3, Nada DEF LTSEnvia, hilosPP, imagenes

LEMMA Lugar_PIReanuda ==
    ASSUME TypeOK, TypeOK', LugarInv, NEW p \in Procs, PIReanuda(p)
    PROVE LugarInv'
<1>1. Fijos(Sitios)
  BY Fija, LosSitios DEF PIReanuda, Fijos, Colas, Entradas, hilosPP
<1>2. SinConectar'
  BY DEF PIReanuda, LugarInv, SinConectar, TypeOK, TipoImagenes, imagenes
<1>3. ManosLibres'
  BY IgualesManos DEF PIReanuda, LugarInv, hilosPP
<1>. QED BY <1>1, <1>2, <1>3, Nada DEF PIReanuda, hilosPP, imagenes

-----------------------------------------------------------------------------
(* LTSnew.                                                                 *)
LEMMA Lugar_NewToma ==
    ASSUME TypeOK, TypeOK', LugarInv, NewToma PROVE LugarInv'
<1>1. lnew.pc = "espera" /\ lnew.img = Nadie
  BY DEF NewToma, LugarInv, ManosLibres
<1>2. CASE cola["LFIFO"] = <<>>
  <2>1. lnew'.img = Nadie /\ lnew'.pc = "segv"
    BY <1>1, <1>2 DEF NewToma, TypeOK, TipoNew
  <2>2. Fijos(Sitios)
    BY <1>1, <1>2, <2>1, Fija, LosSitios DEF NewToma, Fijos, Colas, Entradas
  <2>3. ManosLibres' /\ SinConectar'
    BY <1>2, <2>1, IgualConectar DEF NewToma, LugarInv, ManosLibres
  <2>. QED BY <1>2, <2>2, <2>3, Nada DEF NewToma
<1>3. CASE cola["LFIFO"] # <<>>
  <2> DEFINE p == Head(cola["LFIFO"])
  <2>1. /\ lnew' = [pc |-> "encola", img |-> p]
        /\ cola' = [cola EXCEPT !["LFIFO"] = Tail(@)]
        /\ lsch' = [lsch EXCEPT ![p] = "Nuevos"]
    BY <1>3 DEF NewToma
  <2>2. p \in Procs
    BY <1>3, Cabeza DEF TypeOK, TipoColas, Colas
  <2>3. Deja("LFIFO", p) /\ Fijos(Colas \ {"LFIFO"})
    BY <1>3, <2>1, DejaCola DEF TypeOK, Colas
  <2>. HIDE DEF p
  <2>4. Llega("lnew", p)
    BY <1>1, <2>1, <2>2, ProcsAssumption
       DEF Llega, En, EnMano, UnoSi, Colas, Entradas
  <2>5. Fijos(Sitios \ {"LFIFO", "lnew"})
    BY <2>3, Fija, LosSitios DEF NewToma, Fijos, Colas, Entradas
  <2>6. "lnew" \in Sitios /\ "LFIFO" \in Sitios /\ "Nuevos" = Clase["lnew"]
    BY LosSitios DEF Clase
  <2>7. UnSitio' /\ EnSuClase' /\ SinConectar'
    BY <2>1, <2>2, <2>3, <2>4, <2>5, <2>6, Muda DEF NewToma
  <2>8. ManosLibres'
    BY <2>1 DEF NewToma, LugarInv, ManosLibres
  <2>9. BloqueaAntesDelFin' /\ Soltado'
    <3>1. \A r \in Procs : lsch'[r] = "Bloqueado" => lsch[r] = "Bloqueado"
      BY <2>1 DEF TypeOK, TipoImagenes
    <3>. QED BY <3>1, OtroHilo DEF NewToma
  <2>. QED BY <2>7, <2>8, <2>9 DEF LugarInv
<1>. QED BY <1>2, <1>3

LEMMA Lugar_NewEncola ==
    ASSUME TypeOK, TypeOK', LugarInv, NewEncola PROVE LugarInv'
<1>1. lnew.img \in Procs /\ lnew' = [pc |-> "avisa", img |-> Nadie]
  BY DEF NewEncola, TypeOK, TipoNew
<1>2. Llega("LPN", lnew.img) /\ Fijos(Colas \ {"LPN"})
  BY <1>1, LlegaCola DEF NewEncola, Encola, TypeOK, Colas, Entradas
<1>3. Deja("lnew", lnew.img)
  BY <1>1, ProcsAssumption DEF Deja, En, EnMano, UnoSi, Colas, Entradas
<1>4. Fijos(Sitios \ {"lnew", "LPN"})
  BY <1>2, Fija, LosSitios DEF NewEncola, Fijos, Colas, Entradas
<1>5. "lnew" \in Sitios /\ "LPN" \in Sitios /\ Clase["lnew"] = Clase["LPN"]
  BY LosSitios DEF Clase
<1>6. UnSitio' /\ EnSuClase' /\ SinConectar'
  BY <1>1, <1>2, <1>3, <1>4, <1>5, Muda DEF NewEncola, imagenes
<1>7. ManosLibres'
  BY <1>1 DEF NewEncola, LugarInv, ManosLibres
<1>8. BloqueaAntesDelFin' /\ Soltado'
  BY OtroHilo DEF NewEncola, imagenes
<1>. QED BY <1>6, <1>7, <1>8 DEF LugarInv

LEMMA Lugar_NewAvisa ==
    ASSUME TypeOK, TypeOK', LugarInv, NewAvisa PROVE LugarInv'
<1>1. lnew.img = Nadie /\ lnew'.img = Nadie
  BY DEF NewAvisa, TypeOK, TipoNew, LugarInv, ManosLibres
<1>2. Fijos(Sitios)
  BY <1>1, Fija, LosSitios DEF NewAvisa, Fijos, Colas, Entradas
<1>3. ManosLibres' /\ SinConectar'
  BY <1>1, IgualConectar DEF NewAvisa, LugarInv, ManosLibres, imagenes
<1>. QED BY <1>2, <1>3, Nada DEF NewAvisa, imagenes

-----------------------------------------------------------------------------
(* STS.                                                                    *)
LEMMA QuietoSTS ==
    ASSUME TypeOK, TypeOK', LugarInv,
           UNCHANGED <<pi, imagenes, cola, LPB, LPS, lts, lnew, procer, io>>,
           sts'.img = sts.img, sts'.prioList = sts.prioList,
           sts.pc # "push" \/ sts'.pc = "push"
    PROVE LugarInv'
<1>1. Fijos(Sitios)
  BY Fija, LosSitios DEF Fijos, Colas, Entradas
<1>2. ManosLibres' /\ SinConectar'
  BY IgualConectar DEF LugarInv, ManosLibres, imagenes
<1>. QED BY <1>1, <1>2, Nada DEF imagenes

LEMMA Lugar_STSPop ==
    ASSUME TypeOK, TypeOK', LugarInv, STSPop PROVE LugarInv'
<1>1. sts.pc = "pop" /\ sts.img = Nadie
      /\ sts.q \in Entradas /\ sts.q \in Colas
  BY DEF STSPop, LugarInv, ManosLibres, TypeOK, TipoSTS, LocalesSTS, Colas
<1>. PICK q \in Entradas : q = sts.q
  BY <1>1
<1>2. CASE cola[q] = <<>>
  <2>1. sts' = [sts EXCEPT !.pc = "segv"]
    BY <1>2 DEF STSPop
  <2>2. sts'.img = sts.img /\ sts'.prioList = sts.prioList
    BY <2>1 DEF TypeOK, TipoSTS, LocalesSTS
  <2>. QED BY <1>1, <1>2, <2>2, QuietoSTS DEF STSPop, imagenes
<1>3. CASE cola[q] # <<>> /\ ~ PorLotes(sts.alg)
  <2> DEFINE p == Head(cola[q])
  <2>1. /\ sts' = [sts EXCEPT !.pc = "push", !.img = p]
        /\ cola' = [cola EXCEPT ![q] = Tail(@)]
        /\ lsch' = [lsch EXCEPT ![p] = "Listos"]
    BY <1>3 DEF STSPop
  <2>2. p \in Procs
    BY <1>1, <1>3, Cabeza DEF TypeOK, TipoColas
  <2>3. Deja(q, p) /\ Fijos(Colas \ {q})
    BY <1>1, <1>3, <2>1, DejaCola DEF TypeOK
  <2>. HIDE DEF p
  <2>4. sts'.img = p /\ sts'.pc = "push" /\ sts'.prioList = sts.prioList
    BY <2>1 DEF TypeOK, TipoSTS, LocalesSTS
  <2>5. Llega("sts", p)
    BY <1>1, <2>2, <2>4, ProcsAssumption
       DEF Llega, En, EnMano, UnoSi, Colas, Entradas
  <2>6. Fijos(Sitios \ {q, "sts"})
    <3> DEFINE T == {q, "sts"}
    <3>1. Fijos(Colas \ T)
      BY <2>3 DEF Fijos
    <3>2. \A s \in {"LPS", "demora", "carga", "reanuda", "lnew", "procer",
                     "LPB", "io", "lote"} : Fijos({s})
      BY <2>4, Fija DEF STSPop, Fijos
    <3>3. \A s \in (Manos \cup {"LPB", "io", "lote"}) \ T : Fijos({s})
      BY <3>2 DEF Manos
    <3>. HIDE DEF T
    <3>4. Fijos(Sitios \ T)
      BY <3>1, <3>3, RestoFijo
    <3>. QED BY <3>4 DEF T
  <2>7. /\ "sts" \in Sitios /\ q \in Sitios /\ q # "sts"
        /\ "Listos" = Clase["sts"]
    BY <1>1, LosSitios DEF Clase, Entradas
  <2>8. UnSitio' /\ EnSuClase' /\ SinConectar'
    BY <2>1, <2>2, <2>3, <2>5, <2>6, <2>7, Muda DEF STSPop
  <2>9. ManosLibres'
    BY <2>4 DEF STSPop, LugarInv, ManosLibres
  <2>10. BloqueaAntesDelFin' /\ Soltado'
    <3>1. \A r \in Procs : lsch'[r] = "Bloqueado" => lsch[r] = "Bloqueado"
      BY <2>1 DEF TypeOK, TipoImagenes
    <3>. QED BY <3>1, OtroHilo DEF STSPop
  <2>. QED BY <2>8, <2>9, <2>10 DEF LugarInv
<1>4. CASE cola[q] # <<>> /\ PorLotes(sts.alg)
  <2> DEFINE p == Head(cola[q])
  <2>1. /\ sts' = [sts EXCEPT !.pc = "toma", !.prioList = Append(@, p)]
        /\ cola' = [cola EXCEPT ![q] = Tail(@)]
        /\ lsch' = [lsch EXCEPT ![p] = "Listos"]
    BY <1>4 DEF STSPop
  <2>2. p \in Procs
    BY <1>1, <1>4, Cabeza DEF TypeOK, TipoColas
  <2>3. Deja(q, p) /\ Fijos(Colas \ {q})
    BY <1>1, <1>4, <2>1, DejaCola DEF TypeOK
  <2>. HIDE DEF p
  <2>4. /\ sts'.img = sts.img /\ sts'.pc = "toma"
        /\ sts'.prioList = Append(sts.prioList, p)
        /\ sts.prioList \in Seq(Procs)
    BY <2>1 DEF TypeOK, TipoSTS, LocalesSTS
  <2>5. Llega("lote", p)
    <3>1. \A r \in Procs : Veces(sts'.prioList, r)
                               = Veces(sts.prioList, r) + UnoSi(p = r)
      BY <2>2, <2>4, VecesAppend
    <3>. QED BY <3>1 DEF Llega, En, UnoSi, Colas, Entradas
  <2>6. Fijos(Sitios \ {q, "lote"})
    BY <2>3, <2>4, Fija, LosSitios DEF STSPop, Fijos, Colas, Entradas
  <2>7. /\ "lote" \in Sitios /\ q \in Sitios /\ q # "lote"
        /\ "Listos" = Clase["lote"]
    BY <1>1, LosSitios DEF Clase, Entradas
  <2>8. UnSitio' /\ EnSuClase' /\ SinConectar'
    BY <2>1, <2>2, <2>3, <2>5, <2>6, <2>7, Muda DEF STSPop
  <2>9. ManosLibres'
    BY <1>1, <2>4 DEF STSPop, LugarInv, ManosLibres
  <2>10. BloqueaAntesDelFin' /\ Soltado'
    <3>1. \A r \in Procs : lsch'[r] = "Bloqueado" => lsch[r] = "Bloqueado"
      BY <2>1 DEF TypeOK, TipoImagenes
    <3>. QED BY <3>1, OtroHilo DEF STSPop
  <2>. QED BY <2>8, <2>9, <2>10 DEF LugarInv
<1>. QED BY <1>2, <1>3, <1>4

(* The insertion of a batch: the images in the ready queue after it were   *)
(* in the queue or in the batch, all of them in the state Listos, and no   *)
(* other image moves.                                                      *)
LEMMA LugarInserta ==
    ASSUME TypeOK, TypeOK', LugarInv, ~ DeAUno, NEW alg, NEW l, Inserta(l, alg),
           \/ l = sts.prioList /\ sts'.prioList = <<>>
           \/ l = <<>> /\ sts'.prioList = sts.prioList,
           UNCHANGED <<lsch, LPB, LPS, lts, lnew, procer, io>>,
           sts'.img = sts.img
    PROVE UnSitio' /\ EnSuClase'
<1>1. sts.prioList \in Seq(Procs) /\ l \in Seq(Procs)
  <2>1. sts.prioList \in Seq(Procs) /\ <<>> \in Seq(Procs)
    BY DEF TypeOK, TipoSTS, LocalesSTS
  <2>. QED BY <2>1
<1> DEFINE d == orderInsert(l, cola["LPL"], sem["LPL"], Clave(alg))
<1>2. /\ cola["LPL"] \in Seq(Procs) /\ sem["LPL"] \in Nat
      /\ Clave(alg) \in Campos(Procs) /\ cola'["LPL"] = d.LPL
      /\ \A c \in Colas \ {"LPL"} : cola'[c] = cola[c]
  BY <1>1, InsertaEs
<1>3. \A r \in Procs : Veces(cola'["LPL"], r)
                           <= Veces(cola["LPL"], r) + Veces(l, r)
  BY <1>1, <1>2, OrderInsertVeces
<1>. HIDE DEF d
<1>4. \A r \in Procs : Veces(sts'.prioList, r) + Veces(l, r)
                           = Veces(sts.prioList, r)
  <2>1. \A r \in Procs : Veces(sts.prioList, r) \in Nat /\ Veces(<<>>, r) = 0
    BY <1>1, Indices, VecesVacia
  <2>. QED BY <2>1
<1>5. \A r \in Procs : /\ En("LPL", r) \in Nat /\ En("lote", r) \in Nat
                        /\ En("LPL", r)' \in Nat /\ En("lote", r)' \in Nat
  BY EnNat, EnNatDespues, LosSitios
<1>6. \A r \in Procs : Veces(l, r) \in Nat
  BY <1>1, Indices
<1>7. \A r \in Procs : /\ En("LPL", r) = Veces(cola["LPL"], r)
                        /\ En("LPL", r)' = Veces(cola'["LPL"], r)
                        /\ En("lote", r) = Veces(sts.prioList, r)
                        /\ En("lote", r)' = Veces(sts'.prioList, r)
  BY DEF En, Colas, Entradas
<1>8. ASSUME NEW r \in Procs
      PROVE En("LPL", r)' + En("lote", r)' <= En("LPL", r) + En("lote", r)
  BY <1>3, <1>4, <1>5, <1>6, <1>7
<1>9. Fijos(Sitios \ {"LPL", "lote"})
  <2>1. Fijos(Colas \ {"LPL"})
    BY <1>2 DEF Fijos, En
  <2>. QED BY <2>1, Fija, LosSitios DEF Fijos, Colas, Entradas
<1>10. ASSUME NEW r \in Procs PROVE Suma(r)' <= Suma(r) /\ Suma(r)' \in Nat
  <2>1. /\ Suma1(r)' = Suma1(r) /\ Suma3(r)' = Suma3(r)
        /\ Suma4(r)' = Suma4(r) /\ En("LFIFO", r)' = En("LFIFO", r)
        /\ En("LPB", r)' = En("LPB", r)
    BY <1>9, LosSitios DEF Fijos, Suma1, Suma3, Suma4
  <2>2. En("LFIFO", r) \in Nat /\ En("LPB", r) \in Nat
    BY EnNat, LosSitios
  <2>3. Suma1(r) \in Nat /\ Suma3(r) \in Nat /\ Suma4(r) \in Nat
    BY SumasNat
  <2>4. Suma2(r)' <= Suma2(r) /\ Suma2(r)' \in Nat /\ Suma2(r) \in Nat
    <3>1. /\ En("LPL", r) \in Nat /\ En("lote", r) \in Nat
          /\ En("LPL", r)' \in Nat /\ En("lote", r)' \in Nat
          /\ En("LPL", r)' + En("lote", r)' <= En("LPL", r) + En("lote", r)
      BY <1>5, <1>8
    <3>2. \A a, b, c, g, e, f \in Nat : e + f <= c + g =>
              /\ a + e + b + f <= a + c + b + g
              /\ a + e + b + f \in Nat /\ a + c + b + g \in Nat
      OBVIOUS
    <3>3. /\ Suma2(r) = En("LFIFO", r) + En("LPL", r) + En("LPB", r)
                          + En("lote", r)
          /\ Suma2(r)' = En("LFIFO", r) + En("LPL", r)' + En("LPB", r)
                           + En("lote", r)'
      BY <2>1, Zenon DEF Suma2
    <3>4. En("LFIFO", r) \in Nat /\ En("LPB", r) \in Nat
      BY <2>2
    <3>. QED BY <3>1, <3>2, <3>3, <3>4
  <2>. QED BY <2>1, <2>3, <2>4 DEF Suma
<1>11. ASSUME NEW r \in Procs, lsch[r] # "Listos"
       PROVE /\ \A s \in Sitios : En(s, r)' = En(s, r)
             /\ Suma(r)' = Suma(r)
  <2>1. ~ (En("LPL", r) > 0) /\ ~ (En("lote", r) > 0)
    <3>1. /\ "LPL" \in Sitios /\ Clase["LPL"] = "Listos"
          /\ "lote" \in Sitios /\ Clase["lote"] = "Listos"
      BY LosSitios DEF Clase
    <3>2. \A s \in Sitios : En(s, r) > 0 => lsch[r] = Clase[s]
      BY DEF LugarInv, EnSuClase
    <3>. QED BY <1>11, <3>1, <3>2
  <2>2. /\ En("LPL", r) = 0 /\ En("lote", r) = 0
        /\ En("LPL", r)' = 0 /\ En("lote", r)' = 0
    BY <1>5, <1>8, <2>1
  <2>3. \A s \in Sitios : En(s, r)' = En(s, r)
    BY <1>9, <2>2 DEF Fijos
  <2>4. /\ Suma1(r)' = Suma1(r) /\ Suma2(r)' = Suma2(r)
        /\ Suma3(r)' = Suma3(r) /\ Suma4(r)' = Suma4(r)
    BY <2>3, LosSitios DEF Suma1, Suma2, Suma3, Suma4
  <2>. QED BY <2>3, <2>4 DEF Suma
<1>12. ASSUME NEW r \in Procs PROVE Ocupa(Suma(r)', lsch[r])
  <2>1. Ocupa(Suma(r), lsch[r])
    BY DEF LugarInv, UnSitio
  <2>2. CASE lsch[r] = "Listos"
    <3>1. Suma(r) \in {0, 1}
      BY <2>1, <2>2 DEF Ocupa
    <3>. QED BY <1>10, <2>2, <3>1 DEF Ocupa
  <2>3. CASE lsch[r] # "Listos"
    BY <1>11, <2>1, <2>3, Zenon
  <2>. QED BY <2>2, <2>3
<1>13. UnSitio'
  BY <1>12 DEF UnSitio, Ocupa, DeAUno
<1>14. ASSUME NEW s \in Sitios, NEW r \in Procs, En(s, r)' > 0
       PROVE lsch'[r] = Clase[s]
  <2>1. CASE lsch[r] # "Listos"
    BY <1>11, <1>14, <2>1 DEF LugarInv, EnSuClase
  <2>2. CASE lsch[r] = "Listos" /\ s \notin {"LPL", "lote"}
    BY <1>9, <1>14, <2>2 DEF Fijos, LugarInv, EnSuClase
  <2>3. CASE lsch[r] = "Listos" /\ s \in {"LPL", "lote"}
    BY <2>3 DEF Clase
  <2>. QED BY <2>1, <2>2, <2>3
<1>. QED BY <1>13, <1>14 DEF EnSuClase

LEMMA Lugar_STSInserta ==
    ASSUME TypeOK, TypeOK', LugarInv, DeAUno => SinLotes, STSInserta
    PROVE LugarInv'
<1>1. ~ DeAUno
  BY DEF STSInserta, SinLotes
<1>2. /\ sts'.prioList = <<>> /\ sts'.img = sts.img /\ sts.pc = "inserta"
      /\ sts'.pc = "espera"
  BY DEF STSInserta, TypeOK, TipoSTS, LocalesSTS
<1>3. UnSitio' /\ EnSuClase'
  <2>1. Inserta(sts.prioList, sts.alg)
    BY DEF STSInserta
  <2>. QED BY <1>1, <1>2, <2>1, LugarInserta DEF STSInserta, imagenes
<1>4. ManosLibres' /\ SinConectar'
  BY <1>2, IgualConectar DEF STSInserta, LugarInv, ManosLibres, imagenes
<1>5. BloqueaAntesDelFin' /\ Soltado'
  BY OtroHilo DEF STSInserta, imagenes
<1>. QED BY <1>3, <1>4, <1>5 DEF LugarInv

LEMMA Lugar_STSPush ==
    ASSUME TypeOK, TypeOK', LugarInv, STSPush PROVE LugarInv'
<1>1. sts.img \in Procs
  BY DEF STSPush, TypeOK, TipoSTS
<1>2. sts'.img = Nadie /\ sts'.pc = "toma" /\ sts'.prioList = sts.prioList
  BY DEF STSPush, TypeOK, TipoSTS, LocalesSTS
<1>3. Llega("LPL", sts.img) /\ Fijos(Colas \ {"LPL"})
  BY <1>1, LlegaCola DEF STSPush, Encola, TypeOK, Colas
<1>4. Deja("sts", sts.img)
  BY <1>1, <1>2, ProcsAssumption DEF Deja, En, EnMano, UnoSi, Colas, Entradas
<1>5. Fijos(Sitios \ {"sts", "LPL"})
  BY <1>3, Fija, LosSitios DEF STSPush, Fijos, Colas, Entradas
<1>6. "sts" \in Sitios /\ "LPL" \in Sitios /\ Clase["sts"] = Clase["LPL"]
  BY LosSitios DEF Clase
<1>7. UnSitio' /\ EnSuClase' /\ SinConectar'
  BY <1>1, <1>3, <1>4, <1>5, <1>6, Muda DEF STSPush, imagenes
<1>8. ManosLibres'
  BY <1>2 DEF STSPush, LugarInv, ManosLibres
<1>9. BloqueaAntesDelFin' /\ Soltado'
  BY OtroHilo DEF STSPush, imagenes
<1>. QED BY <1>7, <1>8, <1>9 DEF LugarInv

LEMMA Lugar_STSRonda ==
    ASSUME TypeOK, TypeOK', LugarInv,
           STSEspera \/ STSCola \/ STSToma \/ STSAvanza
    PROVE LugarInv'
<1>1. sts'.img = sts.img /\ sts'.prioList = sts.prioList
  BY DEF STSEspera, STSCola, STSToma, STSAvanza, TypeOK, TipoSTS, LocalesSTS
<1>2. sts.pc # "push"
  BY DEF STSEspera, STSCola, STSToma, STSAvanza
<1>3. UNCHANGED <<pi, imagenes, cola, LPB, LPS, lts, lnew, procer, io>>
  BY DEF STSEspera, STSCola, STSToma, STSAvanza
<1>. QED BY <1>1, <1>2, <1>3, QuietoSTS

-----------------------------------------------------------------------------
(* PROCER.                                                                 *)

(* A step of PROCER that moves nothing.                                    *)
LEMMA QuietoPROCER ==
    ASSUME TypeOK, TypeOK', LugarInv,
           UNCHANGED <<pi, lsch, cola, LPS, lts, lnew, sts, io>>,
           Fijos({"LPB"}), Fijos({"procer"}), BloqueaAntesDelFin', Soltado'
    PROVE LugarInv'
<1>1. Fijos(Sitios)
  BY Fija, LosSitios DEF Fijos, Colas, Entradas
<1>2. UnSitio' /\ EnSuClase'
  BY <1>1, Quieto DEF LugarInv, Fijos
<1>3. ManosLibres' /\ SinConectar'
  BY IgualConectar, IgualesManos DEF LugarInv
<1>. QED BY <1>2, <1>3 DEF LugarInv

LEMMA Lugar_ProcerEspera ==
    ASSUME TypeOK, TypeOK', LugarInv, ProcerEspera PROVE LugarInv'
<1>1. /\ procer.pc = "espera" /\ procer'.pc = "pop"
      /\ procer'.img = procer.img /\ procer'.ioBlock = procer.ioBlock
  BY DEF ProcerEspera, TypeOK, TipoPROCER, LocalesPROCER
<1>2. Fijos({"procer"})
  BY <1>1, ManoPROCER, ManoPROCERDespues DEF Fijos, UnoSi
<1>3. BloqueaAntesDelFin' /\ Soltado'
  BY <1>1 DEF BloqueaAntesDelFin, Soltado, img, LugarInv, ProcerEspera, imagenes
<1>. QED BY <1>2, <1>3, QuietoPROCER, Fija DEF ProcerEspera, imagenes

(* PROCER between processes points at no image.                            *)
LEMMA Lugar_ProcerVuelve ==
    ASSUME TypeOK, TypeOK', LugarInv, ProcerVuelve,
           UNCHANGED <<pi, imagenes, cola, LPB, LPS, lts, lnew, sts, io>>,
           \/ procer.pc \in {"libera", "suspende", "avisa"}
           \/ procer.pc = "decide" /\ procer.ioBlock
    PROVE LugarInv'
<1>1. procer'.pc = "espera" /\ procer'.img = Nadie
  BY DEF ProcerVuelve
<1>2. Fijos({"procer"})
  BY <1>1, ManoPROCER, ManoPROCERDespues, ProcsAssumption DEF Fijos, UnoSi
<1>3. BloqueaAntesDelFin' /\ Soltado'
  BY <1>1, ProcsAssumption DEF BloqueaAntesDelFin, Soltado, img
<1>. QED BY <1>2, <1>3, QuietoPROCER, Fija DEF imagenes

LEMMA Lugar_ProcerPop ==
    ASSUME TypeOK, TypeOK', LugarInv, ProcerPop PROVE LugarInv'
<1>1. procer.pc = "pop"
  BY DEF ProcerPop
<1>2. CASE cola["LPL"] = <<>>
  <2>1. /\ procer'.pc = "segv" /\ procer'.img = procer.img
        /\ procer'.ioBlock = procer.ioBlock
    BY <1>2 DEF ProcerPop, TypeOK, TipoPROCER, LocalesPROCER
  <2>2. Fijos({"procer"})
    BY <1>1, <2>1, ManoPROCER, ManoPROCERDespues DEF Fijos, UnoSi
  <2>3. BloqueaAntesDelFin' /\ Soltado'
    BY <1>1, <1>2, <2>1
       DEF BloqueaAntesDelFin, Soltado, img, LugarInv, ProcerPop
  <2>. QED BY <1>2, <2>2, <2>3, QuietoPROCER, Fija DEF ProcerPop
<1>3. CASE cola["LPL"] # <<>>
  <2> DEFINE p == Head(cola["LPL"])
  <2>1. /\ procer' = [pc |-> "ejecuta", img |-> p, quantumCount |-> 0,
                      rafaga |-> 0, ioBlock |-> FALSE]
        /\ cola' = [cola EXCEPT !["LPL"] = Tail(@)]
        /\ lsch' = [lsch EXCEPT ![p] = "Ejecucion"]
    BY <1>3 DEF ProcerPop
  <2>2. p \in Procs
    BY <1>3, Cabeza DEF TypeOK, TipoColas, Colas
  <2>3. Deja("LPL", p) /\ Fijos(Colas \ {"LPL"})
    BY <1>3, <2>1, DejaCola DEF TypeOK, Colas
  <2>. HIDE DEF p
  <2>4. procer'.pc = "ejecuta" /\ procer'.img = p /\ ~ procer'.ioBlock
    BY <2>1
  <2>5. Llega("procer", p)
    BY <1>1, <2>4, ManoPROCER, ManoPROCERDespues DEF Llega, UnoSi
  <2>6. Fijos(Sitios \ {"LPL", "procer"})
    BY <2>3, Fija, LosSitios DEF ProcerPop, Fijos, Colas, Entradas
  <2>7. "LPL" \in Sitios /\ "procer" \in Sitios /\ "Ejecucion" = Clase["procer"]
    BY LosSitios DEF Clase
  <2>8. UnSitio' /\ EnSuClase' /\ SinConectar'
    BY <2>1, <2>2, <2>3, <2>5, <2>6, <2>7, Muda DEF ProcerPop
  <2>9. ManosLibres'
    BY IgualesManos DEF ProcerPop, LugarInv
  <2>10. BloqueaAntesDelFin' /\ Soltado'
    BY <2>4 DEF BloqueaAntesDelFin, Soltado
  <2>. QED BY <2>8, <2>9, <2>10 DEF LugarInv
<1>. QED BY <1>2, <1>3

(* PROCER in the loop, with a statement to execute.                        *)
LEMMA EnElLazo ==
    ASSUME TypeOK, NEW T, Ejecuta(T)
    PROVE /\ procer.pc = "ejecuta" /\ ~ procer.ioBlock /\ img \in Procs
          /\ procer.ioBlock = FALSE
<1>1. procer.pc = "ejecuta" /\ ~ procer.ioBlock
  BY DEF Ejecuta, Sigue
<1>2. procer.ioBlock \in BOOLEAN
  BY DEF TypeOK, TipoPROCER, LocalesPROCER
<1>. QED BY <1>1, <1>2, EnCurso

(* A statement that does not block.                                        *)
LEMMA SigueElLazo ==
    ASSUME TypeOK, TypeOK', LugarInv, NEW T, Ejecuta(T), Fijos({"LPB"}),
           UNCHANGED <<pi, lsch, cola, LPS, lts, lnew, sts, io>>,
           procer'.pc \in {"ejecuta", "colgado"}, procer'.img = procer.img,
           ~ procer'.ioBlock
    PROVE LugarInv'
<1>1. procer.pc = "ejecuta" /\ ~ procer.ioBlock
  BY EnElLazo
<1>2. Fijos({"procer"})
  BY <1>1, ManoPROCER, ManoPROCERDespues DEF Fijos, UnoSi
<1>3. BloqueaAntesDelFin' /\ Soltado'
  BY DEF BloqueaAntesDelFin, Soltado
<1>. QED BY <1>2, <1>3, QuietoPROCER

LEMMA ComputaSin ==
    ASSUME TypeOK, Computa(FALSE)
    PROVE procer'.pc = procer.pc /\ procer'.img = procer.img /\ ~ procer'.ioBlock
  BY DEF Computa, TypeOK, TipoPROCER, LocalesPROCER

LEMMA Lugar_EjecutaSimple ==
    ASSUME TypeOK, TypeOK', LugarInv, EjecutaSimple \/ EjecutaSalto
    PROVE LugarInv'
<1>1. \E T : Ejecuta(T) /\ procer.pc = "ejecuta"
  BY DEF EjecutaSimple, EjecutaSalto, Ejecuta
<1>2. procer'.pc = procer.pc /\ procer'.img = procer.img /\ ~ procer'.ioBlock
  BY ComputaSin DEF EjecutaSimple, EjecutaSalto
<1>3. UNCHANGED <<pi, lsch, cola, LPB, LPS, lts, lnew, sts, io>>
  BY DEF EjecutaSimple, EjecutaSalto
<1>. QED BY <1>1, <1>2, <1>3, Fija, SigueElLazo

LEMMA Lugar_EjecutaIONoBloqueante ==
    ASSUME TypeOK, TypeOK', LugarInv, EjecutaIONoBloqueante PROVE LugarInv'
<1>1. \E T : Ejecuta(T) /\ procer.pc = "ejecuta"
  BY DEF EjecutaIONoBloqueante, Ejecuta
<1>2. procer'.pc = procer.pc /\ procer'.img = procer.img /\ ~ procer'.ioBlock
  BY ComputaSin DEF EjecutaIONoBloqueante
<1>3. UNCHANGED <<pi, lsch, cola, LPS, lts, lnew, sts, io>>
  BY DEF EjecutaIONoBloqueante
<1>4. Fijos({"LPB"})
  <2>1. CASE PideIO(TRUE)
    <3>1. img \in Procs /\ TRUE \in BOOLEAN
      BY <1>1, EnElLazo
    <3>2. LPB' = Append(LPB, [img |-> img, nb |-> TRUE])
      BY <2>1 DEF PideIO
    <3>. QED BY <3>1, <3>2, LlegaLPB DEF TypeOK
  <2>2. CASE UNCHANGED LPB
    BY <2>2, Fija
  <2>. QED BY <2>1, <2>2 DEF EjecutaIONoBloqueante
<1>. QED BY <1>1, <1>2, <1>3, <1>4, SigueElLazo

LEMMA Lugar_EjecutaXIO0 ==
    ASSUME TypeOK, TypeOK', LugarInv, EjecutaXIO0 PROVE LugarInv'
<1>1. Ejecuta({"xio0"}) /\ procer.pc = "ejecuta" /\ ~ procer.ioBlock
  BY EnElLazo DEF EjecutaXIO0
<1>2. /\ procer'.pc \in {"ejecuta", "colgado"} /\ procer'.img = procer.img
      /\ ~ procer'.ioBlock
  <2>1. CASE Computa(FALSE)
    BY <1>1, <2>1, ComputaSin
  <2>2. CASE procer' = [procer EXCEPT !.pc = "colgado"]
    <3>1. procer'.pc = "colgado" /\ procer'.img = procer.img
          /\ procer'.ioBlock = procer.ioBlock
      BY <2>2 DEF TypeOK, TipoPROCER, LocalesPROCER
    <3>. QED BY <1>1, <3>1
  <2>. QED BY <2>1, <2>2 DEF EjecutaXIO0
<1>3. UNCHANGED <<pi, lsch, cola, LPB, LPS, lts, lnew, sts, io>>
  BY DEF EjecutaXIO0
<1>. QED BY <1>1, <1>2, <1>3, Fija, SigueElLazo

(* A blocking statement is not the last of its script.                     *)
LEMMA Lugar_EjecutaIOBloqueante ==
    ASSUME TypeOK, TypeOK', LugarInv, EjecutaIOBloqueante PROVE LugarInv'
<1>1. /\ Ejecuta({"io1", "xio1"}) /\ procer.pc = "ejecuta"
      /\ ~ procer.ioBlock /\ img \in Procs
  BY EnElLazo DEF EjecutaIOBloqueante
<1>2. procer'.pc = "ejecuta" /\ procer'.img = img /\ procer'.ioBlock
  BY <1>1
     DEF EjecutaIOBloqueante, Computa, TypeOK, TipoPROCER, LocalesPROCER, img
<1>3. Deja("procer", img)
  BY <1>1, <1>2, ManoPROCER, ManoPROCERDespues DEF Deja, UnoSi, img
<1>4. Llega("LPB", img)
  <2>1. FALSE \in BOOLEAN /\ LPB' = Append(LPB, [img |-> img, nb |-> FALSE])
    BY DEF EjecutaIOBloqueante, PideIO
  <2>. QED BY <1>1, <2>1, LlegaLPB DEF TypeOK
<1>5. Fijos(Sitios \ {"procer", "LPB"})
  BY Fija, LosSitios DEF EjecutaIOBloqueante, Fijos, Colas, Entradas
<1>6. "procer" \in Sitios /\ "LPB" \in Sitios /\ "Bloqueado" = Clase["LPB"]
  BY LosSitios DEF Clase
<1>7. UnSitio' /\ EnSuClase' /\ SinConectar'
  BY <1>1, <1>3, <1>4, <1>5, <1>6, Muda DEF EjecutaIOBloqueante
<1>8. ManosLibres'
  BY IgualesManos DEF EjecutaIOBloqueante, LugarInv
<1>9. Soltado'
  BY <1>2 DEF Soltado
<1>10. BloqueaAntesDelFin'
  <2>1. PC[img] \in Nat /\ PC'[img] = PC[img] + 1
    BY <1>1 DEF EjecutaIOBloqueante, PCMas1, TypeOK, TipoImagenes
  <2>2. Script[img][PC[img] + 1] \in {"io1", "xio1"}
    BY <1>1 DEF Ejecuta
  <2>3. Script[img][Len(Script[img])] = "fin"
    BY <1>1, ScriptAssumption
  <2>4. PC'[img] # Len(Script[img])
    BY <2>1, <2>2, <2>3
  <2>. QED BY <1>2, <2>4 DEF BloqueaAntesDelFin, EnFin, img
<1>. QED BY <1>7, <1>8, <1>9, <1>10 DEF LugarInv

LEMMA Lugar_ProcerSale ==
    ASSUME TypeOK, TypeOK', LugarInv, ProcerSale PROVE LugarInv'
<1>1. /\ procer.pc = "ejecuta" /\ procer'.pc = "decide"
      /\ procer'.img = procer.img /\ procer'.ioBlock = procer.ioBlock
  BY DEF ProcerSale, TypeOK, TipoPROCER, LocalesPROCER
<1>2. Fijos({"procer"})
  BY <1>1, ManoPROCER, ManoPROCERDespues DEF Fijos, UnoSi
<1>3. BloqueaAntesDelFin'
  BY <1>1 DEF BloqueaAntesDelFin, EnFin, img, LugarInv, ProcerSale
<1>4. Soltado'
  BY <1>1 DEF Soltado
<1>. QED BY <1>2, <1>3, <1>4, QuietoPROCER, Fija DEF ProcerSale

(* The image in the hands of PROCER when it decides.                       *)
LEMMA AlDecidir ==
    ASSUME TypeOK, LugarInv, procer.pc = "decide", ~ procer.ioBlock
    PROVE img \in Procs /\ En("procer", img) = 1 /\ lsch[img] = "Ejecucion"
<1>1. img \in Procs
  BY DEF TypeOK, TipoPROCER, img
<1>2. En("procer", img) = 1
  BY <1>1, ManoPROCER DEF UnoSi, img
<1>3. "procer" \in Sitios /\ Clase["procer"] = "Ejecucion"
  BY LosSitios DEF Clase
<1>. QED BY <1>1, <1>2, <1>3 DEF LugarInv, EnSuClase

LEMMA Lugar_ProcerFinaliza ==
    ASSUME TypeOK, TypeOK', LugarInv, ProcerFinaliza PROVE LugarInv'
<1>1. procer.pc = "decide" /\ ~ procer.ioBlock
  BY DEF ProcerFinaliza, LugarInv, BloqueaAntesDelFin
<1>2. img \in Procs /\ En("procer", img) = 1 /\ lsch[img] = "Ejecucion"
  BY <1>1, AlDecidir
<1>3. procer'.pc = "libera" /\ procer'.img = img
  BY DEF ProcerFinaliza, TypeOK, TipoPROCER, LocalesPROCER, img
<1>4. Deja("procer", img)
  BY <1>1, <1>2, <1>3, ManoPROCER, ManoPROCERDespues DEF Deja, UnoSi, img
<1>5. Fijos(Sitios \ {"procer", "afuera"})
  BY Fija, LosSitios DEF ProcerFinaliza, Fijos, Colas, Entradas
<1>6. /\ "procer" \in Sitios /\ "afuera" \notin Sitios
      /\ "Finalizado" \notin EnSistema
  BY LosSitios DEF EnSistema, EnMemoria
<1>7. Mueve("procer", "afuera", img)
  BY <1>2, <1>4, <1>5, <1>6, Arma
<1>8. lsch' = [lsch EXCEPT ![img] = "Finalizado"]
  BY DEF ProcerFinaliza
<1>9. UnSitio' /\ EnSuClase'
  BY <1>2, <1>6, <1>7, <1>8, Traslado DEF LugarInv
<1>10. SinConectar'
  BY <1>2, <1>8
     DEF ProcerFinaliza, LugarInv, SinConectar, TypeOK, TipoImagenes
<1>11. ManosLibres'
  BY IgualesManos DEF ProcerFinaliza, LugarInv
<1>12. BloqueaAntesDelFin' /\ Soltado'
  BY <1>2, <1>3, <1>8
     DEF BloqueaAntesDelFin, Soltado, img, TypeOK, TipoImagenes
<1>. QED BY <1>9, <1>10, <1>11, <1>12 DEF LugarInv

LEMMA Lugar_ProcerSuspende ==
    ASSUME TypeOK, TypeOK', LugarInv, ProcerSuspende PROVE LugarInv'
<1>1. procer.pc = "decide" /\ ~ procer.ioBlock
  BY DEF ProcerSuspende
<1>2. img \in Procs /\ En("procer", img) = 1 /\ lsch[img] = "Ejecucion"
  BY <1>1, AlDecidir
<1>3. procer'.pc = "suspende" /\ procer'.img = img
  BY DEF ProcerSuspende, TypeOK, TipoPROCER, LocalesPROCER, img
<1>4. Deja("procer", img)
  BY <1>1, <1>2, <1>3, ManoPROCER, ManoPROCERDespues DEF Deja, UnoSi, img
<1>5. "procer" \in Sitios /\ "LPS" \in Sitios /\ "Suspendido" = Clase["LPS"]
  BY LosSitios DEF Clase
<1>6. img \notin LPS
  <2>1. Clase["LPS"] # "Ejecucion"
    BY <1>5
  <2>2. ~ (En("LPS", img) > 0)
    BY <1>2, <1>5, <2>1 DEF LugarInv, EnSuClase
  <2>. QED BY <2>2 DEF En, EnMano, UnoSi, Colas, Entradas
<1>7. Llega("LPS", img)
  BY <1>6 DEF ProcerSuspende, Llega, En, EnMano, UnoSi, Colas, Entradas
<1>8. Fijos(Sitios \ {"procer", "LPS"})
  BY Fija, LosSitios DEF ProcerSuspende, Fijos, Colas, Entradas
<1>9. lsch' = [lsch EXCEPT ![img] = "Suspendido"]
  BY DEF ProcerSuspende
<1>10. UnSitio' /\ EnSuClase' /\ SinConectar'
  BY <1>2, <1>4, <1>5, <1>7, <1>8, <1>9, Muda DEF ProcerSuspende
<1>11. ManosLibres'
  BY IgualesManos DEF ProcerSuspende, LugarInv
<1>12. BloqueaAntesDelFin' /\ Soltado'
  BY <1>2, <1>3, <1>9
     DEF BloqueaAntesDelFin, Soltado, img, TypeOK, TipoImagenes
<1>. QED BY <1>10, <1>11, <1>12 DEF LugarInv

LEMMA Lugar_ProcerFinQuantum ==
    ASSUME TypeOK, TypeOK', LugarInv, ProcerFinQuantum PROVE LugarInv'
<1>1. procer.pc = "decide" /\ ~ procer.ioBlock
  BY DEF ProcerFinQuantum
<1>2. img \in Procs /\ En("procer", img) = 1 /\ lsch[img] = "Ejecucion"
  BY <1>1, AlDecidir
<1>3. procer'.pc = "avisa" /\ procer'.img = Nadie
  BY DEF ProcerFinQuantum, TypeOK, TipoPROCER, LocalesPROCER
<1>4. Deja("procer", img)
  BY <1>1, <1>2, <1>3, ManoPROCER, ManoPROCERDespues DEF Deja, UnoSi, img
<1>5. Llega("LFQ", img) /\ Fijos(Colas \ {"LFQ"})
  BY <1>2, LlegaCola DEF ProcerFinQuantum, Encola, TypeOK, Colas, Entradas
<1>6. "procer" \in Sitios /\ "LFQ" \in Sitios /\ "Fin de Quantum" = Clase["LFQ"]
  BY LosSitios DEF Clase
<1>7. Fijos(Sitios \ {"procer", "LFQ"})
  <2> DEFINE T == {"procer", "LFQ"}
  <2>1. Fijos(Colas \ T)
    BY <1>5 DEF Fijos
  <2>2. \A s \in {"LPS", "demora", "carga", "reanuda", "lnew", "sts",
                   "LPB", "io", "lote"} : Fijos({s})
    <3>1. /\ UNCHANGED <<LPB, LPS, lts, lnew, sts, io>>
          /\ lnew'.img = lnew.img /\ sts'.img = sts.img
          /\ sts'.prioList = sts.prioList
      BY DEF ProcerFinQuantum
    <3>2. /\ Fijos({"LPB"}) /\ Fijos({"LPS"}) /\ Fijos({"io"})
          /\ Fijos({"demora", "carga", "reanuda"}) /\ Fijos({"lnew"})
          /\ Fijos({"sts"}) /\ Fijos({"lote"})
      BY <3>1, Fija
    <3>. QED BY <3>2 DEF Fijos
  <2>3. \A s \in (Manos \cup {"LPB", "io", "lote"}) \ T : Fijos({s})
    BY <2>2 DEF Manos
  <2>. HIDE DEF T
  <2>4. Fijos(Sitios \ T)
    BY <2>1, <2>3, RestoFijo
  <2>. QED BY <2>4 DEF T
<1>8. UnSitio' /\ EnSuClase' /\ SinConectar'
  BY <1>2, <1>4, <1>5, <1>6, <1>7, Muda DEF ProcerFinQuantum
<1>9. ManosLibres'
  BY IgualesManos DEF ProcerFinQuantum, LugarInv
<1>10. BloqueaAntesDelFin' /\ Soltado'
  BY <1>3, ProcsAssumption DEF BloqueaAntesDelFin, Soltado, img
<1>. QED BY <1>8, <1>9, <1>10 DEF LugarInv

LEMMA Lugar_PROCER ==
    ASSUME TypeOK, TypeOK', LugarInv, PROCER PROVE LugarInv'
<1>1. CASE ProcerLibera \/ ProcerBloqueado \/ ProcerAvisaPI \/ ProcerAvisa
  BY <1>1, Lugar_ProcerVuelve
     DEF ProcerLibera, ProcerBloqueado, ProcerAvisaPI, ProcerAvisa
<1>. QED BY <1>1, Lugar_ProcerEspera, Lugar_ProcerPop, Lugar_EjecutaSimple,
            Lugar_EjecutaIOBloqueante, Lugar_EjecutaIONoBloqueante,
            Lugar_EjecutaXIO0, Lugar_ProcerSale, Lugar_ProcerFinaliza,
            Lugar_ProcerSuspende, Lugar_ProcerFinQuantum
         DEF PROCER, processExecution

-----------------------------------------------------------------------------
(* The I/O threads.                                                        *)
LEMMA QuietoIO ==
    ASSUME TypeOK, LugarInv, Fijos({"LPB"}), Fijos({"io"}),
           UNCHANGED <<pi, imagenes, cola, LPS, lts, lnew, sts, procer>>
    PROVE LugarInv'
<1>1. Fijos(Sitios)
  BY Fija, LosSitios DEF Fijos, Colas, Entradas
<1>2. ManosLibres' /\ SinConectar'
  BY IgualConectar, IgualesManos DEF LugarInv, imagenes
<1>. QED BY <1>1, <1>2, Nada DEF imagenes

LEMMA Lugar_IOSimple ==
    ASSUME TypeOK, TypeOK', LugarInv, NEW h \in Hilos,
           IOToma(h) \/ IOAvisa(h) \/ IOFin(h)
    PROVE LugarInv'
<1>1. io[h] \in LocalesIO /\ io[h].pc # "es"
  BY DEF IOToma, IOAvisa, IOFin, TypeOK, TipoIO
<1>2. PICK l \in LocalesIO : io' = [io EXCEPT ![h] = l] /\ l.pc # "es"
  <2>1. CASE IOToma(h)
    <3>1. io' = [io EXCEPT ![h] = [io[h] EXCEPT !.pc = "pop"]]
      BY <2>1 DEF IOToma
    <3>2. [io[h] EXCEPT !.pc = "pop"] \in LocalesIO
          /\ [io[h] EXCEPT !.pc = "pop"].pc = "pop"
      BY <1>1 DEF LocalesIO
    <3>. QED BY <3>1, <3>2
  <2>2. CASE IOAvisa(h)
    <3>1. io' = [io EXCEPT ![h] = [io[h] EXCEPT !.pc = "fin"]]
      BY <2>2 DEF IOAvisa
    <3>2. [io[h] EXCEPT !.pc = "fin"] \in LocalesIO
          /\ [io[h] EXCEPT !.pc = "fin"].pc = "fin"
      BY <1>1 DEF LocalesIO
    <3>. QED BY <3>1, <3>2
  <2>3. CASE IOFin(h)
    <3>1. io' = [io EXCEPT ![h] = [pc |-> "espera", img |-> Nadie, nb |-> FALSE]]
      BY <2>3 DEF IOFin
    <3>2. [pc |-> "espera", img |-> Nadie, nb |-> FALSE] \in LocalesIO
      BY DEF LocalesIO
    <3>. QED BY <3>1, <3>2
  <2>. QED BY <2>1, <2>2, <2>3
<1>3. Fijos({"io"})
  BY <1>1, <1>2, CambiaIO DEF TypeOK
<1>4. UNCHANGED <<pi, imagenes, cola, LPB, LPS, lts, lnew, sts, procer>>
  BY DEF IOToma, IOAvisa, IOFin
<1>. QED BY <1>3, <1>4, Fija, QuietoIO

LEMMA Lugar_IOPop ==
    ASSUME TypeOK, TypeOK', LugarInv, NEW h \in Hilos, IOPop(h)
    PROVE LugarInv'
<1>1. io[h] \in LocalesIO /\ io[h].pc = "pop"
  BY DEF IOPop, TypeOK, TipoIO
<1>2. CASE LPB = <<>>
  <2>1. io' = [io EXCEPT ![h] = [io[h] EXCEPT !.pc = "segv"]]
    BY <1>2 DEF IOPop
  <2>2. [io[h] EXCEPT !.pc = "segv"] \in LocalesIO
        /\ [io[h] EXCEPT !.pc = "segv"].pc = "segv"
    BY <1>1 DEF LocalesIO
  <2>3. Fijos({"io"})
    BY <1>1, <2>1, <2>2, CambiaIO DEF TypeOK
  <2>. QED BY <1>2, <2>3, Fija, QuietoIO DEF IOPop
<1>3. CASE LPB # <<>>
  <2>1. /\ Head(LPB) \in Pedidos
        /\ ~ Head(LPB).nb => Deja("LPB", Head(LPB).img)
        /\ Head(LPB).nb => Fijos({"LPB"})
    BY <1>3, DejaLPB DEF TypeOK, IOPop
  <2>2. Head(LPB).img \in Procs /\ Head(LPB).nb \in BOOLEAN
    BY <2>1 DEF Pedidos
  <2> DEFINE l == [pc  |-> IF Head(LPB).nb THEN "fin" ELSE "es",
                   img |-> Head(LPB).img, nb |-> Head(LPB).nb]
  <2>3. l \in LocalesIO /\ io' = [io EXCEPT ![h] = l]
    BY <1>3, <2>2 DEF LocalesIO, IOPop
  <2>4. /\ l.pc = IF Head(LPB).nb THEN "fin" ELSE "es"
        /\ l.img = Head(LPB).img
    OBVIOUS
  <2>. HIDE DEF l
  <2>5. CASE Head(LPB).nb
    <3>1. Fijos({"io"})
      BY <1>1, <2>3, <2>4, <2>5, CambiaIO DEF TypeOK
    <3>. QED BY <2>1, <2>5, <3>1, QuietoIO DEF IOPop
  <2>6. CASE ~ Head(LPB).nb
    <3>1. Llega("io", Head(LPB).img)
      BY <1>1, <2>3, <2>4, <2>6, CambiaIO DEF TypeOK
    <3>2. Fijos(Sitios \ {"LPB", "io"})
      BY Fija, LosSitios DEF IOPop, Fijos, Colas, Entradas
    <3>3. "LPB" \in Sitios /\ "io" \in Sitios /\ Clase["LPB"] = Clase["io"]
      BY LosSitios DEF Clase
    <3>4. UnSitio' /\ EnSuClase' /\ SinConectar'
      BY <2>1, <2>2, <2>6, <3>1, <3>2, <3>3, Muda DEF IOPop, imagenes
    <3>5. ManosLibres'
      BY IgualesManos DEF IOPop, LugarInv
    <3>6. BloqueaAntesDelFin' /\ Soltado'
      BY OtroHilo DEF IOPop, imagenes
    <3>. QED BY <3>4, <3>5, <3>6 DEF LugarInv
  <2>. QED BY <2>5, <2>6
<1>. QED BY <1>2, <1>3

LEMMA Lugar_IOEncola ==
    ASSUME TypeOK, TypeOK', LugarInv, NEW h \in Hilos, IOEncola(h)
    PROVE LugarInv'
<1>1. io[h] \in LocalesIO /\ io[h].pc = "es" /\ io[h].img \in Procs
  BY DEF IOEncola, TypeOK, TipoIO
<1>2. io' = [io EXCEPT ![h] = [io[h] EXCEPT !.pc = "avisa"]]
  BY DEF IOEncola
<1>3. [io[h] EXCEPT !.pc = "avisa"] \in LocalesIO
      /\ [io[h] EXCEPT !.pc = "avisa"].pc = "avisa"
  BY <1>1 DEF LocalesIO
<1>4. Deja("io", io[h].img)
  BY <1>1, <1>2, <1>3, CambiaIO DEF TypeOK
<1>5. Llega("LFIO", io[h].img) /\ Fijos(Colas \ {"LFIO"})
  BY <1>1, LlegaCola DEF IOEncola, Encola, TypeOK, Colas, Entradas
<1>6. "io" \in Sitios /\ "LFIO" \in Sitios /\ "Fin I/O" = Clase["LFIO"]
  BY LosSitios DEF Clase
<1>7. Fijos(Sitios \ {"io", "LFIO"})
  <2> DEFINE T == {"io", "LFIO"}
  <2>1. Fijos(Colas \ T)
    BY <1>5 DEF Fijos
  <2>2. \A s \in {"LPS", "demora", "carga", "reanuda", "lnew", "sts",
                   "procer", "LPB", "lote"} : Fijos({s})
    <3>1. /\ UNCHANGED <<LPB, LPS, lts, lnew, sts, procer>>
          /\ lnew'.img = lnew.img /\ sts'.img = sts.img
          /\ sts'.prioList = sts.prioList
      BY DEF IOEncola
    <3>2. /\ Fijos({"LPB"}) /\ Fijos({"LPS"}) /\ Fijos({"procer"})
          /\ Fijos({"demora", "carga", "reanuda"}) /\ Fijos({"lnew"})
          /\ Fijos({"sts"}) /\ Fijos({"lote"})
      BY <3>1, Fija
    <3>. QED BY <3>2 DEF Fijos
  <2>3. \A s \in (Manos \cup {"LPB", "io", "lote"}) \ T : Fijos({s})
    BY <2>2 DEF Manos
  <2>. HIDE DEF T
  <2>4. Fijos(Sitios \ T)
    BY <2>1, <2>3, RestoFijo
  <2>. QED BY <2>4 DEF T
<1>8. UnSitio' /\ EnSuClase' /\ SinConectar'
  BY <1>1, <1>4, <1>5, <1>6, <1>7, Muda DEF IOEncola
<1>9. ManosLibres'
  BY IgualesManos DEF IOEncola, LugarInv
<1>10. BloqueaAntesDelFin' /\ Soltado'
  <2>1. \A r \in Procs : lsch'[r] = "Bloqueado" => lsch[r] = "Bloqueado"
    BY DEF IOEncola, TypeOK, TipoImagenes
  <2>. QED BY <2>1, OtroHilo DEF IOEncola
<1>. QED BY <1>8, <1>9, <1>10 DEF LugarInv

-----------------------------------------------------------------------------
LEMMA LugarQuieto ==
    ASSUME TypeOK, LugarInv,
           UNCHANGED <<pi, imagenes, cola, LPB, LPS, lts, lnew, sts, procer, io>>
    PROVE LugarInv'
  BY QuietoIO, Fija

(* A change of the algorithm to PRI or SPN inserts an empty batch.         *)
LEMMA Lugar_ConfLee ==
    ASSUME TypeOK, TypeOK', LugarInv, NEW alg \in Algs, NEW pr \in PrioColas,
           ConfLee(alg, pr)
    PROVE LugarInv'
<1>1. CASE ~ PorLotes(alg)
  BY <1>1, LugarQuieto DEF ConfLee
<1>2. CASE PorLotes(alg)
  <2>1. ~ DeAUno /\ Inserta(<<>>, alg)
    BY <1>2 DEF ConfLee, DeAUno, PorLotes
  <2>2. UnSitio' /\ EnSuClase'
    <3>1. /\ UNCHANGED <<lsch, LPB, LPS, lts, lnew, procer, io>>
          /\ sts'.img = sts.img /\ sts'.prioList = sts.prioList
      BY DEF ConfLee, imagenes
    <3>. QED BY <2>1, <3>1, LugarInserta
  <2>3. ManosLibres' /\ SinConectar'
    BY IgualesManos, IgualConectar DEF ConfLee, LugarInv, imagenes
  <2>4. BloqueaAntesDelFin' /\ Soltado'
    BY OtroHilo DEF ConfLee, imagenes
  <2>. QED BY <2>2, <2>3, <2>4 DEF LugarInv
<1>. QED BY <1>1, <1>2

(* The inductive step.                                                     *)
LEMMA LugarPaso ==
    ASSUME TypeOK, TypeOK', DeAUno => SinLotes, LugarInv, [Next]_vars
    PROVE LugarInv'
<1>1. CASE UNCHANGED vars
  BY <1>1, LugarQuieto DEF vars, imagenes
<1>2. CASE LTSconex
  BY <1>2, Lugar_LTSDemora, Lugar_LTSEncola, Lugar_LTSAvisa, Lugar_LTSAcepta,
     Lugar_LTSReanuda, Lugar_LTSEnvia
     DEF LTSconex
<1>3. CASE LTSnew
  BY <1>3, Lugar_NewToma, Lugar_NewEncola, Lugar_NewAvisa DEF LTSnew
<1>4. CASE STS
  BY <1>4, Lugar_STSRonda, Lugar_STSPop, Lugar_STSPush, Lugar_STSInserta
     DEF STS
<1>5. CASE PROCER
  BY <1>5, Lugar_PROCER
<1>6. CASE configure
  <2>1. CASE ConfCopia \/ ConfCierra \/ ConfFin
    BY <2>1, LugarQuieto DEF ConfCopia, ConfCierra, ConfFin
  <2>. QED BY <1>6, <2>1, Lugar_ConfLee DEF configure
<1>7. CASE SIGUSR1
  BY <1>7, LugarQuieto DEF SIGUSR1, hilosPP
<1>8. CASE \E h \in Hilos : ioThread(h)
  BY <1>8, Lugar_IOSimple, Lugar_IOPop, Lugar_IOEncola DEF ioThread
<1>9. CASE \E p \in Procs : PIReanuda(p)
  BY <1>9, Lugar_PIReanuda
<1>. QED BY <1>1, <1>2, <1>3, <1>4, <1>5, <1>6, <1>7, <1>8, <1>9 DEF Next

LEMMA LugarInit == ASSUME Init PROVE LugarInv
<1>1. ASSUME NEW p \in Procs, NEW s \in Sitios PROVE En(s, p) = 0
  <2>1. s \in Colas => cola[s] = <<>>
    BY DEF Init
  <2>2. LPB = <<>> /\ LPS = {} /\ lts.pc = "epoll" /\ lnew.img = Nadie
        /\ sts.img = Nadie /\ procer.img = Nadie /\ p # Nadie
        /\ sts.prioList = <<>>
    BY ProcsAssumption DEF Init
  <2>3. {h \in Hilos : io[h].pc = "es" /\ io[h].img = p} = {}
    BY DEF Init
  <2>4. ~ EnMano(s, p)
    BY <2>2 DEF EnMano
  <2>5. UnoSi(EnMano(s, p)) = 0
    BY <2>4 DEF UnoSi
  <2>6. Cardinality({h \in Hilos : io[h].pc = "es" /\ io[h].img = p}) = 0
    BY <2>3, FS_EmptySet
  <2>. QED BY <2>1, <2>2, <2>5, <2>6, VecesVacia DEF En
<1>2. UnSitio
  <2>1. ASSUME NEW p \in Procs PROVE Suma(p) = 0
    BY <1>1, LosSitios DEF Suma, Suma1, Suma2, Suma3, Suma4
  <2>2. \A p \in Procs : lsch[p] \notin EnSistema
    BY DEF Init, EnSistema, EnMemoria
  <2>. QED BY <2>1, <2>2 DEF UnSitio, Ocupa, UnoSi
<1>3. EnSuClase
  BY <1>1 DEF EnSuClase
<1>4. ManosLibres /\ SinConectar /\ BloqueaAntesDelFin /\ Soltado
  BY ProcsAssumption
     DEF Init, ManosLibres, SinConectar, BloqueaAntesDelFin, Soltado, img
<1>. QED BY <1>2, <1>3, <1>4 DEF LugarInv

(* The inductive invariant of the places, for any number of processes and  *)
(* I/O threads and under every algorithm.                                  *)
THEOREM LugarCorrecto == Spec => [](TypeOK /\ LugarInv)
<1>1. Init => LugarInv
  BY LugarInit
<1>2. TypeOK /\ TypeOK' /\ (DeAUno => SinLotes) /\ LugarInv /\ [Next]_vars
          => LugarInv'
  BY LugarPaso
<1>. QED BY <1>1, <1>2, TipoCorrecto, LotesSiempre, PTL DEF Spec

(* Under FIFO and RR no hand-over between the queues and the threads of    *)
(* the PP loses or duplicates a process, whatever the number of processes  *)
(* and of I/O threads and however their steps interleave.  Under PRI and   *)
(* SPN it does not hold: see SinDuplicar.                                  *)
THEOREM LugarUnico ==
    ASSUME DeAUno
    PROVE Spec => []UnSoloLugar
<1>1. TypeOK /\ LugarInv => UnSoloLugar
  BY AparicionesSuma DEF LugarInv, UnSitio, Ocupa, UnSoloLugar
<1>. QED BY <1>1, LugarCorrecto, PTL

(* No process is in two places, and none but a ready one is in none.       *)
SoloFaltanListos == \A p \in Procs :
    IF lsch[p] = "Listos" THEN Apariciones(p) <= 1
    ELSE Apariciones(p) = UnoSi(lsch[p] \in EnSistema)

(* Under every algorithm, and whatever changes of it, the hand-overs of    *)
(* the PP duplicate no image, and what they lose can only be an image of   *)
(* the ready queue: list_add_in_index drops it when the batch of an        *)
(* insertion is empty.                                                     *)
THEOREM SinDuplicar == Spec => []SoloFaltanListos
<1>1. ASSUME TypeOK, LugarInv, NEW p \in Procs
      PROVE IF lsch[p] = "Listos" THEN Apariciones(p) <= 1
            ELSE Apariciones(p) = UnoSi(lsch[p] \in EnSistema)
  <2>1. Apariciones(p) = Suma(p) /\ Ocupa(Suma(p), lsch[p])
    BY <1>1, AparicionesSuma DEF LugarInv, UnSitio
  <2>. QED BY <2>1 DEF Ocupa, UnoSi
<1>2. TypeOK /\ LugarInv => SoloFaltanListos
  BY <1>1 DEF SoloFaltanListos
<1>. QED BY <1>2, LugarCorrecto, PTL

(* What occurs in a list is counted.                                       *)
LEMMA VecesPositivas ==
    ASSUME NEW S, NEW s \in Seq(S), NEW i \in DOMAIN s
    PROVE Veces(s, s[i]) > 0
<1>1. /\ IsFiniteSet({j \in DOMAIN s : s[j] = s[i]})
      /\ Veces(s, s[i]) \in Nat
  BY Indices
<1>2. {j \in DOMAIN s : s[j] = s[i]} # {}
  OBVIOUS
<1>3. Veces(s, s[i]) # 0
  BY <1>1, <1>2, FS_EmptySet DEF Veces
<1>. QED BY <1>1, <1>3

(* What the places say of the requests of I/O.                             *)
LEMMA LugarBloqueado == ASSUME TypeOK, LugarInv PROVE BloqueadoHastaFinIO
<1>1. /\ "LPB" \in Sitios /\ "io" \in Sitios /\ "procer" \in Sitios
      /\ Clase["LPB"] = "Bloqueado" /\ Clase["io"] = "Bloqueado"
      /\ Clase["procer"] = "Ejecucion"
  BY LosSitios DEF Clase
<1>2. ASSUME NEW i \in DOMAIN LPB, ~ LPB[i].nb
      PROVE lsch[LPB[i].img] = "Bloqueado"
  <2>1. LPB \in Seq(Pedidos) /\ LPB[i] \in Pedidos
    BY DEF TypeOK, TipoColas
  <2>2. LPB[i].img \in Procs
        /\ LPB[i] = [img |-> LPB[i].img, nb |-> FALSE]
    BY <1>2, <2>1 DEF Pedidos
  <2>3. Veces(LPB, LPB[i]) > 0
    BY <2>1, VecesPositivas
  <2>4. En("LPB", LPB[i].img) > 0
    BY <2>2, <2>3 DEF En, Colas, Entradas
  <2>. QED BY <1>1, <2>2, <2>4 DEF LugarInv, EnSuClase
<1>3. ASSUME NEW h \in Hilos, io[h].pc = "es"
      PROVE lsch[io[h].img] = "Bloqueado"
  <2>1. io[h].img \in Procs
    BY <1>3 DEF TypeOK, TipoIO
  <2> DEFINE H == {k \in Hilos : io[k].pc = "es" /\ io[k].img = io[h].img}
  <2>2. h \in H /\ H \in SUBSET Hilos
    BY <1>3
  <2>3. En("io", io[h].img) = Cardinality(H)
    BY DEF En, Colas, Entradas
  <2>. HIDE DEF H
  <2>4. En("io", io[h].img) > 0
    BY <2>2, <2>3, Contar
  <2>. QED BY <1>1, <2>1, <2>4 DEF LugarInv, EnSuClase
<1>4. ASSUME img \in Procs, lsch[img] = "Bloqueado", ~ procer.ioBlock
      PROVE FALSE
  <2>1. procer.pc \in {"ejecuta", "decide", "colgado"}
    BY <1>4 DEF LugarInv, Soltado
  <2>2. En("procer", img) = 1
    BY <1>4, <2>1, ManoPROCER DEF UnoSi, img
  <2>. QED BY <1>1, <1>4, <2>2 DEF LugarInv, EnSuClase
<1>. QED BY <1>2, <1>3, <1>4 DEF BloqueadoHastaFinIO

(* From its queueing to the return of its image, a blocking request keeps  *)
(* its process blocked: nobody else runs, suspends or frees the image that *)
(* the I/O thread is going to use.                                         *)
THEOREM IOBloquea == Spec => []BloqueadoHastaFinIO
  BY LugarBloqueado, LugarCorrecto, PTL

-----------------------------------------------------------------------------
(***************************************************************************)
(* The accounts of MPS and MMP, the refinement of CicloDeVida and what the *)
(* clients are told of it.  Every change of the state of a process comes   *)
(* with the change of the two semaphores that the new state calls for, and *)
(* the place the image was taken from tells the state it comes from.       *)
(***************************************************************************)

Dentro == {p \in Procs : lsch[p] \in EnSistema}
Libera == UnoSi(procer.pc = "libera")

(* The accounts, and that there is something to count.                     *)
CuposInv == CuposExactos /\ IsFiniteSet(Dentro)

(* The step changes the state of p to e, and MMP_sem and MPS_sem by what   *)
(* the two states differ in.                                               *)
Cambia(p, e) ==
    /\ lsch' = [lsch EXCEPT ![p] = e]
    /\ sem'["MMP"] + UnoSi(e \in EnMemoria) + Libera'
          = sem["MMP"] + UnoSi(lsch[p] \in EnMemoria) + Libera
    /\ sem'["MPS"] + UnoSi(e \in EnSistema) + Libera'
          = sem["MPS"] + UnoSi(lsch[p] \in EnSistema) + Libera

(* The step changes no state.                                              *)
NoCambia ==
    /\ UNCHANGED lsch
    /\ sem'["MMP"] + Libera' = sem["MMP"] + Libera
    /\ sem'["MPS"] + Libera' = sem["MPS"] + Libera

-----------------------------------------------------------------------------
(* How the number of processes in some of the states changes.              *)
LEMMA CambiaCuantos ==
    ASSUME TypeOK, IsFiniteSet(Dentro), NEW p \in Procs, NEW e,
           lsch' = [lsch EXCEPT ![p] = e], NEW E \in SUBSET EnSistema
    PROVE LET A == {r \in Procs : lsch[r] \in E}
              B == {r \in Procs : lsch'[r] \in E}
          IN  /\ IsFiniteSet(A) /\ IsFiniteSet(B)
              /\ Cardinality(A) \in Nat /\ Cardinality(B) \in Nat
              /\ Cardinality(B) + UnoSi(lsch[p] \in E)
                    = Cardinality(A) + UnoSi(e \in E)
<1> DEFINE A == {r \in Procs : lsch[r] \in E}
           B == {r \in Procs : lsch'[r] \in E}
<1>1. A \in SUBSET Dentro
  BY DEF Dentro
<1>2. IsFiniteSet(A) /\ Cardinality(A) \in Nat
  BY <1>1, FS_Subset, FS_CardinalityType
<1>3. lsch'[p] = e /\ \A r \in Procs \ {p} : lsch'[r] = lsch[r]
  BY DEF TypeOK, TipoImagenes
<1>4. p \in A <=> lsch[p] \in E
  OBVIOUS
<1>5. B = IF e \in E THEN A \cup {p} ELSE A \ {p}
  BY <1>3
<1>. HIDE DEF A, B
<1>6. IsFiniteSet(A \cup {p}) /\ IsFiniteSet(A \ {p})
  BY <1>2, FS_AddElement, FS_RemoveElement
<1>7. IsFiniteSet(B) /\ Cardinality(B) \in Nat
  BY <1>5, <1>6, FS_CardinalityType
<1>8. /\ Cardinality(A \cup {p})
            = IF p \in A THEN Cardinality(A) ELSE Cardinality(A) + 1
      /\ Cardinality(A \ {p})
            = IF p \in A THEN Cardinality(A) - 1 ELSE Cardinality(A)
  BY <1>2, FS_AddElement, FS_RemoveElement
<1>9. Cardinality(B) + UnoSi(lsch[p] \in E) = Cardinality(A) + UnoSi(e \in E)
  BY <1>2, <1>4, <1>5, <1>8 DEF UnoSi
<1>. QED BY <1>2, <1>7, <1>9 DEF A, B

LEMMA Cuentas ==
    ASSUME TypeOK, IsFiniteSet(Dentro)
    PROVE /\ Cardinality({r \in Procs : lsch[r] \in EnMemoria}) \in Nat
          /\ Cardinality({r \in Procs : lsch[r] \in EnSistema}) \in Nat
          /\ sem["MMP"] \in Nat /\ sem["MPS"] \in Nat
<1>1. {r \in Procs : lsch[r] \in EnMemoria} \in SUBSET Dentro
  BY DEF Dentro, EnSistema
<1>. QED BY <1>1, FS_Subset, FS_CardinalityType
         DEF Dentro, TypeOK, TipoSem, Semaforos

(* Both kinds of step keep the accounts.                                   *)
LEMMA CuposCambia ==
    ASSUME TypeOK, TypeOK', CuposInv, NEW p \in Procs, NEW e, Cambia(p, e)
    PROVE CuposInv'
<1> DEFINE M == {r \in Procs : lsch[r] \in EnMemoria}
           N == {r \in Procs : lsch'[r] \in EnMemoria}
           S == {r \in Procs : lsch[r] \in EnSistema}
           T == {r \in Procs : lsch'[r] \in EnSistema}
<1>1. /\ Cardinality(M) \in Nat /\ Cardinality(N) \in Nat
      /\ Cardinality(N) + UnoSi(lsch[p] \in EnMemoria)
            = Cardinality(M) + UnoSi(e \in EnMemoria)
  <2>1. EnMemoria \in SUBSET EnSistema
    BY DEF EnSistema
  <2>. QED BY <2>1, CambiaCuantos DEF Cambia, CuposInv
<1>2. /\ Cardinality(S) \in Nat /\ Cardinality(T) \in Nat /\ IsFiniteSet(T)
      /\ Cardinality(T) + UnoSi(lsch[p] \in EnSistema)
            = Cardinality(S) + UnoSi(e \in EnSistema)
  <2>1. EnSistema \in SUBSET EnSistema
    OBVIOUS
  <2>. QED BY <2>1, CambiaCuantos DEF Cambia, CuposInv
<1>3. /\ sem["MMP"] \in Nat /\ sem["MPS"] \in Nat
      /\ sem'["MMP"] \in Nat /\ sem'["MPS"] \in Nat
  BY DEF TypeOK, TipoSem, Semaforos
<1>4. Libera \in Nat /\ Libera' \in Nat
  BY DEF Libera, UnoSi
<1>5. /\ sem["MMP"] + Cardinality(M) + Libera = MMP
      /\ sem["MPS"] + Cardinality(S) + Libera = MPS
  BY DEF CuposInv, CuposExactos, Libera
<1>. HIDE DEF M, N, S, T
<1>6. sem'["MMP"] + Cardinality(N) + Libera' = MMP
  <2>1. UnoSi(lsch[p] \in EnMemoria) \in Nat /\ UnoSi(e \in EnMemoria) \in Nat
    BY DEF UnoSi
  <2>2. sem'["MMP"] + UnoSi(e \in EnMemoria) + Libera'
          = sem["MMP"] + UnoSi(lsch[p] \in EnMemoria) + Libera
    BY DEF Cambia
  <2>. QED BY <1>1, <1>3, <1>4, <1>5, <2>1, <2>2
<1>7. sem'["MPS"] + Cardinality(T) + Libera' = MPS
  <2>1. UnoSi(lsch[p] \in EnSistema) \in Nat /\ UnoSi(e \in EnSistema) \in Nat
    BY DEF UnoSi
  <2>2. sem'["MPS"] + UnoSi(e \in EnSistema) + Libera'
          = sem["MPS"] + UnoSi(lsch[p] \in EnSistema) + Libera
    BY DEF Cambia
  <2>. QED BY <1>2, <1>3, <1>4, <1>5, <2>1, <2>2
<1>. QED BY <1>2, <1>6, <1>7 DEF CuposInv, CuposExactos, Libera, Dentro, N, T

LEMMA CuposNoCambia ==
    ASSUME TypeOK, TypeOK', CuposInv, NoCambia PROVE CuposInv'
<1> DEFINE M == {r \in Procs : lsch[r] \in EnMemoria}
           S == {r \in Procs : lsch[r] \in EnSistema}
<1>1. Cardinality(M) \in Nat /\ Cardinality(S) \in Nat
  BY Cuentas DEF CuposInv
<1>2. /\ sem["MMP"] \in Nat /\ sem["MPS"] \in Nat
      /\ sem'["MMP"] \in Nat /\ sem'["MPS"] \in Nat
  BY DEF TypeOK, TipoSem, Semaforos
<1>3. Libera \in Nat /\ Libera' \in Nat
  BY DEF Libera, UnoSi
<1>4. /\ sem["MMP"] + Cardinality(M) + Libera = MMP
      /\ sem["MPS"] + Cardinality(S) + Libera = MPS
  BY DEF CuposInv, CuposExactos, Libera
<1>5. /\ M = {r \in Procs : lsch'[r] \in EnMemoria}
      /\ S = {r \in Procs : lsch'[r] \in EnSistema}
      /\ Dentro' = Dentro
  BY DEF NoCambia, Dentro
<1>. HIDE DEF M, S
<1>6. /\ sem'["MMP"] + Cardinality(M) + Libera' = MMP
      /\ sem'["MPS"] + Cardinality(S) + Libera' = MPS
  BY <1>1, <1>2, <1>3, <1>4 DEF NoCambia
<1>. QED BY <1>5, <1>6 DEF CuposInv, CuposExactos, Libera

-----------------------------------------------------------------------------
(* The state of the first image of a queue.                                *)
LEMMA EstadoCabeza ==
    ASSUME TypeOK, LugarInv, NEW q \in Colas, cola[q] # <<>>
    PROVE Head(cola[q]) \in Procs /\ lsch[Head(cola[q])] = Clase[q]
<1>1. cola[q] \in Seq(Procs) /\ 1 \in DOMAIN cola[q]
      /\ Head(cola[q]) = cola[q][1]
  BY DEF TypeOK, TipoColas
<1>2. Veces(cola[q], Head(cola[q])) > 0
  BY <1>1, VecesPositivas
<1>3. Head(cola[q]) \in Procs /\ En(q, Head(cola[q])) > 0 /\ q \in Sitios
  BY <1>1, <1>2 DEF En, Sitios
<1>. QED BY <1>3 DEF LugarInv, EnSuClase

(* The semaphores there is a place in.                                     *)
LEMMA HayCupo ==
    ASSUME TypeOK, CuposInv
    PROVE /\ sem["MMP"] > 0 => Ciclo!HayLugar
          /\ sem["MPS"] > 0 => Ciclo!Cuantos(Ciclo!EnSistema) < MPS
<1> DEFINE M == {r \in Procs : lsch[r] \in EnMemoria}
           S == {r \in Procs : lsch[r] \in EnSistema}
<1>1. /\ Cardinality(M) \in Nat /\ Cardinality(S) \in Nat
      /\ sem["MMP"] \in Nat /\ sem["MPS"] \in Nat
  BY Cuentas DEF CuposInv
<1>2. Libera \in Nat
  BY DEF Libera, UnoSi
<1>3. /\ sem["MMP"] + Cardinality(M) + Libera = MMP
      /\ sem["MPS"] + Cardinality(S) + Libera = MPS
  BY DEF CuposInv, CuposExactos, Libera
<1>4. Ciclo!EnMemoria = EnMemoria /\ Ciclo!EnSistema = EnSistema
  BY DEF Ciclo!EnMemoria, EnMemoria, Ciclo!EnSistema, EnSistema
<1>5. /\ Ciclo!Cuantos(Ciclo!EnMemoria) = Cardinality(M)
      /\ Ciclo!Cuantos(Ciclo!EnSistema) = Cardinality(S)
  BY <1>4 DEF Ciclo!Cuantos, Ciclo!Cardinality, Cardinality
<1>. HIDE DEF M, S
<1>. QED BY <1>1, <1>2, <1>3, <1>5 DEF Ciclo!HayLugar

(* The actions that change the state of a process: the accounts and the    *)
(* transition of the life cycle.                                           *)
LEMMA Ciclo_LTSAcepta ==
    ASSUME TypeOK, TypeOK', LugarInv, CuposInv, NEW p \in Procs, LTSAcepta(p)
    PROVE CuposInv' /\ (Ciclo!Next \/ UNCHANGED lsch)
<1>1. CASE sem["MPS"] = 0
  <2>1. NoCambia
    BY <1>1 DEF LTSAcepta, NoCambia, Libera
  <2>. QED BY <2>1, CuposNoCambia DEF NoCambia
<1>2. CASE sem["MPS"] # 0
  <2>1. lsch[p] = "Afuera"
    BY DEF LTSAcepta, LugarInv, SinConectar
  <2>2. sem["MPS"] > 0 /\ sem["MPS"] \in Nat /\ sem["MMP"] \in Nat
    BY <1>2 DEF TypeOK, TipoSem, Semaforos
  <2>3. Libera' = Libera /\ Libera \in Nat
    BY DEF LTSAcepta, Libera, UnoSi
  <2>4. CASE HayMMP
    <3>1. /\ lsch' = [lsch EXCEPT ![p] = "Nuevos"]
          /\ sem'["MPS"] = sem["MPS"] - 1 /\ sem'["MMP"] = sem["MMP"] - 1
      BY <1>2, <2>4 DEF LTSAcepta, TypeOK, TipoSem, Semaforos
    <3>2. Cambia(p, "Nuevos")
      BY <2>1, <2>2, <2>3, <3>1 DEF Cambia, UnoSi, EnSistema, EnMemoria
    <3>3. Ciclo!Carga(p)
      BY <2>1, <2>2, <2>4, <3>1, HayCupo DEF Ciclo!Carga, Ciclo!Pasa, HayMMP
    <3>. QED BY <3>2, <3>3, CuposCambia DEF Ciclo!Next
  <2>5. CASE ~ HayMMP
    <3>1. /\ lsch' = [lsch EXCEPT ![p] = "FIFO"]
          /\ sem'["MPS"] = sem["MPS"] - 1 /\ sem'["MMP"] = sem["MMP"]
      BY <1>2, <2>5 DEF LTSAcepta, TypeOK, TipoSem, Semaforos
    <3>2. Cambia(p, "FIFO")
      BY <2>1, <2>2, <2>3, <3>1 DEF Cambia, UnoSi, EnSistema, EnMemoria
    <3>3. Ciclo!Demora(p)
      BY <2>1, <2>2, <3>1, HayCupo DEF Ciclo!Demora, Ciclo!Pasa
    <3>. QED BY <3>2, <3>3, CuposCambia DEF Ciclo!Next
  <2>. QED BY <2>4, <2>5
<1>. QED BY <1>1, <1>2

LEMMA Ciclo_LTSReanuda ==
    ASSUME TypeOK, TypeOK', LugarInv, CuposInv, NEW p \in Procs, LTSReanuda(p)
    PROVE CuposInv' /\ (Ciclo!Next \/ UNCHANGED lsch)
<1>1. CASE p \notin LPS
  <2>1. NoCambia
    BY <1>1 DEF LTSReanuda, NoCambia, Libera
  <2>. QED BY <2>1, CuposNoCambia DEF NoCambia
<1>2. CASE p \in LPS
  <2>1. lsch[p] = "Suspendido"
    <3>1. En("LPS", p) > 0
      BY <1>2 DEF En, EnMano, UnoSi, Colas, Entradas
    <3>2. "LPS" \in Sitios /\ Clase["LPS"] = "Suspendido"
      BY LosSitios DEF Clase
    <3>. QED BY <3>1, <3>2 DEF LugarInv, EnSuClase
  <2>2. sem["MMP"] > 0 /\ sem["MPS"] \in Nat /\ sem["MMP"] \in Nat
    BY DEF LTSReanuda, HayMMP, TypeOK, TipoSem, Semaforos
  <2>3. Libera' = Libera /\ Libera \in Nat
    BY DEF LTSReanuda, Libera, UnoSi
  <2>4. /\ lsch' = [lsch EXCEPT ![p] = "Reanudados"]
        /\ sem'["MPS"] = sem["MPS"] /\ sem'["MMP"] = sem["MMP"] - 1
    BY <1>2 DEF LTSReanuda, TypeOK, TipoSem, Semaforos
  <2>5. Cambia(p, "Reanudados")
    BY <2>1, <2>2, <2>3, <2>4 DEF Cambia, UnoSi, EnSistema, EnMemoria
  <2>6. Ciclo!Reanuda(p)
    BY <2>1, <2>2, <2>4, HayCupo DEF Ciclo!Reanuda, Ciclo!Pasa
  <2>. QED BY <2>5, <2>6, CuposCambia DEF Ciclo!Next
<1>. QED BY <1>1, <1>2

LEMMA Ciclo_NewToma ==
    ASSUME TypeOK, TypeOK', LugarInv, CuposInv, NewToma,
           cola["LFIFO"] # <<>>
    PROVE CuposInv' /\ Ciclo!Next
<1> DEFINE p == Head(cola["LFIFO"])
<1>1. p \in Procs /\ lsch[p] = "FIFO"
  <2>1. "LFIFO" \in Colas /\ "LFIFO" \in Sitios /\ Clase["LFIFO"] = "FIFO"
    BY LosSitios DEF Clase, Colas
  <2>. QED BY <2>1, EstadoCabeza
<1>2. sem["MMP"] > 0 /\ sem["MPS"] \in Nat /\ sem["MMP"] \in Nat
  BY DEF NewToma, HayMMP, TypeOK, TipoSem, Semaforos
<1>3. Libera' = Libera /\ Libera \in Nat
  BY DEF NewToma, Libera, UnoSi
<1>4. /\ lsch' = [lsch EXCEPT ![p] = "Nuevos"]
      /\ sem'["MPS"] = sem["MPS"] /\ sem'["MMP"] = sem["MMP"] - 1
  BY DEF NewToma, TypeOK, TipoSem, Semaforos
<1>. HIDE DEF p
<1>5. Cambia(p, "Nuevos")
  BY <1>1, <1>2, <1>3, <1>4 DEF Cambia, UnoSi, EnSistema, EnMemoria
<1>6. Ciclo!Admite(p)
  BY <1>1, <1>2, <1>4, HayCupo DEF Ciclo!Admite, Ciclo!Pasa
<1>. QED BY <1>1, <1>5, <1>6, CuposCambia DEF Ciclo!Next

LEMMA Ciclo_STSPop ==
    ASSUME TypeOK, TypeOK', LugarInv, CuposInv, STSPop, cola[sts.q] # <<>>
    PROVE CuposInv' /\ Ciclo!Next
<1> DEFINE p == Head(cola[sts.q])
           E == {"Nuevos", "Reanudados", "Fin de Quantum", "Fin I/O"}
<1>1. p \in Procs /\ lsch[p] \in E
  <2>1. sts.q \in Colas /\ sts.q \in Entradas
    BY DEF TypeOK, TipoSTS, LocalesSTS, Colas
  <2>2. \A q \in Entradas : Clase[q] \in E
    BY LosSitios DEF Clase, Entradas
  <2>. QED BY <2>1, <2>2, EstadoCabeza
<1>2. sem' = sem /\ sem["MPS"] \in Nat /\ sem["MMP"] \in Nat
  BY DEF STSPop, TypeOK, TipoSem, Semaforos
<1>3. Libera' = Libera /\ Libera \in Nat
  BY DEF STSPop, Libera, UnoSi
<1>4. lsch' = [lsch EXCEPT ![p] = "Listos"]
  BY DEF STSPop
<1>. HIDE DEF p
<1>5. Cambia(p, "Listos")
  BY <1>1, <1>2, <1>3, <1>4 DEF Cambia, UnoSi, EnSistema, EnMemoria
<1>6. Ciclo!Prepara(p)
  BY <1>1, <1>4 DEF Ciclo!Prepara, Ciclo!Pasa
<1>. QED BY <1>1, <1>5, <1>6, CuposCambia DEF Ciclo!Next

(* Only the image in the hands of PROCER is in execution.                  *)
LEMMA UnoEnEjecucion ==
    ASSUME TypeOK, LugarInv, NEW r \in Procs, lsch[r] = "Ejecucion"
    PROVE procer.pc \in {"ejecuta", "decide", "colgado"} /\ procer.img = r
<1>1. Suma(r) = 1
  BY DEF LugarInv, UnSitio, Ocupa, UnoSi, EnSistema, EnMemoria
<1>2. \A s \in Sitios : En(s, r) \in Nat
  BY EnNat
<1>3. \A s \in Sitios \ {"procer"} : Clase[s] # "Ejecucion"
  BY LosSitios DEF Clase
<1>4. \A s \in Sitios \ {"procer"} : En(s, r) = 0
  BY <1>2, <1>3 DEF LugarInv, EnSuClase
<1>5. En("procer", r) # 0
  BY <1>1, <1>2, <1>4, LosSitios DEF Suma, Suma1, Suma2, Suma3, Suma4
<1>. QED BY <1>5, ManoPROCER DEF UnoSi

LEMMA Ciclo_ProcerPop ==
    ASSUME TypeOK, TypeOK', LugarInv, CuposInv, ProcerPop, cola["LPL"] # <<>>
    PROVE CuposInv' /\ Ciclo!Next
<1> DEFINE p == Head(cola["LPL"])
<1>1. p \in Procs /\ lsch[p] = "Listos"
  <2>1. "LPL" \in Colas /\ "LPL" \in Sitios /\ Clase["LPL"] = "Listos"
    BY LosSitios DEF Clase, Colas
  <2>. QED BY <2>1, EstadoCabeza
<1>2. sem' = sem /\ sem["MPS"] \in Nat /\ sem["MMP"] \in Nat
  BY DEF ProcerPop, TypeOK, TipoSem, Semaforos
<1>3. procer.pc = "pop" /\ procer'.pc = "ejecuta"
  BY DEF ProcerPop
<1>4. Libera' = 0 /\ Libera = 0
  BY <1>3 DEF Libera, UnoSi
<1>5. lsch' = [lsch EXCEPT ![p] = "Ejecucion"]
  BY DEF ProcerPop
<1>. HIDE DEF p
<1>6. Cambia(p, "Ejecucion")
  BY <1>1, <1>2, <1>4, <1>5 DEF Cambia, UnoSi, EnSistema, EnMemoria
<1>7. Ciclo!Cuantos({"Ejecucion"}) = 0
  <2>1. {r \in Procs : lsch[r] \in {"Ejecucion"}} = {}
    BY <1>3, UnoEnEjecucion
  <2>. QED BY <2>1, FS_EmptySet
           DEF Ciclo!Cuantos, Ciclo!Cardinality, Cardinality
<1>8. Ciclo!Despacha(p)
  BY <1>1, <1>5, <1>7 DEF Ciclo!Despacha, Ciclo!Pasa
<1>. QED BY <1>1, <1>6, <1>8, CuposCambia DEF Ciclo!Next
(* What PROCER does with the image it has just executed.                   *)
LEMMA Ciclo_EjecutaIOBloqueante ==
    ASSUME TypeOK, TypeOK', LugarInv, CuposInv, EjecutaIOBloqueante
    PROVE CuposInv' /\ Ciclo!Next
<1> DEFINE p == img
<1>1. /\ procer.pc = "ejecuta" /\ procer.ioBlock = FALSE /\ img \in Procs
      /\ ~ procer.ioBlock
  BY EnElLazo DEF EjecutaIOBloqueante
<1>2. lsch[p] = "Ejecucion"
  <2>1. En("procer", img) = 1
    BY <1>1, ManoPROCER DEF UnoSi, img
  <2>2. "procer" \in Sitios /\ Clase["procer"] = "Ejecucion"
    BY LosSitios DEF Clase
  <2>. QED BY <1>1, <2>1, <2>2 DEF LugarInv, EnSuClase
<1>3. /\ sem'["MMP"] = sem["MMP"] /\ sem'["MPS"] = sem["MPS"]
      /\ sem["MPS"] \in Nat /\ sem["MMP"] \in Nat
  BY DEF EjecutaIOBloqueante, PideIO, TypeOK, TipoSem, Semaforos
<1>4. procer'.pc = "ejecuta"
  BY <1>1 DEF EjecutaIOBloqueante, Computa, TypeOK, TipoPROCER, LocalesPROCER
<1>5. Libera' = 0 /\ Libera = 0
  BY <1>1, <1>4 DEF Libera, UnoSi
<1>6. lsch' = [lsch EXCEPT ![p] = "Bloqueado"] /\ p \in Procs
  BY <1>1 DEF EjecutaIOBloqueante
<1>. HIDE DEF p
<1>7. Cambia(p, "Bloqueado")
  BY <1>2, <1>3, <1>5, <1>6 DEF Cambia, UnoSi, EnSistema, EnMemoria
<1>8. Ciclo!Bloquea(p)
  BY <1>2, <1>6 DEF Ciclo!Bloquea, Ciclo!Pasa
<1>. QED BY <1>6, <1>7, <1>8, CuposCambia DEF Ciclo!Next

LEMMA Ciclo_ProcerFinaliza ==
    ASSUME TypeOK, TypeOK', LugarInv, CuposInv, ProcerFinaliza
    PROVE CuposInv' /\ Ciclo!Next
<1> DEFINE p == img
<1>1. procer.pc = "decide" /\ ~ procer.ioBlock
  BY DEF ProcerFinaliza, LugarInv, BloqueaAntesDelFin
<1>2. p \in Procs /\ lsch[p] = "Ejecucion"
  BY <1>1, AlDecidir
<1>3. sem' = sem /\ sem["MPS"] \in Nat /\ sem["MMP"] \in Nat
  BY DEF ProcerFinaliza, TypeOK, TipoSem, Semaforos
<1>4. procer'.pc = "libera"
  BY DEF ProcerFinaliza, TypeOK, TipoPROCER, LocalesPROCER
<1>5. Libera' = 1 /\ Libera = 0
  BY <1>1, <1>4 DEF Libera, UnoSi
<1>6. lsch' = [lsch EXCEPT ![p] = "Finalizado"]
  BY DEF ProcerFinaliza
<1>. HIDE DEF p
<1>7. Cambia(p, "Finalizado")
  BY <1>2, <1>3, <1>5, <1>6 DEF Cambia, UnoSi, EnSistema, EnMemoria
<1>8. Ciclo!Finaliza(p)
  BY <1>2, <1>6 DEF Ciclo!Finaliza, Ciclo!Pasa
<1>. QED BY <1>2, <1>7, <1>8, CuposCambia DEF Ciclo!Next

LEMMA Ciclo_ProcerSuspende ==
    ASSUME TypeOK, TypeOK', LugarInv, CuposInv, ProcerSuspende
    PROVE CuposInv' /\ Ciclo!Next
<1> DEFINE p == img
<1>1. procer.pc = "decide" /\ ~ procer.ioBlock
  BY DEF ProcerSuspende
<1>2. p \in Procs /\ lsch[p] = "Ejecucion"
  BY <1>1, AlDecidir
<1>3. /\ sem'["MMP"] = sem["MMP"] + 1 /\ sem'["MPS"] = sem["MPS"]
      /\ sem["MPS"] \in Nat /\ sem["MMP"] \in Nat
  BY DEF ProcerSuspende, TypeOK, TipoSem, Semaforos
<1>4. procer'.pc = "suspende"
  BY DEF ProcerSuspende, TypeOK, TipoPROCER, LocalesPROCER
<1>5. Libera' = 0 /\ Libera = 0
  BY <1>1, <1>4 DEF Libera, UnoSi
<1>6. lsch' = [lsch EXCEPT ![p] = "Suspendido"]
  BY DEF ProcerSuspende
<1>. HIDE DEF p
<1>7. Cambia(p, "Suspendido")
  BY <1>2, <1>3, <1>5, <1>6 DEF Cambia, UnoSi, EnSistema, EnMemoria
<1>8. Ciclo!Suspende(p)
  BY <1>2, <1>6 DEF Ciclo!Suspende, Ciclo!Pasa
<1>. QED BY <1>2, <1>7, <1>8, CuposCambia DEF Ciclo!Next

LEMMA Ciclo_ProcerFinQuantum ==
    ASSUME TypeOK, TypeOK', LugarInv, CuposInv, ProcerFinQuantum
    PROVE CuposInv' /\ Ciclo!Next
<1> DEFINE p == img
<1>1. procer.pc = "decide" /\ ~ procer.ioBlock
  BY DEF ProcerFinQuantum
<1>2. p \in Procs /\ lsch[p] = "Ejecucion"
  BY <1>1, AlDecidir
<1>3. /\ sem'["MMP"] = sem["MMP"] /\ sem'["MPS"] = sem["MPS"]
      /\ sem["MPS"] \in Nat /\ sem["MMP"] \in Nat
  BY DEF ProcerFinQuantum, Encola, TypeOK, TipoSem, Semaforos
<1>4. procer'.pc = "avisa"
  BY DEF ProcerFinQuantum, TypeOK, TipoPROCER, LocalesPROCER
<1>5. Libera' = 0 /\ Libera = 0
  BY <1>1, <1>4 DEF Libera, UnoSi
<1>6. lsch' = [lsch EXCEPT ![p] = "Fin de Quantum"]
  BY DEF ProcerFinQuantum
<1>. HIDE DEF p
<1>7. Cambia(p, "Fin de Quantum")
  BY <1>2, <1>3, <1>5, <1>6 DEF Cambia, UnoSi, EnSistema, EnMemoria
<1>8. Ciclo!Expropia(p)
  BY <1>2, <1>6 DEF Ciclo!Expropia, Ciclo!Pasa
<1>. QED BY <1>2, <1>7, <1>8, CuposCambia DEF Ciclo!Next

(* The return of the image of a blocking request.                          *)
LEMMA Ciclo_IOEncola ==
    ASSUME TypeOK, TypeOK', LugarInv, CuposInv, NEW h \in Hilos, IOEncola(h)
    PROVE CuposInv' /\ Ciclo!Next
<1> DEFINE p == io[h].img
<1>1. p \in Procs /\ io[h].pc = "es"
  BY DEF IOEncola, TypeOK, TipoIO
<1>2. lsch[p] = "Bloqueado"
  BY <1>1, LugarBloqueado DEF BloqueadoHastaFinIO
<1>3. /\ sem'["MMP"] = sem["MMP"] /\ sem'["MPS"] = sem["MPS"]
      /\ sem["MPS"] \in Nat /\ sem["MMP"] \in Nat
  BY DEF IOEncola, Encola, TypeOK, TipoSem, Semaforos
<1>4. Libera' = Libera /\ Libera \in Nat
  BY DEF IOEncola, Libera, UnoSi
<1>5. lsch' = [lsch EXCEPT ![p] = "Fin I/O"]
  BY DEF IOEncola
<1>. HIDE DEF p
<1>6. Cambia(p, "Fin I/O")
  BY <1>2, <1>3, <1>4, <1>5 DEF Cambia, UnoSi, EnSistema, EnMemoria
<1>7. Ciclo!Desbloquea(p)
  BY <1>2, <1>5 DEF Ciclo!Desbloquea, Ciclo!Pasa
<1>. QED BY <1>1, <1>6, <1>7, CuposCambia DEF Ciclo!Next

-----------------------------------------------------------------------------
(* The steps that leave the states and both semaphores alone.              *)
LEMMA SinCupo ==
    ASSUME TypeOK, TypeOK', CuposInv, UNCHANGED lsch,
           sem'["MMP"] = sem["MMP"], sem'["MPS"] = sem["MPS"],
           procer.pc # "libera", procer'.pc # "libera"
    PROVE CuposInv'
<1>1. Libera = 0 /\ Libera' = 0
  BY DEF Libera, UnoSi
<1>2. NoCambia
  BY <1>1 DEF NoCambia
<1>. QED BY <1>2, CuposNoCambia

LEMMA SinCupoNiPROCER ==
    ASSUME TypeOK, TypeOK', CuposInv, UNCHANGED <<lsch, procer>>,
           sem'["MMP"] = sem["MMP"], sem'["MPS"] = sem["MPS"]
    PROVE CuposInv'
<1>1. NoCambia
  BY DEF NoCambia, Libera
<1>. QED BY <1>1, CuposNoCambia

(* The end of a process, once told: both places are returned.              *)
LEMMA Ciclo_ProcerLibera ==
    ASSUME TypeOK, TypeOK', CuposInv, ProcerLibera
    PROVE CuposInv' /\ UNCHANGED lsch
<1>1. procer.pc = "libera" /\ procer'.pc = "espera" /\ UNCHANGED lsch
  BY DEF ProcerLibera, ProcerVuelve, imagenes
<1>2. Libera = 1 /\ Libera' = 0
  BY <1>1 DEF Libera, UnoSi
<1>3. /\ sem'["MMP"] = sem["MMP"] + 1 /\ sem'["MPS"] = sem["MPS"] + 1
      /\ sem["MPS"] \in Nat /\ sem["MMP"] \in Nat
  BY DEF ProcerLibera, TypeOK, TipoSem, Semaforos
<1>4. NoCambia
  BY <1>1, <1>2, <1>3 DEF NoCambia
<1>. QED BY <1>1, <1>4, CuposNoCambia

LEMMA Ciclo_LTSconex ==
    ASSUME TypeOK, TypeOK', LugarInv, CuposInv, LTSconex
    PROVE CuposInv' /\ (Ciclo!Next \/ UNCHANGED lsch)
<1>1. CASE LTSDemora \/ LTSEncola \/ LTSAvisa
  <2>1. lts.q \in Entradas
    BY DEF TypeOK, TipoLTS, Entradas
  <2>2. /\ UNCHANGED <<lsch, procer>>
        /\ sem'["MMP"] = sem["MMP"] /\ sem'["MPS"] = sem["MPS"]
    BY <1>1, <2>1 DEF LTSDemora, LTSEncola, LTSAvisa, Encola, Avisa, imagenes,
                      TypeOK, TipoSem, Semaforos, Colas, Entradas
  <2>. QED BY <2>2, SinCupoNiPROCER
<1>2. CASE \E p \in Procs : LTSEnvia(p)
  <2>1. UNCHANGED <<lsch, procer, sem>>
    BY <1>2 DEF LTSEnvia, imagenes, hilosPP
  <2>. QED BY <2>1, SinCupoNiPROCER
<1>. QED BY <1>1, <1>2, Ciclo_LTSAcepta, Ciclo_LTSReanuda DEF LTSconex

LEMMA Ciclo_LTSnew ==
    ASSUME TypeOK, TypeOK', SemInv, LugarInv, CuposInv, LTSnew
    PROVE CuposInv' /\ (Ciclo!Next \/ UNCHANGED lsch)
<1>1. CASE NewEncola \/ NewAvisa
  <2>1. /\ UNCHANGED <<lsch, procer>>
        /\ sem'["MMP"] = sem["MMP"] /\ sem'["MPS"] = sem["MPS"]
    BY <1>1 DEF NewEncola, NewAvisa, Encola, Avisa, imagenes,
                TypeOK, TipoSem, Semaforos
  <2>. QED BY <2>1, SinCupoNiPROCER
<1>2. CASE NewToma
  <2>1. cola["LFIFO"] # <<>>
    <3>1. Len(cola["LFIFO"]) > 0
      BY <1>2 DEF NewToma, SemInv, SemLFIFO
    <3>. QED BY <3>1
  <2>. QED BY <1>2, <2>1, Ciclo_NewToma
<1>. QED BY <1>1, <1>2 DEF LTSnew

(* The insertion of a batch only touches LPL_empty.                        *)
LEMMA InsertaCupos ==
    ASSUME TypeOK, NEW l \in Seq(Procs), NEW alg, Inserta(l, alg)
    PROVE sem'["MMP"] = sem["MMP"] /\ sem'["MPS"] = sem["MPS"]
<1>1. \A s \in Semaforos \ {"LPL"} : sem'[s] = sem[s]
  BY InsertaEs
<1>. QED BY <1>1 DEF Semaforos

LEMMA Ciclo_STS ==
    ASSUME TypeOK, TypeOK', LugarInv, CuposInv, STS
    PROVE CuposInv' /\ (Ciclo!Next \/ UNCHANGED lsch)
<1>1. CASE STSEspera \/ STSCola \/ STSAvanza
  <2>1. UNCHANGED <<lsch, procer, sem>>
    BY <1>1 DEF STSEspera, STSCola, STSAvanza, imagenes
  <2>. QED BY <2>1, SinCupoNiPROCER
<1>2. CASE STSToma \/ STSPush
  <2>1. sts.q \in Entradas
    BY DEF TypeOK, TipoSTS, LocalesSTS
  <2>2. /\ UNCHANGED <<lsch, procer>>
        /\ sem'["MMP"] = sem["MMP"] /\ sem'["MPS"] = sem["MPS"]
    BY <1>2, <2>1 DEF STSToma, STSPush, Encola, imagenes,
                      TypeOK, TipoSem, Semaforos, Colas, Entradas
  <2>. QED BY <2>2, SinCupoNiPROCER
<1>3. CASE STSPop
  <2>1. CASE cola[sts.q] = <<>>
    <3>1. UNCHANGED <<lsch, procer, sem>>
      BY <1>3, <2>1 DEF STSPop
    <3>. QED BY <3>1, SinCupoNiPROCER
  <2>. QED BY <1>3, <2>1, Ciclo_STSPop
<1>4. CASE STSInserta
  <2>1. sts.prioList \in Seq(Procs)
    BY DEF TypeOK, TipoSTS, LocalesSTS
  <2>2. UNCHANGED <<lsch, procer>>
    BY <1>4 DEF STSInserta, imagenes
  <2>3. sem'["MMP"] = sem["MMP"] /\ sem'["MPS"] = sem["MPS"]
    BY <1>4, <2>1, InsertaCupos DEF STSInserta
  <2>. QED BY <2>2, <2>3, SinCupoNiPROCER
<1>. QED BY <1>1, <1>2, <1>3, <1>4 DEF STS

(* The steps of PROCER that change no state.                               *)
LEMMA Ciclo_PROCERQuieto ==
    ASSUME TypeOK, TypeOK', CuposInv,
           \/ ProcerEspera \/ EjecutaSimple \/ EjecutaSalto
           \/ EjecutaIONoBloqueante \/ EjecutaXIO0 \/ ProcerSale
           \/ ProcerBloqueado \/ ProcerAvisaPI \/ ProcerAvisa
           \/ ProcerPop /\ cola["LPL"] = <<>>
    PROVE CuposInv' /\ UNCHANGED lsch
<1>1. UNCHANGED lsch
  BY DEF ProcerEspera, EjecutaSimple, EjecutaSalto, EjecutaIONoBloqueante,
         EjecutaXIO0, ProcerSale, ProcerBloqueado, ProcerAvisaPI, ProcerAvisa,
         ProcerPop, imagenes
<1>2. sem'["MMP"] = sem["MMP"] /\ sem'["MPS"] = sem["MPS"]
  BY DEF ProcerEspera, EjecutaSimple, EjecutaSalto, EjecutaIONoBloqueante,
         EjecutaXIO0, ProcerSale, ProcerBloqueado, ProcerAvisaPI, ProcerAvisa,
         ProcerPop, PideIO, Avisa, TypeOK, TipoSem, Semaforos
<1>3. procer.pc # "libera"
  BY DEF ProcerEspera, EjecutaSimple, EjecutaSalto, EjecutaIONoBloqueante,
         EjecutaXIO0, ProcerSale, ProcerBloqueado, ProcerAvisaPI, ProcerAvisa,
         ProcerPop, Ejecuta
<1>4. procer'.pc # "libera"
  <2>1. procer \in LocalesPROCER
    BY DEF TypeOK, TipoPROCER
  <2>2. CASE ProcerBloqueado \/ ProcerAvisaPI \/ ProcerAvisa
    BY <2>2 DEF ProcerBloqueado, ProcerAvisaPI, ProcerAvisa, ProcerVuelve
  <2>3. CASE ProcerEspera
    BY <2>1, <2>3 DEF ProcerEspera, LocalesPROCER
  <2>4. CASE ProcerSale
    BY <2>1, <2>4 DEF ProcerSale, LocalesPROCER
  <2>5. CASE ProcerPop /\ cola["LPL"] = <<>>
    BY <2>1, <2>5 DEF ProcerPop, LocalesPROCER
  <2>6. CASE \/ EjecutaSimple \/ EjecutaSalto \/ EjecutaIONoBloqueante
             \/ EjecutaXIO0
    BY <2>1, <2>6, <1>3 DEF EjecutaSimple, EjecutaSalto, EjecutaIONoBloqueante,
                            EjecutaXIO0, Computa, LocalesPROCER
  <2>. QED BY <2>2, <2>6, <2>3, <2>4, <2>5
<1>. QED BY <1>1, <1>2, <1>3, <1>4, SinCupo

LEMMA Ciclo_PROCER ==
    ASSUME TypeOK, TypeOK', LugarInv, CuposInv, PROCER
    PROVE CuposInv' /\ (Ciclo!Next \/ UNCHANGED lsch)
  BY Ciclo_PROCERQuieto, Ciclo_ProcerPop, Ciclo_EjecutaIOBloqueante,
     Ciclo_ProcerFinaliza, Ciclo_ProcerLibera, Ciclo_ProcerSuspende,
     Ciclo_ProcerFinQuantum
     DEF PROCER, processExecution

LEMMA Ciclo_ioThread ==
    ASSUME TypeOK, TypeOK', LugarInv, CuposInv, NEW h \in Hilos, ioThread(h)
    PROVE CuposInv' /\ (Ciclo!Next \/ UNCHANGED lsch)
<1>1. CASE IOToma(h) \/ IOPop(h) \/ IOAvisa(h) \/ IOFin(h)
  <2>1. /\ UNCHANGED <<lsch, procer>>
        /\ sem'["MMP"] = sem["MMP"] /\ sem'["MPS"] = sem["MPS"]
    BY <1>1 DEF IOToma, IOPop, IOAvisa, IOFin, Avisa, imagenes,
                TypeOK, TipoSem, Semaforos
  <2>. QED BY <2>1, SinCupoNiPROCER
<1>. QED BY <1>1, Ciclo_IOEncola DEF ioThread

LEMMA CicloPaso ==
    ASSUME TypeOK, TypeOK', SemInv, LugarInv, CuposInv, [Next]_vars
    PROVE CuposInv' /\ (Ciclo!Next \/ UNCHANGED lsch)
<1>1. CASE UNCHANGED vars
  BY <1>1, SinCupoNiPROCER DEF vars
<1>2. CASE configure
  <2>1. CASE ConfCopia \/ ConfCierra \/ ConfFin
    BY <2>1, SinCupoNiPROCER DEF ConfCopia, ConfCierra, ConfFin, imagenes
  <2>2. ASSUME NEW alg \in Algs, NEW pr \in PrioColas, ConfLee(alg, pr)
        PROVE /\ UNCHANGED <<lsch, procer>>
              /\ sem'["MMP"] = sem["MMP"] /\ sem'["MPS"] = sem["MPS"]
    <3>1. CASE PorLotes(alg)
      <4>1. <<>> \in Seq(Procs)
        OBVIOUS
      <4>2. Inserta(<<>>, alg)
        BY <2>2, <3>1 DEF ConfLee
      <4>. QED BY <2>2, <4>1, <4>2, InsertaCupos DEF ConfLee, imagenes
    <3>2. CASE ~ PorLotes(alg)
      BY <2>2, <3>2 DEF ConfLee, imagenes
    <3>. QED BY <3>1, <3>2
  <2>. QED BY <1>2, <2>1, <2>2, SinCupoNiPROCER DEF configure
<1>3. CASE SIGUSR1 \/ \E p \in Procs : PIReanuda(p)
  <2>1. UNCHANGED <<lsch, procer, sem>>
    BY <1>3 DEF SIGUSR1, PIReanuda, imagenes, hilosPP
  <2>. QED BY <2>1, SinCupoNiPROCER
<1>. QED BY <1>1, <1>2, <1>3, Ciclo_LTSconex, Ciclo_LTSnew, Ciclo_STS,
            Ciclo_PROCER, Ciclo_ioThread
         DEF Next

LEMMA CuposInit == ASSUME Init PROVE CuposInv
<1>1. \A p \in Procs : lsch[p] \notin EnMemoria /\ lsch[p] \notin EnSistema
  BY DEF Init, EnSistema, EnMemoria
<1>2. /\ {p \in Procs : lsch[p] \in EnMemoria} = {}
      /\ {p \in Procs : lsch[p] \in EnSistema} = {}
  BY <1>1
<1>3. sem["MMP"] = MMP /\ sem["MPS"] = MPS
  BY DEF Init, Semaforos
<1>4. UnoSi(procer.pc = "libera") = 0
  BY DEF Init, UnoSi
<1>. QED BY <1>2, <1>3, <1>4, FS_EmptySet, CuposAssumption
         DEF CuposInv, CuposExactos, Dentro

(* No path of the PP leaks a place of MPS or MMP or returns one twice,     *)
(* whatever the algorithm and even with infinitely many scripts: MPS_sem   *)
(* and MMP_sem are what the processes in the system and in memory leave.   *)
THEOREM CuposCorrectos == Spec => []CuposExactos
<1>1. Init => CuposInv
  BY CuposInit
<1>2. /\ TypeOK /\ TypeOK' /\ SemInv /\ LugarInv /\ CuposInv
      /\ [Next]_vars
      => CuposInv'
  BY CicloPaso
<1>3. CuposInv => CuposExactos
  BY DEF CuposInv
<1>. QED BY <1>1, <1>2, <1>3, SemInvSiempre, LugarCorrecto, PTL DEF Spec

(* Under every algorithm the threads of the PP implement the life cycle:   *)
(* every line of LSCH is a legal transition of its process, never more     *)
(* than MPS in the system, MMP in memory or one in execution.              *)
THEOREM CicloCumplido == Spec => CumpleCiclo
<1>1. Init => CuposInv /\ Ciclo!Init
  BY CuposInit DEF Init, Ciclo!Init
<1>2. /\ TypeOK /\ TypeOK' /\ SemInv /\ LugarInv /\ CuposInv
      /\ [Next]_vars
      => CuposInv' /\ [Ciclo!Next]_lsch
  BY CicloPaso
<1>. QED BY <1>1, <1>2, SemInvSiempre, LugarCorrecto, PTL
         DEF Spec, CumpleCiclo, Ciclo!Spec

-----------------------------------------------------------------------------
(***************************************************************************)
(* What the client of a process is told.  Aviso is the part of             *)
(* AvisosCoherentes of one process, as a relation between its messages m,  *)
(* whether it is suspended (s) and has ended (f), its PI (q), and whether  *)
(* PROCER is about to queue its S (x).                                     *)
(***************************************************************************)
Ultimo(m, t) == m # <<>> /\ m[Len(m)] = t

Aviso(m, s, f, q, x) ==
    /\ \A i \in 1 .. Len(m) - 1 : m[i] = "N"
    /\ UnoSi(s) = UnoSi(Ultimo(m, "S"))
                  + UnoSi(q \in {"suspendido", "reanudar"}) + UnoSi(x)
    /\ UnoSi(f) = UnoSi(Ultimo(m, "T")) + UnoSi(q = "fin")
    /\ q # "cerrado"

Finado(p)   == lsch[p] = "Finalizado"
PorAvisar(p) == procer.pc = "suspende" /\ img = p
AvisoDe(p)  == Aviso(sendingList[p], p \in LPS, Finado(p), pi[p], PorAvisar(p))

LEMMA AvisoPorProceso ==
    /\ AvisosCoherentes <=> \A p \in Procs : AvisoDe(p)
    /\ AvisosCoherentes' <=> \A p \in Procs : AvisoDe(p)'
  BY DEF AvisosCoherentes, AvisoDe, Aviso, Ultimo, Finado, PorAvisar

(* What each kind of step does to the relation.                            *)
Mensajes == {"N", "S", "T"}

LEMMA AvisoSinNada ==
    ASSUME NEW m \in Seq(Mensajes), NEW q, NEW t \in Mensajes,
           Aviso(m, FALSE, FALSE, q, FALSE)
    PROVE /\ \A i \in 1 .. Len(Append(m, t)) - 1 : Append(m, t)[i] = "N"
          /\ \A u : Ultimo(Append(m, t), u) <=> u = t
          /\ q \notin {"suspendido", "reanudar", "fin", "cerrado"}
<1>1. ~ Ultimo(m, "S") /\ ~ Ultimo(m, "T")
      /\ q \notin {"suspendido", "reanudar", "fin", "cerrado"}
  BY DEF Aviso, UnoSi
<1>2. \A i \in 1 .. Len(m) : m[i] = "N"
  <2>1. TAKE i \in 1 .. Len(m)
  <2>2. CASE i = Len(m)
    BY <1>1, <2>2 DEF Ultimo, Mensajes
  <2>3. CASE i # Len(m)
    BY <2>3 DEF Aviso
  <2>. QED BY <2>2, <2>3
<1>3. /\ Len(Append(m, t)) = Len(m) + 1
      /\ Append(m, t)[Len(m) + 1] = t
      /\ \A i \in 1 .. Len(m) : Append(m, t)[i] = m[i]
      /\ Len(m) \in Nat
  OBVIOUS
<1>4. Append(m, t) # <<>>
  BY <1>3
<1>5. \A u : Ultimo(Append(m, t), u) <=> u = t
  BY <1>3, <1>4 DEF Ultimo
<1>. QED BY <1>1, <1>2, <1>3, <1>5

LEMMA AvisoN ==
    ASSUME NEW m \in Seq(Mensajes), NEW q, Aviso(m, FALSE, FALSE, q, FALSE)
    PROVE Aviso(Append(m, "N"), FALSE, FALSE, q, FALSE)
<1>1. /\ \A i \in 1 .. Len(Append(m, "N")) - 1 : Append(m, "N")[i] = "N"
      /\ \A u : Ultimo(Append(m, "N"), u) <=> u = "N"
      /\ q \notin {"suspendido", "reanudar", "fin", "cerrado"}
  BY AvisoSinNada DEF Mensajes
<1>. QED BY <1>1 DEF Aviso, UnoSi

LEMMA AvisoT ==
    ASSUME NEW m \in Seq(Mensajes), NEW q, Aviso(m, FALSE, FALSE, q, FALSE)
    PROVE Aviso(Append(m, "T"), FALSE, TRUE, q, FALSE)
<1>1. /\ \A i \in 1 .. Len(Append(m, "T")) - 1 : Append(m, "T")[i] = "N"
      /\ \A u : Ultimo(Append(m, "T"), u) <=> u = "T"
      /\ q \notin {"suspendido", "reanudar", "fin", "cerrado"}
  BY AvisoSinNada DEF Mensajes
<1>. QED BY <1>1 DEF Aviso, UnoSi

LEMMA AvisoS ==
    ASSUME NEW m \in Seq(Mensajes), NEW q, NEW s \in BOOLEAN,
           Aviso(m, s, FALSE, q, TRUE)
    PROVE Aviso(Append(m, "S"), s, FALSE, q, FALSE)
<1>1. s = TRUE
  BY DEF Aviso, UnoSi
<1>2. Aviso(m, FALSE, FALSE, q, FALSE)
  BY <1>1 DEF Aviso, UnoSi
<1>3. /\ \A i \in 1 .. Len(Append(m, "S")) - 1 : Append(m, "S")[i] = "N"
      /\ \A u : Ultimo(Append(m, "S"), u) <=> u = "S"
      /\ q \notin {"suspendido", "reanudar", "fin", "cerrado"}
  BY <1>2, AvisoSinNada DEF Mensajes
<1>. QED BY <1>1, <1>3 DEF Aviso, UnoSi

LEMMA AvisoEnvia ==
    ASSUME NEW m \in Seq(Mensajes), m # <<>>, NEW s \in BOOLEAN,
           NEW f \in BOOLEAN, NEW x \in BOOLEAN,
           Aviso(m, s, f, "conectado", x)
    PROVE Aviso(Tail(m), s, f,
                IF Head(m) = "S" THEN "suspendido"
                ELSE IF Head(m) = "T" THEN "fin" ELSE "conectado", x)
<1>1. /\ Len(Tail(m)) = Len(m) - 1 /\ Len(m) \in Nat \ {0}
      /\ Tail(m) \in Seq(Mensajes)
      /\ Head(m) = m[1] /\ m[1] \in Mensajes
      /\ \A i \in 1 .. Len(m) - 1 : Tail(m)[i] = m[i + 1]
  OBVIOUS
<1>2. CASE Len(m) = 1
  <2>1. Tail(m) = <<>> /\ Len(Tail(m)) = 0
    <3>1. Len(Tail(m)) = 0
      BY <1>1, <1>2
    <3>2. \A s1 \in Seq(Mensajes) : Len(s1) = 0 => s1 = <<>>
      OBVIOUS
    <3>. QED BY <1>1, <3>1, <3>2
  <2>2. ~ Ultimo(Tail(m), "S") /\ ~ Ultimo(Tail(m), "T")
    BY <2>1 DEF Ultimo
  <2>3. \A t : Ultimo(m, t) <=> Head(m) = t
    BY <1>1, <1>2 DEF Ultimo
  <2>4. \A i \in 1 .. Len(Tail(m)) - 1 : Tail(m)[i] = "N"
    <3>1. 1 .. Len(Tail(m)) - 1 = {}
      BY <2>1
    <3>. QED BY <3>1
  <2>5. Head(m) \in Mensajes
    BY <1>1
  <2>. HIDE DEF Ultimo
  <2>. QED BY <2>5, <2>2, <2>3, <2>4 DEF Aviso, UnoSi, Mensajes
<1>3. CASE Len(m) > 1
  <2>1. Head(m) = "N" /\ Tail(m) # <<>>
    <3>1. m[1] = "N"
      BY <1>1, <1>3 DEF Aviso
    <3>2. Len(Tail(m)) # 0
      BY <1>1, <1>3
    <3>3. \A s1 \in Seq(Mensajes) : s1 = <<>> => Len(s1) = 0
      OBVIOUS
    <3>. QED BY <1>1, <3>1, <3>2, <3>3
  <2>2. \A t : Ultimo(Tail(m), t) <=> Ultimo(m, t)
    BY <1>1, <1>3, <2>1 DEF Ultimo
  <2>3. \A i \in 1 .. Len(Tail(m)) - 1 : Tail(m)[i] = "N"
    <3>1. TAKE i \in 1 .. Len(Tail(m)) - 1
    <3>2. i + 1 \in 1 .. Len(m) - 1 /\ Tail(m)[i] = m[i + 1]
      BY <1>1
    <3>. QED BY <3>2 DEF Aviso
  <2>4. /\ UnoSi(Ultimo(Tail(m), "S")) = UnoSi(Ultimo(m, "S"))
        /\ UnoSi(Ultimo(Tail(m), "T")) = UnoSi(Ultimo(m, "T"))
    BY <2>2 DEF UnoSi
  <2>5. Aviso(Tail(m), s, f, "conectado", x)
    BY <2>3, <2>4 DEF Aviso
  <2>. QED BY <2>1, <2>5
<1>. QED BY <1>1, <1>2, <1>3

(* Only the truth of the arguments counts.                                 *)
LEMMA AvisoEquiv ==
    ASSUME NEW m, NEW q, NEW s, NEW f, NEW x, NEW s1, NEW f1, NEW x1,
           s <=> s1, f <=> f1, x <=> x1, Aviso(m, s, f, q, x)
    PROVE Aviso(m, s1, f1, q, x1)
<1>1. UnoSi(s) = UnoSi(s1) /\ UnoSi(f) = UnoSi(f1) /\ UnoSi(x) = UnoSi(x1)
  BY DEF UnoSi
<1>. QED BY <1>1 DEF Aviso

-----------------------------------------------------------------------------
(* Nobody leaves the state Finalizado, and only ProcerFinaliza writes it.  *)
MismosFin == \A r \in Procs : Finado(r)' <=> Finado(r)

LEMMA SigueFin ==
    ASSUME Ciclo!Next \/ UNCHANGED lsch, TypeOK, NEW r \in Procs, Finado(r)
    PROVE Finado(r)'
<1>1. lsch \in [Procs -> Estados]
  BY DEF TypeOK, TipoImagenes
<1>2. CASE UNCHANGED lsch
  BY <1>2 DEF Finado
<1>3. CASE Ciclo!Next
  <2>1. PICK p, E, e : "Finalizado" \notin E /\ Ciclo!Pasa(p, E, e)
    <3>1. "Finalizado" \notin {"Afuera"} /\ "Finalizado" \notin {"FIFO"}
          /\ "Finalizado" \notin {"Suspendido"}
          /\ "Finalizado" \notin {"Listos"}
          /\ "Finalizado" \notin {"Ejecucion"}
          /\ "Finalizado" \notin {"Bloqueado"}
          /\ "Finalizado" \notin {"Nuevos", "Reanudados", "Fin de Quantum",
                                  "Fin I/O"}
      OBVIOUS
    <3>. QED BY <1>3, <3>1
             DEF Ciclo!Next, Ciclo!Demora, Ciclo!Carga, Ciclo!Admite,
                 Ciclo!Reanuda, Ciclo!Prepara, Ciclo!Despacha, Ciclo!Expropia,
                 Ciclo!Suspende, Ciclo!Bloquea, Ciclo!Desbloquea,
                 Ciclo!Finaliza
  <2>2. lsch[p] # "Finalizado" /\ lsch' = [lsch EXCEPT ![p] = e]
    BY <2>1 DEF Ciclo!Pasa
  <2>. QED BY <1>1, <2>2 DEF Finado
<1>. QED BY <1>2, <1>3

LEMMA NadieTermina ==
    ASSUME Ciclo!Next \/ UNCHANGED lsch, TypeOK, NEW p, NEW e,
           e # "Finalizado", lsch' = [lsch EXCEPT ![p] = e]
    PROVE MismosFin
<1>1. lsch \in [Procs -> Estados]
  BY DEF TypeOK, TipoImagenes
<1>2. \A r \in Procs : Finado(r)' => Finado(r)
  BY <1>1 DEF Finado
<1>. QED BY <1>2, SigueFin DEF MismosFin

(* A step that tells nobody anything.                                      *)
LEMMA AvisoIgual ==
    ASSUME AvisosCoherentes, MismosFin, UNCHANGED <<pi, LPS, sendingList>>,
           \A r \in Procs : PorAvisar(r)' <=> PorAvisar(r)
    PROVE AvisosCoherentes'
<1>1. ASSUME NEW r \in Procs PROVE AvisoDe(r)'
  <2>1. AvisoDe(r)
    BY AvisoPorProceso
  <2>2. /\ Finado(r) <=> Finado(r)'
        /\ PorAvisar(r) <=> PorAvisar(r)'
        /\ r \in LPS <=> r \in LPS'
        /\ sendingList'[r] = sendingList[r] /\ pi'[r] = pi[r]
    BY DEF MismosFin
  <2>3. Aviso(sendingList[r], r \in LPS', Finado(r)', pi[r], PorAvisar(r)')
    BY <2>1, <2>2, AvisoEquiv DEF AvisoDe
  <2>. QED BY <2>2, <2>3 DEF AvisoDe
<1>. QED BY <1>1, AvisoPorProceso

LEMMA AvisosIniciales == ASSUME Init PROVE AvisosCoherentes
<1>1. \A p \in Procs : /\ sendingList[p] = <<>> /\ p \notin LPS /\ ~ Finado(p)
                       /\ pi[p] = "afuera" /\ ~ PorAvisar(p)
  BY DEF Init, Finado, PorAvisar
<1>2. ASSUME NEW p \in Procs PROVE AvisoDe(p)
  <2>1. Aviso(<<>>, FALSE, FALSE, "afuera", FALSE)
    BY DEF Aviso, Ultimo, UnoSi
  <2>2. Aviso(<<>>, p \in LPS, Finado(p), "afuera", PorAvisar(p))
    BY <1>1, <2>1, AvisoEquiv
  <2>. QED BY <1>1, <2>2 DEF AvisoDe
<1>. QED BY <1>2, AvisoPorProceso

(* A step that tells something of one process only.                        *)
LEMMA AvisoUno ==
    ASSUME AvisosCoherentes, NEW p \in Procs, AvisoDe(p)',
           \A r \in Procs \ {p} :
               /\ sendingList'[r] = sendingList[r] /\ pi'[r] = pi[r]
               /\ r \in LPS' <=> r \in LPS
               /\ Finado(r)' <=> Finado(r)
               /\ PorAvisar(r)' <=> PorAvisar(r)
    PROVE AvisosCoherentes'
<1>1. ASSUME NEW r \in Procs \ {p} PROVE AvisoDe(r)'
  <2>1. Aviso(sendingList[r], r \in LPS, Finado(r), pi[r], PorAvisar(r))
    BY AvisoPorProceso DEF AvisoDe
  <2>2. Aviso(sendingList[r], r \in LPS', Finado(r)', pi[r], PorAvisar(r)')
    BY <2>1, AvisoEquiv
  <2>. QED BY <2>2 DEF AvisoDe
<1>. QED BY <1>1, AvisoPorProceso

(* What is true of an image PROCER can still do something with.            *)
LEMMA EnEjecucion ==
    ASSUME TypeOK, LugarInv, AvisosCoherentes, img \in Procs,
           procer.pc \in {"ejecuta", "decide"}, ~ procer.ioBlock
    PROVE /\ lsch[img] = "Ejecucion" /\ img \notin LPS /\ ~ Finado(img)
          /\ ~ PorAvisar(img)
          /\ Aviso(sendingList[img], FALSE, FALSE, pi[img], FALSE)
<1>1. /\ "procer" \in Sitios /\ Clase["procer"] = "Ejecucion"
      /\ "LPS" \in Sitios /\ Clase["LPS"] = "Suspendido"
  BY LosSitios DEF Clase
<1>2. En("procer", img) = 1
  BY ManoPROCER DEF UnoSi, img
<1>3. lsch[img] = "Ejecucion"
  BY <1>1, <1>2 DEF LugarInv, EnSuClase
<1>4. img \notin LPS
  <2>1. img \in LPS => En("LPS", img) = 1
    BY DEF En, EnMano, UnoSi, Colas, Entradas
  <2>. QED BY <1>1, <1>3, <2>1 DEF LugarInv, EnSuClase
<1>5. ~ Finado(img) /\ ~ PorAvisar(img)
  BY <1>3 DEF Finado, PorAvisar
<1>6. Aviso(sendingList[img], img \in LPS, Finado(img), pi[img], PorAvisar(img))
  BY AvisoPorProceso DEF AvisoDe
<1>7. Aviso(sendingList[img], FALSE, FALSE, pi[img], FALSE)
  <2>1. /\ UnoSi(img \in LPS) = 0 /\ UnoSi(Finado(img)) = 0
        /\ UnoSi(PorAvisar(img)) = 0 /\ UnoSi(FALSE) = 0
    BY <1>4, <1>5 DEF UnoSi
  <2>. QED BY <1>6, <2>1 DEF Aviso
<1>. QED BY <1>3, <1>4, <1>5, <1>7

LEMMA Cartas ==
    ASSUME TypeOK
    PROVE /\ sendingList \in [Procs -> Seq(Mensajes)]
          /\ pi \in [Procs -> {"afuera", "rechazado", "conectado",
                              "suspendido", "reanudar", "fin", "cerrado"}]
          /\ lsch \in [Procs -> Estados]
  BY DEF TypeOK, TipoImagenes, Mensajes

-----------------------------------------------------------------------------
(* The steps that write to sendingList, to LPS or to pi.                   *)
LEMMA Avisos_LTSAcepta ==
    ASSUME TypeOK, AvisosCoherentes, MismosFin, NEW p \in Procs, LTSAcepta(p)
    PROVE AvisosCoherentes'
<1>1. /\ pi[p] \in {"afuera", "rechazado"}
      /\ \E q \in {"rechazado", "conectado"} : pi' = [pi EXCEPT ![p] = q]
      /\ UNCHANGED <<sendingList, LPS, procer>>
  BY DEF LTSAcepta
<1>2. PICK q \in {"rechazado", "conectado"} : pi' = [pi EXCEPT ![p] = q]
  BY <1>1
<1>3. pi'[p] = q /\ \A r \in Procs \ {p} : pi'[r] = pi[r]
  BY <1>2, Cartas
<1>4. \A r \in Procs : /\ PorAvisar(r)' <=> PorAvisar(r)
                       /\ Finado(r)' <=> Finado(r)
  BY <1>1 DEF PorAvisar, img, MismosFin
<1>5. Aviso(sendingList[p], p \in LPS, Finado(p), pi[p], PorAvisar(p))
  BY AvisoPorProceso DEF AvisoDe
<1>6. Aviso(sendingList[p], p \in LPS, Finado(p), q, PorAvisar(p))
  BY <1>1, <1>5 DEF Aviso, UnoSi
<1>7. Aviso(sendingList[p], p \in LPS, Finado(p)', q, PorAvisar(p)')
  BY <1>4, <1>6, AvisoEquiv
<1>8. AvisoDe(p)'
  BY <1>1, <1>3, <1>7 DEF AvisoDe
<1>. QED BY <1>1, <1>3, <1>4, <1>8, AvisoUno

LEMMA LugarLPS ==
    ASSUME LugarInv, NEW p \in Procs, p \in LPS PROVE lsch[p] = "Suspendido"
<1>1. "LPS" \in Sitios /\ Clase["LPS"] = "Suspendido"
  BY LosSitios DEF Clase
<1>2. En("LPS", p) = 1
  BY DEF En, EnMano, UnoSi, Colas, Entradas
<1>. QED BY <1>1, <1>2 DEF LugarInv, EnSuClase

LEMMA Avisos_LTSReanuda ==
    ASSUME TypeOK, LugarInv, AvisosCoherentes, MismosFin, NEW p \in Procs,
           LTSReanuda(p)
    PROVE AvisosCoherentes'
<1>1. Aviso(sendingList[p], p \in LPS, Finado(p), "reanudar", PorAvisar(p))
  BY AvisoPorProceso DEF AvisoDe, LTSReanuda
<1>2. p \in LPS /\ ~ PorAvisar(p)
  BY <1>1 DEF Aviso, UnoSi
<1>3. /\ pi' = [pi EXCEPT ![p] = "conectado"] /\ LPS' = LPS \ {p}
      /\ UNCHANGED <<sendingList, procer>>
  BY <1>2 DEF LTSReanuda, restoreSuspended
<1>4. /\ pi'[p] = "conectado" /\ p \notin LPS'
      /\ \A r \in Procs \ {p} : pi'[r] = pi[r] /\ (r \in LPS' <=> r \in LPS)
  BY <1>3, Cartas
<1>5. \A r \in Procs : /\ PorAvisar(r)' <=> PorAvisar(r)
                       /\ Finado(r)' <=> Finado(r)
  BY <1>3 DEF PorAvisar, img, MismosFin
<1>6. Aviso(sendingList[p], FALSE, Finado(p), "conectado", FALSE)
  BY <1>1, <1>2 DEF Aviso, UnoSi
<1>7. Aviso(sendingList[p], p \in LPS', Finado(p)', "conectado", PorAvisar(p)')
  <2>1. ~ Finado(p) /\ ~ Finado(p)'
    BY <1>2, <1>5, LugarLPS DEF Finado
  <2>2. /\ FALSE <=> p \in LPS'
        /\ FALSE <=> PorAvisar(p)'
        /\ FALSE <=> Finado(p)'
    BY <1>2, <1>4, <1>5, <2>1
  <2>3. Aviso(sendingList[p], FALSE, FALSE, "conectado", FALSE)
    BY <1>6, <2>1 DEF Aviso, UnoSi
  <2>. QED BY <2>2, <2>3, AvisoEquiv
<1>8. AvisoDe(p)'
  BY <1>3, <1>4, <1>7 DEF AvisoDe
<1>. QED BY <1>3, <1>4, <1>5, <1>8, AvisoUno

LEMMA Avisos_LTSEnvia ==
    ASSUME TypeOK, AvisosCoherentes, MismosFin, NEW p \in Procs, LTSEnvia(p)
    PROVE AvisosCoherentes'
<1> DEFINE m == sendingList[p]
           q == IF Head(m) = "S" THEN "suspendido"
                ELSE IF Head(m) = "T" THEN "fin" ELSE "conectado"
<1>1. /\ pi[p] = "conectado" /\ m # <<>> /\ m \in Seq(Mensajes)
      /\ UNCHANGED <<LPS, procer>>
  BY Cartas DEF LTSEnvia, hilosPP
<1>2. /\ sendingList' = [sendingList EXCEPT ![p] = Tail(m)]
      /\ pi' = [pi EXCEPT ![p] = q]
  BY <1>1 DEF LTSEnvia
<1>. HIDE DEF q
<1>3. /\ sendingList'[p] = Tail(m) /\ pi'[p] = q
      /\ \A r \in Procs \ {p} : sendingList'[r] = sendingList[r]
                                 /\ pi'[r] = pi[r]
  BY <1>2, Cartas
<1>4. \A r \in Procs : /\ PorAvisar(r)' <=> PorAvisar(r)
                       /\ Finado(r)' <=> Finado(r)
  BY <1>1 DEF PorAvisar, img, MismosFin
<1>5. Aviso(m, p \in LPS, Finado(p), "conectado", PorAvisar(p))
  BY <1>1, AvisoPorProceso DEF AvisoDe
<1>6. Aviso(Tail(m), p \in LPS, Finado(p), q, PorAvisar(p))
  <2>1. /\ (p \in LPS) \in BOOLEAN /\ Finado(p) \in BOOLEAN
        /\ PorAvisar(p) \in BOOLEAN
    BY DEF Finado, PorAvisar
  <2>. HIDE DEF m
  <2>. QED BY <1>1, <1>5, <2>1, AvisoEnvia DEF q
<1>7. Aviso(Tail(m), p \in LPS, Finado(p)', q, PorAvisar(p)')
  BY <1>4, <1>6, AvisoEquiv
<1>8. AvisoDe(p)'
  BY <1>1, <1>3, <1>7 DEF AvisoDe
<1>. QED BY <1>1, <1>3, <1>4, <1>8, AvisoUno

LEMMA Avisos_PIReanuda ==
    ASSUME TypeOK, AvisosCoherentes, MismosFin, NEW p \in Procs, PIReanuda(p)
    PROVE AvisosCoherentes'
<1>1. /\ pi[p] = "suspendido" /\ pi' = [pi EXCEPT ![p] = "reanudar"]
      /\ UNCHANGED <<sendingList, LPS, procer>>
  BY DEF PIReanuda, hilosPP
<1>2. pi'[p] = "reanudar" /\ \A r \in Procs \ {p} : pi'[r] = pi[r]
  BY <1>1, Cartas
<1>3. \A r \in Procs : /\ PorAvisar(r)' <=> PorAvisar(r)
                       /\ Finado(r)' <=> Finado(r)
  BY <1>1 DEF PorAvisar, img, MismosFin
<1>4. Aviso(sendingList[p], p \in LPS, Finado(p), "suspendido", PorAvisar(p))
  BY <1>1, AvisoPorProceso DEF AvisoDe
<1>5. Aviso(sendingList[p], p \in LPS, Finado(p), "reanudar", PorAvisar(p))
  BY <1>4 DEF Aviso, UnoSi
<1>6. Aviso(sendingList[p], p \in LPS, Finado(p)', "reanudar", PorAvisar(p)')
  BY <1>3, <1>5, AvisoEquiv
<1>7. AvisoDe(p)'
  BY <1>1, <1>2, <1>6 DEF AvisoDe
<1>. QED BY <1>1, <1>2, <1>3, <1>7, AvisoUno

(* A message to the client of the process in execution.                    *)
LEMMA Avisos_Ejecuta ==
    ASSUME TypeOK, LugarInv, AvisosCoherentes, MismosFin, NEW T, Ejecuta(T),
           Envia(img, "N"), UNCHANGED <<pi, LPS>>,
           procer'.pc \in {"ejecuta", "colgado"}
    PROVE AvisosCoherentes'
<1>1. /\ procer.pc = "ejecuta" /\ ~ procer.ioBlock /\ img \in Procs
  BY EnElLazo
<1>2. /\ img \notin LPS /\ ~ Finado(img)
      /\ Aviso(sendingList[img], FALSE, FALSE, pi[img], FALSE)
  BY <1>1, EnEjecucion
<1>3. \A r \in Procs : /\ ~ PorAvisar(r)' /\ ~ PorAvisar(r)
                       /\ Finado(r)' <=> Finado(r)
  BY <1>1 DEF PorAvisar, MismosFin
<1>4. Aviso(Append(sendingList[img], "N"), FALSE, FALSE, pi[img], FALSE)
  BY <1>1, <1>2, Cartas, AvisoN
<1>5. /\ sendingList'[img] = Append(sendingList[img], "N")
      /\ \A r \in Procs \ {img} : sendingList'[r] = sendingList[r]
  BY <1>1, Cartas DEF Envia
<1>6. ASSUME NEW p \in Procs, p = img PROVE AvisosCoherentes'
  <2>1. Aviso(sendingList'[p], p \in LPS', Finado(p)', pi'[p], PorAvisar(p)')
    <3>1. /\ FALSE <=> p \in LPS'
          /\ FALSE <=> PorAvisar(p)'
          /\ FALSE <=> Finado(p)'
      BY <1>2, <1>3, <1>6
    <3>2. Aviso(sendingList'[p], FALSE, FALSE, pi'[p], FALSE)
      BY <1>4, <1>5, <1>6
    <3>. QED BY <3>1, <3>2, AvisoEquiv
  <2>2. AvisoDe(p)'
    BY <2>1 DEF AvisoDe
  <2>. QED BY <1>3, <1>5, <1>6, <2>2, AvisoUno
<1>. QED BY <1>1, <1>6

LEMMA Avisos_ProcerFinaliza ==
    ASSUME TypeOK, LugarInv, AvisosCoherentes, ProcerFinaliza
    PROVE AvisosCoherentes'
<1>1. /\ procer.pc = "decide" /\ ~ procer.ioBlock /\ img \in Procs
      /\ procer'.pc = "libera"
  BY AlDecidir DEF ProcerFinaliza, LugarInv, BloqueaAntesDelFin, TypeOK,
                   TipoPROCER, LocalesPROCER
<1>2. /\ img \notin LPS
      /\ Aviso(sendingList[img], FALSE, FALSE, pi[img], FALSE)
  BY <1>1, EnEjecucion
<1>3. /\ UNCHANGED <<pi, LPS>>
      /\ \A r \in Procs : ~ PorAvisar(r)' /\ ~ PorAvisar(r)
  BY <1>1 DEF PorAvisar, ProcerFinaliza
<1>4. Aviso(Append(sendingList[img], "T"), FALSE, TRUE, pi[img], FALSE)
  BY <1>1, <1>2, Cartas, AvisoT
<1>5. /\ sendingList'[img] = Append(sendingList[img], "T")
      /\ \A r \in Procs \ {img} : sendingList'[r] = sendingList[r]
  BY <1>1, Cartas DEF Envia, ProcerFinaliza
<1>6. lsch' = [lsch EXCEPT ![img] = "Finalizado"]
  BY DEF ProcerFinaliza
<1>7. ASSUME NEW p \in Procs, p = img PROVE AvisosCoherentes'
  <2>1. Finado(p)'
    BY <1>1, <1>6, <1>7, Cartas DEF Finado
  <2>2. Aviso(sendingList'[p], p \in LPS', Finado(p)', pi'[p], PorAvisar(p)')
    <3>1. /\ FALSE <=> p \in LPS'
          /\ FALSE <=> PorAvisar(p)'
          /\ TRUE <=> Finado(p)'
      BY <1>2, <1>3, <1>7, <2>1
    <3>2. Aviso(sendingList'[p], FALSE, TRUE, pi'[p], FALSE)
      BY <1>3, <1>4, <1>5, <1>7
    <3>. QED BY <3>1, <3>2, AvisoEquiv
  <2>3. AvisoDe(p)'
    BY <2>2 DEF AvisoDe
  <2>4. \A r \in Procs \ {p} : Finado(r)' <=> Finado(r)
    BY <1>6, <1>7, Cartas DEF Finado
  <2>. QED BY <1>3, <1>5, <1>7, <2>3, <2>4, AvisoUno
<1>. QED BY <1>1, <1>7

LEMMA Avisos_ProcerSuspende ==
    ASSUME TypeOK, LugarInv, AvisosCoherentes, MismosFin, ProcerSuspende
    PROVE AvisosCoherentes'
<1>1. /\ procer.pc = "decide" /\ ~ procer.ioBlock /\ img \in Procs
      /\ procer'.pc = "suspende" /\ procer'.img = img
  BY AlDecidir DEF ProcerSuspende, TypeOK, TipoPROCER, LocalesPROCER, img
<1>2. /\ ~ Finado(img)
      /\ Aviso(sendingList[img], FALSE, FALSE, pi[img], FALSE)
  BY <1>1, EnEjecucion
<1>3. /\ LPS' = LPS \cup {img} /\ UNCHANGED <<pi, sendingList>>
  BY DEF ProcerSuspende
<1>4. Aviso(sendingList[img], TRUE, FALSE, pi[img], TRUE)
  BY <1>2 DEF Aviso, UnoSi
<1>5. ASSUME NEW p \in Procs, p = img PROVE AvisosCoherentes'
  <2>1. p \in LPS' /\ PorAvisar(p)' /\ ~ Finado(p)'
    BY <1>1, <1>2, <1>3, <1>5 DEF PorAvisar, img, MismosFin
  <2>2. Aviso(sendingList'[p], p \in LPS', Finado(p)', pi'[p], PorAvisar(p)')
    <3>1. /\ TRUE <=> p \in LPS'
          /\ TRUE <=> PorAvisar(p)'
          /\ FALSE <=> Finado(p)'
      BY <2>1
    <3>2. Aviso(sendingList'[p], TRUE, FALSE, pi'[p], TRUE)
      BY <1>3, <1>4, <1>5
    <3>. QED BY <3>1, <3>2, AvisoEquiv
  <2>3. AvisoDe(p)'
    BY <2>2 DEF AvisoDe
  <2>4. \A r \in Procs \ {p} : /\ r \in LPS' <=> r \in LPS
                               /\ PorAvisar(r)' <=> PorAvisar(r)
    BY <1>1, <1>3, <1>5 DEF PorAvisar, img
  <2>. QED BY <1>3, <2>3, <2>4, AvisoUno DEF MismosFin
<1>. QED BY <1>1, <1>5

LEMMA Avisos_ProcerAvisaPI ==
    ASSUME TypeOK, LugarInv, AvisosCoherentes, MismosFin, ProcerAvisaPI
    PROVE AvisosCoherentes'
<1>1. /\ procer.pc = "suspende" /\ img \in Procs /\ PorAvisar(img)
      /\ procer'.pc = "espera"
  BY DEF ProcerAvisaPI, ProcerVuelve, TypeOK, TipoPROCER, img, PorAvisar
<1>2. UNCHANGED <<pi, LPS>> /\ \A r \in Procs : ~ PorAvisar(r)'
  BY <1>1 DEF PorAvisar, ProcerAvisaPI
<1>3. Aviso(sendingList[img], img \in LPS, Finado(img), pi[img],
            PorAvisar(img))
  BY <1>1, AvisoPorProceso DEF AvisoDe
<1>4. img \in LPS
  BY <1>1, <1>3 DEF Aviso, UnoSi
<1>5. ~ Finado(img)
  BY <1>1, <1>4, LugarLPS DEF Finado
<1>6. Aviso(sendingList[img], TRUE, FALSE, pi[img], TRUE)
  BY <1>1, <1>3, <1>4, <1>5 DEF Aviso, UnoSi
<1>7. Aviso(Append(sendingList[img], "S"), TRUE, FALSE, pi[img], FALSE)
  BY <1>1, <1>6, Cartas, AvisoS
<1>8. /\ sendingList'[img] = Append(sendingList[img], "S")
      /\ \A r \in Procs \ {img} : sendingList'[r] = sendingList[r]
  BY <1>1, Cartas DEF Envia, ProcerAvisaPI
<1>9. ASSUME NEW p \in Procs, p = img PROVE AvisosCoherentes'
  <2>1. Aviso(sendingList'[p], p \in LPS', Finado(p)', pi'[p], PorAvisar(p)')
    <3>1. /\ TRUE <=> p \in LPS'
          /\ FALSE <=> PorAvisar(p)'
          /\ FALSE <=> Finado(p)'
      BY <1>2, <1>4, <1>5, <1>9 DEF MismosFin
    <3>2. Aviso(sendingList'[p], TRUE, FALSE, pi'[p], FALSE)
      BY <1>2, <1>7, <1>8, <1>9
    <3>. QED BY <3>1, <3>2, AvisoEquiv
  <2>2. AvisoDe(p)'
    BY <2>1 DEF AvisoDe
  <2>3. \A r \in Procs \ {p} : PorAvisar(r)' <=> PorAvisar(r)
    BY <1>2, <1>9 DEF PorAvisar
  <2>. QED BY <1>2, <1>8, <1>9, <2>2, <2>3, AvisoUno DEF MismosFin
<1>. QED BY <1>1, <1>9

(* Everything else says nothing to anybody, nor ends a process.            *)
Callado ==
    /\ UNCHANGED <<pi, LPS, sendingList>>
    /\ \A r \in Procs : PorAvisar(r)' <=> PorAvisar(r)

LEMMA CalladoOtro ==
    ASSUME UNCHANGED <<pi, LPS, sendingList, procer>> PROVE Callado
  BY DEF Callado, PorAvisar, img

LEMMA CalladoPROCER ==
    ASSUME UNCHANGED <<pi, LPS, sendingList>>, procer.pc # "suspende",
           procer'.pc # "suspende"
    PROVE Callado
  BY DEF Callado, PorAvisar, img

(* What the step writes to lsch, if it is not ProcerFinaliza.              *)
LEMMA Escribe ==
    ASSUME TypeOK, ~ ProcerFinaliza, Next,
           Ciclo!Next \/ UNCHANGED lsch
    PROVE MismosFin
<1>1. UNCHANGED lsch => MismosFin
  BY DEF MismosFin, Finado
<1>2. (\E p, e : e # "Finalizado" /\ lsch' = [lsch EXCEPT ![p] = e])
         => MismosFin
  BY NadieTermina
<1>3. CASE LTSconex \/ LTSnew
  <2>1. \/ UNCHANGED lsch
        \/ \E p : lsch' = [lsch EXCEPT ![p] = "Nuevos"]
        \/ \E p : lsch' = [lsch EXCEPT ![p] = "FIFO"]
        \/ \E p : lsch' = [lsch EXCEPT ![p] = "Reanudados"]
    <3>1. ASSUME NEW p \in Procs, LTSAcepta(p)
          PROVE \/ UNCHANGED lsch
                \/ lsch' = [lsch EXCEPT ![p] = "Nuevos"]
                \/ lsch' = [lsch EXCEPT ![p] = "FIFO"]
      BY <3>1 DEF LTSAcepta
    <3>2. ASSUME NEW p \in Procs, LTSReanuda(p)
          PROVE UNCHANGED lsch \/ lsch' = [lsch EXCEPT ![p] = "Reanudados"]
      BY <3>2 DEF LTSReanuda
    <3>3. CASE NewToma
      BY <3>3 DEF NewToma
    <3>. QED BY <1>3, <3>1, <3>2, <3>3
             DEF LTSconex, LTSDemora, LTSEncola, LTSAvisa, LTSEnvia, LTSnew,
                 NewEncola, NewAvisa, imagenes
  <2>. QED BY <1>1, <1>2, <2>1
<1>4. CASE STS
  <2>1. \/ UNCHANGED lsch
        \/ \E p : lsch' = [lsch EXCEPT ![p] = "Listos"]
    <3>1. CASE STSPop
      BY <3>1 DEF STSPop
    <3>. QED BY <1>4, <3>1
             DEF STS, STSEspera, STSCola, STSToma, STSAvanza, STSPush,
                 STSInserta, imagenes
  <2>. QED BY <1>1, <1>2, <2>1
<1>5. CASE PROCER
  <2>1. \/ UNCHANGED lsch
        \/ \E p : lsch' = [lsch EXCEPT ![p] = "Ejecucion"]
        \/ \E p : lsch' = [lsch EXCEPT ![p] = "Bloqueado"]
        \/ \E p : lsch' = [lsch EXCEPT ![p] = "Suspendido"]
        \/ \E p : lsch' = [lsch EXCEPT ![p] = "Fin de Quantum"]
    <3>1. CASE ProcerPop
      BY <3>1 DEF ProcerPop
    <3>2. CASE EjecutaIOBloqueante
      BY <3>2 DEF EjecutaIOBloqueante
    <3>3. CASE ProcerSuspende
      BY <3>3 DEF ProcerSuspende
    <3>4. CASE ProcerFinQuantum
      BY <3>4 DEF ProcerFinQuantum
    <3>. QED BY <1>5, <3>1, <3>2, <3>3, <3>4
             DEF PROCER, processExecution, ProcerEspera, EjecutaSimple,
                 EjecutaSalto, EjecutaIONoBloqueante, EjecutaXIO0, ProcerSale,
                 ProcerLibera, ProcerBloqueado, ProcerAvisaPI, ProcerAvisa,
                 imagenes
  <2>. QED BY <1>1, <1>2, <2>1
<1>6. CASE \E h \in Hilos : ioThread(h)
  <2>1. \/ UNCHANGED lsch
        \/ \E p : lsch' = [lsch EXCEPT ![p] = "Fin I/O"]
    BY <1>6 DEF ioThread, IOToma, IOPop, IOEncola, IOAvisa, IOFin, imagenes
  <2>. QED BY <1>1, <1>2, <2>1
<1>7. CASE configure \/ SIGUSR1 \/ \E p \in Procs : PIReanuda(p)
  <2>1. UNCHANGED lsch
    BY <1>7 DEF configure, ConfLee, ConfCopia, ConfCierra, ConfFin, SIGUSR1,
                PIReanuda, imagenes
  <2>. QED BY <1>1, <2>1
<1>. QED BY <1>3, <1>4, <1>5, <1>6, <1>7 DEF Next

LEMMA CalladosPROCER ==
    ASSUME TypeOK, PROCER, ~ ProcerFinaliza, ~ ProcerSuspende,
           ~ ProcerAvisaPI, UNCHANGED sendingList
    PROVE Callado
<1>1. procer \in LocalesPROCER
  BY DEF TypeOK, TipoPROCER
<1>2. UNCHANGED <<pi, LPS>> /\ procer.pc # "suspende"
  BY DEF PROCER, processExecution, ProcerEspera, ProcerPop, EjecutaSimple,
         EjecutaSalto, EjecutaIOBloqueante, EjecutaIONoBloqueante, EjecutaXIO0,
         Ejecuta, ProcerSale, ProcerLibera, ProcerBloqueado, ProcerFinQuantum,
         ProcerAvisa
<1>3. procer'.pc # "suspende"
  <2>1. CASE ProcerLibera \/ ProcerBloqueado \/ ProcerAvisa
    BY <2>1 DEF ProcerLibera, ProcerBloqueado, ProcerAvisa, ProcerVuelve
  <2>2. CASE ProcerEspera \/ ProcerSale \/ ProcerFinQuantum
    BY <1>1, <2>2 DEF ProcerEspera, ProcerSale, ProcerFinQuantum,
                      LocalesPROCER
  <2>3. CASE ProcerPop
    <3>1. \/ procer' = [procer EXCEPT !.pc = "segv"]
          \/ procer' = [pc |-> "ejecuta", img |-> Head(cola["LPL"]),
                        quantumCount |-> 0, rafaga |-> 0, ioBlock |-> FALSE]
      BY <2>3 DEF ProcerPop
    <3>. QED BY <1>1, <3>1 DEF LocalesPROCER
  <2>4. CASE processExecution
    BY <1>1, <1>2, <2>4
       DEF processExecution, EjecutaSimple, EjecutaSalto, EjecutaIOBloqueante,
           EjecutaIONoBloqueante, EjecutaXIO0, Computa, LocalesPROCER
  <2>. QED BY <2>1, <2>2, <2>3, <2>4 DEF PROCER
<1>. QED BY <1>2, <1>3, CalladoPROCER

(* Of the statements only these send a message.                            *)
LEMMA Avisos_processExecution ==
    ASSUME TypeOK, LugarInv, AvisosCoherentes, MismosFin, processExecution,
           ~ UNCHANGED sendingList
    PROVE AvisosCoherentes'
<1>1. procer \in LocalesPROCER
  BY DEF TypeOK, TipoPROCER
<1>2. CASE EjecutaSimple
  <2>1. /\ Envia(img, "N") /\ UNCHANGED <<pi, LPS>> /\ procer.pc = "ejecuta"
        /\ Computa(FALSE)
    BY <1>2 DEF EjecutaSimple, Ejecuta
  <2>2. procer'.pc = "ejecuta"
    BY <1>1, <2>1 DEF Computa, LocalesPROCER
  <2>. QED BY <1>2, <2>1, <2>2, Avisos_Ejecuta DEF EjecutaSimple
<1>3. CASE EjecutaIONoBloqueante
  <2>1. /\ Envia(img, "N") /\ UNCHANGED <<pi, LPS>> /\ procer.pc = "ejecuta"
        /\ Computa(FALSE)
    BY <1>3 DEF EjecutaIONoBloqueante, Ejecuta
  <2>2. procer'.pc = "ejecuta"
    BY <1>1, <2>1 DEF Computa, LocalesPROCER
  <2>. QED BY <1>3, <2>1, <2>2, Avisos_Ejecuta DEF EjecutaIONoBloqueante
<1>4. CASE EjecutaXIO0
  <2>1. /\ Envia(img, "N") /\ UNCHANGED <<pi, LPS>> /\ procer.pc = "ejecuta"
        /\ Computa(FALSE)
    BY <1>4 DEF EjecutaXIO0, Ejecuta
  <2>2. procer'.pc = "ejecuta"
    BY <1>1, <2>1 DEF Computa, LocalesPROCER
  <2>. QED BY <1>4, <2>1, <2>2, Avisos_Ejecuta DEF EjecutaXIO0
<1>. QED BY <1>2, <1>3, <1>4
         DEF processExecution, EjecutaSalto, EjecutaIOBloqueante

LEMMA AvisosPaso ==
    ASSUME TypeOK, LugarInv, AvisosCoherentes, [Next]_vars,
           Ciclo!Next \/ UNCHANGED lsch
    PROVE AvisosCoherentes'
<1>1. CASE ProcerFinaliza
  BY <1>1, Avisos_ProcerFinaliza
<1>2. CASE UNCHANGED vars
  <2>1. Callado /\ MismosFin
    BY <1>2, CalladoOtro DEF vars, MismosFin, Finado
  <2>. QED BY <2>1, AvisoIgual DEF Callado
<1>3. CASE Next /\ ~ ProcerFinaliza
  <2>1. MismosFin
    BY <1>3, Escribe
  <2>2. Callado => AvisosCoherentes'
    BY <2>1, AvisoIgual DEF Callado
  <2>3. CASE LTSconex
    <3>1. CASE LTSDemora \/ LTSEncola \/ LTSAvisa
      BY <2>2, <3>1, CalladoOtro DEF LTSDemora, LTSEncola, LTSAvisa
    <3>. QED BY <2>1, <2>3, <3>1, Avisos_LTSAcepta, Avisos_LTSReanuda,
                Avisos_LTSEnvia
             DEF LTSconex
  <2>4. CASE LTSnew \/ STS
    BY <2>2, <2>4, CalladoOtro
       DEF LTSnew, NewToma, NewEncola, NewAvisa, STS, STSEspera, STSCola,
           STSToma, STSAvanza, STSPop, STSPush, STSInserta
  <2>5. CASE PROCER
    <3>1. CASE ProcerSuspende \/ ProcerAvisaPI
      BY <2>1, <3>1, Avisos_ProcerSuspende, Avisos_ProcerAvisaPI
    <3>2. CASE ~ ProcerSuspende /\ ~ ProcerAvisaPI /\ UNCHANGED sendingList
      BY <1>3, <2>2, <2>5, <3>2, CalladosPROCER
    <3>3. CASE ~ ProcerSuspende /\ ~ ProcerAvisaPI /\ ~ UNCHANGED sendingList
      <4>1. processExecution
        BY <1>3, <2>5, <3>3
           DEF PROCER, ProcerEspera, ProcerPop, ProcerSale, ProcerLibera,
               ProcerBloqueado, ProcerFinQuantum, ProcerAvisa
      <4>. QED BY <2>1, <3>3, <4>1, Avisos_processExecution
    <3>. QED BY <3>1, <3>2, <3>3
  <2>6. CASE configure \/ SIGUSR1 \/ \E h \in Hilos : ioThread(h)
    BY <2>2, <2>6, CalladoOtro
       DEF configure, ConfLee, ConfCopia, ConfCierra, ConfFin, SIGUSR1,
           ioThread, IOToma, IOPop, IOEncola, IOAvisa, IOFin, hilosPP
  <2>7. CASE \E p \in Procs : PIReanuda(p)
    BY <2>1, <2>7, Avisos_PIReanuda
  <2>. QED BY <1>3, <2>3, <2>4, <2>5, <2>6, <2>7 DEF Next
<1>. QED BY <1>1, <1>2, <1>3

(* The client of a suspended process has exactly one way of learning of    *)
(* it, whatever the algorithm, so the R of a PI always finds its image in  *)
(* LPS and the branch of LTSconex for one that is not there is never       *)
(* taken; T is the last message of a client, and only for a process that   *)
(* has ended.                                                              *)
THEOREM AvisosCorrectos == Spec => []AvisosCoherentes
<1>1. Init => CuposInv /\ AvisosCoherentes
  BY CuposInit, AvisosIniciales
<1>2. /\ TypeOK /\ TypeOK' /\ SemInv /\ LugarInv /\ CuposInv
      /\ AvisosCoherentes /\ [Next]_vars
      => CuposInv' /\ AvisosCoherentes'
  BY CicloPaso, AvisosPaso
<1>. QED BY <1>1, <1>2, SemInvSiempre, LugarCorrecto, PTL DEF Spec

-----------------------------------------------------------------------------
(***************************************************************************)
(* The order of the ready queue.  LPL never holds more images than         *)
(* LPL_empty has tokens and PROCER in its hands, so an insertion pops all  *)
(* of them; the STS works with the copy it made of ALG; and it pushes one  *)
(* image at a time only under FIFO and RR.                                 *)
(***************************************************************************)
CotaLPL     == Len(cola["LPL"]) <= sem["LPL"] + UnoSi(procer.pc = "pop")
RondaPropia == sts.pc # "espera" => sts.alg = ALG
PushSinLote == sts.pc = "push" => ~ PorLotes(sts.alg)

(* The algorithm is never changed: there is no change of pp.config, or     *)
(* none that is to another algorithm.                                      *)
UnAlgoritmo == MaxCambios = 0 \/ \E a : Algs = {a}

(* The steps that write LPL or LPL_empty, or take one of its tokens.       *)
TocaLPL == \/ STSPush \/ STSInserta \/ ProcerEspera \/ ProcerPop
           \/ \E alg \in Algs, pr \in PrioColas : ConfLee(alg, pr)
IgualesLPL == /\ cola'["LPL"] = cola["LPL"] /\ sem'["LPL"] = sem["LPL"]
              /\ procer.pc = "pop" <=> procer'.pc = "pop"

(* A push to another queue.                                                *)
LEMMA EncolaAjena ==
    ASSUME TypeOK, NEW q \in Colas \ {"LPL"}, NEW p, Encola(q, p)
    PROVE cola'["LPL"] = cola["LPL"] /\ sem'["LPL"] = sem["LPL"]
  BY DEF Encola, TypeOK, TipoColas, TipoSem, Colas, Semaforos

LEMMA AvisaAjena ==
    ASSUME TypeOK, Avisa PROVE sem'["LPL"] = sem["LPL"]
  BY DEF Avisa, TypeOK, TipoSem, Semaforos, Colas

LEMMA AjenoLTSyNew ==
    ASSUME TypeOK, LTSconex \/ LTSnew PROVE IgualesLPL
<1>1. CASE LTSEncola
  <2>1. lts.q \in Colas \ {"LPL"}
    BY DEF TypeOK, TipoLTS, Colas, Entradas
  <2>. QED BY <1>1, <2>1, EncolaAjena DEF LTSEncola, IgualesLPL
<1>2. CASE LTSDemora
  <2>1. "LFIFO" \in Colas \ {"LPL"}
    BY DEF Colas
  <2>. QED BY <1>2, <2>1, EncolaAjena DEF LTSDemora, IgualesLPL
<1>3. CASE NewEncola
  <2>1. "LPN" \in Colas \ {"LPL"}
    BY DEF Colas, Entradas
  <2>. QED BY <1>3, <2>1, EncolaAjena DEF NewEncola, IgualesLPL
<1>4. CASE LTSAvisa \/ NewAvisa
  BY <1>4, AvisaAjena DEF LTSAvisa, NewAvisa, IgualesLPL
<1>5. CASE \E p \in Procs : LTSAcepta(p) \/ LTSReanuda(p) \/ LTSEnvia(p)
  BY <1>5 DEF LTSAcepta, LTSReanuda, LTSEnvia, IgualesLPL, imagenes, hilosPP,
              TypeOK, TipoSem, Semaforos, Colas
<1>6. CASE NewToma
  BY <1>6 DEF NewToma, IgualesLPL, TypeOK, TipoColas, TipoSem, Semaforos, Colas
<1>. QED BY <1>1, <1>2, <1>3, <1>4, <1>5, <1>6 DEF LTSconex, LTSnew

LEMMA AjenoSTS ==
    ASSUME TypeOK, STSEspera \/ STSCola \/ STSToma \/ STSAvanza \/ STSPop
    PROVE IgualesLPL
<1>1. sts.q \in Entradas /\ sts.q \in Semaforos \ {"LPL"}
      /\ sts.q \in Colas \ {"LPL"}
  BY DEF TypeOK, TipoSTS, LocalesSTS, Entradas, Semaforos, Colas
<1>2. CASE STSEspera \/ STSCola \/ STSAvanza
  BY <1>2 DEF STSEspera, STSCola, STSAvanza, IgualesLPL
<1>3. CASE STSToma
  BY <1>1, <1>3 DEF STSToma, IgualesLPL, TypeOK, TipoSem, Semaforos, Colas
<1>4. CASE STSPop
  BY <1>1, <1>4 DEF STSPop, IgualesLPL, TypeOK, TipoColas, Colas
<1>. QED BY <1>2, <1>3, <1>4

LEMMA AjenoPROCER ==
    ASSUME TypeOK, PROCER, ~ ProcerEspera, ~ ProcerPop PROVE IgualesLPL
<1>1. procer \in LocalesPROCER
  BY DEF TypeOK, TipoPROCER
<1>2. CASE ProcerFinQuantum
  <2>1. "LFQ" \in Colas \ {"LPL"}
    BY DEF Colas, Entradas
  <2>2. procer.pc = "decide" /\ procer'.pc = "avisa"
    BY <1>1, <1>2 DEF ProcerFinQuantum, LocalesPROCER
  <2>3. Encola("LFQ", img)
    BY <1>2 DEF ProcerFinQuantum
  <2>. QED BY <2>1, <2>2, <2>3, EncolaAjena DEF IgualesLPL
<1>3. CASE ProcerAvisa
  BY <1>3, AvisaAjena DEF ProcerAvisa, ProcerVuelve, IgualesLPL
<1>4. CASE EjecutaIOBloqueante \/ EjecutaIONoBloqueante
  BY <1>1, <1>4
     DEF EjecutaIOBloqueante, EjecutaIONoBloqueante, PideIO, Ejecuta, Computa,
         IgualesLPL, LocalesPROCER, TypeOK, TipoSem, Semaforos, Colas
<1>5. CASE EjecutaSimple \/ EjecutaSalto \/ EjecutaXIO0
  BY <1>1, <1>5
     DEF EjecutaSimple, EjecutaSalto, EjecutaXIO0, Ejecuta, Computa,
         IgualesLPL, LocalesPROCER
<1>6. CASE ProcerSale \/ ProcerFinaliza
  BY <1>1, <1>6 DEF ProcerSale, ProcerFinaliza, IgualesLPL, LocalesPROCER
<1>7. CASE ProcerBloqueado \/ ProcerAvisaPI
  BY <1>7 DEF ProcerBloqueado, ProcerAvisaPI, ProcerVuelve, IgualesLPL
<1>8. CASE ProcerLibera \/ ProcerSuspende
  BY <1>1, <1>8
     DEF ProcerLibera, ProcerSuspende, ProcerVuelve, IgualesLPL, LocalesPROCER,
         TypeOK, TipoSem, Semaforos, Colas
<1>. QED BY <1>2, <1>3, <1>4, <1>5, <1>6, <1>7, <1>8
         DEF PROCER, processExecution

LEMMA AjenoIO ==
    ASSUME TypeOK, NEW h \in Hilos, ioThread(h) PROVE IgualesLPL
<1>1. CASE IOEncola(h)
  <2>1. "LFIO" \in Colas \ {"LPL"}
    BY DEF Colas, Entradas
  <2>. QED BY <1>1, <2>1, EncolaAjena DEF IOEncola, IgualesLPL
<1>2. CASE IOAvisa(h)
  BY <1>2, AvisaAjena DEF IOAvisa, IgualesLPL
<1>3. CASE IOToma(h) \/ IOPop(h) \/ IOFin(h)
  BY <1>3 DEF IOToma, IOPop, IOFin, IgualesLPL, TypeOK, TipoSem, Semaforos,
              Colas
<1>. QED BY <1>1, <1>2, <1>3 DEF ioThread

(* Every other step leaves LPL alone.                                      *)
LEMMA AjenoLPL ==
    ASSUME TypeOK, [Next]_vars, ~ TocaLPL PROVE IgualesLPL
<1>1. CASE UNCHANGED vars
  BY <1>1 DEF vars, IgualesLPL
<1>2. CASE STS
  BY <1>2, AjenoSTS DEF STS, TocaLPL
<1>3. CASE PROCER
  BY <1>3, AjenoPROCER DEF TocaLPL
<1>4. CASE configure
  <2>1. ConfCopia \/ ConfCierra \/ ConfFin
    BY <1>4 DEF configure, TocaLPL
  <2>. QED BY <2>1 DEF ConfCopia, ConfCierra, ConfFin, IgualesLPL
<1>5. CASE SIGUSR1 \/ \E p \in Procs : PIReanuda(p)
  BY <1>5 DEF SIGUSR1, PIReanuda, hilosPP, IgualesLPL
<1>. QED BY <1>1, <1>2, <1>3, <1>4, <1>5, AjenoLTSyNew, AjenoIO DEF Next

-----------------------------------------------------------------------------
(* With no more images than tokens the insertion pops all of them, and     *)
(* what it puts back is the batch in order, each image with its token.     *)
LEMMA InsertaOrdena ==
    ASSUME TypeOK, CotaLPL, NEW l \in Seq(Procs), NEW alg, Inserta(l, alg)
    PROVE /\ cola'["LPL"] \in Seq(Procs) /\ sem'["LPL"] \in Nat
          /\ Len(cola'["LPL"]) <= sem'["LPL"]
          /\ \A i \in 1 .. Len(cola'["LPL"]) - 1 :
                Clave(alg)[cola'["LPL"][i]] <= Clave(alg)[cola'["LPL"][i + 1]]
<1> DEFINE q == cola["LPL"]
           t == sem["LPL"]
           K == Clave(alg)
           r == orderInsert(l, q, t, K)
           k == Extraidos(Len(q), t)
           u == SubSeq(q, k + 1, Len(q))
           a == Antepone(SubSeq(q, 1, k), l)
           o == Burbuja(a, K)
<1>1. /\ q \in Seq(Procs) /\ t \in Nat /\ K \in Campos(Procs)
      /\ r.LPL \in Seq(Procs) /\ r.sem \in Nat
      /\ cola'["LPL"] = r.LPL /\ sem'["LPL"] = r.sem
  BY InsertaEs
<1>2. Insertada(Procs, l, q, t, K)
  BY <1>1, OrderInsertEs
<1>3. /\ Len(u) = Len(q) - k /\ u \in Seq(Procs)
      /\ a \in Seq(Procs) /\ o \in Seq(Procs) /\ Len(o) = Len(a)
      /\ r.LPL = u \o o /\ r.sem = (IF t >= k THEN t - k ELSE 0) + Len(o)
  BY <1>2, Zenon DEF Insertada
<1>4. Len(q) \in Nat /\ Len(q) <= t + 1
  BY <1>1 DEF CotaLPL, UnoSi
<1>5. k = Len(q)
  BY <1>1, <1>4 DEF Extraidos
<1>6. /\ Len(o) = Len(a) /\ Colocados(o, K, Len(a), Len(a))
  BY <1>1, <1>3, BurbujaEs
<1>. HIDE DEF r, u, o, a, k
<1>7. u = <<>>
  BY <1>3, <1>4, <1>5
<1>8. r.LPL = o
  <2>1. <<>> \o o = o
    BY <1>3
  <2>. QED BY <1>3, <1>7, <2>1
<1>9. Len(o) \in Nat
  BY <1>3
<1>10. Len(r.LPL) <= r.sem
  BY <1>1, <1>3, <1>4, <1>5, <1>8, <1>9
<1>11. \A i \in 1 .. Len(o) - 1 : K[o[i]] <= K[o[i + 1]]
  <2>1. TAKE i \in 1 .. Len(o) - 1
  <2>2. /\ i \in 1 .. Len(a) /\ i + 1 \in 1 .. Len(a) /\ i < i + 1
        /\ i + 1 > Len(a) - Len(a)
    BY <1>6, <1>9
  <2>. HIDE DEF K
  <2>. QED BY <1>6, <2>2 DEF Colocados
<1>. HIDE DEF K
<1>12. /\ cola'["LPL"] = o /\ cola'["LPL"] \in Seq(Procs)
       /\ sem'["LPL"] \in Nat /\ Len(cola'["LPL"]) <= sem'["LPL"]
  BY <1>1, <1>8, <1>10
<1>13. \A i \in 1 .. Len(cola'["LPL"]) - 1 :
           K[cola'["LPL"][i]] <= K[cola'["LPL"][i + 1]]
  BY <1>11, <1>12, Zenon
<1>. QED BY <1>12, <1>13 DEF K

(* What remains of a list in order after taking its head is in order.      *)
LEMMA ColaEnOrden ==
    ASSUME NEW S, NEW K \in Campos(S), NEW s \in Seq(S), s # <<>>,
           \A i \in 1 .. Len(s) - 1 : K[s[i]] <= K[s[i + 1]]
    PROVE \A i \in 1 .. Len(Tail(s)) - 1 : K[Tail(s)[i]] <= K[Tail(s)[i + 1]]
<1> DEFINE t == Tail(s)
<1>1. /\ Len(s) \in Nat /\ Len(t) = Len(s) - 1
      /\ \A i \in 1 .. Len(s) - 1 : t[i] = s[i + 1]
  OBVIOUS
<1>. HIDE DEF t
<1>2. ASSUME NEW i \in 1 .. Len(t) - 1 PROVE K[t[i]] <= K[t[i + 1]]
  <2>1. /\ i \in 1 .. Len(s) - 1 /\ i + 1 \in 1 .. Len(s) - 1
    BY <1>1
  <2>2. t[i] = s[i + 1] /\ t[i + 1] = s[(i + 1) + 1]
    BY <1>1, <2>1
  <2>. QED BY <2>1, <2>2
<1>. QED BY <1>2 DEF t

LEMMA CotaPaso ==
    ASSUME TypeOK, CotaLPL, [Next]_vars PROVE CotaLPL'
<1>1. CASE ~ TocaLPL
  BY <1>1, AjenoLPL DEF IgualesLPL, CotaLPL, UnoSi
<1>2. /\ sem["LPL"] \in Nat /\ Len(cola["LPL"]) \in Nat /\ "LPL" \in Colas
      /\ procer \in LocalesPROCER
  BY Largos DEF TypeOK, TipoSem, Semaforos, Colas, TipoPROCER
<1>3. CASE STSPush
  <2>1. sts.img \in Procs
    BY <1>3 DEF STSPush, TypeOK, TipoSTS, LocalesSTS
  <2>2. /\ Len(cola'["LPL"]) = Len(cola["LPL"]) + 1
        /\ sem'["LPL"] = sem["LPL"] + 1 /\ UNCHANGED procer
    BY <1>2, <1>3, <2>1, EfectoEncola DEF STSPush, TypeOK
  <2>. QED BY <1>2, <2>2 DEF CotaLPL, UnoSi
<1>4. ASSUME NEW l \in Seq(Procs), NEW alg, Inserta(l, alg) PROVE CotaLPL'
  <2>1. /\ Len(cola'["LPL"]) <= sem'["LPL"] /\ sem'["LPL"] \in Nat
        /\ cola'["LPL"] \in Seq(Procs)
    BY <1>4, InsertaOrdena
  <2>. QED BY <2>1 DEF CotaLPL, UnoSi
<1>5. CASE STSInserta
  <2>1. sts.prioList \in Seq(Procs) /\ Inserta(sts.prioList, sts.alg)
    BY <1>5 DEF STSInserta, TypeOK, TipoSTS, LocalesSTS
  <2>. QED BY <2>1, <1>4
<1>6. CASE ProcerEspera
  <2>1. /\ sem'["LPL"] = sem["LPL"] - 1 /\ cola'["LPL"] = cola["LPL"]
        /\ procer.pc # "pop" /\ procer'.pc = "pop"
    BY <1>2, <1>6 DEF ProcerEspera, LocalesPROCER, TypeOK, TipoSem, Semaforos
  <2>. QED BY <1>2, <2>1 DEF CotaLPL, UnoSi
<1>7. CASE ProcerPop
  <2>1. procer.pc = "pop" /\ procer'.pc # "pop" /\ sem'["LPL"] = sem["LPL"]
    BY <1>2, <1>7 DEF ProcerPop, LocalesPROCER
  <2>2. CASE cola["LPL"] = <<>>
    BY <1>2, <1>7, <2>1, <2>2 DEF ProcerPop, CotaLPL, UnoSi
  <2>3. CASE cola["LPL"] # <<>>
    <3>1. Len(cola'["LPL"]) = Len(cola["LPL"]) - 1
      BY <1>2, <1>7, <2>3, EfectoPop DEF ProcerPop, TypeOK
    <3>. QED BY <1>2, <2>1, <3>1 DEF CotaLPL, UnoSi
  <2>. QED BY <2>2, <2>3
<1>8. ASSUME NEW alg \in Algs, NEW pr \in PrioColas, ConfLee(alg, pr)
      PROVE CotaLPL'
  <2>1. CASE PorLotes(alg)
    <3>1. <<>> \in Seq(Procs) /\ Inserta(<<>>, alg)
      BY <1>8, <2>1 DEF ConfLee
    <3>. QED BY <3>1, <1>4
  <2>2. CASE ~ PorLotes(alg)
    BY <1>8, <2>2 DEF ConfLee, CotaLPL, UnoSi
  <2>. QED BY <2>1, <2>2
<1>. QED BY <1>1, <1>3, <1>5, <1>6, <1>7, <1>8 DEF TocaLPL

(* Under every algorithm, and whatever its changes, LPL_empty announces    *)
(* every image of LPL: none is left waiting in the ready queue with PROCER *)
(* asleep.                                                                 *)
THEOREM ListosAnunciados == Spec => []CotaLPL
<1>1. Init => CotaLPL
  BY DEF Init, CotaLPL, UnoSi, Colas, Semaforos
<1>2. TypeOK /\ CotaLPL /\ [Next]_vars => CotaLPL'
  BY CotaPaso
<1>. QED BY <1>1, <1>2, TipoCorrecto, PTL DEF Spec

LEMMA PushPaso ==
    ASSUME TypeOK, PushSinLote, [Next]_vars PROVE PushSinLote'
<1>1. sts \in LocalesSTS
  BY DEF TypeOK, TipoSTS
<1>2. CASE UNCHANGED sts
  BY <1>2 DEF PushSinLote, PorLotes
<1>3. CASE STSEspera \/ STSCola \/ STSToma \/ STSAvanza \/ STSPush \/ STSInserta
  BY <1>1, <1>3 DEF STSEspera, STSCola, STSToma, STSAvanza, STSPush, STSInserta,
                    PushSinLote, LocalesSTS
<1>4. CASE STSPop
  BY <1>1, <1>4 DEF STSPop, PushSinLote, LocalesSTS, PorLotes
<1>. QED BY <1>2, <1>3, <1>4, SoloSTS

LEMMA PushSiempre == Spec => []PushSinLote
<1>1. Init => PushSinLote
  BY DEF Init, PushSinLote
<1>2. TypeOK /\ PushSinLote /\ [Next]_vars => PushSinLote'
  BY PushPaso
<1>. QED BY <1>1, <1>2, TipoCorrecto, PTL DEF Spec

-----------------------------------------------------------------------------
(* With one algorithm, no step changes ALG.                                *)
LEMMA AlgFijo ==
    ASSUME UnAlgoritmo, TypeOK, [Next]_vars PROVE ALG' = ALG
<1>1. ASSUME NEW alg \in Algs, NEW pr \in PrioColas, ConfLee(alg, pr)
      PROVE ALG' = ALG
  <2>1. conf.n < MaxCambios /\ conf.n \in Nat /\ ALG \in Algs /\ ALG' = alg
    BY <1>1 DEF ConfLee, TypeOK, TipoConf, LocalesConf
  <2>2. MaxCambios # 0
    BY <2>1
  <2>3. PICK a : Algs = {a}
    BY <2>2 DEF UnAlgoritmo
  <2>. QED BY <2>1, <2>3
<1>2. CASE configure
  BY <1>1, <1>2 DEF configure, ConfCopia, ConfCierra, ConfFin
<1>. QED BY <1>2, SoloConf

LEMMA RondaPaso ==
    ASSUME UnAlgoritmo, TypeOK, RondaPropia, [Next]_vars PROVE RondaPropia'
<1>1. ALG' = ALG /\ sts \in LocalesSTS
  BY AlgFijo DEF TypeOK, TipoSTS
<1>2. CASE UNCHANGED sts
  BY <1>1, <1>2 DEF RondaPropia
<1>3. CASE STSEspera
  BY <1>1, <1>3 DEF STSEspera, RondaPropia, LocalesSTS
<1>4. CASE STSCola \/ STSToma \/ STSAvanza \/ STSPop \/ STSPush \/ STSInserta
  BY <1>1, <1>4 DEF STSCola, STSToma, STSAvanza, STSPop, STSPush, STSInserta,
                    RondaPropia, LocalesSTS
<1>. QED BY <1>2, <1>3, <1>4, SoloSTS

LEMMA RondaSiempre == ASSUME UnAlgoritmo PROVE Spec => []RondaPropia
<1>1. Init => RondaPropia
  BY DEF Init, RondaPropia
<1>2. TypeOK /\ RondaPropia /\ [Next]_vars => RondaPropia'
  BY RondaPaso
<1>. QED BY <1>1, <1>2, TipoCorrecto, PTL DEF Spec

(* What a step does to the order of LPL by the field of an algorithm that  *)
(* inserts batches: every step but those that change the field.            *)
LEMMA OrdenPaso ==
    ASSUME UnAlgoritmo, TypeOK, CotaLPL, PushSinLote, RondaPropia, PorLotes(ALG),
           [Next]_vars, NEW K \in Campos(Procs), K = Clave(ALG),
           ~ ProcerSale,
           \/ STSInserta
           \/ \A i \in 1 .. Len(cola["LPL"]) - 1 :
                  K[cola["LPL"][i]] <= K[cola["LPL"][i + 1]]
    PROVE \A i \in 1 .. Len(cola'["LPL"]) - 1 :
              K[cola'["LPL"][i]] <= K[cola'["LPL"][i + 1]]
<1>1. CASE ~ TocaLPL
  BY <1>1, AjenoLPL DEF IgualesLPL, TocaLPL
<1>2. CASE STSPush
  BY <1>2 DEF STSPush, PushSinLote, RondaPropia
<1>3. CASE STSInserta
  <2>1. sts.prioList \in Seq(Procs) /\ Inserta(sts.prioList, ALG)
    BY <1>3 DEF STSInserta, RondaPropia, TypeOK, TipoSTS, LocalesSTS
  <2>. QED BY <2>1, InsertaOrdena
<1>4. CASE ProcerEspera
  <2>1. sts \in LocalesSTS
    BY DEF TypeOK, TipoSTS
  <2>2. ~ STSInserta
    BY <1>4, <2>1 DEF ProcerEspera, STSInserta, LocalesSTS
  <2>3. cola' = cola
    BY <1>4 DEF ProcerEspera
  <2>. QED BY <2>2, <2>3
<1>5. CASE ProcerPop
  <2>1. CASE cola["LPL"] = <<>>
    BY <1>5, <2>1 DEF ProcerPop, STSInserta
  <2>2. CASE cola["LPL"] # <<>>
    <3>1. cola["LPL"] \in Seq(Procs) /\ cola'["LPL"] = Tail(cola["LPL"])
      BY <1>5, <2>2 DEF ProcerPop, TypeOK, TipoColas, Colas
    <3>2. \A i \in 1 .. Len(cola["LPL"]) - 1 :
              K[cola["LPL"][i]] <= K[cola["LPL"][i + 1]]
      BY <1>5 DEF ProcerPop, STSInserta
    <3>. QED BY <2>2, <3>1, <3>2, ColaEnOrden
  <2>. QED BY <2>1, <2>2
<1>6. ASSUME NEW alg \in Algs, NEW pr \in PrioColas, ConfLee(alg, pr)
      PROVE \A i \in 1 .. Len(cola'["LPL"]) - 1 :
                K[cola'["LPL"][i]] <= K[cola'["LPL"][i + 1]]
  <2>1. alg = ALG
    BY <1>6, AlgFijo DEF ConfLee
  <2>2. <<>> \in Seq(Procs) /\ Inserta(<<>>, ALG)
    BY <1>6, <2>1 DEF ConfLee
  <2>. QED BY <2>2, InsertaOrdena
<1>. QED BY <1>1, <1>2, <1>3, <1>4, <1>5, <1>6 DEF TocaLPL

(* The invariants of the order.                                            *)
OrdenInv == TypeOK /\ LugarInv /\ CotaLPL /\ PushSinLote /\ RondaPropia

LEMMA OrdenInvSiempre == ASSUME UnAlgoritmo PROVE Spec => []OrdenInv
  BY LugarCorrecto, ListosAnunciados, PushSiempre, RondaSiempre, PTL
     DEF OrdenInv

LEMMA PRIPaso ==
    ASSUME UnAlgoritmo, OrdenInv, OrdenPRI, [Next]_vars PROVE OrdenPRI'
<1>1. ALG' = ALG
  BY AlgFijo DEF OrdenInv
<1>2. CASE ALG = "PRI"
  <2>1. /\ Clave(ALG) = prioridad /\ PorLotes(ALG)
        /\ prioridad \in Campos(Procs)
    BY <1>2, PrioAssumption DEF Clave, PorLotes, Campos
  <2>2. \A i \in 1 .. Len(cola["LPL"]) - 1 :
            prioridad[cola["LPL"][i]] <= prioridad[cola["LPL"][i + 1]]
    BY <1>2 DEF OrdenPRI
  <2>3. \A i \in 1 .. Len(cola'["LPL"]) - 1 :
            prioridad[cola'["LPL"][i]] <= prioridad[cola'["LPL"][i + 1]]
    <3>1. CASE ProcerSale
      BY <2>2, <3>1 DEF ProcerSale
    <3>2. CASE ~ ProcerSale
      BY <2>1, <2>2, <3>2, OrdenPaso DEF OrdenInv
    <3>. QED BY <3>1, <3>2
  <2>. QED BY <2>3 DEF OrdenPRI
<1>. QED BY <1>1, <1>2 DEF OrdenPRI

(* Under PRI the ready queue is in order of priority in every state, for   *)
(* any number of processes and whatever PROCER takes from it while the STS *)
(* inserts a batch, as long as nobody changes the algorithm: with a change *)
(* to PRI in the middle of a round the STS, which works with its copy of   *)
(* ALG, still pushes the images of that round at the end of the queue.     *)
THEOREM OrdenDePrioridad == ASSUME UnAlgoritmo PROVE Spec => []OrdenPRI
<1>1. Init => OrdenPRI
  BY DEF Init, OrdenPRI, Colas
<1>2. OrdenInv /\ OrdenPRI /\ [Next]_vars => OrdenPRI'
  BY PRIPaso
<1>. QED BY <1>1, <1>2, OrdenInvSiempre, PTL DEF Spec

-----------------------------------------------------------------------------
(* PROCER leaves the loop with an image that is in LPL: it queued a        *)
(* blocking request, since an image it still owns is in no queue.          *)
LEMMA EnColaBloqueo ==
    ASSUME TypeOK, LugarInv, procer.pc = "ejecuta",
           NEW i \in DOMAIN cola["LPL"], cola["LPL"][i] = img
    PROVE procer.ioBlock
<1>1. img \in Procs /\ procer.ioBlock \in BOOLEAN
  BY DEF TypeOK, TipoPROCER, LocalesPROCER, img
<1>2. cola["LPL"] \in Seq(Procs) /\ "LPL" \in Colas
  BY DEF TypeOK, TipoColas, Colas
<1>3. Veces(cola["LPL"], img) > 0
  BY <1>2, VecesPositivas
<1>4. En("LPL", img) > 0
  BY <1>2, <1>3 DEF En
<1>c. /\ "LPL" \in Sitios /\ Clase["LPL"] = "Listos"
      /\ "procer" \in Sitios /\ Clase["procer"] = "Ejecucion"
  BY LosSitios DEF Clase
<1>e. \A s \in Sitios : En(s, img) > 0 => lsch[img] = Clase[s]
  BY <1>1 DEF LugarInv, EnSuClase
<1>5. lsch[img] = "Listos"
  BY <1>4, <1>c, <1>e
<1>6. ASSUME ~ procer.ioBlock PROVE FALSE
  <2>1. En("procer", img) = 1
    BY <1>1, <1>6, ManoPROCER DEF UnoSi, img
  <2>2. lsch[img] = "Ejecucion"
    BY <2>1, <1>c, <1>e
  <2>. QED BY <1>5, <2>2
<1>. QED BY <1>1, <1>6

(* Only PROCER, leaving the loop, writes an estimate.                      *)
LEMMA TspnFijo ==
    ASSUME [Next]_vars, ~ ProcerSale PROVE Tspn' = Tspn
<1>1. CASE UNCHANGED vars
  BY <1>1 DEF vars
<1>2. CASE LTSconex \/ LTSnew
  BY <1>2 DEF LTSconex, LTSDemora, LTSEncola, LTSAvisa, LTSAcepta, LTSReanuda,
              LTSEnvia, LTSnew, NewToma, NewEncola, NewAvisa, imagenes, hilosPP
<1>3. CASE STS
  BY <1>3 DEF STS, STSEspera, STSCola, STSToma, STSAvanza, STSPop, STSPush,
              STSInserta, imagenes
<1>4. CASE PROCER
  BY <1>4 DEF PROCER, ProcerEspera, ProcerPop, processExecution,
              EjecutaSimple, EjecutaSalto, EjecutaIOBloqueante,
              EjecutaIONoBloqueante, EjecutaXIO0, ProcerFinaliza,
              ProcerLibera, ProcerBloqueado, ProcerSuspende, ProcerAvisaPI,
              ProcerFinQuantum, ProcerAvisa, imagenes
<1>5. CASE configure \/ SIGUSR1
  BY <1>5 DEF configure, ConfLee, ConfCopia, ConfCierra, ConfFin, SIGUSR1,
              imagenes
<1>6. CASE (\E h \in Hilos : ioThread(h)) \/ (\E p \in Procs : PIReanuda(p))
  BY <1>6 DEF ioThread, IOToma, IOPop, IOEncola, IOAvisa, IOFin, PIReanuda,
              imagenes, hilosPP
<1>. QED BY <1>1, <1>2, <1>3, <1>4, <1>5, <1>6 DEF Next

LEMMA SPNPaso ==
    ASSUME UnAlgoritmo, OrdenInv, [Next]_vars, ALG = "SPN"
    PROVE /\ sts.pc = "inserta" /\ sts'.pc = "espera" => EnOrdenSPN'
          /\ EnOrdenSPN /\ ~ EnOrdenSPN' =>
                 /\ procer.ioBlock /\ procer'.pc = "decide"
                 /\ \E i \in DOMAIN cola["LPL"] : cola["LPL"][i] = img
<1>1. /\ Clave(ALG) = Tspn /\ PorLotes(ALG) /\ Tspn \in Campos(Procs)
      /\ TypeOK /\ CotaLPL /\ PushSinLote /\ RondaPropia /\ LugarInv
  BY DEF Clave, PorLotes, Campos, OrdenInv, TypeOK, TipoImagenes
<1>2. CASE ProcerSale
  <2>1. /\ procer.pc = "ejecuta" /\ procer'.pc = "decide"
        /\ cola' = cola /\ UNCHANGED sts
    BY <1>1, <1>2 DEF ProcerSale, TypeOK, TipoPROCER, LocalesPROCER
  <2>2. CASE \E i \in DOMAIN cola["LPL"] : cola["LPL"][i] = img
    BY <1>1, <2>1, <2>2, EnColaBloqueo
  <2>3. CASE ~ \E i \in DOMAIN cola["LPL"] : cola["LPL"][i] = img
    <3>1. \A p \in Procs : p # img => Tspn'[p] = Tspn[p]
      BY <1>1, <1>2 DEF ProcerSale, TypeOK, TipoImagenes
    <3>2. /\ cola["LPL"] \in Seq(Procs) /\ Len(cola["LPL"]) \in Nat
          /\ DOMAIN cola["LPL"] = 1 .. Len(cola["LPL"])
      BY <1>1 DEF TypeOK, TipoColas, Colas
    <3>3. \A i \in 1 .. Len(cola["LPL"]) :
              Tspn'[cola["LPL"][i]] = Tspn[cola["LPL"][i]]
      BY <2>3, <3>1, <3>2
    <3>4. EnOrdenSPN => EnOrdenSPN'
      BY <2>1, <3>2, <3>3 DEF EnOrdenSPN
    <3>. QED BY <2>1, <3>4
  <2>. QED BY <2>2, <2>3
<1>3. CASE ~ ProcerSale
  <2>1. Tspn' = Tspn
    BY <1>3, TspnFijo
  <2>2. ASSUME EnOrdenSPN \/ STSInserta PROVE EnOrdenSPN'
    <3>1. \A i \in 1 .. Len(cola'["LPL"]) - 1 :
              Tspn[cola'["LPL"][i]] <= Tspn[cola'["LPL"][i + 1]]
      BY <1>1, <1>3, <2>2, OrdenPaso DEF EnOrdenSPN
    <3>. QED BY <2>1, <3>1 DEF EnOrdenSPN
  <2>3. sts.pc = "inserta" /\ sts'.pc = "espera" => STSInserta
    BY SoloSTS DEF STSEspera, STSCola, STSToma, STSAvanza, STSPop, STSPush
  <2>. QED BY <2>2, <2>3
<1>. QED BY <1>2, <1>3

(* Under SPN, as long as nobody changes the algorithm, every insertion     *)
(* leaves the ready queue in the order of the estimates, and only the late *)
(* estimate of a process that blocked puts it out of order.                *)
THEOREM OrdenDeEstimacion == ASSUME UnAlgoritmo PROVE Spec => OrdenSPN
<1>1. OrdenInv /\ [Next]_vars =>
      [ALG = "SPN" =>
          /\ sts.pc = "inserta" /\ sts'.pc = "espera" => EnOrdenSPN'
          /\ EnOrdenSPN /\ ~ EnOrdenSPN' =>
                 /\ procer.ioBlock /\ procer'.pc = "decide"
                 /\ \E i \in DOMAIN cola["LPL"] : cola["LPL"][i] = img]_vars
  BY SPNPaso
<1>. QED BY <1>1, OrdenInvSiempre, PTL DEF Spec, OrdenSPN
=============================================================================
