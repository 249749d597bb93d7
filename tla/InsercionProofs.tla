--------------------------- MODULE InsercionProofs ---------------------------
(***************************************************************************)
(* The insertion of a batch into the ready queue, for every queue, batch   *)
(* and assignment of keys: the sort is a stable sort, and the insertion    *)
(* leaves all the images in order.                                         *)
(***************************************************************************)
EXTENDS MCListaOrden, ListaProofs

(* The place that Rango gives to the element that a stable order puts in   *)
(* place r is r.                                                           *)
LEMMA RangoEs ==
    ASSUME NEW S, NEW s \in Seq(S), NEW t, K \in Campos(S),
           t \in Seq(S), Len(t) = Len(s), NEW p, Reordena(s, t, K, Len(s), p),
           Colocados(t, K, Len(s), Len(s)), NEW r \in 1 .. Len(s)
    PROVE Rango(s, p[r]) = r
<1> DEFINE n == Len(s)
           k == [a \in 1 .. n |-> K[t[a]]]
           c == [j \in 1 .. n |-> K[s[j]]]
<1>1. n \in Nat /\ DOMAIN s = 1 .. n /\ r \in 1 .. n
  OBVIOUS
<1>2. /\ \A a \in 1 .. n : t[a] \in S /\ K[t[a]] \in Int
      /\ \A j \in 1 .. n : s[j] \in S /\ K[s[j]] \in Int
  BY DEF Campos
<1>. HIDE DEF n
<1>3. /\ p \in [1 .. n -> 1 .. n]
      /\ \A a \in 1 .. n : t[a] = s[p[a]]
      /\ \A a, b \in 1 .. n : p[a] = p[b] => a = b
      /\ \A j \in 1 .. n : \E a \in 1 .. n : p[a] = j
      /\ \A a, b \in 1 .. n : a < b /\ K[t[a]] = K[t[b]] => p[a] < p[b]
  BY DEF Reordena, n
<1>4. k \in [1 .. n -> Int] /\ \A a \in 1 .. n : k[a] = K[t[a]]
  BY <1>2
<1>5. c \in [1 .. n -> Int] /\ \A j \in 1 .. n : c[j] = K[s[j]]
  BY <1>2
<1>. HIDE DEF k, c
<1>6. \A a, b \in 1 .. n : a < b => k[a] <= k[b]
  <2>1. ASSUME NEW a \in 1 .. n, NEW b \in 1 .. n, a < b PROVE K[t[a]] <= K[t[b]]
    <3>1. b > n - n
      BY <1>1, <2>1
    <3>. QED BY <2>1, <3>1 DEF Colocados, n
  <2>. QED BY <1>4, <2>1
<1>7. ASSUME NEW a \in 1 .. n PROVE k[a] = c[p[a]]
  <2>1. p[a] \in 1 .. n /\ t[a] = s[p[a]]
    BY <1>3
  <2>. QED BY <1>4, <1>5, <2>1
<1>8. \A a, b \in 1 .. n : a < b /\ k[a] = k[b] => p[a] < p[b]
  BY <1>3, <1>4
<1>9. Puestos(n, k, c, p)
  BY <1>3, <1>4, <1>5, <1>6, <1>7, <1>8 DEF Puestos
<1>10. Cardinality(Hasta(n, c, p[r])) = r
  BY <1>1, <1>9, PuestoEs
<1>11. Hasta(n, c, p[r]) = {j \in DOMAIN s :
                                K[s[j]] < K[s[p[r]]]
                                    \/ (K[s[j]] = K[s[p[r]]] /\ j <= p[r])}
  <2>1. p[r] \in 1 .. n
    BY <1>1, <1>3
  <2>. QED BY <1>1, <1>5, <2>1 DEF Hasta
<1>. QED BY <1>10, <1>11 DEF Rango

(* There is one stable order.                                              *)
LEMMA EstableEs ==
    ASSUME NEW S, NEW s \in Seq(S), NEW t, K \in Campos(S),
           t \in Seq(S), Len(t) = Len(s), EsReorden(s, t, K, Len(s)),
           Colocados(t, K, Len(s), Len(s))
    PROVE t = Estable(s)
<1> DEFINE n == Len(s)
<1>1. n \in Nat /\ DOMAIN s = 1 .. n /\ t = [r \in 1 .. n |-> t[r]]
  OBVIOUS
<1>2. PICK p : Reordena(s, t, K, n, p)
  BY DEF EsReorden
<1>3. /\ p \in [1 .. n -> 1 .. n]
      /\ \A a \in 1 .. n : t[a] = s[p[a]]
      /\ \A c \in 1 .. n : \E a \in 1 .. n : p[a] = c
  BY <1>2 DEF Reordena
<1>4. \A r \in 1 .. n : Rango(s, p[r]) = r
  BY <1>2, RangoEs
<1>. HIDE DEF n
<1>5. ASSUME NEW r \in 1 .. n
      PROVE t[r] = s[CHOOSE i \in 1 .. n : Rango(s, i) = r]
  <2>1. p[r] \in 1 .. n /\ Rango(s, p[r]) = r
    BY <1>3, <1>4
  <2>2. \A i \in 1 .. n : Rango(s, i) = r => i = p[r]
    BY <1>3, <1>4
  <2>3. (CHOOSE i \in 1 .. n : Rango(s, i) = r) = p[r]
    BY <2>1, <2>2
  <2>. QED BY <1>3, <2>3
<1>6. Estable(s) = [r \in 1 .. n |-> s[CHOOSE i \in 1 .. n : Rango(s, i) = r]]
  BY <1>1 DEF Estable
<1>. QED BY <1>1, <1>5, <1>6

(* The sort of the source is that order.                                   *)
LEMMA BurbujaEstable ==
    ASSUME NEW s \in Seq(Imagenes), K \in [Imagenes -> Claves]
    PROVE Burbuja(s, K) = Estable(s)
<1>1. K \in Campos(Imagenes)
  BY ClavesAssumption DEF Campos
<1> DEFINE t == Burbuja(s, K)
<1>2. /\ t \in Seq(Imagenes) /\ Len(t) = Len(s)
      /\ EsReorden(s, t, K, Len(s)) /\ Colocados(t, K, Len(s), Len(s))
  BY <1>1, BurbujaEs
<1>. HIDE DEF t
<1>3. t = Estable(s)
  BY <1>1, <1>2, EstableEs
<1>. QED BY <1>3 DEF t

(* The queue and the batch are lists of images, and the result is that of  *)
(* the insertion.                                                          *)
Entradas ==
    /\ LPL \in Seq(Imagenes) /\ prioList \in Seq(Imagenes)
    /\ lpl_empty \in {Len(LPL), Len(LPL) - 1} /\ lpl_empty >= 0
    /\ K \in [Imagenes -> Claves]
    /\ insertada \in {<<>>, <<orderInsert(prioList, LPL, lpl_empty, K)>>}

LEMMA EntradasSiempre == Spec => []Entradas
<1>1. Init => Entradas
  <2>1. \A m \in Nat : [1 .. m -> Imagenes] \subseteq Seq(Imagenes)
    OBVIOUS
  <2>2. SUFFICES ASSUME Init PROVE Entradas
    OBVIOUS
  <2>3. BoundedSeq(Imagenes, Cardinality(Imagenes)) \subseteq Seq(Imagenes)
    BY <2>1 DEF BoundedSeq, SeqOf
  <2>. QED BY <2>2, <2>3 DEF Init, Entradas
<1>2. Entradas /\ [Next]_vars => Entradas'
  BY DEF Entradas, Next, Inserta, vars
<1>. QED BY <1>1, <1>2, PTL DEF Spec

(* The bubble sort that STS.c repeats for PRI and SPN is a stable sort.    *)
THEOREM OrdenEstableSiempre == Spec => []OrdenEstable
<1>1. Entradas => OrdenEstable
  BY BurbujaEstable DEF Entradas, OrdenEstable
<1>. QED BY <1>1, EntradasSiempre, PTL

(* The insertion of a batch that is not empty leaves every image in the    *)
(* ready queue, in order, and LPL_empty counts them.                       *)
THEOREM InsercionFielSiempre == Spec => []InsercionFiel
<1>1. ASSUME Entradas PROVE InsercionFiel
  <2>1. SUFFICES ASSUME insertada # <<>>, prioList # <<>>
                 PROVE /\ insertada[1].LPL = Estable(Reverse(LPL) \o prioList)
                       /\ lpl_empty = Len(LPL) =>
                              insertada[1].sem = Len(insertada[1].LPL)
    BY DEF InsercionFiel
  <2> DEFINE n == Len(LPL)
             a == Antepone(SubSeq(LPL, 1, n), prioList)
             o == Burbuja(a, K)
  <2>2. /\ LPL \in Seq(Imagenes) /\ prioList \in Seq(Imagenes) /\ n \in Nat
        /\ lpl_empty \in {n, n - 1} /\ lpl_empty >= 0 /\ lpl_empty \in Int
        /\ K \in [Imagenes -> Claves]
        /\ insertada[1] = orderInsert(prioList, LPL, lpl_empty, K)
    BY <1>1, <2>1 DEF Entradas
  <2>3. Extraidos(n, lpl_empty) = n
    BY <2>2 DEF Extraidos
  <2>4. SubSeq(LPL, 1, n) = LPL /\ SubSeq(LPL, n + 1, n) = <<>>
    BY <2>2
  <2>5. /\ insertada[1].LPL = SubSeq(LPL, n + 1, n) \o o
        /\ insertada[1].sem = (IF lpl_empty >= n THEN lpl_empty - n ELSE 0) + Len(o)
    <3>. HIDE DEF n
    <3>1. insertada[1] =
             LET k == Extraidos(n, lpl_empty)
                 ordenada == Burbuja(Antepone(SubSeq(LPL, 1, k), prioList), K)
             IN  [LPL |-> SubSeq(LPL, k + 1, n) \o ordenada,
                  sem |-> (IF lpl_empty >= k THEN lpl_empty - k ELSE 0)
                              + Len(ordenada)]
      BY <2>2 DEF orderInsert, n
    <3>2. insertada[1] =
             [LPL |-> SubSeq(LPL, n + 1, n) \o o,
              sem |-> (IF lpl_empty >= n THEN lpl_empty - n ELSE 0) + Len(o)]
      BY <2>3, <3>1, Zenon
    <3> DEFINE x == SubSeq(LPL, n + 1, n) \o o
               y == (IF lpl_empty >= n THEN lpl_empty - n ELSE 0) + Len(o)
    <3>3. insertada[1] = [LPL |-> x, sem |-> y]
      BY <3>2
    <3>. HIDE DEF x, y
    <3>4. insertada[1].LPL = x /\ insertada[1].sem = y
      BY <3>3
    <3>. QED BY <3>4 DEF x, y
  <2>6. a = Reverse(LPL) \o prioList
    <3>1. Len(prioList) > 0
      BY <2>1, <2>2
    <3>2. Antepone(LPL, prioList) = Reverse(LPL) \o prioList
      BY <2>2, <3>1, AnteponeEs
    <3>. QED BY <2>4, <3>2
  <2>7. Reverse(LPL) \o prioList \in Seq(Imagenes)
    <3>1. \A i \in 1 .. n : LPL[(n - i) + 1] \in Imagenes
      BY <2>2
    <3>2. Reverse(LPL) \in Seq(Imagenes)
      BY <2>2, <3>1 DEF Reverse
    <3>. HIDE DEF n
    <3>. QED BY <2>2, <3>2
  <2>. HIDE DEF a, o, n
  <2>8. o = Estable(Reverse(LPL) \o prioList) /\ o \in Seq(Imagenes)
    <3>1. a \in Seq(Imagenes)
      BY <2>6, <2>7
    <3>2. o = Estable(a)
      BY <2>2, <3>1, BurbujaEstable DEF o
    <3>3. K \in Campos(Imagenes)
      BY <2>2, ClavesAssumption DEF Campos
    <3>4. o \in Seq(Imagenes)
      BY <3>1, <3>3, BurbujaEs DEF o
    <3>. QED BY <2>6, <3>2, <3>4
  <2>9. insertada[1].LPL = o
    <3>1. <<>> \o o = o
      <4>1. o \in Seq(Imagenes)
        BY <2>8
      <4>. QED BY <4>1
    <3>. QED BY <2>4, <2>5, <3>1, Zenon
  <2>10. lpl_empty = n => insertada[1].sem = Len(o)
    <3>1. Len(o) \in Nat
      BY <2>8
    <3>. QED BY <2>2, <2>5, <3>1
  <2>. QED BY <2>8, <2>9, <2>10 DEF n
<1>. QED BY <1>1, EntradasSiempre, PTL
====
