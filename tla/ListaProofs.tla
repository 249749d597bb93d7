---------------------------- MODULE ListaProofs ----------------------------
(***************************************************************************)
(* The bubble sort of STS.c, for lists of any length, and before it what   *)
(* FlattenSeq makes of a list of lists.                                    *)
(*                                                                         *)
(* The traversals are functions defined by recursion, so what they compute *)
(* takes an induction.  It is made over the set of the numbers for which   *)
(* the statement holds: a least number out of it would contradict the step *)
(* (Induccion).                                                            *)
(***************************************************************************)
EXTENDS ListaOrden, FiniteSetTheorems, SequenceTheorems,
        FunctionTheorems, WellFoundedInduction, TLAPS

-----------------------------------------------------------------------------
(* Induction.                                                              *)
Menor == {p \in Nat \X Nat : p[1] < p[2]}

LEMMA MenorBienFundado == IsWellFoundedOn(Menor, Nat)
<1>1. OpToRel(<, Nat) = Menor
  BY DEF OpToRel, Menor
<1>. QED BY <1>1, NatLessThanWellFounded

LEMMA Induccion ==
    ASSUME NEW T, 0 \in T, \A n \in Nat : n \in T => n + 1 \in T
    PROVE Nat \subseteq T
<1> DEFINE M == Nat \ T
<1>1. SUFFICES ASSUME M # {} PROVE FALSE
  OBVIOUS
<1>2. M \subseteq Nat
  OBVIOUS
<1>. HIDE DEF M
<1>3. PICK x \in M : \A y \in M : ~ (<<y, x>> \in Menor)
  BY <1>1, <1>2, MenorBienFundado, WFMin
<1>4. x \in Nat /\ x \notin T
  BY DEF M
<1>5. x # 0 /\ x - 1 \in Nat /\ (x - 1) + 1 = x
  BY <1>4
<1>6. x - 1 \in M
  BY <1>4, <1>5 DEF M
<1>7. <<x - 1, x>> \in Menor
  BY <1>4, <1>5 DEF Menor
<1>. QED BY <1>3, <1>6, <1>7

(* There is a function f with f[0] = a and f[i] = G[i][f[i - 1]].          *)
Recurrente(g, n, a, G) ==
    g[0] = a /\ \A i \in 1 .. n : g[i] = G[i][g[i - 1]]

LEMMA HayRecurrente ==
    ASSUME NEW A, NEW a \in A, NEW G \in [Nat -> [A -> A]]
    PROVE \A n \in Nat : \E g \in [0 .. n -> A] : Recurrente(g, n, a, G)
<1> DEFINE T == {n \in Nat : \E g \in [0 .. n -> A] : Recurrente(g, n, a, G)}
<1>1. 0 \in T
  <2> DEFINE g == [i \in 0 .. 0 |-> a]
  <2>1. g \in [0 .. 0 -> A] /\ g[0] = a
    OBVIOUS
  <2>2. \A i \in 1 .. 0 : FALSE
    OBVIOUS
  <2>. HIDE DEF g
  <2>3. Recurrente(g, 0, a, G)
    BY <2>1, <2>2 DEF Recurrente
  <2>. QED BY <2>1, <2>3
<1>2. ASSUME NEW n \in Nat, n \in T PROVE n + 1 \in T
  <2>1. PICK g \in [0 .. n -> A] : Recurrente(g, n, a, G)
    BY <1>2
  <2> DEFINE x == G[n + 1][g[n]]
             h == [i \in 0 .. n + 1 |-> IF i = n + 1 THEN x ELSE g[i]]
  <2>2. x \in A
    <3>1. g[n] \in A /\ n + 1 \in Nat
      OBVIOUS
    <3>. QED BY <3>1
  <2>3. h \in [0 .. n + 1 -> A]
    BY <2>2
  <2>4. \A i \in 0 .. n : h[i] = g[i]
    OBVIOUS
  <2>5. h[n + 1] = x
    OBVIOUS
  <2>. HIDE DEF h, x
  <2>6. h[0] = a
    BY <2>1, <2>4 DEF Recurrente
  <2>7. ASSUME NEW i \in 1 .. n + 1 PROVE h[i] = G[i][h[i - 1]]
    <3>1. CASE i = n + 1
      <4>1. i - 1 = n /\ h[n] = g[n]
        BY <2>4, <3>1
      <4>. QED BY <2>5, <3>1, <4>1 DEF x
    <3>2. CASE i # n + 1
      <4>1. i \in 1 .. n /\ i \in 0 .. n /\ i - 1 \in 0 .. n
        BY <3>2
      <4>. QED BY <2>1, <2>4, <4>1 DEF Recurrente
    <3>. QED BY <3>1, <3>2
  <2>8. Recurrente(h, n + 1, a, G)
    BY <2>6, <2>7 DEF Recurrente
  <2>. QED BY <2>3, <2>8
<1>. HIDE DEF T
<1>3. Nat \subseteq T
  BY <1>1, <1>2, Induccion
<1>. QED BY <1>3 DEF T

-----------------------------------------------------------------------------
(* FlattenSeq joins the sequences of q one after the other, from the left. *)
LEMMA AplanaEs ==
    ASSUME NEW S, NEW q \in Seq(Seq(S)), NEW n \in Nat, Len(q) = n, n > 0
    PROVE \E f : /\ FlattenSeq(q) = f[n] /\ f[1] = q[1]
                 /\ \A i \in 1 .. n - 1 : f[i + 1] = f[i] \o q[i + 1]
<1> DEFINE A == Seq(S)
           Ec(f) == f = [i \in 1 .. n |-> IF i = 1 THEN q[i]
                                          ELSE f[i - 1] \o q[i]]
           G == [i \in Nat |-> [x \in A |-> IF i \in 1 .. n THEN x \o q[i]
                                                            ELSE x]]
<1>1. \A i \in 1 .. n : q[i] \in A
  OBVIOUS
<1>2. G \in [Nat -> [A -> A]]
  <2>1. ASSUME NEW i \in Nat, NEW x \in A
        PROVE (IF i \in 1 .. n THEN x \o q[i] ELSE x) \in A
    <3>1. CASE i \in 1 .. n
      <4>1. q[i] \in A
        BY <1>1, <3>1
      <4>2. x \o q[i] \in A
        BY <4>1
      <4>. QED BY <3>1, <4>2
    <3>. QED BY <3>1
  <2>. HIDE DEF A
  <2>. QED BY <2>1
<1>3. PICK g \in [0 .. n -> A] : Recurrente(g, n, <<>>, G)
  <2>1. <<>> \in A
    OBVIOUS
  <2>. HIDE DEF G, A
  <2>. QED BY <1>2, <2>1, HayRecurrente
<1>4. /\ g[0] = <<>>
      /\ \A i \in 1 .. n : g[i] = g[i - 1] \o q[i] /\ g[i - 1] \in A
  <2>1. g[0] = <<>>
    BY <1>3 DEF Recurrente
  <2>2. ASSUME NEW i \in 1 .. n
        PROVE g[i] = g[i - 1] \o q[i] /\ g[i - 1] \in A
    <3>1. i \in Nat /\ i - 1 \in 0 .. n
      OBVIOUS
    <3>2. g[i - 1] \in A
      BY <3>1
    <3>3. g[i] = G[i][g[i - 1]]
      BY <1>3 DEF Recurrente
    <3>. HIDE DEF A
    <3>4. G[i][g[i - 1]] = g[i - 1] \o q[i]
      BY <3>1, <3>2
    <3>. QED BY <3>2, <3>3, <3>4
  <2>. QED BY <2>1, <2>2
<1> DEFINE h == [i \in 1 .. n |-> g[i]]
<1>5. Ec(h)
  <2>1. ASSUME NEW i \in 1 .. n
        PROVE h[i] = IF i = 1 THEN q[i] ELSE h[i - 1] \o q[i]
    <3>1. CASE i = 1
      <4>1. g[1] = g[0] \o q[1] /\ 1 \in 1 .. n
        <5>1. 1 \in 1 .. n /\ 1 - 1 = 0
          OBVIOUS
        <5>2. g[1] = g[1 - 1] \o q[1]
          BY <1>4, <5>1
        <5>. QED BY <5>1, <5>2
      <4>2. <<>> \o q[1] = q[1]
        BY <1>1, <4>1
      <4>. QED BY <1>4, <3>1, <4>1, <4>2
    <3>2. CASE i # 1
      <4>1. i - 1 \in 1 .. n
        BY <3>2
      <4>2. h[i] = g[i] /\ h[i - 1] = g[i - 1]
        BY <4>1
      <4>. QED BY <1>4, <3>2, <4>2
    <3>. QED BY <3>1, <3>2
  <2>2. h = [i \in 1 .. n |-> h[i]]
    OBVIOUS
  <2>. HIDE DEF h
  <2>. QED BY <2>1, <2>2
<1> DEFINE f == CHOOSE x : Ec(x)
<1>6. Ec(f)
  <2>. HIDE DEF Ec, h
  <2>. QED BY <1>5
<1>7. FlattenSeq(q) = f[n]
  BY DEF FlattenSeq
<1>. HIDE DEF f
<1>8. f[1] = q[1]
  <2>1. 1 \in 1 .. n
    OBVIOUS
  <2>. QED BY <1>6, <2>1
<1>9. ASSUME NEW i \in 1 .. n - 1 PROVE f[i + 1] = f[i] \o q[i + 1]
  <2>1. i + 1 \in 1 .. n /\ i + 1 # 1 /\ (i + 1) - 1 = i
    OBVIOUS
  <2>. QED BY <1>6, <2>1
<1>. QED BY <1>7, <1>8, <1>9

(* The same, without the partial results.                                  *)
LEMMA AplanaVacia == FlattenSeq(<<>>) = <<>>
<1>1. Len(<<>>) = 0
  OBVIOUS
<1>. QED BY <1>1, Zenon DEF FlattenSeq

LEMMA AplanaUno ==
    ASSUME NEW S, NEW x \in Seq(S)
    PROVE FlattenSeq(<<x>>) = x
<1> DEFINE q == <<x>>
           n == 1
<1>1. q \in Seq(Seq(S)) /\ Len(q) = n /\ q[1] = x /\ n \in Nat /\ n > 0
  OBVIOUS
<1>. HIDE DEF q, n
<1>2. PICK f : /\ FlattenSeq(q) = f[n] /\ f[1] = q[1]
               /\ \A i \in 1 .. n - 1 : f[i + 1] = f[i] \o q[i + 1]
  BY <1>1, AplanaEs
<1>. QED BY <1>1, <1>2 DEF n

LEMMA AplanaMas ==
    ASSUME NEW S, NEW q \in Seq(Seq(S)), NEW x \in Seq(S)
    PROVE /\ FlattenSeq(q) \in Seq(S)
          /\ FlattenSeq(Append(q, x)) = FlattenSeq(q) \o x
<1> DEFINE r == Append(q, x)
           n == Len(q)
           m == n + 1
<1>1. /\ r \in Seq(Seq(S)) /\ Len(r) = m /\ n \in Nat /\ m \in Nat /\ m > 0
      /\ r[m] = x /\ \A i \in 1 .. n : r[i] = q[i] /\ q[i] \in Seq(S)
  OBVIOUS
<1>2. CASE n = 0
  <2>1. q = <<>> /\ r = <<x>>
    BY <1>2
  <2>2. <<>> \in Seq(S) /\ <<>> \o x = x
    OBVIOUS
  <2>3. FlattenSeq(q) = <<>> /\ FlattenSeq(r) = x
    BY <2>1, AplanaVacia, AplanaUno
  <2>. QED BY <2>2, <2>3
<1>3. CASE n # 0
  <2>1. n > 0 /\ 1 \in 1 .. n /\ m - 1 = n
    BY <1>1, <1>3
  <2>. HIDE DEF r, n
  <2>2. PICK f : /\ FlattenSeq(q) = f[n] /\ f[1] = q[1]
                 /\ \A i \in 1 .. n - 1 : f[i + 1] = f[i] \o q[i + 1]
    <3>1. Len(q) = n
      BY DEF n
    <3>. QED BY <1>1, <2>1, <3>1, AplanaEs
  <2>. HIDE DEF m
  <2>3. PICK h : /\ FlattenSeq(r) = h[m] /\ h[1] = r[1]
                 /\ \A i \in 1 .. m - 1 : h[i + 1] = h[i] \o r[i + 1]
    BY <1>1, AplanaEs
  <2> DEFINE T == {i \in Nat : i + 1 <= n => /\ h[i + 1] = f[i + 1]
                                            /\ f[i + 1] \in Seq(S)}
  <2>4. 0 \in T
    BY <1>1, <2>1, <2>2, <2>3
  <2>5. ASSUME NEW i \in Nat, i \in T PROVE i + 1 \in T
    <3> DEFINE k == i + 1
    <3>1. SUFFICES ASSUME k + 1 <= n
                   PROVE h[k + 1] = f[k + 1] /\ f[k + 1] \in Seq(S)
      OBVIOUS
    <3>2. h[k] = f[k] /\ f[k] \in Seq(S)
      <4>1. i + 1 <= n
        BY <1>1, <3>1
      <4>. QED BY <2>5, <4>1
    <3>3. k \in 1 .. n - 1 /\ k \in 1 .. m - 1 /\ k + 1 \in 1 .. n
      BY <1>1, <2>1, <3>1
    <3>. HIDE DEF k
    <3>4. f[k + 1] = f[k] \o q[k + 1] /\ h[k + 1] = h[k] \o q[k + 1]
      BY <1>1, <2>2, <2>3, <3>3
    <3>5. f[k] \o q[k + 1] \in Seq(S)
      <4>1. q[k + 1] \in Seq(S)
        BY <1>1, <3>3
      <4>. QED BY <3>2, <4>1
    <3>. QED BY <3>2, <3>4, <3>5
  <2>. HIDE DEF T
  <2>6. n - 1 \in T /\ (n - 1) + 1 = n
    <3>1. n - 1 \in Nat /\ (n - 1) + 1 = n
      BY <1>1, <2>1
    <3>. QED BY <2>4, <2>5, <3>1, Induccion
  <2>7. h[n] = f[n] /\ f[n] \in Seq(S)
    BY <2>6 DEF T
  <2>8. h[m] = h[n] \o x
    <3>1. n \in 1 .. m - 1 /\ n + 1 = m
      BY <1>1, <2>1 DEF m
    <3>2. h[n + 1] = h[n] \o r[n + 1]
      BY <2>3, <3>1
    <3>. QED BY <1>1, <3>1, <3>2
  <2>. QED BY <2>2, <2>3, <2>7, <2>8 DEF r
<1>. QED BY <1>2, <1>3

LEMMA AplanaTipo ==
    ASSUME NEW S, NEW q \in Seq(Seq(S))
    PROVE FlattenSeq(q) \in Seq(S)
<1>1. <<>> \in Seq(S)
  OBVIOUS
<1>. QED BY <1>1, AplanaMas

Asocian(a, b, c) == (a \o b) \o c = a \o (b \o c)

LEMMA Asociados ==
    ASSUME NEW S, NEW a \in Seq(S), NEW b \in Seq(S), NEW c \in Seq(S)
    PROVE Asocian(a, b, c)
  BY ConcatAssociative DEF Asocian

LEMMA ConAppend ==
    ASSUME NEW S, NEW g \in Seq(S), NEW t \in Seq(S), NEW z \in S
    PROVE g \o Append(t, z) = Append(g \o t, z)
<1>1. <<z>> \in Seq(S) /\ g \o t \in Seq(S)
  BY ConcatProperties
<1>2. Append(t, z) = t \o <<z>> /\ Append(g \o t, z) = (g \o t) \o <<z>>
  BY <1>1, AppendIsConcat
<1>3. (g \o t) \o <<z>> = g \o (t \o <<z>>)
  BY <1>1, ConcatAssociative
<1>. QED BY <1>2, <1>3

LEMMA AplanaJunta ==
    ASSUME NEW S, NEW u \in Seq(Seq(S)), NEW v \in Seq(Seq(S))
    PROVE FlattenSeq(u \o v) = FlattenSeq(u) \o FlattenSeq(v)
<1> DEFINE V(k) == SubSeq(v, 1, k)
           Bien(w) == FlattenSeq(u \o w) = FlattenSeq(u) \o FlattenSeq(w)
           T == {k \in Nat : k <= Len(v) => Bien(V(k))}
<1>1. FlattenSeq(u) \in Seq(S) /\ Len(v) \in Nat
  BY AplanaTipo
<1>2. 0 \in T
  <2>1. V(0) = <<>> /\ u \o <<>> = u
    OBVIOUS
  <2>2. FlattenSeq(u) \o <<>> = FlattenSeq(u)
    BY <1>1
  <2>3. Bien(<<>>)
    BY <2>1, <2>2, AplanaVacia
  <2>. QED BY <2>1, <2>3
<1>3. ASSUME NEW k \in Nat, k \in T PROVE k + 1 \in T
  <2>1. SUFFICES ASSUME k + 1 <= Len(v) PROVE Bien(V(k + 1))
    OBVIOUS
  <2> DEFINE w == V(k)
             x == v[k + 1]
  <2>2. k <= Len(v) /\ k + 1 \in 1 .. Len(v)
    BY <1>1, <2>1
  <2>3. Bien(w)
    BY <1>3, <2>2
  <2>4. w \in Seq(Seq(S)) /\ x \in Seq(S)
    BY <1>1, <2>2
  <2>5. V(k + 1) = Append(w, x)
    BY <1>1, <2>2
  <2>. HIDE DEF w, x, V
  <2>6. /\ u \o w \in Seq(Seq(S))
        /\ u \o Append(w, x) = Append(u \o w, x)
    <3> DEFINE Q == Seq(S)
    <3>1. u \in Seq(Q) /\ w \in Seq(Q) /\ x \in Q
      BY <2>4
    <3>. HIDE DEF Q
    <3>2. u \o w \in Seq(Q) /\ u \o Append(w, x) = Append(u \o w, x)
      BY <3>1, ConcatProperties, ConAppend
    <3>. QED BY <3>2 DEF Q
  <2>7. FlattenSeq(Append(u \o w, x)) = FlattenSeq(u \o w) \o x
    BY <2>4, <2>6, AplanaMas
  <2>8. /\ FlattenSeq(Append(w, x)) = FlattenSeq(w) \o x
        /\ FlattenSeq(w) \in Seq(S)
    BY <2>4, AplanaMas
  <2> DEFINE a == FlattenSeq(u)
             b == FlattenSeq(w)
  <2>9. a \o (b \o x) = (a \o b) \o x
    <3>1. a \in Seq(S) /\ b \in Seq(S)
      BY <1>1, <2>8
    <3>. HIDE DEF a, b
    <3>2. Asocian(a, b, x)
      BY <2>4, <3>1, Asociados
    <3>. QED BY <3>2 DEF Asocian
  <2>10. Bien(Append(w, x))
    BY <2>3, <2>6, <2>7, <2>8, <2>9
  <2>. QED BY <2>5, <2>10
<1>4. Len(v) \in T
  <2>. HIDE DEF T
  <2>. QED BY <1>1, <1>2, <1>3, Induccion
<1>5. Bien(V(Len(v)))
  <2>. HIDE DEF Bien, V
  <2>. QED BY <1>1, <1>4
<1>6. V(Len(v)) = v
  BY SubSeqFull
<1>. QED BY <1>5, <1>6

-----------------------------------------------------------------------------
(* One exchange is an exchange: removing an element and putting it back    *)
(* one place later, in the two ways that the end of the list calls for.    *)
Cambiada(s, j) == [s EXCEPT ![j] = s[j + 1], ![j + 1] = s[j]]

LEMMA CambiadaEs ==
    ASSUME NEW S, NEW s \in Seq(S), NEW j \in 1 .. Len(s) - 1
    PROVE LET t == Cambiada(s, j)
          IN  /\ t \in Seq(S) /\ Len(t) = Len(s)
              /\ t[j] = s[j + 1] /\ t[j + 1] = s[j]
              /\ \A i \in 1 .. Len(s) : i # j /\ i # j + 1 => t[i] = s[i]
<1>1. /\ Len(s) \in Nat /\ DOMAIN s = 1 .. Len(s)
      /\ j \in 1 .. Len(s) /\ j + 1 \in 1 .. Len(s) /\ j # j + 1
  OBVIOUS
<1>. QED BY <1>1 DEF Cambiada

(* A piece of a list.                                                      *)
LEMMA Trozo ==
    ASSUME NEW S, NEW s \in Seq(S), NEW a \in 1 .. Len(s) + 1,
           NEW b \in 0 .. Len(s), a <= b + 1
    PROVE LET t == SubSeq(s, a, b)
          IN  /\ t \in Seq(S) /\ Len(t) = b - a + 1
              /\ \A i \in 1 .. b - a + 1 : t[i] = s[a + i - 1]
<1> DEFINE t == SubSeq(s, a, b)
<1>1. a \in Nat \ {0} /\ b \in Nat /\ Len(s) \in Nat /\ b <= Len(s)
  OBVIOUS
<1>2. \A i \in a .. b : s[i] \in S
  BY <1>1
<1>3. /\ t \in Seq(S)
      /\ Len(t) = IF a <= b THEN b - a + 1 ELSE 0
      /\ \A i \in 1 .. b - a + 1 : t[i] = s[a + i - 1]
  BY <1>1, <1>2, SubSeqProperties
<1>. HIDE DEF t
<1>4. (IF a <= b THEN b - a + 1 ELSE 0) = b - a + 1
  BY <1>1
<1>5. Len(t) = b - a + 1
  BY <1>3, <1>4
<1>. QED BY <1>3, <1>5 DEF t

(* Two pieces joined.                                                      *)
LEMMA Juntos ==
    ASSUME NEW S, NEW s \in Seq(S), NEW t \in Seq(S)
    PROVE /\ s \o t \in Seq(S) /\ Len(s \o t) = Len(s) + Len(t)
          /\ \A i \in 1 .. Len(s) : (s \o t)[i] = s[i]
          /\ \A i \in 1 .. Len(t) : (s \o t)[Len(s) + i] = t[i]
<1> DEFINE u == s \o t
<1>1. /\ u \in Seq(S) /\ Len(u) = Len(s) + Len(t)
      /\ \A i \in 1 .. Len(s) + Len(t) :
            u[i] = IF i <= Len(s) THEN s[i] ELSE t[i - Len(s)]
  BY ConcatProperties
<1>2. Len(s) \in Nat /\ Len(t) \in Nat
  OBVIOUS
<1>. HIDE DEF u
<1>3. ASSUME NEW i \in 1 .. Len(s) PROVE u[i] = s[i]
  BY <1>1, <1>2
<1>4. ASSUME NEW i \in 1 .. Len(t) PROVE u[Len(s) + i] = t[i]
  <2>1. /\ Len(s) + i \in 1 .. Len(s) + Len(t) /\ ~ (Len(s) + i <= Len(s))
        /\ Len(s) + i - Len(s) = i
    BY <1>2
  <2>. QED BY <1>1, <2>1
<1>. QED BY <1>1, <1>3, <1>4 DEF u

(* The occurrences of x in s.                                              *)
Ocurren(s, x) == Cardinality({i \in DOMAIN s : s[i] = x})

LEMMA OcurrenNat ==
    ASSUME NEW S, NEW s \in Seq(S), NEW x
    PROVE /\ IsFiniteSet({i \in DOMAIN s : s[i] = x})
          /\ Ocurren(s, x) \in Nat
<1>1. Len(s) \in Nat /\ DOMAIN s = 1 .. Len(s)
  OBVIOUS
<1>2. IsFiniteSet(1 .. Len(s))
  BY <1>1, FS_Interval
<1>3. {i \in DOMAIN s : s[i] = x} \in SUBSET (1 .. Len(s))
  BY <1>1
<1>. QED BY <1>2, <1>3, FS_Subset, FS_CardinalityType DEF Ocurren

(* The occurrences of two lists put together.                              *)
LEMMA OcurrenJuntas ==
    ASSUME NEW S, NEW s \in Seq(S), NEW t \in Seq(S), NEW x
    PROVE Ocurren(s \o t, x) = Ocurren(s, x) + Ocurren(t, x)
<1> DEFINE n == Len(s)
           m == Len(t)
           u == s \o t
           A == {i \in DOMAIN s : s[i] = x}
           B == {i \in DOMAIN t : t[i] = x}
           C == {n + i : i \in B}
           D == {i \in DOMAIN u : u[i] = x}
           f == [i \in B |-> n + i]
<1>1. n \in Nat /\ m \in Nat /\ DOMAIN s = 1 .. n /\ DOMAIN t = 1 .. m
  OBVIOUS
<1>2. /\ u \in Seq(S) /\ Len(u) = n + m
      /\ \A i \in 1 .. n + m : u[i] = IF i <= n THEN s[i] ELSE t[i - n]
  BY Juntos
<1>3. DOMAIN u = 1 .. n + m
  BY <1>2
<1>4. IsFiniteSet(A) /\ Cardinality(A) \in Nat
  BY OcurrenNat DEF Ocurren
<1>5. IsFiniteSet(B) /\ Cardinality(B) \in Nat
  BY OcurrenNat DEF Ocurren
<1>. HIDE DEF u
<1>6. f \in Bijection(B, C)
  <2>1. \A i \in B : i \in Nat
    BY <1>1
  <2>. HIDE DEF B
  <2>2. f \in [B -> C]
    OBVIOUS
  <2>3. \A i, j \in B : f[i] = f[j] => i = j
    BY <1>1, <2>1
  <2>4. \A k \in C : \E i \in B : f[i] = k
    OBVIOUS
  <2>. HIDE DEF f, C
  <2>. QED BY <2>2, <2>3, <2>4 DEF Bijection, Injection, Surjection, IsInjective
<1>7. IsFiniteSet(C) /\ Cardinality(C) = Cardinality(B)
  <2>. HIDE DEF f, B, C
  <2>1. ExistsBijection(B, C)
    BY <1>6 DEF ExistsBijection
  <2>. QED BY <1>5, <2>1, FS_Bijection
<1>8. D = A \cup C
  <2>1. ASSUME NEW i \in D PROVE i \in A \cup C
    <3>1. i \in 1 .. n + m /\ u[i] = x
      BY <1>3
    <3>2. CASE i <= n
      BY <1>1, <1>2, <3>1, <3>2
    <3>3. CASE i > n
      <4>1. i - n \in B /\ n + (i - n) = i
        BY <1>1, <1>2, <3>1, <3>3
      <4>. HIDE DEF B
      <4>. QED BY <4>1
    <3>. QED BY <1>1, <3>1, <3>2, <3>3
  <2>2. A \subseteq D
    BY <1>1, <1>2, <1>3
  <2>3. ASSUME NEW i \in B PROVE n + i \in D
    BY <1>1, <1>2, <1>3
  <2>4. C \subseteq D
    <3>. HIDE DEF B, D
    <3>. QED BY <2>3
  <2>. HIDE DEF A, C, D
  <2>. QED BY <2>1, <2>2, <2>4
<1>9. A \cap C = {}
  BY <1>1
<1>10. Ocurren(s, x) = Cardinality(A) /\ Ocurren(t, x) = Cardinality(B)
       /\ Ocurren(u, x) = Cardinality(D)
  BY DEF Ocurren
<1>. HIDE DEF A, B, C, D
<1>11. Cardinality(D) = Cardinality(A) + Cardinality(C)
  <2>1. Cardinality(A \cup C)
            = Cardinality(A) + Cardinality(C) - Cardinality(A \cap C)
    BY <1>4, <1>7, FS_Union
  <2>2. Cardinality(A \cap C) = 0
    BY <1>9, FS_EmptySet
  <2>3. Cardinality(C) \in Nat
    BY <1>5, <1>7
  <2>. QED BY <1>4, <1>8, <2>1, <2>2, <2>3
<1>. QED BY <1>7, <1>10, <1>11 DEF u

(* A list without its element j.                                           *)
LEMMA SinUno ==
    ASSUME NEW S, NEW s \in Seq(S), NEW j \in 1 .. Len(s)
    PROVE LET r == RemoveAt(s, j)
          IN  /\ r \in Seq(S) /\ Len(r) = Len(s) - 1
              /\ \A i \in 1 .. Len(s) - 1 :
                    r[i] = IF i < j THEN s[i] ELSE s[i + 1]
<1> DEFINE n == Len(s)
           a == SubSeq(s, 1, j - 1)
           b == SubSeq(s, j + 1, n)
           r == RemoveAt(s, j)
<1>1. n \in Nat /\ j \in Nat /\ 1 <= j /\ j <= n
  OBVIOUS
<1>2. /\ a \in Seq(S) /\ Len(a) = j - 1
      /\ \A i \in 1 .. j - 1 : a[i] = s[i]
  <2>1. 1 \in 1 .. n + 1 /\ j - 1 \in 0 .. n /\ 1 <= j - 1 + 1
    BY <1>1
  <2>2. /\ a \in Seq(S) /\ Len(a) = j - 1 - 1 + 1
        /\ \A i \in 1 .. j - 1 - 1 + 1 : a[i] = s[1 + i - 1]
    BY <2>1, Trozo
  <2>3. j - 1 - 1 + 1 = j - 1 /\ \A i \in 1 .. j - 1 : 1 + i - 1 = i
    BY <1>1
  <2>. HIDE DEF a
  <2>. QED BY <2>2, <2>3
<1>3. /\ b \in Seq(S) /\ Len(b) = n - j
      /\ \A i \in 1 .. n - j : b[i] = s[j + i]
  <2>1. j + 1 \in 1 .. n + 1 /\ n \in 0 .. n /\ j + 1 <= n + 1
    BY <1>1
  <2>2. /\ b \in Seq(S) /\ Len(b) = n - (j + 1) + 1
        /\ \A i \in 1 .. n - (j + 1) + 1 : b[i] = s[(j + 1) + i - 1]
    BY <2>1, Trozo
  <2>3. n - (j + 1) + 1 = n - j /\ \A i \in 1 .. n - j : (j + 1) + i - 1 = j + i
    BY <1>1
  <2>. HIDE DEF b, n
  <2>. QED BY <2>2, <2>3
<1>4. r = a \o b
  BY DEF RemoveAt
<1>. HIDE DEF a, b, r, n
<1>5. /\ r \in Seq(S) /\ Len(r) = Len(a) + Len(b)
      /\ \A i \in 1 .. Len(a) : r[i] = a[i]
      /\ \A i \in 1 .. Len(b) : r[Len(a) + i] = b[i]
  <2>1. a \in Seq(S) /\ b \in Seq(S)
    BY <1>2, <1>3
  <2> DEFINE u == a \o b
  <2>2. /\ u \in Seq(S) /\ Len(u) = Len(a) + Len(b)
        /\ \A i \in 1 .. Len(a) : u[i] = a[i]
        /\ \A i \in 1 .. Len(b) : u[Len(a) + i] = b[i]
    BY <2>1, Juntos
  <2>3. r = u
    BY <1>4
  <2>. HIDE DEF u
  <2>. QED BY <2>2, <2>3
<1>6. Len(r) = n - 1
  BY <1>1, <1>2, <1>3, <1>5
<1>7. ASSUME NEW i \in 1 .. n - 1 PROVE r[i] = IF i < j THEN s[i] ELSE s[i + 1]
  <2>1. CASE i < j
    <3>1. i \in 1 .. j - 1
      BY <1>1, <2>1
    <3>. QED BY <1>2, <1>5, <2>1, <3>1
  <2>2. CASE ~ (i < j)
    <3> DEFINE k == i - (j - 1)
    <3>1. k \in 1 .. n - j /\ (j - 1) + k = i /\ j + k = i + 1
      BY <1>1, <2>2
    <3>. HIDE DEF k
    <3>2. r[(j - 1) + k] = s[j + k]
      BY <1>2, <1>3, <1>5, <3>1
    <3>. QED BY <2>2, <3>1, <3>2
  <2>. QED BY <2>1, <2>2
<1>. QED BY <1>5, <1>6, <1>7 DEF r, n

(* A list with x at place j.                                               *)
LEMMA ConUno ==
    ASSUME NEW S, NEW s \in Seq(S), NEW j \in 1 .. Len(s), NEW x \in S
    PROVE LET r == InsertAt(s, j, x)
          IN  /\ r \in Seq(S) /\ Len(r) = Len(s) + 1
              /\ \A i \in 1 .. Len(s) + 1 :
                    r[i] = IF i < j THEN s[i] ELSE IF i = j THEN x ELSE s[i - 1]
<1> DEFINE n == Len(s)
           a == SubSeq(s, 1, j - 1)
           b == SubSeq(s, j, n)
           m == a \o <<x>>
           r == InsertAt(s, j, x)
<1>1. n \in Nat /\ j \in Nat /\ 1 <= j /\ j <= n
  OBVIOUS
<1>2. /\ a \in Seq(S) /\ Len(a) = j - 1
      /\ \A i \in 1 .. j - 1 : a[i] = s[i]
  <2>1. 1 \in 1 .. n + 1 /\ j - 1 \in 0 .. n /\ 1 <= j - 1 + 1
    BY <1>1
  <2>2. /\ a \in Seq(S) /\ Len(a) = j - 1 - 1 + 1
        /\ \A i \in 1 .. j - 1 - 1 + 1 : a[i] = s[1 + i - 1]
    BY <2>1, Trozo
  <2>3. j - 1 - 1 + 1 = j - 1 /\ \A i \in 1 .. j - 1 : 1 + i - 1 = i
    BY <1>1
  <2>. HIDE DEF a
  <2>. QED BY <2>2, <2>3
<1>3. /\ b \in Seq(S) /\ Len(b) = n - j + 1
      /\ \A i \in 1 .. n - j + 1 : b[i] = s[j + i - 1]
  <2>1. j \in 1 .. n + 1 /\ n \in 0 .. n /\ j <= n + 1
    BY <1>1
  <2>. QED BY <2>1, Trozo
<1>4. r = m \o b
  BY DEF InsertAt
<1>5. <<x>> \in Seq(S) /\ Len(<<x>>) = 1 /\ <<x>>[1] = x
  OBVIOUS
<1>. HIDE DEF a, b, n
<1>6. /\ m \in Seq(S) /\ Len(m) = j /\ \A i \in 1 .. j - 1 : m[i] = s[i]
      /\ m[j] = x
  <2>1. a \in Seq(S)
    BY <1>2
  <2> DEFINE c == <<x>>
  <2>2. /\ c \in Seq(S) /\ Len(c) = 1 /\ c[1] = x /\ m = a \o c
    BY <1>5
  <2>. HIDE DEF c
  <2>3. /\ m \in Seq(S) /\ Len(m) = Len(a) + 1
        /\ \A i \in 1 .. Len(a) : m[i] = a[i]
        /\ \A i \in 1 .. 1 : m[Len(a) + i] = c[i]
    BY <2>1, <2>2, Juntos
  <2>4. Len(a) + 1 = j /\ 1 \in 1 .. 1
    BY <1>1, <1>2
  <2>. HIDE DEF m
  <2>. QED BY <1>2, <2>2, <2>3, <2>4
<1>. HIDE DEF m, r
<1>7. /\ r \in Seq(S) /\ Len(r) = Len(m) + Len(b)
      /\ \A i \in 1 .. Len(m) : r[i] = m[i]
      /\ \A i \in 1 .. Len(b) : r[Len(m) + i] = b[i]
  <2>1. m \in Seq(S) /\ b \in Seq(S)
    BY <1>3, <1>6
  <2> DEFINE u == m \o b
  <2>2. /\ u \in Seq(S) /\ Len(u) = Len(m) + Len(b)
        /\ \A i \in 1 .. Len(m) : u[i] = m[i]
        /\ \A i \in 1 .. Len(b) : u[Len(m) + i] = b[i]
    BY <2>1, Juntos
  <2>3. r = u
    BY <1>4
  <2>. HIDE DEF u
  <2>. QED BY <2>2, <2>3
<1>8. Len(r) = n + 1
  BY <1>1, <1>3, <1>6, <1>7
<1>9. ASSUME NEW i \in 1 .. n + 1
      PROVE r[i] = IF i < j THEN s[i] ELSE IF i = j THEN x ELSE s[i - 1]
  <2>1. CASE i < j
    <3>1. i \in 1 .. j - 1 /\ i \in 1 .. j
      BY <1>1, <2>1
    <3>. QED BY <1>6, <1>7, <2>1, <3>1
  <2>2. CASE i = j
    <3>1. j \in 1 .. j
      BY <1>1
    <3>. QED BY <1>1, <1>6, <1>7, <2>2, <3>1
  <2>3. CASE i > j
    <3> DEFINE k == i - j
    <3>1. /\ k \in 1 .. n - j + 1 /\ j + k = i /\ j + k - 1 = i - 1
          /\ ~ (i < j) /\ i # j
      BY <1>1, <2>3
    <3>. HIDE DEF k
    <3>2. r[j + k] = b[k] /\ b[k] = s[j + k - 1]
      BY <1>3, <1>6, <1>7, <3>1
    <3>. QED BY <3>1, <3>2
  <2>. QED BY <1>1, <2>1, <2>2, <2>3
<1>. QED BY <1>7, <1>8, <1>9 DEF r, n

LEMMA IntercambiaEs ==
    ASSUME NEW S, NEW s \in Seq(S), NEW j \in 1 .. Len(s) - 1
    PROVE Intercambia(s, j - 1) = Cambiada(s, j)
<1> DEFINE n == Len(s)
           x == s[j]
           r == RemoveAt(s, j)
           t == Cambiada(s, j)
           u == Intercambia(s, j - 1)
<1>1. n \in Nat /\ j \in Nat /\ 1 <= j /\ j <= n - 1 /\ j - 1 + 1 = j
  OBVIOUS
<1>2. x \in S /\ j \in 1 .. n
  BY <1>1
<1>3. /\ t \in Seq(S) /\ Len(t) = n
      /\ t[j] = s[j + 1] /\ t[j + 1] = x
      /\ \A i \in 1 .. n : i # j /\ i # j + 1 => t[i] = s[i]
  BY CambiadaEs
<1>4. /\ r \in Seq(S) /\ Len(r) = n - 1
      /\ \A i \in 1 .. n - 1 : r[i] = IF i < j THEN s[i] ELSE s[i + 1]
  BY <1>2, SinUno
<1>5. u = IF (n - 1) - (j - 1) = 1 THEN Append(r, x)
                                   ELSE list_add_in_index(r, j, x)
  <2>1. u = IF (n - 1) - (j - 1) = 1
            THEN Append(list_remove(s, j - 1), s[j - 1 + 1])
            ELSE list_add_in_index(list_remove(s, j - 1), j - 1 + 1, s[j - 1 + 1])
    BY DEF Intercambia
  <2>2. list_remove(s, j - 1) = r
    BY <1>1 DEF list_remove
  <2>. HIDE DEF r, u, n
  <2>. QED BY <1>1, <2>1, <2>2
<1>. HIDE DEF t, r, u, n, x
<1>6. /\ u \in Seq(S) /\ Len(u) = n
      /\ \A i \in 1 .. n : u[i] = IF i < j THEN s[i]
                                ELSE IF i = j + 1 THEN x
                                ELSE IF i = j THEN s[i + 1] ELSE s[i]
  <2>1. CASE j = n - 1
    <3>1. u = Append(r, x)
      BY <1>1, <1>5, <2>1
    <3> DEFINE v == Append(r, x)
    <3>2. v \in Seq(S) /\ Len(v) = n /\ v[n] = x
          /\ \A i \in 1 .. n - 1 : v[i] = r[i]
      BY <1>1, <1>2, <1>4
    <3>3. u = v
      BY <3>1
    <3>. HIDE DEF v
    <3>4. ASSUME NEW i \in 1 .. n
          PROVE u[i] = IF i < j THEN s[i]
                       ELSE IF i = j + 1 THEN x
                       ELSE IF i = j THEN s[i + 1] ELSE s[i]
      <4>1. CASE i = n
        BY <1>1, <2>1, <3>2, <3>3, <4>1
      <4>2. CASE i # n
        <5>1. i \in 1 .. n - 1 /\ (i < j \/ i = j) /\ i # j + 1
          BY <1>1, <2>1, <4>2
        <5>2. u[i] = IF i < j THEN s[i] ELSE s[i + 1]
          BY <1>4, <3>2, <3>3, <5>1
        <5>. QED BY <1>1, <5>1, <5>2
      <4>. QED BY <4>1, <4>2
    <3>. QED BY <3>2, <3>3, <3>4
  <2>2. CASE j # n - 1
    <3>1. /\ (n - 1) - (j - 1) # 1 /\ n - 1 > j /\ j >= 0
          /\ j + 1 \in 1 .. n - 1
      BY <1>1, <2>2
    <3>2. u = InsertAt(r, j + 1, x)
      BY <1>4, <1>5, <3>1 DEF list_add_in_index
    <3> DEFINE v == InsertAt(r, j + 1, x)
    <3>3. /\ v \in Seq(S) /\ Len(v) = Len(r) + 1
          /\ \A i \in 1 .. Len(r) + 1 :
                v[i] = IF i < j + 1 THEN r[i]
                       ELSE IF i = j + 1 THEN x ELSE r[i - 1]
      <4>1. r \in Seq(S) /\ x \in S
        BY <1>2, <1>4
      <4> DEFINE k == j + 1
      <4>2. k \in 1 .. Len(r)
        BY <1>4, <3>1
      <4>. HIDE DEF k
      <4>3. LET w == InsertAt(r, k, x)
            IN  /\ w \in Seq(S) /\ Len(w) = Len(r) + 1
                /\ \A i \in 1 .. Len(r) + 1 :
                      w[i] = IF i < k THEN r[i] ELSE IF i = k THEN x ELSE r[i - 1]
        BY <4>1, <4>2, ConUno
      <4>. QED BY <4>3 DEF k
    <3>4. u = v
      BY <3>2
    <3>5. Len(r) + 1 = n
      BY <1>1, <1>4
    <3>. HIDE DEF v
    <3>6. ASSUME NEW i \in 1 .. n
          PROVE u[i] = IF i < j THEN s[i]
                       ELSE IF i = j + 1 THEN x
                       ELSE IF i = j THEN s[i + 1] ELSE s[i]
      <4>1. u[i] = IF i < j + 1 THEN r[i]
                   ELSE IF i = j + 1 THEN x ELSE r[i - 1]
        BY <3>3, <3>4, <3>5
      <4>2. CASE i < j + 1
        <5>1. i \in 1 .. n - 1 /\ (i < j \/ i = j) /\ i # j + 1
          BY <1>1, <3>1, <4>2
        <5>2. r[i] = IF i < j THEN s[i] ELSE s[i + 1]
          BY <1>4, <5>1
        <5>. QED BY <1>1, <4>1, <4>2, <5>1, <5>2
      <4>3. CASE i = j + 1
        BY <1>1, <4>1, <4>3
      <4>4. CASE i > j + 1
        <5>1. i - 1 \in 1 .. n - 1 /\ ~ (i - 1 < j) /\ i - 1 + 1 = i
          BY <1>1, <4>4
        <5>2. r[i - 1] = s[i]
          BY <1>4, <5>1
        <5>. QED BY <1>1, <4>1, <4>4, <5>2
      <4>. QED BY <1>1, <4>2, <4>3, <4>4
    <3>. QED BY <3>3, <3>4, <3>5, <3>6
  <2>. QED BY <2>1, <2>2
<1>7. ASSUME NEW i \in 1 .. n PROVE u[i] = t[i]
  BY <1>1, <1>3, <1>6
<1>8. u = t
  BY <1>3, <1>6, <1>7, SeqEqual
<1>. QED BY <1>8 DEF u, t

-----------------------------------------------------------------------------
(* One traversal.                                                          *)
Listas(S, n) == {t \in Seq(S) : Len(t) = n}

Campos(S) == [S -> Int]

Paso(K, n, i, t) ==
    IF i < n /\ K[t[i]] > K[t[i + 1]] THEN Intercambia(t, i - 1) ELSE t

LEMMA PasoEs ==
    ASSUME NEW S, NEW n \in Nat, NEW K, NEW i \in 1 .. n, NEW t \in Listas(S, n)
    PROVE /\ Paso(K, n, i, t) \in Listas(S, n)
          /\ i < n /\ K[t[i]] > K[t[i + 1]] => Paso(K, n, i, t) = Cambiada(t, i)
          /\ ~ (i < n /\ K[t[i]] > K[t[i + 1]]) => Paso(K, n, i, t) = t
<1>1. t \in Seq(S) /\ Len(t) = n
  BY DEF Listas
<1>2. CASE i < n /\ K[t[i]] > K[t[i + 1]]
  <2>1. i \in 1 .. Len(t) - 1
    BY <1>1, <1>2
  <2>2. Paso(K, n, i, t) = Cambiada(t, i)
    BY <1>1, <1>2, <2>1, IntercambiaEs DEF Paso
  <2>3. Cambiada(t, i) \in Seq(S) /\ Len(Cambiada(t, i)) = n
    BY <1>1, <2>1, CambiadaEs
  <2>. QED BY <1>2, <2>2, <2>3 DEF Listas
<1>3. CASE ~ (i < n /\ K[t[i]] > K[t[i + 1]])
  BY <1>3 DEF Paso
<1>. QED BY <1>2, <1>3

(* The lists that a traversal of s goes through.                           *)
Recorre(f, K, n, s) ==
    f[0] = s /\ \A i \in 1 .. n : f[i] = Paso(K, n, i, f[i - 1])

LEMMA PasadaEs ==
    ASSUME NEW S, NEW n \in Nat, NEW s \in Listas(S, n), NEW K
    PROVE \E f \in [0 .. n -> Listas(S, n)] :
              Recorre(f, K, n, s) /\ Pasada(s, K) = f[n]
<1> DEFINE A == Listas(S, n)
           Ec(f) == f = [i \in 0 .. n |->
                            IF i = 0 THEN s
                            ELSE LET t == f[i - 1]
                                 IN  IF i < n /\ K[t[i]] > K[t[i + 1]]
                                     THEN Intercambia(t, i - 1) ELSE t]
           G == [i \in Nat |-> [t \in A |-> IF i \in 1 .. n THEN Paso(K, n, i, t)
                                                        ELSE t]]
<1>1. Len(s) = n
  BY DEF Listas
<1>2. G \in [Nat -> [A -> A]]
  <2>1. ASSUME NEW i \in Nat, NEW t \in A
        PROVE (IF i \in 1 .. n THEN Paso(K, n, i, t) ELSE t) \in A
    BY PasoEs
  <2>. HIDE DEF A
  <2>. QED BY <2>1
<1>3. PICK g \in [0 .. n -> A] : Recurrente(g, n, s, G)
  <2>. HIDE DEF G, A
  <2>1. s \in A
    BY DEF A
  <2>. QED BY <1>2, <2>1, HayRecurrente
<1>4. Ec(g)
  <2> DEFINE h == [i \in 0 .. n |->
                            IF i = 0 THEN s
                            ELSE LET t == g[i - 1]
                                 IN  IF i < n /\ K[t[i]] > K[t[i + 1]]
                                     THEN Intercambia(t, i - 1) ELSE t]
  <2>1. ASSUME NEW i \in 0 .. n PROVE g[i] = h[i]
    <3>1. CASE i = 0
      BY <1>3, <3>1 DEF Recurrente
    <3>2. CASE i # 0
      <4>1. i \in 1 .. n /\ i - 1 \in 0 .. n /\ i \in Nat
        BY <3>2
      <4>2. g[i] = G[i][g[i - 1]] /\ g[i - 1] \in A
        BY <1>3, <4>1 DEF Recurrente
      <4>3. G[i][g[i - 1]] = Paso(K, n, i, g[i - 1])
        <5>. HIDE DEF A
        <5>. QED BY <4>1, <4>2
      <4>. HIDE DEF G, A
      <4>. QED BY <3>2, <4>2, <4>3 DEF Paso
    <3>. QED BY <3>1, <3>2
  <2>2. g \in [0 .. n -> A] /\ DOMAIN h = 0 .. n /\ h = [i \in 0 .. n |-> h[i]]
    OBVIOUS
  <2>. HIDE DEF h, A
  <2>3. g = h
    BY <2>1, <2>2
  <2>. QED BY <2>3 DEF h
<1> DEFINE f == CHOOSE x : Ec(x)
<1>5. Ec(f)
  <2>. HIDE DEF Ec
  <2>. QED BY <1>4
<1>6. Pasada(s, K) = f[n]
  BY <1>1 DEF Pasada
<1>. HIDE DEF f
<1>7. f[0] = s /\ \A i \in 1 .. n : f[i] = Paso(K, n, i, f[i - 1])
  <2>1. f[0] = s
    BY <1>5
  <2>2. ASSUME NEW i \in 1 .. n PROVE f[i] = Paso(K, n, i, f[i - 1])
    <3>1. i \in 0 .. n /\ i # 0
      BY <2>2
    <3>2. f[i] = LET t == f[i - 1]
                 IN  IF i < n /\ K[t[i]] > K[t[i + 1]]
                     THEN Intercambia(t, i - 1) ELSE t
      BY <1>5, <3>1
    <3>. QED BY <3>2, Zenon DEF Paso
  <2>. QED BY <2>1, <2>2
<1>8. \A i \in 0 .. n : f[i] \in A
  <2> DEFINE T == {i \in Nat : i <= n => f[i] \in A}
  <2>. HIDE DEF A, Ec
  <2>1. 0 \in T
    BY <1>7 DEF A
  <2>2. ASSUME NEW i \in Nat, i \in T PROVE i + 1 \in T
    <3>1. SUFFICES ASSUME i + 1 <= n PROVE f[i + 1] \in A
      OBVIOUS
    <3>2. i + 1 \in 1 .. n /\ (i + 1) - 1 = i /\ f[i] \in A
      BY <2>2, <3>1
    <3>3. f[i + 1] = Paso(K, n, i + 1, f[i])
      BY <1>7, <3>2
    <3> DEFINE k == i + 1
               x == f[i]
    <3>4. k \in 1 .. n /\ x \in Listas(S, n)
      BY <3>2 DEF A
    <3>. HIDE DEF k, x
    <3>5. Paso(K, n, k, x) \in Listas(S, n)
      BY <3>4, PasoEs
    <3>. QED BY <3>3, <3>5 DEF A, k, x
  <2>. HIDE DEF T
  <2>3. Nat \subseteq T
    BY <2>1, <2>2, Induccion
  <2>. QED BY <2>3 DEF T
<1>9. f \in [0 .. n -> A]
  <2>1. f = [i \in 0 .. n |-> f[i]]
    BY <1>5
  <2>. HIDE DEF A, Ec
  <2>. QED BY <1>8, <2>1
<1>. QED BY <1>6, <1>7, <1>9 DEF Recorre

(* The last m elements are the greatest and are in order.                  *)
Colocados(t, K, n, m) ==
    \A a, b \in 1 .. n : a < b /\ b > n - m => K[t[a]] <= K[t[b]]

(* The same after i comparisons of a traversal: element i + 1 is the       *)
(* greatest so far, until it gets to its place.                            *)
EnPasada(t, K, n, m, i) ==
    \A a, b \in 1 .. n :
        a < b /\ (b = i + 1 \/ b > n - m \/ (b = n - m /\ b <= i + 1))
            => K[t[a]] <= K[t[b]]

LEMMA PasoOrden ==
    ASSUME NEW n \in Nat, NEW m \in Nat, NEW i \in 1 .. n,
           NEW k \in [1 .. n -> Int], NEW h \in [1 .. n -> Int],
           \A a, b \in 1 .. n :
               a < b /\ (b = i \/ b > n - m \/ (b = n - m /\ b <= i))
                   => k[a] <= k[b],
           i < n, k[i] > k[i + 1], h[i] = k[i + 1], h[i + 1] = k[i],
           \A a \in 1 .. n : a # i /\ a # i + 1 => h[a] = k[a],
           NEW a \in 1 .. n, NEW b \in 1 .. n, a < b,
           b = i + 1 \/ b > n - m \/ (b = n - m /\ b <= i + 1)
    PROVE h[a] <= h[b]
<1>1. i + 1 \in 1 .. n /\ i \in Nat
  OBVIOUS
<1>2. ~ (i > n - m) /\ ~ (i + 1 > n - m)
  <2>1. ~ (i + 1 > n - m)
    BY <1>1
  <2>. QED BY <1>1, <2>1
<1>3. CASE b = i + 1
  <2>1. CASE a = i
    BY <1>1, <1>3, <2>1
  <2>2. CASE a # i
    <3>1. a < i /\ h[a] = k[a] /\ h[b] = k[i]
      BY <1>1, <1>3, <2>2
    <3>2. k[a] <= k[i]
      BY <3>1
    <3>. QED BY <3>1, <3>2
  <2>. QED BY <2>1, <2>2
<1>4. CASE b # i + 1 /\ b <= i
  <2>1. b # i
    BY <1>1, <1>2, <1>4
  <2>2. b < i /\ h[b] = k[b] /\ h[a] = k[a]
    BY <1>1, <1>4, <2>1
  <2>3. b = n - m \/ b > n - m
    BY <1>4
  <2>. QED BY <2>2, <2>3
<1>5. CASE b > i + 1
  <2>1. h[b] = k[b] /\ b > n - m
    BY <1>1, <1>5
  <2>2. \A c \in 1 .. n : c < b => k[c] <= k[b]
    BY <2>1
  <2>3. h[a] = k[a] \/ h[a] = k[i] \/ h[a] = k[i + 1]
    BY <1>1
  <2>. QED BY <1>1, <1>5, <2>1, <2>2, <2>3
<1>. QED BY <1>1, <1>3, <1>4, <1>5

(* t is o in another order, the elements of one key in the order they had. *)
Reordena(o, t, K, n, p) ==
    /\ p \in [1 .. n -> 1 .. n]
    /\ \A a \in 1 .. n : t[a] = o[p[a]]
    /\ \A a, b \in 1 .. n : p[a] = p[b] => a = b
    /\ \A c \in 1 .. n : \E a \in 1 .. n : p[a] = c
    /\ \A a, b \in 1 .. n : a < b /\ K[t[a]] = K[t[b]] => p[a] < p[b]
EsReorden(o, t, K, n) == \E p : Reordena(o, t, K, n, p)

LEMMA ReordenMismo ==
    ASSUME NEW n \in Nat, NEW s, NEW K
    PROVE EsReorden(s, s, K, n)
<1> DEFINE p == [i \in 1 .. n |-> i]
<1>1. p \in [1 .. n -> 1 .. n] /\ \A a \in 1 .. n : p[a] = a
  OBVIOUS
<1>. HIDE DEF p
<1>. QED BY <1>1 DEF EsReorden, Reordena

LEMMA ReordenCambiada ==
    ASSUME NEW S, NEW n \in Nat, NEW o, NEW s \in Listas(S, n), NEW K \in Campos(S),
           NEW i \in 1 .. n - 1, K[s[i]] > K[s[i + 1]],
           EsReorden(o, s, K, n)
    PROVE EsReorden(o, Cambiada(s, i), K, n)
<1> DEFINE t == Cambiada(s, i)
<1>1. s \in Seq(S) /\ Len(s) = n /\ i \in 1 .. n /\ i + 1 \in 1 .. n /\ i # i + 1
  BY DEF Listas
<1>2. /\ t[i] = s[i + 1] /\ t[i + 1] = s[i]
      /\ \A a \in 1 .. n : a # i /\ a # i + 1 => t[a] = s[a]
  BY <1>1, CambiadaEs
<1>3. PICK p : Reordena(o, s, K, n, p)
  BY DEF EsReorden
<1> DEFINE q == [a \in 1 .. n |-> IF a = i THEN p[i + 1]
                                 ELSE IF a = i + 1 THEN p[i] ELSE p[a]]
<1>4. /\ q[i] = p[i + 1] /\ q[i + 1] = p[i]
      /\ \A a \in 1 .. n : a # i /\ a # i + 1 => q[a] = p[a]
  BY <1>1
<1>5. /\ p \in [1 .. n -> 1 .. n]
      /\ \A a \in 1 .. n : s[a] = o[p[a]]
      /\ \A a, b \in 1 .. n : p[a] = p[b] => a = b
      /\ \A c \in 1 .. n : \E a \in 1 .. n : p[a] = c
      /\ \A a, b \in 1 .. n : a < b /\ K[s[a]] = K[s[b]] => p[a] < p[b]
  BY <1>3 DEF Reordena
<1>6. q \in [1 .. n -> 1 .. n]
  BY <1>1, <1>5
<1>. HIDE DEF q, t
<1>7. ASSUME NEW a \in 1 .. n PROVE t[a] = o[q[a]]
  <2>1. s[a] = o[p[a]] /\ s[i] = o[p[i]] /\ s[i + 1] = o[p[i + 1]]
    BY <1>1, <1>5
  <2>2. CASE a = i
    BY <1>2, <1>4, <2>1, <2>2
  <2>3. CASE a = i + 1
    BY <1>2, <1>4, <2>1, <2>3
  <2>4. CASE a # i /\ a # i + 1
    BY <1>2, <1>4, <2>1, <2>4
  <2>. QED BY <2>2, <2>3, <2>4
<1>8. ASSUME NEW a \in 1 .. n, NEW b \in 1 .. n, q[a] = q[b]
      PROVE a = b
  <2> DEFINE k == i + 1
             w(c) == IF c = i THEN k ELSE IF c = k THEN i ELSE c
  <2>1. k \in 1 .. n /\ i \in 1 .. n /\ k # i
    BY <1>1
  <2>2. q[i] = p[k] /\ q[k] = p[i] /\ \A c \in 1 .. n : c # i /\ c # k => q[c] = p[c]
    BY <1>4
  <2>. HIDE DEF k
  <2>3. ASSUME NEW c \in 1 .. n PROVE q[c] = p[w(c)] /\ w(c) \in 1 .. n
    BY <2>1, <2>2
  <2>4. p[w(a)] = p[w(b)]
    BY <1>8, <2>3
  <2>5. w(a) = w(b)
    <3>1. w(a) \in 1 .. n /\ w(b) \in 1 .. n
      BY <2>3
    <3>. HIDE DEF w
    <3>. QED BY <1>5, <2>4, <3>1
  <2>. QED BY <2>1, <2>5
<1>9. ASSUME NEW c \in 1 .. n PROVE \E a \in 1 .. n : q[a] = c
  <2>1. PICK a \in 1 .. n : p[a] = c
    BY <1>5
  <2>2. CASE a = i
    BY <1>1, <1>4, <2>1, <2>2
  <2>3. CASE a = i + 1
    BY <1>1, <1>4, <2>1, <2>3
  <2>4. CASE a # i /\ a # i + 1
    BY <1>4, <2>1, <2>4
  <2>. QED BY <2>2, <2>3, <2>4
<1>10. ASSUME NEW a \in 1 .. n, NEW b \in 1 .. n, a < b, K[t[a]] = K[t[b]]
       PROVE q[a] < q[b]
  <2>1. \A c \in 1 .. n : s[c] \in S /\ K[s[c]] \in Int
    BY <1>1 DEF Campos
  <2>2. CASE a = i
    <3>1. b # i + 1
      <4>1. K[s[i + 1]] # K[s[i]]
        BY <1>1, <2>1
      <4>. QED BY <1>2, <1>10, <2>2, <4>1
    <3>2. b > i + 1 /\ t[b] = s[b] /\ q[b] = p[b] /\ K[s[i + 1]] = K[s[b]]
      BY <1>1, <1>2, <1>4, <1>10, <2>2, <3>1
    <3>3. p[i + 1] < p[b]
      BY <1>1, <1>5, <3>2
    <3>. QED BY <1>4, <2>2, <3>2, <3>3
  <2>3. CASE a = i + 1
    <3>1. b > i /\ b # i /\ b # i + 1
      BY <1>1, <1>10, <2>3
    <3>2. t[b] = s[b] /\ q[b] = p[b] /\ K[s[i]] = K[s[b]]
      BY <1>2, <1>4, <1>10, <2>3, <3>1
    <3>3. p[i] < p[b]
      BY <1>1, <1>5, <3>1, <3>2
    <3>. QED BY <1>4, <2>3, <3>2, <3>3
  <2>4. CASE a # i /\ a # i + 1
    <3>1. t[a] = s[a] /\ q[a] = p[a]
      BY <1>2, <1>4, <2>4
    <3>2. CASE b = i
      <4>1. a < i + 1 /\ K[s[a]] = K[s[i + 1]]
        BY <1>1, <1>2, <1>10, <3>1, <3>2
      <4>2. p[a] < p[i + 1]
        BY <1>1, <1>5, <4>1
      <4>. QED BY <1>4, <3>1, <3>2, <4>2
    <3>3. CASE b = i + 1
      <4>1. a < i /\ K[s[a]] = K[s[i]]
        BY <1>1, <1>2, <1>10, <2>4, <3>1, <3>3
      <4>2. p[a] < p[i]
        BY <1>1, <1>5, <4>1
      <4>. QED BY <1>4, <3>1, <3>3, <4>2
    <3>4. CASE b # i /\ b # i + 1
      <4>1. t[b] = s[b] /\ q[b] = p[b]
        BY <1>2, <1>4, <3>4
      <4>. QED BY <1>5, <1>10, <3>1, <4>1
    <3>. QED BY <3>2, <3>3, <3>4
  <2>. QED BY <2>2, <2>3, <2>4
<1>11. Reordena(o, t, K, n, q)
  BY <1>6, <1>7, <1>8, <1>9, <1>10 DEF Reordena
<1>. QED BY <1>11 DEF EsReorden, t
(* A traversal keeps the elements and the order of the equal keys, and     *)
(* takes the greatest element that was not in its place to it.             *)
LEMMA PasadaOrden ==
    ASSUME NEW S, NEW n \in Nat, NEW o, NEW s \in Listas(S, n), NEW K \in Campos(S),
           NEW m \in Nat, Colocados(s, K, n, m), EsReorden(o, s, K, n)
    PROVE /\ Pasada(s, K) \in Listas(S, n)
          /\ EsReorden(o, Pasada(s, K), K, n)
          /\ Colocados(Pasada(s, K), K, n, m + 1)
<1>1. PICK f \in [0 .. n -> Listas(S, n)] :
              Recorre(f, K, n, s) /\ Pasada(s, K) = f[n]
  BY PasadaEs
<1> DEFINE Bien(i) == EsReorden(o, f[i], K, n) /\ EnPasada(f[i], K, n, m, i)
           T == {i \in Nat : i <= n => Bien(i)}
<1>2. 0 \in T
  <2>1. f[0] = s
    BY <1>1 DEF Recorre
  <2>2. ASSUME NEW a \in 1 .. n, NEW b \in 1 .. n, a < b,
               b = 0 + 1 \/ b > n - m \/ (b = n - m /\ b <= 0 + 1)
        PROVE K[s[a]] <= K[s[b]]
    <3>1. b > n - m
      BY <2>2
    <3>. QED BY <2>2, <3>1 DEF Colocados
  <2>3. EnPasada(s, K, n, m, 0)
    BY <2>2 DEF EnPasada
  <2>. QED BY <2>1, <2>3
<1>3. ASSUME NEW j \in Nat, j \in T PROVE j + 1 \in T
  <2> DEFINE i == j + 1
             t == f[j]
  <2>1. SUFFICES ASSUME i <= n PROVE Bien(i)
    OBVIOUS
  <2>2. i \in 1 .. n /\ i \in Nat /\ i - 1 = j /\ j \in 0 .. n /\ j <= n
    BY <2>1
  <2>3. /\ t \in Listas(S, n) /\ EsReorden(o, t, K, n)
        /\ EnPasada(t, K, n, m, j)
    BY <1>1, <1>3, <2>2
  <2>4. f[i] = Paso(K, n, i, t)
    BY <1>1, <2>2 DEF Recorre
  <2>5. \A a, b \in 1 .. n :
           a < b /\ (b = i \/ b > n - m \/ (b = n - m /\ b <= i))
               => K[t[a]] <= K[t[b]]
    BY <2>3 DEF EnPasada
  <2>. HIDE DEF i, t
  <2>6. \A a \in 1 .. n : t[a] \in S /\ K[t[a]] \in Int
    BY <2>3 DEF Listas, Campos
  <2>7. CASE i < n /\ K[t[i]] > K[t[i + 1]]
    <3> DEFINE u == Cambiada(t, i)
    <3>1. f[i] = u
      BY <2>2, <2>3, <2>4, <2>7, PasoEs
    <3>2. i \in 1 .. n - 1
      BY <2>2, <2>7
    <3>3. EsReorden(o, u, K, n)
      BY <2>3, <2>7, <3>2, ReordenCambiada
    <3>4. /\ u \in Seq(S) /\ Len(u) = n
          /\ u[i] = t[i + 1] /\ u[i + 1] = t[i]
          /\ \A a \in 1 .. n : a # i /\ a # i + 1 => u[a] = t[a]
      <4>1. t \in Seq(S) /\ Len(t) = n
        BY <2>3 DEF Listas
      <4>. QED BY <3>2, <4>1, CambiadaEs
    <3>. HIDE DEF u
    <3> DEFINE k == [a \in 1 .. n |-> K[t[a]]]
               h == [a \in 1 .. n |-> K[u[a]]]
    <3>5. k \in [1 .. n -> Int] /\ \A a \in 1 .. n : k[a] = K[t[a]]
      BY <2>6
    <3>6. h \in [1 .. n -> Int] /\ \A a \in 1 .. n : h[a] = K[u[a]]
      BY <3>4 DEF Campos
    <3>. HIDE DEF k, h
    <3>7. i + 1 \in 1 .. n
      BY <3>2
    <3>8. \A a, b \in 1 .. n :
             a < b /\ (b = i \/ b > n - m \/ (b = n - m /\ b <= i))
                 => k[a] <= k[b]
      BY <2>5, <3>5
    <3>9. /\ k[i] > k[i + 1] /\ h[i] = k[i + 1] /\ h[i + 1] = k[i]
          /\ \A a \in 1 .. n : a # i /\ a # i + 1 => h[a] = k[a]
      <4>1. k[i] = K[t[i]] /\ k[i + 1] = K[t[i + 1]]
        BY <2>2, <3>5, <3>7
      <4>2. h[i] = K[u[i]] /\ h[i + 1] = K[u[i + 1]]
        BY <2>2, <3>6, <3>7
      <4>3. ASSUME NEW a \in 1 .. n, a # i, a # i + 1 PROVE h[a] = k[a]
        <5>1. u[a] = t[a]
          BY <3>4, <4>3
        <5>2. h[a] = K[u[a]] /\ k[a] = K[t[a]]
          BY <3>5, <3>6
        <5>. QED BY <5>1, <5>2
      <4>4. k[i] > k[i + 1]
        BY <2>7, <4>1
      <4>. QED BY <3>4, <4>1, <4>2, <4>3, <4>4
    <3>10. ASSUME NEW a \in 1 .. n, NEW b \in 1 .. n, a < b,
                  b = i + 1 \/ b > n - m \/ (b = n - m /\ b <= i + 1)
           PROVE K[u[a]] <= K[u[b]]
      <4>1. h[a] <= h[b]
        <5>1. k \in [1 .. n -> Int] /\ h \in [1 .. n -> Int] /\ i < n
          BY <2>7, <3>5, <3>6
        <5>2. b = i + 1 \/ b > n - m \/ (b = n - m /\ b <= i + 1)
          BY <3>10
        <5>. QED BY <2>2, <3>8, <3>9, <3>10, <5>1, <5>2, PasoOrden, SMTT(30)
      <4>. QED BY <3>6, <4>1
    <3>11. EnPasada(u, K, n, m, i)
      BY <3>10 DEF EnPasada
    <3>. QED BY <3>1, <3>3, <3>11
  <2>8. CASE ~ (i < n /\ K[t[i]] > K[t[i + 1]])
    <3>1. f[i] = t
      BY <2>4, <2>8 DEF Paso
    <3>2. ASSUME NEW a \in 1 .. n, NEW b \in 1 .. n, a < b,
                 b = i + 1 \/ b > n - m \/ (b = n - m /\ b <= i + 1)
          PROVE K[t[a]] <= K[t[b]]
      <4>1. CASE b = i + 1
        <5>1. i < n /\ K[t[i]] <= K[t[b]]
          BY <2>2, <2>6, <2>8, <4>1
        <5>2. CASE a = i
          BY <5>1, <5>2
        <5>3. CASE a # i
          <6>1. a < i
            BY <2>2, <3>2, <4>1, <5>3
          <6>2. K[t[a]] <= K[t[i]]
            BY <2>2, <2>5, <6>1
          <6>. QED BY <2>2, <2>6, <5>1, <6>2
        <5>. QED BY <5>2, <5>3
      <4>2. CASE b # i + 1
        <5>1. b > n - m \/ (b = n - m /\ b <= i)
          BY <2>2, <3>2, <4>2
        <5>. QED BY <2>5, <3>2, <5>1
      <4>. QED BY <4>1, <4>2
    <3>3. EnPasada(t, K, n, m, i)
      BY <3>2 DEF EnPasada
    <3>. QED BY <2>3, <3>1, <3>3
  <2>. QED BY <2>7, <2>8
<1>4. n \in T
  <2>. HIDE DEF T
  <2>1. Nat \subseteq T
    BY <1>2, <1>3, Induccion
  <2>. QED BY <2>1
<1>5. Bien(n)
  BY <1>4
<1>6. f[n] \in Listas(S, n)
  BY <1>1
<1>7. Colocados(f[n], K, n, m + 1)
  <2>1. ASSUME NEW a \in 1 .. n, NEW b \in 1 .. n, a < b, b > n - (m + 1)
        PROVE K[f[n][a]] <= K[f[n][b]]
    <3>1. b > n - m \/ (b = n - m /\ b <= n + 1)
      BY <2>1
    <3>. QED BY <1>5, <2>1, <3>1 DEF EnPasada
  <2>. QED BY <2>1 DEF Colocados
<1>. QED BY <1>1, <1>5, <1>6, <1>7

(* The sort: its result is in order, and has the elements of s with those  *)
(* of one key in the order they had.                                       *)
LEMMA BurbujaEs ==
    ASSUME NEW S, NEW s \in Seq(S), NEW K \in Campos(S)
    PROVE /\ Burbuja(s, K) \in Seq(S) /\ Len(Burbuja(s, K)) = Len(s)
          /\ EsReorden(s, Burbuja(s, K), K, Len(s))
          /\ Colocados(Burbuja(s, K), K, Len(s), Len(s))
<1> DEFINE n == Len(s)
           A == Listas(S, n)
           Ec(f) == f = [i \in 0 .. n |-> IF i = 0 THEN s ELSE Pasada(f[i - 1], K)]
           G == [i \in Nat |-> [t \in A |-> Pasada(t, K)]]
<1>1. n \in Nat /\ s \in A
  BY DEF Listas
<1>. HIDE DEF n
<1>2. G \in [Nat -> [A -> A]]
  <2>1. ASSUME NEW t \in A PROVE Pasada(t, K) \in A
    <3>1. PICK f \in [0 .. n -> Listas(S, n)] : Pasada(t, K) = f[n]
      BY <1>1, PasadaEs
    <3>. QED BY <1>1, <3>1
  <2>. HIDE DEF A
  <2>. QED BY <2>1
<1>3. PICK g \in [0 .. n -> A] : Recurrente(g, n, s, G)
  <2>. HIDE DEF G, A
  <2>. QED BY <1>1, <1>2, HayRecurrente
<1>4. Ec(g)
  <2> DEFINE h == [i \in 0 .. n |-> IF i = 0 THEN s ELSE Pasada(g[i - 1], K)]
  <2>1. ASSUME NEW i \in 0 .. n PROVE g[i] = h[i]
    <3>1. CASE i = 0
      BY <1>3, <3>1 DEF Recurrente
    <3>2. CASE i # 0
      <4>1. i \in 1 .. n /\ i - 1 \in 0 .. n /\ i \in Nat
        BY <1>1, <3>2
      <4>2. g[i] = G[i][g[i - 1]] /\ g[i - 1] \in A
        BY <1>3, <4>1 DEF Recurrente
      <4>3. G[i][g[i - 1]] = Pasada(g[i - 1], K)
        <5>. HIDE DEF A
        <5>. QED BY <4>1, <4>2
      <4>. HIDE DEF G, A
      <4>. QED BY <3>2, <4>2, <4>3
    <3>. QED BY <3>1, <3>2
  <2>2. g \in [0 .. n -> A] /\ DOMAIN h = 0 .. n /\ h = [i \in 0 .. n |-> h[i]]
    OBVIOUS
  <2>. HIDE DEF h, A
  <2>3. g = h
    BY <2>1, <2>2
  <2>. QED BY <2>3 DEF h
<1> DEFINE f == CHOOSE x : Ec(x)
<1>5. Ec(f)
  <2>. HIDE DEF Ec
  <2>. QED BY <1>4
<1>6. Burbuja(s, K) = f[n]
  BY DEF Burbuja, n
<1>. HIDE DEF f
<1>7. f[0] = s /\ \A i \in 1 .. n : f[i] = Pasada(f[i - 1], K)
  BY <1>1, <1>5
<1>. HIDE DEF Ec, A, G
<1> DEFINE Bien(i) == /\ f[i] \in A
                      /\ EsReorden(s, f[i], K, n) /\ Colocados(f[i], K, n, i)
           T == {i \in Nat : i <= n => Bien(i)}
<1>8. 0 \in T
  <2>1. Colocados(s, K, n, 0)
    BY <1>1 DEF Colocados
  <2>. QED BY <1>1, <1>7, <2>1, ReordenMismo
<1>9. ASSUME NEW i \in Nat, i \in T PROVE i + 1 \in T
  <2>1. SUFFICES ASSUME i + 1 <= n PROVE Bien(i + 1)
    OBVIOUS
  <2>2. i + 1 \in 1 .. n /\ (i + 1) - 1 = i /\ Bien(i)
    BY <1>1, <1>9, <2>1
  <2>3. f[i + 1] = Pasada(f[i], K)
    BY <1>7, <2>2
  <2> DEFINE t == f[i]
  <2>4. t \in Listas(S, n) /\ EsReorden(s, t, K, n) /\ Colocados(t, K, n, i)
    BY <2>2 DEF A
  <2>. HIDE DEF t
  <2>5. /\ Pasada(t, K) \in Listas(S, n)
        /\ EsReorden(s, Pasada(t, K), K, n)
        /\ Colocados(Pasada(t, K), K, n, i + 1)
    BY <1>1, <2>4, PasadaOrden
  <2>. QED BY <2>3, <2>5 DEF t, A
<1>10. n \in T
  <2>. HIDE DEF T
  <2>1. Nat \subseteq T
    BY <1>8, <1>9, Induccion
  <2>. QED BY <1>1, <2>1
<1>11. Bien(n)
  BY <1>1, <1>10
<1>. QED BY <1>6, <1>11 DEF A, Listas, n

-----------------------------------------------------------------------------
(* The popped images put in front of a batch that is not empty: all of     *)
(* them, the last one first.                                               *)
LEMMA AnteponeEs ==
    ASSUME NEW S, NEW e \in Seq(S), NEW l \in Seq(S), Len(l) > 0
    PROVE Antepone(e, l) = Reverse(e) \o l
<1> DEFINE n == Len(e)
           A == {t \in Seq(S) : Len(t) > 0}
           Pone(i, t) == list_add_in_index(t, 0, e[i])
           Ec(f) == f = [i \in 0 .. n |->
                            IF i = 0 THEN l
                            ELSE list_add_in_index(f[i - 1], 0, e[i])]
           G == [i \in Nat |-> [t \in A |-> IF i \in 1 .. n THEN Pone(i, t) ELSE t]]
<1>1. n \in Nat /\ l \in A /\ \A i \in 1 .. n : e[i] \in S
  OBVIOUS
<1>2. ASSUME NEW t \in A, NEW i \in 1 .. n
      PROVE /\ Pone(i, t) \in A /\ Len(Pone(i, t)) = Len(t) + 1
            /\ \A k \in 1 .. Len(t) + 1 :
                  Pone(i, t)[k] = IF k = 1 THEN e[i] ELSE t[k - 1]
  <2>1. t \in Seq(S) /\ Len(t) > 0 /\ Len(t) \in Nat /\ 0 + 1 = 1 /\ 1 \in 1 .. Len(t)
    OBVIOUS
  <2> DEFINE x == e[i]
             r == InsertAt(t, 1, x)
  <2>2. x \in S
    BY <1>1
  <2>3. Pone(i, t) = r
    BY <2>1 DEF list_add_in_index
  <2>. HIDE DEF x
  <2>4. /\ r \in Seq(S) /\ Len(r) = Len(t) + 1
        /\ \A k \in 1 .. Len(t) + 1 :
              r[k] = IF k < 1 THEN t[k] ELSE IF k = 1 THEN x ELSE t[k - 1]
    BY <2>1, <2>2, ConUno
  <2>. HIDE DEF r, Pone
  <2>5. r \in A
    BY <2>1, <2>4
  <2>6. ASSUME NEW k \in 1 .. Len(t) + 1
        PROVE r[k] = IF k = 1 THEN x ELSE t[k - 1]
    BY <2>1, <2>4
  <2>. QED BY <2>3, <2>4, <2>5, <2>6 DEF x
<1>. HIDE DEF n
<1>3. G \in [Nat -> [A -> A]]
  <2>1. ASSUME NEW i \in Nat, NEW t \in A
        PROVE (IF i \in 1 .. n THEN Pone(i, t) ELSE t) \in A
    <3>. HIDE DEF Pone, A
    <3>. QED BY <1>2
  <2>. HIDE DEF A, Pone
  <2>. QED BY <2>1
<1>4. PICK g \in [0 .. n -> A] : Recurrente(g, n, l, G)
  <2>. HIDE DEF G, A
  <2>. QED BY <1>1, <1>3, HayRecurrente
<1>5. Ec(g)
  <2> DEFINE h == [i \in 0 .. n |-> IF i = 0 THEN l
                                  ELSE list_add_in_index(g[i - 1], 0, e[i])]
  <2>1. ASSUME NEW i \in 0 .. n PROVE g[i] = h[i]
    <3>1. CASE i = 0
      BY <1>4, <3>1 DEF Recurrente
    <3>2. CASE i # 0
      <4>1. i \in 1 .. n /\ i - 1 \in 0 .. n /\ i \in Nat
        BY <1>1, <3>2
      <4>2. g[i] = G[i][g[i - 1]] /\ g[i - 1] \in A
        BY <1>4, <4>1 DEF Recurrente
      <4>3. G[i][g[i - 1]] = Pone(i, g[i - 1])
        <5>. HIDE DEF A, Pone
        <5>. QED BY <4>1, <4>2
      <4>. HIDE DEF G, A
      <4>. QED BY <3>2, <4>2, <4>3
    <3>. QED BY <3>1, <3>2
  <2>2. g \in [0 .. n -> A] /\ DOMAIN h = 0 .. n /\ h = [i \in 0 .. n |-> h[i]]
    OBVIOUS
  <2>. HIDE DEF h, A
  <2>3. g = h
    BY <2>1, <2>2
  <2>. QED BY <2>3 DEF h
<1> DEFINE f == CHOOSE x : Ec(x)
<1>6. Ec(f)
  <2>. HIDE DEF Ec
  <2>. QED BY <1>5
<1>7. Antepone(e, l) = f[n]
  BY DEF Antepone, n
<1>. HIDE DEF f
<1>8. f[0] = l /\ \A i \in 1 .. n : f[i] = Pone(i, f[i - 1])
  BY <1>1, <1>6
<1> DEFINE Bien(i) == /\ f[i] \in A /\ Len(f[i]) = i + Len(l)
                      /\ \A k \in 1 .. i + Len(l) :
                            f[i][k] = IF k <= i THEN e[i - k + 1] ELSE l[k - i]
           T == {i \in Nat : i <= n => Bien(i)}
<1>. HIDE DEF Ec, A, G, Pone
<1>9. Len(l) \in Nat
  OBVIOUS
<1>10. 0 \in T
  BY <1>1, <1>8, <1>9
<1>11. ASSUME NEW j \in Nat, j \in T PROVE j + 1 \in T
  <2> DEFINE i == j + 1
             t == f[j]
             u == f[i]
  <2>1. SUFFICES ASSUME i <= n PROVE Bien(i)
    OBVIOUS
  <2>2. i \in 1 .. n /\ i - 1 = j /\ j <= n /\ i \in Nat
    BY <1>1, <2>1
  <2>3. /\ t \in A /\ Len(t) = j + Len(l)
        /\ \A k \in 1 .. j + Len(l) :
              t[k] = IF k <= j THEN e[j - k + 1] ELSE l[k - j]
    BY <1>11, <2>2
  <2>4. u = Pone(i, t)
    BY <1>8, <2>2
  <2>. HIDE DEF t, u
  <2>5. /\ u \in A /\ Len(u) = j + Len(l) + 1
        /\ \A k \in 1 .. j + Len(l) + 1 : u[k] = IF k = 1 THEN e[i] ELSE t[k - 1]
    <3>1. t \in A /\ i \in 1 .. n
      BY <2>2, <2>3
    <3>. HIDE DEF i
    <3>2. /\ Pone(i, t) \in A /\ Len(Pone(i, t)) = Len(t) + 1
          /\ \A k \in 1 .. Len(t) + 1 :
                Pone(i, t)[k] = IF k = 1 THEN e[i] ELSE t[k - 1]
      BY <1>2, <3>1
    <3>. QED BY <2>3, <2>4, <3>2
  <2>6. i + Len(l) = j + Len(l) + 1
    BY <1>9
  <2>7. ASSUME NEW k \in 1 .. i + Len(l)
        PROVE u[k] = IF k <= i THEN e[i - k + 1] ELSE l[k - i]
    <3>1. u[k] = IF k = 1 THEN e[i] ELSE t[k - 1]
      BY <2>5, <2>6
    <3>2. CASE k = 1
      <4>1. k <= i /\ i - k + 1 = i
        BY <2>2, <3>2
      <4>. QED BY <3>1, <3>2, <4>1
    <3>3. CASE k # 1
      <4> DEFINE m == k - 1
      <4>1. /\ m \in 1 .. j + Len(l) /\ (m <= j <=> k <= i)
            /\ j - m + 1 = i - k + 1 /\ m - j = k - i
        BY <1>9, <2>2, <2>6, <3>3
      <4>2. u[k] = t[m]
        BY <3>1, <3>3
      <4>. HIDE DEF m, i
      <4>3. t[m] = IF m <= j THEN e[j - m + 1] ELSE l[m - j]
        BY <2>3, <4>1
      <4>. QED BY <4>1, <4>2, <4>3
    <3>. QED BY <3>2, <3>3
  <2>. QED BY <2>5, <2>6, <2>7 DEF u
<1>12. n \in T
  <2>. HIDE DEF T
  <2>1. Nat \subseteq T
    BY <1>10, <1>11, Induccion
  <2>. QED BY <1>1, <2>1
<1>13. Bien(n)
  BY <1>1, <1>12
<1> DEFINE a == Reverse(e)
           r == f[n]
           v == a \o l
<1>14. /\ a \in Seq(S) /\ Len(a) = n
       /\ \A k \in 1 .. n : a[k] = e[(n - k) + 1]
  <2>1. \A k \in 1 .. n : e[(n - k) + 1] \in S
    BY <1>1
  <2>. QED BY <1>1, <2>1 DEF Reverse, n
<1>. HIDE DEF a
<1>15. /\ v \in Seq(S) /\ Len(v) = Len(a) + Len(l)
       /\ \A k \in 1 .. Len(a) : v[k] = a[k]
       /\ \A k \in 1 .. Len(l) : v[Len(a) + k] = l[k]
  <2>1. a \in Seq(S)
    BY <1>14
  <2>. QED BY <2>1, Juntos
<1>. HIDE DEF v
<1>16. r \in Seq(S) /\ Len(r) = n + Len(l)
  BY <1>13 DEF A
<1>17. ASSUME NEW k \in 1 .. n + Len(l) PROVE r[k] = v[k]
  <2>1. r[k] = IF k <= n THEN e[n - k + 1] ELSE l[k - n]
    BY <1>13
  <2>2. CASE k <= n
    BY <1>1, <1>9, <1>14, <1>15, <2>1, <2>2
  <2>3. CASE k > n
    <3> DEFINE m == k - n
    <3>1. m \in 1 .. Len(l) /\ n + m = k /\ ~ (k <= n)
      BY <1>1, <1>9, <2>3
    <3>2. r[k] = l[m]
      BY <2>1, <3>1
    <3>. HIDE DEF m
    <3>. QED BY <1>14, <1>15, <3>1, <3>2
  <2>. QED BY <1>1, <1>9, <2>2, <2>3
<1>. HIDE DEF r, Bien
<1>18. r = v
  BY <1>14, <1>15, <1>16, <1>17, SeqEqual
<1>. QED BY <1>7, <1>18 DEF r, v, a

-----------------------------------------------------------------------------
(* c are the keys of a list, k those of its stable order and p where each  *)
(* one was: the elements that come before the one in place r, with it, are *)
(* r.                                                                      *)
Puestos(n, k, c, p) ==
    /\ k \in [1 .. n -> Int] /\ c \in [1 .. n -> Int]
    /\ p \in [1 .. n -> 1 .. n]
    /\ \A a \in 1 .. n : k[a] = c[p[a]]
    /\ \A a, b \in 1 .. n : p[a] = p[b] => a = b
    /\ \A j \in 1 .. n : \E a \in 1 .. n : p[a] = j
    /\ \A a, b \in 1 .. n : a < b => k[a] <= k[b]
    /\ \A a, b \in 1 .. n : a < b /\ k[a] = k[b] => p[a] < p[b]
Hasta(n, c, i) == {j \in 1 .. n : c[j] < c[i] \/ (c[j] = c[i] /\ j <= i)}

LEMMA Comparan ==
    ASSUME NEW x \in Int, NEW y \in Int, NEW u \in Int, NEW v \in Int,
           x <= y, x = y => u < v
    PROVE /\ x < y \/ (x = y /\ u <= v)
          /\ ~ (y < x \/ (y = x /\ v <= u))
  OBVIOUS

LEMMA PuestoEs ==
    ASSUME NEW n \in Nat, NEW k, NEW c, NEW p, Puestos(n, k, c, p), NEW r \in 1 .. n
    PROVE Cardinality(Hasta(n, c, p[r])) = r
<1> DEFINE V == Hasta(n, c, p[r])
           h == [a \in 1 .. r |-> p[a]]
<1>1. r \in Nat /\ p[r] \in 1 .. n /\ p[r] \in Int /\ k[r] \in Int /\ k[r] = c[p[r]]
  BY DEF Puestos
<1>2. ASSUME NEW a \in 1 .. n PROVE p[a] \in V <=> a <= r
  <2>1. p[a] \in 1 .. n /\ p[a] \in Int /\ k[a] \in Int /\ a \in Int /\ k[a] = c[p[a]]
    BY DEF Puestos
  <2>2. p[a] \in V <=> (k[a] < k[r] \/ (k[a] = k[r] /\ p[a] <= p[r]))
    BY <1>1, <2>1 DEF Hasta
  <2>. HIDE DEF V
  <2>3. CASE a = r
    BY <1>1, <2>1, <2>2, <2>3
  <2>4. CASE a < r
    <3>1. k[a] <= k[r] /\ (k[a] = k[r] => p[a] < p[r])
      BY <2>4 DEF Puestos
    <3>2. k[a] < k[r] \/ (k[a] = k[r] /\ p[a] <= p[r])
      BY <1>1, <2>1, <3>1, Comparan
    <3>3. a <= r
      BY <1>1, <2>1, <2>4
    <3>. QED BY <2>2, <3>2, <3>3
  <2>5. CASE r < a
    <3>1. k[r] <= k[a] /\ (k[r] = k[a] => p[r] < p[a])
      BY <2>5 DEF Puestos
    <3>2. ~ (k[a] < k[r] \/ (k[a] = k[r] /\ p[a] <= p[r]))
      BY <1>1, <2>1, <3>1, Comparan
    <3>3. ~ (a <= r)
      BY <1>1, <2>1, <2>5
    <3>. QED BY <2>2, <3>2, <3>3
  <2>. QED BY <1>1, <2>1, <2>3, <2>4, <2>5
<1>3. h \in [1 .. r -> V] /\ \A a \in 1 .. r : h[a] = p[a] /\ a \in 1 .. n
  <2>1. \A a \in 1 .. r : a \in 1 .. n /\ a <= r
    BY <1>1
  <2>. HIDE DEF V
  <2>. QED BY <1>2, <2>1
<1>. HIDE DEF h
<1>4. \A a, b \in 1 .. r : h[a] = h[b] => a = b
  BY <1>3 DEF Puestos
<1>5. ASSUME NEW j \in V PROVE \E a \in 1 .. r : h[a] = j
  <2>1. PICK a \in 1 .. n : p[a] = j
    BY DEF Puestos, Hasta
  <2>. HIDE DEF V
  <2>2. a \in 1 .. r
    BY <1>1, <1>2, <1>5, <2>1
  <2>. QED BY <1>3, <2>1, <2>2
<1>. HIDE DEF V
<1>6. h \in Bijection(1 .. r, V)
  <2>1. h \in Injection(1 .. r, V)
    BY <1>3, <1>4, Fun_IsInj
  <2>2. h \in Surjection(1 .. r, V)
    BY <1>3, <1>5, Fun_IsSurj
  <2>. QED BY <2>1, <2>2 DEF Bijection
<1>7. IsFiniteSet(1 .. r) /\ Cardinality(1 .. r) = r
  BY <1>1, FS_Interval
<1>8. ExistsBijection(1 .. r, V)
  BY <1>6 DEF ExistsBijection
<1>9. Cardinality(V) = r
  BY <1>7, <1>8, FS_Bijection
<1>. QED BY <1>9 DEF V

-----------------------------------------------------------------------------
(* In front of an empty batch nothing is put: list_add_in_index drops the  *)
(* element.                                                                *)
LEMMA AnteponeVacia ==
    ASSUME NEW S, NEW e \in Seq(S)
    PROVE Antepone(e, <<>>) = <<>>
<1> DEFINE n == Len(e)
           Ec(x) == x = [i \in 0 .. n |->
                            IF i = 0 THEN <<>>
                            ELSE list_add_in_index(x[i - 1], 0, e[i])]
           g == [i \in 0 .. n |-> <<>>]
           f == CHOOSE x : Ec(x)
<1>1. n \in Nat
  OBVIOUS
<1>2. ASSUME NEW x PROVE list_add_in_index(<<>>, 0, x) = <<>>
  BY DEF list_add_in_index
<1>3. Ec(g)
  <2> DEFINE h == [i \in 0 .. n |-> IF i = 0 THEN <<>>
                                  ELSE list_add_in_index(g[i - 1], 0, e[i])]
  <2>1. ASSUME NEW i \in 0 .. n PROVE h[i] = <<>>
    <3>1. CASE i = 0
      BY <3>1
    <3>2. CASE i # 0
      <4>1. i - 1 \in 0 .. n
        BY <1>1, <3>2
      <4>2. g[i - 1] = <<>>
        BY <4>1
      <4>. QED BY <1>2, <3>2, <4>2
    <3>. QED BY <3>1, <3>2
  <2>2. h = [i \in 0 .. n |-> h[i]]
    OBVIOUS
  <2>. HIDE DEF h
  <2>3. h = g
    BY <2>1, <2>2
  <2>. QED BY <2>3 DEF h
<1>4. Ec(f)
  <2>. HIDE DEF Ec
  <2>. QED BY <1>3
<1>5. Antepone(e, <<>>) = f[n]
  BY DEF Antepone, n
<1>. HIDE DEF f
<1> DEFINE T == {i \in Nat : i <= n => f[i] = <<>>}
<1>6. 0 \in T
  BY <1>1, <1>4
<1>7. ASSUME NEW j \in Nat, j \in T PROVE j + 1 \in T
  <2> DEFINE i == j + 1
  <2>1. SUFFICES ASSUME i <= n PROVE f[i] = <<>>
    OBVIOUS
  <2>2. i \in 0 .. n /\ i # 0 /\ i - 1 = j /\ j <= n
    BY <1>1, <2>1
  <2>3. f[j] = <<>>
    BY <1>7, <2>2
  <2>. HIDE DEF i
  <2>4. f[i] = list_add_in_index(f[i - 1], 0, e[i])
    BY <1>4, <2>2
  <2>. QED BY <1>2, <2>2, <2>3, <2>4
<1>8. n \in T
  <2>. HIDE DEF T
  <2>1. Nat \subseteq T
    BY <1>6, <1>7, Induccion
  <2>. QED BY <1>1, <2>1
<1>. QED BY <1>5, <1>8

(* The insertion of a batch: the k images popped go in front of it, the    *)
(* others stay, and what goes back to the queue is the batch in order.     *)
Insertada(S, l, q, t, K) ==
    LET k == Extraidos(Len(q), t)
        a == Antepone(SubSeq(q, 1, k), l)
        o == Burbuja(a, K)
        r == orderInsert(l, q, t, K)
    IN  /\ k \in 0 .. Len(q)
        /\ SubSeq(q, 1, k) \in Seq(S) /\ Len(SubSeq(q, 1, k)) = k
        /\ SubSeq(q, k + 1, Len(q)) \in Seq(S)
        /\ Len(SubSeq(q, k + 1, Len(q))) = Len(q) - k
        /\ a \in Seq(S) /\ o \in Seq(S) /\ Len(o) = Len(a)
        /\ Len(a) = IF l = <<>> THEN 0 ELSE k + Len(l)
        /\ r.LPL = SubSeq(q, k + 1, Len(q)) \o o /\ r.LPL \in Seq(S)
        /\ r.sem = (IF t >= k THEN t - k ELSE 0) + Len(o)
        /\ r.sem \in Nat

LEMMA OrderInsertEs ==
    ASSUME NEW S, NEW l \in Seq(S), NEW q \in Seq(S), NEW t \in Nat,
           NEW K \in Campos(S)
    PROVE Insertada(S, l, q, t, K)
<1> DEFINE n == Len(q)
           k == Extraidos(n, t)
           e == SubSeq(q, 1, k)
           u == SubSeq(q, k + 1, n)
           a == Antepone(e, l)
           o == Burbuja(a, K)
           r == orderInsert(l, q, t, K)
           x == u \o o
           y == (IF t >= k THEN t - k ELSE 0) + Len(o)
<1>1. n \in Nat /\ k \in 0 .. n
  BY DEF Extraidos
<1>. HIDE DEF k
<1>2. e \in Seq(S) /\ Len(e) = k
  <2>1. 1 \in 1 .. n + 1 /\ k \in 0 .. n /\ 1 <= k + 1 /\ k - 1 + 1 = k
    BY <1>1
  <2>. HIDE DEF n
  <2>. QED BY <2>1, Trozo DEF n
<1>3. u \in Seq(S) /\ Len(u) = n - k
  <2>1. k + 1 \in 1 .. n + 1 /\ n \in 0 .. n /\ k + 1 <= n + 1
        /\ n - (k + 1) + 1 = n - k
    BY <1>1
  <2>. HIDE DEF n
  <2>. QED BY <2>1, Trozo DEF n
<1>4. a \in Seq(S) /\ Len(a) = IF l = <<>> THEN 0 ELSE k + Len(l)
  <2>. HIDE DEF e
  <2>1. CASE l = <<>>
    <3>1. a = <<>>
      BY <1>2, <2>1, AnteponeVacia
    <3>. QED BY <2>1, <3>1
  <2>2. CASE l # <<>>
    <3>1. Len(l) > 0
      BY <2>2
    <3> DEFINE v == Reverse(e)
    <3>2. a = v \o l
      BY <1>2, <3>1, AnteponeEs
    <3>3. v \in Seq(S) /\ Len(v) = k
      <4>1. \A i \in 1 .. Len(e) : e[(Len(e) - i) + 1] \in S
        BY <1>2
      <4>. QED BY <1>1, <1>2, <4>1 DEF Reverse
    <3>. HIDE DEF v, a
    <3>4. v \o l \in Seq(S) /\ Len(v \o l) = Len(v) + Len(l)
      BY <3>3, Juntos
    <3>. QED BY <2>2, <3>2, <3>3, <3>4
  <2>. QED BY <2>1, <2>2
<1>. HIDE DEF a, e, u
<1>5. o \in Seq(S) /\ Len(o) = Len(a)
  BY <1>4, BurbujaEs
<1>. HIDE DEF o
<1>6. x \in Seq(S)
  BY <1>3, <1>5, Juntos
<1>7. y \in Nat
  BY <1>1, <1>5
<1>8. r = [LPL |-> x, sem |-> y]
  BY DEF orderInsert, a, e, k, o, u
<1>. HIDE DEF x, y, r, n
<1>9. r.LPL = x /\ r.sem = y
  BY <1>8
<1>. QED BY <1>1, <1>2, <1>3, <1>4, <1>5, <1>6, <1>7, <1>9
         DEF Insertada, a, e, k, o, u, x, y, n, r
=============================================================================
