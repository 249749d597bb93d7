---------------------------- MODULE FlujoProofs ----------------------------
(***************************************************************************)
(* The stream of bytes between a PI and the PP, for any width of a length, *)
(* any sizes and any number of texts.                                      *)
(*                                                                         *)
(* TCP cuts and joins the bytes at will, so what is said of them is said   *)
(* of the stream as a whole: byte j of those sent and not read, whether it *)
(* has arrived or not.  It is said in closed form (where byte j is, and    *)
(* not what comes after it), so that no step needs an induction over it:   *)
(* the only one, over the messages and with Induccion of ListaProofs,      *)
(* reads the closed form as their concatenation (CadenaAplanada).          *)
(***************************************************************************)
EXTENDS Flujo, ListaProofs

N     == Len(textos)
L(m)  == Largo(m, textos[m])
Total == Len(llegado) + Len(vuelo)
B(j)  == IF j <= Len(llegado) THEN llegado[j] ELSE vuelo[j - Len(llegado)]
Byte(m, k) == [m |-> m, k |-> k]

(* The bytes s[1 .. t], of n messages with the lengths l: the bytes of a   *)
(* message are in order, none is missing up to its last, and the first of  *)
(* the next one comes after it.                                            *)
Cadena(s, t, l, n) ==
    /\ \A i \in 1 .. t : /\ s[i] = Byte(s[i].m, s[i].k)
                         /\ s[i].m \in 1 .. n /\ s[i].k \in 1 .. l[s[i].m]
    /\ \A i \in 1 .. t : \A j \in i .. t :
          s[i].k + (j - i) <= l[s[i].m]
             => s[j] = Byte(s[i].m, s[i].k + (j - i))
    /\ \A i \in 1 .. t : l[s[i].m] - s[i].k <= t - i
    /\ \A i \in 1 .. t : i < t /\ s[i].k = l[s[i].m]
                            => s[i + 1] = Byte(s[i].m + 1, 1)

(* The stream is one.  Its last byte is of the last message, but for a     *)
(* message of no bytes, after which nothing is sent.                       *)
flujo  == [j \in 1 .. Total |-> B(j)]
largos == [m \in 1 .. N |-> L(m)]
FlujoInv ==
    /\ Cadena(flujo, Total, largos, N)
    /\ emisor = "vivo" /\ Total > 0 => flujo[Total].m = N

(* Before a byte of a message come those that the message has before it,   *)
(* as far as they have not been read.                                      *)
Atras(s, t) ==
    \A i \in 1 .. t : \A j \in 1 .. i :
        s[i].k > i - j => s[j] = Byte(s[i].m, s[i].k - (i - j))
AtrasInv == Atras(flujo, Total)

(* The stream starts with the header of message m, and it has arrived.     *)
Cabeza(m) ==
    /\ Len(llegado) >= TamHeader
    /\ \A k \in 1 .. TamHeader : flujo[k] = Byte(m, k)

(* A reader that peeked at the header of a message goes to recv with its   *)
(* length.                                                                 *)
PeekInv ==
    lector.pc = "recv" =>
        /\ Len(llegado) > 0
        /\ lector.entera => Len(llegado) >= TamHeader
        /\ \A m \in 1 .. N :
              lector.entera /\ Cabeza(m) => lector.length = L(m)

(* The text of message m, or the start of it, and no more.                 *)
DeTexto(c, m) ==
    \A k \in 1 .. Len(c) : c[k] = Byte(m, Prefijo(m) + k)
                            /\ Prefijo(m) + k <= L(m)

(* What was read from where the text of a message starts is of that text.  *)
Mezcla(c, i) ==
    Len(c) > 0 =>
        /\ c[1].m \in 1 .. N
        /\ \A m \in 1 .. N :
              Prefijo(i) = Prefijo(m) /\ c[1] = Byte(m, Prefijo(m) + 1)
                => DeTexto(c, m)
MezclaInv == \A i \in DOMAIN leidos : Mezcla(leidos[i], i)

(* As long as no recv is cut short and every message keeps its prefix, the *)
(* reader stands at the start of the message whose turn it is and has its  *)
(* length, the stream has all the messages not read up to the last, and    *)
(* every text read takes the whole of what its message had after the       *)
(* prefix.                                                                 *)
Turno == Len(leidos) + 1
Sano == ~ corta /\ \A m \in DOMAIN textos : Encuadra(m)
Entero(i) ==
    /\ i \in 1 .. N
    /\ DeTexto(leidos[i], i)
    /\ Prefijo(i) + Len(leidos[i]) = L(i)
EntregaInv ==
    Sano => /\ lector.pc # "segv"
            /\ lector.pc = "recv" => lector.entera /\ lector.length = L(Turno)
            /\ Total > 0 => flujo[1] = Byte(Turno, 1) /\ flujo[Total].m = N
            /\ Total = 0 => Len(leidos) = N
            /\ \A i \in DOMAIN leidos : Entero(i)

Invs == TypeOK /\ FlujoInv /\ AtrasInv /\ PeekInv /\ MezclaInv /\ EntregaInv

-----------------------------------------------------------------------------
LEMMA Resto ==
    ASSUME NEW x \in Nat, NEW y \in Nat, y > 0
    PROVE /\ x % y \in 0 .. y - 1 /\ x % y <= x
          /\ x % y = x <=> x < y
<1>1. x % y \in Nat /\ x % y < y
  OBVIOUS
<1>2. x % y <= x
  OBVIOUS
<1>3. x % y = x <=> x < y
  OBVIOUS
<1>. QED BY <1>1, <1>2, <1>3

LEMMA MinDeDos ==
    ASSUME NEW x \in Nat, NEW y \in Nat
    PROVE Min({x, y}) = IF x <= y THEN x ELSE y
  BY DEF Min

(* A length is that of the message, cut to the width of the field.         *)
LEMMA Largos ==
    ASSUME TypeOK, NEW m, NEW n \in Nat
    PROVE /\ Prefijo(m) \in Nat /\ Prefijo(m) >= 1
          /\ Largo(m, n) \in 0 .. 2^Ancho - 1 /\ Largo(m, n) \in Nat
          /\ LargoStream(m, n) = Largo(m, n)
          /\ Largo(m, n) <= Prefijo(m) + n
<1>1. Prefijo(m) \in Nat /\ Prefijo(m) >= 1
  BY TamAssumption DEF Prefijo
<1>2. 2^Ancho \in Nat /\ 2^Ancho > 0
  BY TamAssumption
<1>3. Prefijo(m) + n \in Nat
  BY <1>1
<1>4. /\ (Prefijo(m) + n) % 2^Ancho \in 0 .. 2^Ancho - 1
      /\ (Prefijo(m) + n) % 2^Ancho <= Prefijo(m) + n
  BY <1>2, <1>3, Resto
<1>5. LargoStream(m, n) = Largo(m, n)
  BY DEF LargoStream, Largo
<1>6. /\ Largo(m, n) \in 0 .. 2^Ancho - 1 /\ Largo(m, n) <= Prefijo(m) + n
  BY <1>4 DEF Largo
<1>7. Largo(m, n) \in Nat
  BY <1>2, <1>6
<1>. QED BY <1>1, <1>5, <1>6, <1>7

LEMMA Junta ==
    ASSUME NEW S, NEW s1 \in Seq(S), NEW s2 \in Seq(S)
    PROVE /\ s1 \o s2 \in Seq(S) /\ Len(s1 \o s2) = Len(s1) + Len(s2)
          /\ \A j \in 1 .. Len(s1) : (s1 \o s2)[j] = s1[j]
          /\ \A j \in 1 .. Len(s2) : (s1 \o s2)[Len(s1) + j] = s2[j]
<1>1. Len(s1) \in Nat /\ Len(s2) \in Nat
  OBVIOUS
<1>2. /\ s1 \o s2 \in Seq(S) /\ Len(s1 \o s2) = Len(s1) + Len(s2)
      /\ \A i \in 1 .. Len(s1) + Len(s2) :
            (s1 \o s2)[i] = IF i <= Len(s1) THEN s1[i] ELSE s2[i - Len(s1)]
  BY ConcatProperties
<1>3. ASSUME NEW j \in 1 .. Len(s2) PROVE (s1 \o s2)[Len(s1) + j] = s2[j]
  <2> DEFINE i == Len(s1) + j
  <2>1. /\ i \in 1 .. Len(s1) + Len(s2) /\ ~ (i <= Len(s1))
        /\ i - Len(s1) = j
    BY <1>1
  <2>. QED BY <1>2, <2>1
<1>4. \A j \in 1 .. Len(s1) : (s1 \o s2)[j] = s1[j]
  BY <1>1, <1>2
<1>. QED BY <1>2, <1>3, <1>4

(* The numbers of the stream.                                              *)
LEMMA Numeros ==
    ASSUME TypeOK
    PROVE /\ N \in Nat /\ Total \in Nat /\ Len(llegado) \in Nat
          /\ Len(vuelo) \in Nat /\ Turno \in Nat /\ Turno >= 1
          /\ Len(leidos) \in Nat /\ DOMAIN leidos = 1 .. Len(leidos)
          /\ DOMAIN textos = 1 .. N
          /\ \A m \in 1 .. N : textos[m] \in Nat \ {0} /\ L(m) \in Nat
          /\ \A j \in 1 .. Total : B(j) \in Bytes
<1>1. /\ textos \in Seq(Tamanos) /\ llegado \in Seq(Bytes)
      /\ vuelo \in Seq(Bytes) /\ leidos \in Seq(Seq(Bytes))
  BY DEF TypeOK
<1>2. /\ Len(llegado) \in Nat /\ Len(vuelo) \in Nat /\ Len(leidos) \in Nat
      /\ Total \in Nat /\ N \in Nat /\ DOMAIN leidos = 1 .. Len(leidos)
      /\ DOMAIN textos = 1 .. N
  BY <1>1 DEF Total, N
<1>3. \A m \in 1 .. N : textos[m] \in Nat \ {0}
  <2>1. \A m \in 1 .. N : textos[m] \in Tamanos
    BY <1>1, ElementOfSeq DEF N
  <2>. QED BY <2>1, TextosAssumption
<1>4. \A m \in 1 .. N : L(m) \in Nat
  BY <1>3, Largos DEF L
<1>5. ASSUME NEW j \in 1 .. Total PROVE B(j) \in Bytes
  <2>1. CASE j <= Len(llegado)
    BY <1>1, <1>2, <2>1 DEF B
  <2>2. CASE ~ (j <= Len(llegado))
    <3>1. j - Len(llegado) \in 1 .. Len(vuelo)
      BY <1>2, <2>2 DEF Total
    <3>. QED BY <1>1, <2>2, <3>1 DEF B
  <2>. QED BY <2>1, <2>2
<1>. QED BY <1>2, <1>3, <1>4, <1>5 DEF Turno

(* The stream that is left after its first r bytes.                        *)
LEMMA Quita ==
    ASSUME TypeOK, NEW r \in 0 .. Len(llegado),
           llegado' = SubSeq(llegado, r + 1, Len(llegado)), UNCHANGED vuelo
    PROVE /\ llegado' \in Seq(Bytes) /\ Total' = Total - r
          /\ Len(llegado') = Len(llegado) - r
          /\ \A j \in 1 .. Total - r : B(j)' = B(j + r)
<1>1. llegado \in Seq(Bytes) /\ vuelo \in Seq(Bytes)
  BY DEF TypeOK
<1>2. Len(llegado) \in Nat /\ Len(vuelo) \in Nat
  BY <1>1
<1>3. llegado' \in Seq(Bytes) /\ Len(llegado') = Len(llegado) - r
  BY <1>1, <1>2
<1>4. \A k \in 1 .. Len(llegado) - r : llegado'[k] = llegado[k + r]
  BY <1>1, <1>2
<1>5. Total' = Total - r
  BY <1>2, <1>3 DEF Total
<1>6. ASSUME NEW j \in 1 .. Total - r PROVE B(j)' = B(j + r)
  <2>1. CASE j <= Len(llegado) - r
    <3>1. llegado'[j] = llegado[j + r] /\ j + r <= Len(llegado)
      BY <1>2, <1>4, <2>1
    <3>. QED BY <1>3, <2>1, <3>1 DEF B
  <2>2. CASE ~ (j <= Len(llegado) - r)
    <3>1. /\ ~ (j + r <= Len(llegado))
          /\ j - (Len(llegado) - r) = (j + r) - Len(llegado)
      BY <1>2, <2>2 DEF Total
    <3>. QED BY <1>3, <2>2, <3>1 DEF B
  <2>. QED BY <2>1, <2>2
<1>. QED BY <1>3, <1>5, <1>6

(* What arrives stays where it was in the stream.                          *)
LEMMA Pasa ==
    ASSUME TypeOK, NEW k \in 1 .. Len(vuelo),
           llegado' = llegado \o SubSeq(vuelo, 1, k),
           vuelo' = SubSeq(vuelo, k + 1, Len(vuelo))
    PROVE /\ llegado' \in Seq(Bytes) /\ vuelo' \in Seq(Bytes)
          /\ Total' = Total /\ Len(llegado') >= Len(llegado)
          /\ \A j \in 1 .. Total : B(j)' = B(j)
<1>1. llegado \in Seq(Bytes) /\ vuelo \in Seq(Bytes)
  BY DEF TypeOK
<1>2. Len(llegado) \in Nat /\ Len(vuelo) \in Nat
  BY <1>1
<1> DEFINE s == SubSeq(vuelo, 1, k)
<1>3. s \in Seq(Bytes) /\ Len(s) = k /\ \A j \in 1 .. k : s[j] = vuelo[j]
  BY <1>1, <1>2
<1>4. /\ vuelo' \in Seq(Bytes) /\ Len(vuelo') = Len(vuelo) - k
      /\ \A j \in 1 .. Len(vuelo) - k : vuelo'[j] = vuelo[j + k]
  BY <1>1, <1>2
<1>. HIDE DEF s
<1>5. llegado' = llegado \o s
  BY DEF s
<1>6. /\ llegado' \in Seq(Bytes) /\ Len(llegado') = Len(llegado) + k
      /\ \A j \in 1 .. Len(llegado) : llegado'[j] = llegado[j]
      /\ \A j \in 1 .. k : llegado'[Len(llegado) + j] = s[j]
  <2>1. llegado \in Seq(Bytes) /\ s \in Seq(Bytes)
    BY <1>1, <1>3
  <2>2. /\ llegado \o s \in Seq(Bytes)
        /\ Len(llegado \o s) = Len(llegado) + Len(s)
    BY <2>1
  <2>3. \A j \in 1 .. Len(llegado) : (llegado \o s)[j] = llegado[j]
    BY <2>1
  <2>4. \A j \in 1 .. Len(s) : (llegado \o s)[Len(llegado) + j] = s[j]
    BY <2>1, Junta
  <2>. QED BY <1>3, <1>5, <2>2, <2>3, <2>4
<1>7. Total' = Total
  <2>1. \A a, b \in Nat : \A c \in 1 .. b : (a + c) + (b - c) = a + b
    OBVIOUS
  <2>2. (Len(llegado) + k) + (Len(vuelo) - k) = Len(llegado) + Len(vuelo)
    BY <1>2, <2>1
  <2>. QED BY <1>4, <1>6, <2>2 DEF Total
<1>8. ASSUME NEW j \in 1 .. Total PROVE B(j)' = B(j)
  <2>1. CASE j <= Len(llegado)
    <3>1. j <= Len(llegado') /\ llegado'[j] = llegado[j]
      BY <1>2, <1>6, <2>1
    <3>. QED BY <2>1, <3>1 DEF B
  <2>2. CASE j > Len(llegado) /\ j <= Len(llegado) + k
    <3>1. j - Len(llegado) \in 1 .. k /\ j = Len(llegado) + (j - Len(llegado))
      BY <1>2, <2>2
    <3>2. llegado'[j] = vuelo[j - Len(llegado)]
      BY <1>3, <1>6, <3>1
    <3>3. j <= Len(llegado') /\ ~ (j <= Len(llegado))
      BY <1>2, <1>6, <2>2
    <3>. QED BY <3>2, <3>3 DEF B
  <2>3. CASE j > Len(llegado) + k
    <3>1. /\ j - (Len(llegado) + k) \in 1 .. Len(vuelo) - k
          /\ (j - (Len(llegado) + k)) + k = j - Len(llegado)
      BY <1>2, <2>3 DEF Total
    <3>2. vuelo'[j - Len(llegado')] = vuelo[j - Len(llegado)]
      BY <1>4, <1>6, <3>1
    <3>3. ~ (j <= Len(llegado')) /\ ~ (j <= Len(llegado))
      BY <1>2, <1>6, <2>3
    <3>. QED BY <3>2, <3>3 DEF B
  <2>. QED BY <1>2, <2>1, <2>2, <2>3
<1>9. Len(llegado') >= Len(llegado)
  BY <1>2, <1>6
<1>. QED BY <1>4, <1>6, <1>7, <1>8, <1>9

(* What is sent goes after the stream.                                     *)
LEMMA Pone ==
    ASSUME TypeOK, NEW m \in Nat, NEW n \in Nat, UNCHANGED llegado,
           vuelo' = vuelo \o Mensaje(m, n)
    PROVE /\ vuelo' \in Seq(Bytes) /\ Total' = Total + Largo(m, n)
          /\ (Mensaje(m, n) = <<>> <=> Largo(m, n) = 0)
          /\ \A j \in 1 .. Total : B(j)' = B(j)
          /\ \A j \in Total + 1 .. Total + Largo(m, n) :
                B(j)' = Byte(m, j - Total)
<1>1. llegado \in Seq(Bytes) /\ vuelo \in Seq(Bytes)
  BY DEF TypeOK
<1>2. Len(llegado) \in Nat /\ Len(vuelo) \in Nat
  BY <1>1
<1> DEFINE s == Mensaje(m, n)
           t == Largo(m, n)
<1>3. t \in Nat /\ LargoStream(m, n) = t
  BY Largos
<1>. HIDE DEF t
<1>4. s = [k \in 1 .. t |-> [m |-> m, k |-> k]]
  BY <1>3 DEF Mensaje
<1>5. /\ s \in Seq(Bytes) /\ Len(s) = t /\ \A j \in 1 .. t : s[j] = Byte(m, j)
  BY <1>3, <1>4 DEF Byte, Bytes
<1>. HIDE DEF s
<1>6. vuelo' = vuelo \o s
  BY DEF s
<1>7. /\ vuelo' \in Seq(Bytes) /\ Len(vuelo') = Len(vuelo) + t
      /\ \A j \in 1 .. Len(vuelo) : vuelo'[j] = vuelo[j]
      /\ \A j \in 1 .. t : vuelo'[Len(vuelo) + j] = s[j]
  <2>1. vuelo \in Seq(Bytes) /\ s \in Seq(Bytes)
    BY <1>1, <1>5
  <2>2. /\ vuelo \o s \in Seq(Bytes)
        /\ Len(vuelo \o s) = Len(vuelo) + Len(s)
    BY <2>1
  <2>3. \A j \in 1 .. Len(vuelo) : (vuelo \o s)[j] = vuelo[j]
    BY <2>1
  <2>4. \A j \in 1 .. Len(s) : (vuelo \o s)[Len(vuelo) + j] = s[j]
    BY <2>1, Junta
  <2>. QED BY <1>5, <1>6, <2>2, <2>3, <2>4
<1>8. Total' = Total + t
  BY <1>2, <1>3, <1>7 DEF Total
<1>9. s = <<>> <=> t = 0
  BY <1>3, <1>5
<1>10. ASSUME NEW j \in 1 .. Total PROVE B(j)' = B(j)
  <2>1. CASE j <= Len(llegado)
    BY <2>1 DEF B
  <2>2. CASE ~ (j <= Len(llegado))
    <3>1. j - Len(llegado) \in 1 .. Len(vuelo)
      BY <1>2, <2>2 DEF Total
    <3>. QED BY <1>7, <2>2, <3>1 DEF B
  <2>. QED BY <2>1, <2>2
<1>11. ASSUME NEW j \in Total + 1 .. Total + t
       PROVE B(j)' = Byte(m, j - Total)
  <2>1. /\ ~ (j <= Len(llegado)) /\ j - Total \in 1 .. t
        /\ j - Len(llegado) = Len(vuelo) + (j - Total)
    BY <1>2, <1>3 DEF Total
  <2>2. vuelo'[j - Len(llegado)] = Byte(m, j - Total)
    BY <1>5, <1>7, <2>1
  <2>. QED BY <2>1, <2>2 DEF B
<1>. QED BY <1>7, <1>8, <1>9, <1>10, <1>11 DEF s, t

-----------------------------------------------------------------------------
(* What is left of the stream is a stream.                                 *)
LEMMA CadenaQuita ==
    ASSUME NEW t \in Nat, NEW n \in Nat, NEW l, NEW s, NEW c,
           \A m \in 1 .. n : l[m] \in Nat, Cadena(s, t, l, n),
           NEW r \in 0 .. t, \A j \in 1 .. t - r : c[j] = s[j + r]
    PROVE Cadena(c, t - r, l, n)
<1>1. \A j \in 1 .. t - r : j + r \in 1 .. t /\ c[j] = s[j + r]
  OBVIOUS
<1>2. \A i \in 1 .. t : s[i].k \in Nat /\ s[i].m \in 1 .. n
  BY DEF Cadena
<1>3. \A i \in 1 .. t - r : /\ c[i] = Byte(c[i].m, c[i].k)
                            /\ c[i].m \in 1 .. n /\ c[i].k \in 1 .. l[c[i].m]
  BY <1>1 DEF Cadena
<1>4. ASSUME NEW i \in 1 .. t - r, NEW j \in i .. t - r,
             c[i].k + (j - i) <= l[c[i].m]
      PROVE c[j] = Byte(c[i].m, c[i].k + (j - i))
  <2>1. /\ i + r \in 1 .. t /\ j + r \in i + r .. t
        /\ (j + r) - (i + r) = j - i /\ c[i] = s[i + r] /\ c[j] = s[j + r]
    BY <1>1
  <2>. QED BY <1>4, <2>1 DEF Cadena
<1>5. ASSUME NEW i \in 1 .. t - r PROVE l[c[i].m] - c[i].k <= (t - r) - i
  <2>1. /\ i + r \in 1 .. t /\ t - (i + r) = (t - r) - i /\ c[i] = s[i + r]
    BY <1>1
  <2>. QED BY <2>1 DEF Cadena
<1>6. ASSUME NEW i \in 1 .. t - r, i < t - r, c[i].k = l[c[i].m]
      PROVE c[i + 1] = Byte(c[i].m + 1, 1)
  <2>1. /\ i + r \in 1 .. t /\ i + r < t /\ (i + r) + 1 = (i + 1) + r
        /\ i + 1 \in 1 .. t - r /\ c[i] = s[i + r]
    BY <1>1, <1>6
  <2>2. c[i + 1] = s[(i + r) + 1]
    BY <1>1, <2>1
  <2>. QED BY <1>6, <2>1, <2>2 DEF Cadena
<1>. QED BY <1>3, <1>4, <1>5, <1>6 DEF Cadena

(* c is s with the x bytes of one message more after the last of the n.    *)
Sigue(s, t, l, n, c, t2, l2, n2, x) ==
    /\ t \in Nat /\ n \in Nat /\ x \in Nat
    /\ t2 = t + x /\ n2 = n + 1 /\ l2[n + 1] = x
    /\ \A m \in 1 .. n : l[m] \in Nat /\ l2[m] = l[m]
    /\ \A j \in 1 .. t : c[j] = s[j]
    /\ \A j \in t + 1 .. t + x : c[j] = Byte(n + 1, j - t)
    /\ t > 0 => s[t].m = n

(* A message goes after the last byte of the one before it.                *)
LEMMA CadenaPone ==
    ASSUME NEW t, NEW n, NEW l, NEW s, NEW c, NEW t2, NEW l2, NEW n2, NEW x,
           Cadena(s, t, l, n), Sigue(s, t, l, n, c, t2, l2, n2, x)
    PROVE Cadena(c, t2, l2, n2)
<1>0. /\ t \in Nat /\ n \in Nat /\ x \in Nat
      /\ t2 = t + x /\ n2 = n + 1 /\ l2[n + 1] = x
      /\ \A m \in 1 .. n : l[m] \in Nat /\ l2[m] = l[m]
      /\ \A j \in 1 .. t : c[j] = s[j]
      /\ \A j \in t + 1 .. t + x : c[j] = Byte(n + 1, j - t)
      /\ t > 0 => s[t].m = n
  BY DEF Sigue
<1>1. \A i \in 1 .. t : /\ s[i] = Byte(s[i].m, s[i].k)
                        /\ s[i].m \in 1 .. n /\ s[i].k \in 1 .. l[s[i].m]
                        /\ l2[s[i].m] = l[s[i].m] /\ l[s[i].m] \in Nat
                        /\ s[i].k \in Nat /\ c[i] = s[i]
  BY <1>0 DEF Cadena
<1>2. \A i \in t + 1 .. t + x : /\ c[i] = Byte(n + 1, i - t)
                                /\ c[i].m = n + 1 /\ c[i].k = i - t
                                /\ l2[c[i].m] = x
  BY <1>0 DEF Byte
<1>3. ASSUME NEW i \in 1 .. t + x
      PROVE /\ c[i] = Byte(c[i].m, c[i].k)
            /\ c[i].m \in 1 .. n + 1 /\ c[i].k \in 1 .. l2[c[i].m]
  <2>1. CASE i \in 1 .. t
    BY <1>0, <1>1, <2>1
  <2>2. CASE i \in t + 1 .. t + x
    BY <1>0, <1>2, <2>2
  <2>. QED BY <1>0, <2>1, <2>2
<1>4. ASSUME NEW i \in 1 .. t + x, NEW j \in i .. t + x,
             c[i].k + (j - i) <= l2[c[i].m]
      PROVE c[j] = Byte(c[i].m, c[i].k + (j - i))
  <2>1. CASE j \in 1 .. t
    <3>1. i \in 1 .. t /\ j \in i .. t
      BY <1>0, <2>1
    <3>2. c[i] = s[i] /\ c[j] = s[j] /\ l2[c[i].m] = l[s[i].m]
      BY <1>0, <1>1, <2>1, <3>1
    <3>. QED BY <1>0, <1>4, <3>1, <3>2 DEF Cadena
  <2>2. CASE i \in 1 .. t /\ j \in t + 1 .. t + x
    <3>1. /\ l[s[i].m] - s[i].k <= t - i /\ l[s[i].m] \in Nat
          /\ s[i].k \in Nat /\ c[i] = s[i] /\ l2[c[i].m] = l[s[i].m]
      BY <1>0, <1>1, <2>2 DEF Cadena
    <3>2. s[i].k + (j - i) <= l[s[i].m]
      BY <1>0, <1>4, <3>1
    <3>3. i \in Nat /\ j \in Nat /\ j > t
      BY <1>0, <2>2
    <3>4. \A a, b \in Nat : ~ (b - a <= t - i /\ a + (j - i) <= b)
      BY <1>0, <3>3
    <3>5. ~ (/\ l[s[i].m] - s[i].k <= t - i
             /\ s[i].k + (j - i) <= l[s[i].m])
      BY <1>0, <3>1, <3>4, Zenon
    <3>6. l[s[i].m] - s[i].k <= t - i
      BY <1>0, <3>1
    <3>. QED BY <1>0, <3>2, <3>5, <3>6
  <2>3. CASE i \in t + 1 .. t + x
    <3>1. j \in t + 1 .. t + x /\ (i - t) + (j - i) = j - t
      BY <1>0, <2>3
    <3>. QED BY <1>0, <1>2, <2>3, <3>1
  <2>. QED BY <1>0, <2>1, <2>2, <2>3
<1>5. ASSUME NEW i \in 1 .. t + x PROVE l2[c[i].m] - c[i].k <= (t + x) - i
  <2>1. CASE i \in 1 .. t
    <3>1. /\ l[s[i].m] - s[i].k <= t - i /\ l[s[i].m] \in Nat
          /\ s[i].k \in Nat /\ c[i] = s[i] /\ l2[c[i].m] = l[s[i].m]
      BY <1>0, <1>1, <2>1 DEF Cadena
    <3>. QED BY <1>0, <3>1
  <2>2. CASE i \in t + 1 .. t + x
    <3>1. c[i].k = i - t /\ l2[c[i].m] = x
      BY <1>0, <1>2, <2>2
    <3>. QED BY <1>0, <2>2, <3>1
  <2>. QED BY <1>0, <2>1, <2>2
<1>6. ASSUME NEW i \in 1 .. t + x, i < t + x, c[i].k = l2[c[i].m]
      PROVE c[i + 1] = Byte(c[i].m + 1, 1)
  <2>1. CASE i \in 1 .. t /\ i < t
    <3>1. /\ c[i] = s[i] /\ l2[c[i].m] = l[s[i].m]
          /\ i + 1 \in 1 .. t /\ c[i + 1] = s[i + 1]
      BY <1>0, <1>1, <2>1
    <3>. QED BY <1>0, <1>6, <2>1, <3>1 DEF Cadena
  <2>2. CASE i = t
    <3>1. c[i].m = n
      BY <1>0, <1>1, <2>2
    <3>2. t + 1 \in t + 1 .. t + x /\ (t + 1) - t = 1
      BY <1>0, <1>6, <2>2
    <3>3. c[t + 1] = Byte(n + 1, 1)
      BY <1>0, <1>2, <3>2
    <3>. QED BY <1>0, <2>2, <3>1, <3>3
  <2>3. CASE i \in t + 1 .. t + x
    <3>1. c[i].k = i - t /\ l2[c[i].m] = x
      BY <1>0, <1>2, <2>3
    <3>2. c[i].k = x
      BY <1>0, <1>6, <3>1
    <3>3. i - t = x
      BY <1>0, <3>1, <3>2
    <3>4. i < t + x
      BY <1>0, <1>6
    <3>. QED BY <1>0, <3>3, <3>4
  <2>. QED BY <1>0, <2>1, <2>2, <2>3
<1>7. Cadena(c, t + x, l2, n + 1)
  BY <1>0, <1>3, <1>4, <1>5, <1>6 DEF Cadena
<1>. QED BY <1>0, <1>7

LEMMA AtrasQuita ==
    ASSUME NEW t \in Nat, NEW s, NEW c, Atras(s, t),
           \A i \in 1 .. t : s[i].k \in Nat,
           NEW r \in 0 .. t, \A j \in 1 .. t - r : c[j] = s[j + r]
    PROVE Atras(c, t - r)
<1>. SUFFICES ASSUME NEW i \in 1 .. t - r, NEW j \in 1 .. i, c[i].k > i - j
              PROVE c[j] = Byte(c[i].m, c[i].k - (i - j))
  BY DEF Atras
<1>1. /\ i + r \in 1 .. t /\ j + r \in 1 .. i + r
      /\ (i + r) - (j + r) = i - j /\ j \in 1 .. t - r
      /\ c[i] = s[i + r] /\ c[j] = s[j + r]
  OBVIOUS
<1>. QED BY <1>1 DEF Atras

LEMMA AtrasPone ==
    ASSUME NEW t \in Nat, NEW s, NEW c, NEW x \in Nat, NEW m, Atras(s, t),
           \A j \in 1 .. t : c[j] = s[j],
           \A j \in t + 1 .. t + x : c[j] = Byte(m, j - t)
    PROVE Atras(c, t + x)
<1>. SUFFICES ASSUME NEW i \in 1 .. t + x, NEW j \in 1 .. i, c[i].k > i - j
              PROVE c[j] = Byte(c[i].m, c[i].k - (i - j))
  BY DEF Atras
<1>1. CASE i <= t
  <2>1. i \in 1 .. t /\ j \in 1 .. t /\ c[i] = s[i] /\ c[j] = s[j]
    BY <1>1
  <2>. QED BY <2>1 DEF Atras
<1>2. CASE ~ (i <= t)
  <2>1. c[i] = Byte(m, i - t) /\ i \in t + 1 .. t + x
    BY <1>2
  <2>2. c[i].m = m /\ c[i].k = i - t
    BY <2>1 DEF Byte
  <2>3. j \in t + 1 .. t + x /\ (i - t) - (i - j) = j - t
    BY <2>1, <2>2
  <2>. QED BY <2>2, <2>3
<1>. QED BY <1>1, <1>2

-----------------------------------------------------------------------------
(* The lengths of the messages already sent do not change.                 *)
LEMMA LargosIguales ==
    ASSUME TypeOK, UNCHANGED <<alPP, textos>>
    PROVE /\ largos' = largos /\ N' = N
          /\ \A m : Prefijo(m)' = Prefijo(m) /\ L(m)' = L(m)
<1>1. /\ N' = N
      /\ \A m : Prefijo(m)' = Prefijo(m) /\ L(m)' = L(m)
  BY DEF N, Prefijo, L, Largo
<1>2. largos' = largos
  BY <1>1 DEF largos
<1>. QED BY <1>1, <1>2

LEMMA FlujoLee ==
    ASSUME TypeOK
    PROVE /\ \A j \in 1 .. Total : flujo[j] = B(j)
          /\ \A m \in 1 .. N : largos[m] = L(m) /\ largos[m] \in Nat
          /\ Len(llegado) > 0 => Total > 0 /\ flujo[1] = llegado[1]
<1>1. /\ Total \in Nat /\ Len(llegado) \in Nat /\ Len(vuelo) \in Nat
      /\ \A m \in 1 .. N : L(m) \in Nat
  BY Numeros
<1>2. Len(llegado) > 0 => Total > 0 /\ 1 \in 1 .. Total /\ B(1) = llegado[1]
  BY <1>1 DEF Total, B
<1>. QED BY <1>1, <1>2 DEF flujo, largos

LEMMA CadenaK ==
    ASSUME TypeOK, FlujoInv
    PROVE \A i \in 1 .. Total :
              /\ flujo[i] = Byte(flujo[i].m, flujo[i].k)
              /\ flujo[i].m \in 1 .. N /\ flujo[i].k \in Nat
              /\ flujo[i].k \in 1 .. L(flujo[i].m)
<1>1. \A m \in 1 .. N : largos[m] = L(m) /\ largos[m] \in Nat
  BY FlujoLee
<1>2. \A i \in 1 .. Total :
          /\ flujo[i] = Byte(flujo[i].m, flujo[i].k)
          /\ flujo[i].m \in 1 .. N /\ flujo[i].k \in 1 .. largos[flujo[i].m]
  BY DEF FlujoInv, Cadena
<1>. QED BY <1>1, <1>2

(* The properties of the texts do not depend on where the bytes of the     *)
(* stream are.                                                             *)
LEMMA TextosIguales ==
    ASSUME TypeOK, UNCHANGED <<alPP, textos>>
    PROVE /\ \A m : Encuadra(m)' <=> Encuadra(m)
          /\ \A c, i : Mezcla(c, i)' <=> Mezcla(c, i)
          /\ \A c, m : DeTexto(c, m)' <=> DeTexto(c, m)
<1>1. N' = N /\ \A m : Prefijo(m)' = Prefijo(m) /\ L(m)' = L(m)
  BY LargosIguales
<1>2. ASSUME NEW m PROVE Encuadra(m)' <=> Encuadra(m)
  BY DEF Encuadra, Largo, Prefijo
<1>3. ASSUME NEW c, NEW m PROVE DeTexto(c, m)' <=> DeTexto(c, m)
  BY <1>1 DEF DeTexto
<1>4. ASSUME NEW c, NEW i PROVE Mezcla(c, i)' <=> Mezcla(c, i)
  BY <1>1, <1>3 DEF Mezcla
<1>. QED BY <1>2, <1>3, <1>4

LEMMA SanoAntes ==
    ASSUME TypeOK, UNCHANGED <<alPP, textos>>, Sano', ~ corta' => ~ corta
    PROVE Sano
<1>1. \A m : Encuadra(m)' <=> Encuadra(m)
  BY TextosIguales
<1>2. ~ corta' /\ \A m \in DOMAIN textos : Encuadra(m)'
  BY DEF Sano
<1>. QED BY <1>1, <1>2 DEF Sano

(* A step that leaves the stream as it was, wherever its bytes are, and    *)
(* the reader where it was or where nothing is said of it.                 *)
LEMMA Paso_Quieto ==
    ASSUME Invs, TypeOK',
           UNCHANGED <<alPP, textos, leidos, corta>>,
           Total' = Total, \A j \in 1 .. Total : B(j)' = B(j),
           Len(llegado') >= Len(llegado),
           emisor' = "vivo" => emisor = "vivo",
           lector' = lector \/ lector'.pc \notin {"recv", "segv"}
    PROVE Invs'
<1>. USE DEF Invs
<1>1. /\ largos' = largos /\ N' = N
      /\ \A m : Prefijo(m)' = Prefijo(m) /\ L(m)' = L(m)
  BY LargosIguales
<1>2. flujo' = flujo
  BY DEF flujo
<1>3. FlujoInv'
  BY <1>1, <1>2 DEF FlujoInv
<1>4. AtrasInv'
  BY <1>2 DEF AtrasInv
<1>5. MezclaInv'
  BY TextosIguales DEF MezclaInv
<1>6. Len(llegado) \in Nat /\ Len(llegado') \in Nat /\ TamHeader \in Nat
  BY TamAssumption, Numeros DEF TypeOK
<1>7. PeekInv'
  <2>. SUFFICES ASSUME lector'.pc = "recv"
                PROVE /\ Len(llegado') > 0
                      /\ lector'.entera => Len(llegado') >= TamHeader
                      /\ \A m \in 1 .. N' :
                            lector'.entera /\ Cabeza(m)'
                               => lector'.length = L(m)'
    BY DEF PeekInv
  <2>1. lector' = lector /\ lector.pc = "recv"
    OBVIOUS
  <2>2. Len(llegado) > 0 /\ (lector.entera => Len(llegado) >= TamHeader)
    BY <2>1 DEF PeekInv
  <2>3. ASSUME NEW m \in 1 .. N, lector.entera, Cabeza(m)'
        PROVE lector.length = L(m)
    <3>1. Cabeza(m)
      BY <1>2, <2>2, <2>3 DEF Cabeza
    <3>. QED BY <2>1, <2>3, <3>1 DEF PeekInv
  <2>. QED BY <1>1, <1>6, <2>1, <2>2, <2>3
<1>8. EntregaInv'
  <2>. SUFFICES ASSUME Sano' PROVE
        /\ lector'.pc # "segv"
        /\ lector'.pc = "recv" => lector'.entera /\ lector'.length = L(Turno)'
        /\ Total' > 0 => flujo'[1] = Byte(Turno', 1) /\ flujo'[Total'].m = N'
        /\ Total' = 0 => Len(leidos') = N'
        /\ \A i \in DOMAIN leidos' : Entero(i)'
    BY DEF EntregaInv
  <2>1. Sano
    BY SanoAntes
  <2>2. Turno' = Turno /\ L(Turno)' = L(Turno)
    BY DEF Turno, L, Largo, Prefijo
  <2>3. \A i : Entero(i)' <=> Entero(i)
    BY <1>1, TextosIguales DEF Entero
  <2>. QED BY <1>1, <1>2, <2>1, <2>2, <2>3 DEF EntregaInv
<1>. QED BY <1>3, <1>4, <1>5, <1>7, <1>8

LEMMA Paso_Llega ==
    ASSUME Invs, Llega
    PROVE Invs'
<1>1. UNCHANGED <<alPP, textos, emisor, lector, leidos, corta>>
  BY DEF Llega
<1>2. PICK k \in 1 .. Len(vuelo) :
         /\ llegado' = llegado \o SubSeq(vuelo, 1, k)
         /\ vuelo' = SubSeq(vuelo, k + 1, Len(vuelo))
  BY DEF Llega
<1>3. /\ llegado' \in Seq(Bytes) /\ vuelo' \in Seq(Bytes)
      /\ Total' = Total /\ Len(llegado') >= Len(llegado)
      /\ \A j \in 1 .. Total : B(j)' = B(j)
  BY <1>2, Pasa DEF Invs
<1>4. TypeOK'
  BY <1>1, <1>3 DEF TypeOK, Invs
<1>. QED BY <1>1, <1>3, <1>4, Paso_Quieto

(* The steps that touch neither the stream nor what was read.              *)
LEMMA Paso_Cierra ==
    ASSUME Invs,
           Cierra \/ readStreamERROR \/ Epoll \/ UNCHANGED vars
    PROVE Invs'
<1>1. /\ UNCHANGED <<alPP, textos, vuelo, llegado, leidos, corta>>
      /\ emisor' \in {emisor, "cerrado"}
      /\ \/ lector' = lector
         \/ lector' = [lector EXCEPT !.pc = "cerrado"]
         \/ lector' = [lector EXCEPT !.pc = "peek"]
  BY DEF Cierra, readStreamERROR, Epoll, EpollIn, EpollRdhup, vars
<1>2. Total' = Total /\ \A j : B(j)' = B(j)
  BY <1>1 DEF Total, B
<1>3. /\ lector' \in [pc : {"peek", "recv", "epoll", "cerrado", "segv"},
                      length : 0 .. 2^Ancho - 1, entera : BOOLEAN]
      /\ lector' = lector \/ lector'.pc \notin {"recv", "segv"}
  BY <1>1 DEF TypeOK, Invs
<1>4. TypeOK'
  BY <1>1, <1>3 DEF TypeOK, Invs
<1>5. Len(llegado') >= Len(llegado)
  <2>1. Len(llegado) \in Nat
    BY Numeros DEF Invs
  <2>. QED BY <1>1, <2>1
<1>. QED BY <1>1, <1>2, <1>3, <1>4, <1>5, Paso_Quieto

(* Message m starts after the first o bytes of the stream.                 *)
Empieza(s, t, l, n, o, m) ==
    /\ Cadena(s, t, l, n) /\ t \in Nat /\ n \in Nat
    /\ \A i \in 1 .. n : l[i] \in Nat
    /\ o \in Nat /\ o < t /\ s[o + 1] = Byte(m, 1)

(* It is there whole, and then the first byte of the next one.             *)
LEMMA CadenaLee ==
    ASSUME NEW s, NEW t, NEW l, NEW n, NEW o, NEW m, Empieza(s, t, l, n, o, m)
    PROVE /\ m \in 1 .. n /\ l[m] \in Nat \ {0} /\ o + l[m] <= t
          /\ \A k \in 1 .. l[m] : s[o + k] = Byte(m, k)
          /\ o + l[m] < t => s[(o + l[m]) + 1] = Byte(m + 1, 1)
<1>0. /\ Cadena(s, t, l, n) /\ t \in Nat /\ n \in Nat
      /\ \A i \in 1 .. n : l[i] \in Nat
      /\ o \in Nat /\ o < t /\ s[o + 1] = Byte(m, 1)
  BY DEF Empieza
<1>1. o + 1 \in 1 .. t /\ s[o + 1].m = m /\ s[o + 1].k = 1
  BY <1>0 DEF Byte
<1>2. m \in 1 .. n /\ l[m] \in Nat /\ l[m] >= 1
  <2>1. m \in 1 .. n /\ 1 \in 1 .. l[m]
    BY <1>0, <1>1 DEF Cadena
  <2>. QED BY <1>0, <2>1
<1>3. o + l[m] <= t
  <2>1. l[m] - 1 <= t - (o + 1)
    BY <1>0, <1>1 DEF Cadena
  <2>. QED BY <1>0, <1>2, <2>1
<1>4. ASSUME NEW k \in 1 .. l[m] PROVE s[o + k] = Byte(m, k)
  <2>1. /\ o + k \in o + 1 .. t
        /\ 1 + ((o + k) - (o + 1)) = k
    BY <1>0, <1>2, <1>3
  <2>2. s[o + 1].k + ((o + k) - (o + 1)) <= l[s[o + 1].m]
    BY <1>1, <1>2, <2>1
  <2>3. s[o + k] = Byte(s[o + 1].m, s[o + 1].k + ((o + k) - (o + 1)))
    BY <1>0, <1>1, <2>1, <2>2 DEF Cadena
  <2>. QED BY <1>1, <2>1, <2>3
<1>5. ASSUME o + l[m] < t PROVE s[(o + l[m]) + 1] = Byte(m + 1, 1)
  <2>1. o + l[m] \in 1 .. t /\ l[m] \in 1 .. l[m]
    BY <1>0, <1>2, <1>3
  <2>2. s[o + l[m]] = Byte(m, l[m])
    BY <1>4, <2>1
  <2>3. s[o + l[m]].m = m /\ s[o + l[m]].k = l[m]
    BY <2>2 DEF Byte
  <2>4. \A i \in 1 .. t : i < t /\ s[i].k = l[s[i].m]
                              => s[i + 1] = Byte(s[i].m + 1, 1)
    BY <1>0 DEF Cadena
  <2> DEFINE i == o + l[m]
  <2>5. i \in 1 .. t /\ i < t /\ s[i].k = l[s[i].m] /\ s[i].m = m
    BY <1>5, <2>1, <2>3
  <2>. HIDE DEF i
  <2>6. s[i + 1] = Byte(m + 1, 1)
    BY <2>4, <2>5
  <2>. QED BY <2>6 DEF i
<1>. QED BY <1>2, <1>3, <1>4, <1>5

(* The first r bytes that have arrived are those of the stream.            *)
LEMMA Primeros ==
    ASSUME TypeOK, NEW r \in 0 .. Len(llegado)
    PROVE LET c == SubSeq(llegado, 1, r)
          IN  /\ c \in Seq(Bytes) /\ Len(c) = r
              /\ \A k \in 1 .. r : c[k] = flujo[k]
<1> DEFINE c == SubSeq(llegado, 1, r)
<1>1. llegado \in Seq(Bytes) /\ Len(llegado) \in Nat /\ Len(vuelo) \in Nat
  BY Numeros DEF TypeOK
<1>2. c \in Seq(Bytes) /\ Len(c) = r /\ \A k \in 1 .. r : c[k] = llegado[k]
  BY <1>1
<1>. HIDE DEF c
<1>3. ASSUME NEW k \in 1 .. r PROVE llegado[k] = flujo[k]
  <2>1. k \in 1 .. Total /\ k <= Len(llegado)
    BY <1>1 DEF Total
  <2>. QED BY <2>1, FlujoLee DEF B
<1>. QED BY <1>2, <1>3 DEF c

(* The first bytes are a header when they are those of a message, and then *)
(* its length is the one there is.                                         *)
LEMMA CabezaHeader ==
    ASSUME TypeOK, FlujoInv, NEW m \in 1 .. N, NEW h \in Seq(Bytes),
           Len(h) = TamHeader, \A k \in 1 .. TamHeader : h[k] = Byte(m, k)
    PROVE EsHeader(h) /\ Longitudes(h) = {L(m)}
<1>1. 1 \in 1 .. TamHeader
  BY TamAssumption
<1>2. h[1].m = m
  BY <1>1 DEF Byte
<1>3. EsHeader(h)
  BY <1>2 DEF EsHeader, Byte
<1>. QED BY <1>2, <1>3 DEF Longitudes, L

(* A length is a uint16_t.                                                 *)
LEMMA LongitudesTipo ==
    ASSUME TypeOK, FlujoInv, NEW h \in Seq(Bytes), Len(h) <= Total,
           \A k \in 1 .. Len(h) : h[k] = flujo[k]
    PROVE Longitudes(h) \subseteq 0 .. 2^Ancho - 1
<1>1. ASSUME EsHeader(h)
      PROVE Largo(h[1].m, textos[h[1].m]) \in 0 .. 2^Ancho - 1
  <2>1. 1 \in 1 .. Len(h) /\ 1 \in 1 .. Total
    BY <1>1, TamAssumption, Numeros DEF EsHeader
  <2>2. h[1].m \in 1 .. N
    BY <2>1, CadenaK
  <2>3. textos[h[1].m] \in Nat
    BY <2>2, Numeros
  <2>. QED BY <2>3, Largos
<1>. QED BY <1>1 DEF Longitudes

(* The whole message that starts the stream is there.                      *)
LEMMA Cabecera ==
    ASSUME TypeOK, FlujoInv, NEW m, Total > 0, flujo[1] = Byte(m, 1)
    PROVE /\ m \in 1 .. N /\ L(m) \in Nat /\ L(m) >= 1 /\ L(m) <= Total
          /\ \A k \in 1 .. L(m) : flujo[k] = Byte(m, k)
          /\ L(m) < Total => flujo[L(m) + 1] = Byte(m + 1, 1)
<1>1. /\ N \in Nat /\ Total \in Nat
  BY Numeros
<1>2. \A i \in 1 .. N : largos[i] = L(i) /\ largos[i] \in Nat
  BY FlujoLee
<1>3. Empieza(flujo, Total, largos, N, 0, m)
  BY <1>1, <1>2 DEF Empieza, FlujoInv
<1> DEFINE x == largos[m]
<1>4. /\ m \in 1 .. N /\ x \in Nat \ {0} /\ 0 + x <= Total
      /\ \A k \in 1 .. x : flujo[0 + k] = Byte(m, k)
      /\ 0 + x < Total => flujo[(0 + x) + 1] = Byte(m + 1, 1)
  BY <1>3, CadenaLee
<1>. HIDE DEF x
<1>5. \A k \in 1 .. x : 0 + k = k
  BY <1>4
<1>6. /\ \A k \in 1 .. x : flujo[k] = Byte(m, k)
      /\ x < Total => flujo[x + 1] = Byte(m + 1, 1)
      /\ x <= Total /\ x >= 1
  BY <1>1, <1>4, <1>5
<1>. QED BY <1>2, <1>4, <1>6 DEF x

(* The header of the message whose turn it is, for a reader whose recv are *)
(* not cut short.                                                          *)
LEMMA CabezaEnTurno ==
    ASSUME TypeOK, FlujoInv, EntregaInv, Sano, Len(llegado) >= TamHeader
    PROVE /\ Turno \in 1 .. N /\ Cabeza(Turno)
          /\ Prefijo(Turno) <= L(Turno)
<1>1. TamHeader \in Nat /\ TamHeader >= 1 /\ TamPriority \in Nat
  BY TamAssumption
<1>2. Total > 0
  BY <1>1, Numeros DEF Total
<1>3. flujo[1] = Byte(Turno, 1)
  BY <1>2 DEF EntregaInv
<1> DEFINE m == Turno
<1>4. /\ m \in 1 .. N /\ L(m) \in Nat
      /\ \A k \in 1 .. L(m) : flujo[k] = Byte(m, k)
  <2>. HIDE DEF m
  <2>1. flujo[1] = Byte(m, 1)
    BY <1>3 DEF m
  <2>. QED BY <1>2, <2>1, Cabecera
<1>5. Prefijo(m) <= L(m)
  <2>1. m \in DOMAIN textos
    BY <1>4, Numeros
  <2>2. Encuadra(m)
    BY <2>1 DEF Sano
  <2>3. L(m) >= Prefijo(m)
    BY <2>2 DEF Encuadra, L
  <2>4. Prefijo(m) \in Nat
    BY <1>4, Numeros, Largos
  <2>. QED BY <1>4, <2>3, <2>4
<1>6. TamHeader <= Prefijo(m) /\ Prefijo(m) \in Nat
  BY <1>1 DEF Prefijo
<1>7. TamHeader <= L(m)
  BY <1>1, <1>4, <1>5, <1>6
<1>8. \A k \in 1 .. TamHeader : k \in 1 .. L(m)
  BY <1>1, <1>4, <1>7
<1>. QED BY <1>4, <1>5, <1>8 DEF Cabeza

(* Whatever the reader peeks at, the length is that of a message if a      *)
(* message starts there.                                                   *)
LEMMA Paso_Peek ==
    ASSUME Invs, Peek
    PROVE Invs'
<1>. USE DEF Invs
<1> DEFINE t == Min({TamHeader, Len(llegado)})
           h == SubSeq(llegado, 1, t)
<1>1. UNCHANGED <<alPP, textos, emisor, vuelo, llegado, leidos>>
  BY DEF Peek
<1>2. /\ llegado \in Seq(Bytes) /\ Len(llegado) \in Nat /\ Len(llegado) > 0
      /\ TamHeader \in Nat /\ TamHeader >= 1
  <2>1. llegado \in Seq(Bytes) /\ llegado # <<>>
    BY DEF Peek, TypeOK
  <2>. QED BY <2>1, TamAssumption
<1>3. t = IF TamHeader <= Len(llegado) THEN TamHeader ELSE Len(llegado)
  BY <1>2, MinDeDos
<1>4. PICK l \in Longitudes(h) :
         /\ lector' = [pc |-> "recv", length |-> l,
                       entera |-> Len(h) = TamHeader]
         /\ corta' = (corta \/ Len(h) < TamHeader)
  BY DEF Peek
<1>5. t \in 0 .. Len(llegado)
  BY <1>2, <1>3
<1>. HIDE DEF t
<1>6. /\ h \in Seq(Bytes) /\ Len(h) = t
      /\ \A k \in 1 .. t : h[k] = flujo[k]
  BY <1>5, Primeros
<1>. HIDE DEF h
<1>7. l \in 0 .. 2^Ancho - 1
  <2>1. t <= Total
    BY <1>2, <1>5, Numeros DEF Total
  <2>. QED BY <1>6, <2>1, LongitudesTipo
<1>8. Total' = Total /\ \A j : B(j)' = B(j)
  BY <1>1 DEF Total, B
<1>9. flujo' = flujo
  BY <1>8 DEF flujo
<1>10. /\ largos' = largos /\ N' = N
       /\ \A m : Prefijo(m)' = Prefijo(m) /\ L(m)' = L(m)
  BY <1>1, LargosIguales
<1>11. TypeOK'
  <2>1. corta' \in BOOLEAN /\ (Len(h) = TamHeader) \in BOOLEAN
    BY <1>4, Zenon
  <2>2. lector' \in [pc : {"peek", "recv", "epoll", "cerrado", "segv"},
                     length : 0 .. 2^Ancho - 1, entera : BOOLEAN]
    BY <1>4, <1>7
  <2>. QED BY <1>1, <2>1, <2>2 DEF TypeOK
<1>12. FlujoInv' /\ AtrasInv' /\ MezclaInv'
  <2>1. FlujoInv'
    BY <1>1, <1>8, <1>9, <1>10 DEF FlujoInv
  <2>2. AtrasInv'
    BY <1>8, <1>9 DEF AtrasInv
  <2>3. MezclaInv'
    BY <1>1, TextosIguales DEF MezclaInv
  <2>. QED BY <2>1, <2>2, <2>3
<1>13. /\ lector'.pc = "recv" /\ lector'.length = l
       /\ lector'.entera <=> t = TamHeader
  BY <1>4, <1>6
<1>14. t = TamHeader => Len(llegado) >= TamHeader
  BY <1>2, <1>3
<1>15. ASSUME NEW m \in 1 .. N, t = TamHeader, Cabeza(m) PROVE l = L(m)
  <2>1. \A k \in 1 .. TamHeader : h[k] = Byte(m, k)
    BY <1>6, <1>15 DEF Cabeza
  <2>2. Longitudes(h) = {L(m)}
    BY <1>6, <1>15, <2>1, CabezaHeader
  <2>. QED BY <2>2
<1>16. PeekInv'
  <2>1. \A m : Cabeza(m)' <=> Cabeza(m)
    BY <1>1, <1>9 DEF Cabeza
  <2>. QED BY <1>1, <1>2, <1>10, <1>13, <1>14, <1>15, <2>1 DEF PeekInv
<1>17. EntregaInv'
  <2>. SUFFICES ASSUME Sano' PROVE
        /\ lector'.pc # "segv"
        /\ lector'.pc = "recv" => lector'.entera /\ lector'.length = L(Turno)'
        /\ Total' > 0 => flujo'[1] = Byte(Turno', 1) /\ flujo'[Total'].m = N'
        /\ Total' = 0 => Len(leidos') = N'
        /\ \A i \in DOMAIN leidos' : Entero(i)'
    BY DEF EntregaInv
  <2>1. ~ corta' /\ (~ corta' => ~ corta)
    BY <1>4, Zenon DEF Sano
  <2>2. Sano
    BY <1>1, <2>1, SanoAntes
  <2>3. ~ (Len(h) < TamHeader)
    BY <1>4, <2>1, Zenon
  <2>4. t = TamHeader /\ Len(llegado) >= TamHeader
    BY <1>2, <1>3, <1>6, <2>3
  <2>5. Turno \in 1 .. N /\ Cabeza(Turno)
    BY <2>2, <2>4, CabezaEnTurno
  <2>6. l = L(Turno)
    BY <1>15, <2>4, <2>5
  <2>7. Turno' = Turno /\ L(Turno)' = L(Turno)
    BY <1>1 DEF Turno, L, Largo, Prefijo
  <2>8. \A i : Entero(i)' <=> Entero(i)
    BY <1>1, <1>10, TextosIguales DEF Entero
  <2>. QED BY <1>1, <1>8, <1>9, <1>10, <1>13, <2>2, <2>4, <2>6, <2>7, <2>8
           DEF EntregaInv
<1>. QED BY <1>11, <1>12, <1>16, <1>17

LEMMA Recorta ==
    ASSUME NEW S, NEW s \in Seq(S), NEW p \in Nat, NEW e \in 0 .. Len(s)
    PROVE LET c == SubSeq(s, p + 1, e)
          IN  /\ c \in Seq(S) /\ Len(c) = (IF p <= e THEN e - p ELSE 0)
              /\ \A k \in 1 .. Len(c) : c[k] = s[p + k] /\ p + k <= e
<1> DEFINE c == SubSeq(s, p + 1, e)
<1>1. CASE p <= e
  <2>1. /\ c \in Seq(S) /\ Len(c) = e - p
        /\ \A k \in 1 .. e - p : c[k] = s[p + k]
    BY <1>1
  <2>. HIDE DEF c
  <2>2. \A k \in 1 .. e - p : p + k <= e
    BY <1>1
  <2>. QED BY <1>1, <2>1, <2>2 DEF c
<1>2. CASE ~ (p <= e)
  <2>1. c = <<>>
    BY <1>2
  <2>. HIDE DEF c
  <2>2. c \in Seq(S) /\ Len(c) = 0
    BY <2>1
  <2>. QED BY <1>2, <2>2 DEF c
<1>. QED BY <1>1, <1>2

(* The text taken from some bytes: those after the prefix, as many as the  *)
(* length says, if it leaves room for the prefix.                          *)
LEMMA TextoDe ==
    ASSUME TypeOK, NEW m \in Nat, NEW bytes \in Seq(Bytes),
           NEW l \in 0 .. 2^Ancho - 1
    PROVE LET c == deserialization(m, bytes, l)
              p == Prefijo(m)
          IN  /\ c \in Seq(Bytes)
              /\ \A k \in 1 .. Len(c) :
                    c[k] = bytes[p + k] /\ p + k <= Len(bytes)
              /\ p <= l => \A k \in 1 .. Len(c) : p + k <= l
              /\ p <= l /\ l <= Len(bytes) => Len(c) = l - p
<1> DEFINE p == Prefijo(m)
           w == 2^Ancho
           d == (l - p) % w
           e == Min({p + d, Len(bytes)})
           c == SubSeq(bytes, p + 1, e)
<1>1. p \in Nat /\ w \in Nat /\ w > 0 /\ l \in 0 .. w - 1 /\ l \in Nat
  BY TamAssumption DEF Prefijo
<1>2. Len(bytes) \in Nat
  OBVIOUS
<1>. HIDE DEF p, w
<1>3. d \in Nat
  BY <1>1
<1>4. p <= l => d = l - p
  <2>. SUFFICES ASSUME p <= l PROVE d = l - p
    OBVIOUS
  <2>1. l - p \in Nat /\ l - p < w
    BY <1>1
  <2>2. (l - p) % w = l - p
    BY <1>1, <2>1, Resto
  <2>. QED BY <2>2
<1>. HIDE DEF d
<1>5. /\ p + d \in Nat
      /\ e = IF p + d <= Len(bytes) THEN p + d ELSE Len(bytes)
  BY <1>1, <1>2, <1>3, MinDeDos
<1>6. e \in 0 .. Len(bytes)
  BY <1>2, <1>5
<1>. HIDE DEF e
<1>7. /\ c \in Seq(Bytes) /\ Len(c) = (IF p <= e THEN e - p ELSE 0)
      /\ \A k \in 1 .. Len(c) : c[k] = bytes[p + k] /\ p + k <= e
  BY <1>1, <1>6, Recorta
<1>8. c = deserialization(m, bytes, l)
  BY DEF deserialization, e, d, w, p
<1>. HIDE DEF c
<1>9. Len(c) \in Nat
  BY <1>7
<1>10. \A k \in 1 .. Len(c) : p + k <= Len(bytes)
  BY <1>1, <1>2, <1>6, <1>7, <1>9
<1>11. p <= l => \A k \in 1 .. Len(c) : p + k <= l
  <2>. SUFFICES ASSUME p <= l, NEW k \in 1 .. Len(c) PROVE p + k <= l
    OBVIOUS
  <2>1. e <= l /\ e \in Nat
    BY <1>1, <1>2, <1>4, <1>5
  <2>. QED BY <1>1, <1>7, <1>9, <2>1
<1>12. p <= l /\ l <= Len(bytes) => Len(c) = l - p
  BY <1>1, <1>2, <1>4, <1>5, <1>7
<1>. QED BY <1>7, <1>8, <1>10, <1>11, <1>12 DEF p

(* The lengths that deserialization may find in what was received.         *)
Halladas(bytes) ==
    IF lector.entera /\ TamHeader <= Len(bytes)
    THEN {lector.length}
    ELSE Longitudes(SubSeq(bytes, 1, Min({TamHeader, Len(bytes)})))

(* What recv returns: the first bytes of the stream.                       *)
Recibido(bytes) ==
    /\ bytes \in Seq(Bytes)
    /\ Len(bytes) <= lector.length /\ Len(bytes) <= Len(llegado)
    /\ \A k \in 1 .. Len(bytes) : bytes[k] = flujo[k]

LEMMA HalladasTipo ==
    ASSUME TypeOK, FlujoInv, NEW bytes, Recibido(bytes)
    PROVE Halladas(bytes) \subseteq 0 .. 2^Ancho - 1
<1> DEFINE t == Min({TamHeader, Len(bytes)})
           h == SubSeq(bytes, 1, t)
<1>1. bytes \in Seq(Bytes) /\ Len(bytes) \in Nat
  BY DEF Recibido
<1>2. TamHeader \in Nat
  BY TamAssumption
<1>3. t \in 0 .. Len(bytes)
  BY <1>1, <1>2, MinDeDos
<1>. HIDE DEF t
<1>4. h \in Seq(Bytes) /\ Len(h) = t /\ \A k \in 1 .. t : h[k] = bytes[k]
  BY <1>1, <1>3
<1>. HIDE DEF h
<1>5. Len(h) <= Total
  <2>1. Len(bytes) <= Len(llegado)
    BY DEF Recibido
  <2>. QED BY <1>1, <1>3, <1>4, <2>1, Numeros DEF Total
<1>6. \A k \in 1 .. Len(h) : h[k] = flujo[k]
  BY <1>1, <1>3, <1>4 DEF Recibido
<1>7. Longitudes(h) \subseteq 0 .. 2^Ancho - 1
  BY <1>4, <1>5, <1>6, LongitudesTipo
<1>8. {lector.length} \subseteq 0 .. 2^Ancho - 1
  BY DEF TypeOK
<1>. QED BY <1>7, <1>8 DEF Halladas, h, t

(* If the bytes received start with a header, its length is found.         *)
LEMMA HalladaEs ==
    ASSUME TypeOK, FlujoInv, PeekInv, lector.pc = "recv",
           NEW bytes, Recibido(bytes), NEW m \in 1 .. N,
           TamHeader <= Len(bytes),
           \A k \in 1 .. TamHeader : flujo[k] = Byte(m, k)
    PROVE Halladas(bytes) = {L(m)}
<1>1. /\ bytes \in Seq(Bytes) /\ Len(bytes) \in Nat
      /\ Len(bytes) <= Len(llegado)
      /\ \A k \in 1 .. Len(bytes) : bytes[k] = flujo[k]
  BY DEF Recibido
<1>2. TamHeader \in Nat /\ Len(llegado) \in Nat
  BY TamAssumption, Numeros
<1>3. CASE lector.entera
  <2>1. Cabeza(m)
    BY <1>1, <1>2 DEF Cabeza
  <2>2. lector.length = L(m)
    BY <1>3, <2>1 DEF PeekInv
  <2>. QED BY <1>3, <2>2 DEF Halladas
<1>4. CASE ~ lector.entera
  <2> DEFINE h == SubSeq(bytes, 1, TamHeader)
  <2>1. Min({TamHeader, Len(bytes)}) = TamHeader
    BY <1>1, <1>2, MinDeDos
  <2>2. /\ h \in Seq(Bytes) /\ Len(h) = TamHeader
        /\ \A k \in 1 .. TamHeader : h[k] = bytes[k]
    BY <1>1, <1>2
  <2>. HIDE DEF h
  <2>3. \A k \in 1 .. TamHeader : h[k] = Byte(m, k)
    <3>1. \A k \in 1 .. TamHeader : k \in 1 .. Len(bytes)
      BY <1>1, <1>2
    <3>. QED BY <1>1, <2>2, <3>1
  <2>4. Longitudes(h) = {L(m)}
    BY <2>2, <2>3, CabezaHeader
  <2>. QED BY <1>4, <2>1, <2>4 DEF Halladas, h
<1>. QED BY <1>3, <1>4

(* A text that starts where that of a message does ends with it at most:   *)
(* the bytes before it are the header, whose length is the one found.      *)
LEMMA LeeTexto ==
    ASSUME TypeOK, FlujoInv, AtrasInv, PeekInv, lector.pc = "recv",
           NEW bytes, Recibido(bytes), NEW l \in Halladas(bytes)
    PROVE Mezcla(deserialization(Turno, bytes, l), Turno)
<1> DEFINE i == Turno
           p == Prefijo(i)
           c == deserialization(i, bytes, l)
<1>1. /\ bytes \in Seq(Bytes) /\ Len(bytes) \in Nat
      /\ Len(bytes) <= Len(llegado)
      /\ \A k \in 1 .. Len(bytes) : bytes[k] = flujo[k]
  BY DEF Recibido
<1>2. /\ Len(llegado) \in Nat /\ Len(llegado) <= Total /\ Total \in Nat
      /\ N \in Nat /\ i \in Nat
  BY Numeros DEF Total, Turno
<1>3. TamHeader \in Nat /\ TamHeader >= 1 /\ p \in Nat /\ TamHeader <= p
  BY TamAssumption DEF Prefijo
<1>4. l \in 0 .. 2^Ancho - 1
  BY HalladasTipo
<1>. HIDE DEF i
<1>5. /\ c \in Seq(Bytes)
      /\ \A k \in 1 .. Len(c) : c[k] = bytes[p + k] /\ p + k <= Len(bytes)
      /\ p <= l => \A k \in 1 .. Len(c) : p + k <= l
  BY <1>1, <1>2, <1>4, TextoDe
<1>. HIDE DEF c, p
<1>6. ASSUME NEW k \in 1 .. Len(c)
      PROVE c[k] = flujo[p + k] /\ p + k \in 1 .. Len(bytes) /\ k \in Nat
  <2>1. k \in Nat /\ k >= 1 /\ c[k] = bytes[p + k] /\ p + k <= Len(bytes)
    BY <1>5
  <2>2. p + k \in 1 .. Len(bytes)
    BY <1>1, <1>3, <2>1
  <2>. QED BY <1>1, <2>1, <2>2
<1>7. SUFFICES ASSUME Len(c) > 0 PROVE
         /\ c[1].m \in 1 .. N
         /\ \A m \in 1 .. N :
               p = Prefijo(m) /\ c[1] = Byte(m, Prefijo(m) + 1)
                 => DeTexto(c, m)
  BY DEF Mezcla, c, p, i
<1>8. 1 \in 1 .. Len(c)
  BY <1>5, <1>7
<1>9. c[1] = flujo[p + 1] /\ p + 1 \in 1 .. Total /\ p + 1 <= Len(bytes)
  BY <1>1, <1>2, <1>6, <1>8
<1>10. c[1].m \in 1 .. N
  BY <1>9, CadenaK
<1>11. ASSUME NEW m \in 1 .. N, p = Prefijo(m), c[1] = Byte(m, p + 1)
       PROVE DeTexto(c, m)
  <2>1. flujo[p + 1].m = m /\ flujo[p + 1].k = p + 1
    BY <1>9, <1>11 DEF Byte
  <2>2. ASSUME NEW j \in 1 .. p + 1 PROVE flujo[j] = Byte(m, j)
    <3>1. (p + 1) - ((p + 1) - j) = j /\ p + 1 > (p + 1) - j
      BY <1>3
    <3>2. flujo[j] = Byte(flujo[p + 1].m,
                          flujo[p + 1].k - ((p + 1) - j))
      BY <1>9, <2>1, <3>1 DEF AtrasInv, Atras
    <3>. QED BY <2>1, <3>1, <3>2
  <2>3. flujo[1] = Byte(m, 1)
    BY <1>3, <2>2
  <2>4. /\ L(m) \in Nat
        /\ \A k \in 1 .. L(m) : flujo[k] = Byte(m, k)
    <3>1. Total > 0
      BY <1>2, <1>9
    <3>. QED BY <2>3, <3>1, Cabecera
  <2>5. p + 1 <= L(m)
    <3>1. p + 1 \in 1 .. L(m)
      BY <1>9, <2>1, CadenaK
    <3>. QED BY <2>4, <3>1
  <2>6. l = L(m)
    <3>1. TamHeader <= Len(bytes)
      BY <1>1, <1>3, <1>9
    <3>2. \A k \in 1 .. TamHeader : flujo[k] = Byte(m, k)
      BY <1>3, <2>2
    <3>. QED BY <3>1, <3>2, HalladaEs
  <2>7. ASSUME NEW k \in 1 .. Len(c)
        PROVE c[k] = Byte(m, p + k) /\ p + k <= L(m)
    <3>1. p + k <= L(m)
      BY <1>3, <1>5, <2>4, <2>5, <2>6
    <3>2. p + k \in 1 .. L(m)
      BY <1>3, <1>6, <2>4, <3>1
    <3>. QED BY <1>6, <2>4, <3>1, <3>2
  <2>. QED BY <1>11, <2>7 DEF DeTexto
<1>. QED BY <1>10, <1>11

(* readStream takes the first r bytes of the stream, and perhaps a text.   *)
LEMMA Paso_readStream ==
    ASSUME Invs, readStream
    PROVE Invs'
<1>. USE DEF Invs
<1> DEFINE m == Turno
           p == Prefijo(m)
           r == Min({lector.length, Len(llegado)})
           bytes == SubSeq(llegado, 1, r)
<1>1. UNCHANGED <<alPP, textos, emisor, vuelo>> /\ lector.pc = "recv"
  BY DEF readStream
<1>2. /\ N \in Nat /\ Total \in Nat /\ Len(llegado) \in Nat
      /\ Len(vuelo) \in Nat /\ m \in Nat /\ m = Len(leidos) + 1
      /\ Len(leidos) \in Nat /\ Len(llegado) <= Total
      /\ DOMAIN leidos = 1 .. Len(leidos)
      /\ leidos \in Seq(Seq(Bytes))
  BY Numeros DEF Total, Turno, TypeOK
<1>3. lector.length \in Nat /\ Len(llegado) > 0
  <2>1. lector.length \in 0 .. 2^Ancho - 1 /\ 2^Ancho \in Nat
    BY TamAssumption DEF TypeOK
  <2>. QED BY <1>1, <2>1 DEF PeekInv
<1>4. /\ r \in 0 .. Len(llegado) /\ r <= lector.length /\ r \in Nat
      /\ r = lector.length \/ r = Len(llegado)
  <2>1. r = IF lector.length <= Len(llegado) THEN lector.length
                                             ELSE Len(llegado)
    BY <1>2, <1>3, MinDeDos
  <2>. HIDE DEF r
  <2>. QED BY <1>2, <1>3, <2>1
<1>. HIDE DEF r
<1>5. /\ bytes \in Seq(Bytes) /\ Len(bytes) = r
      /\ \A k \in 1 .. r : bytes[k] = flujo[k]
  BY <1>4, Primeros
<1>6. /\ llegado' = SubSeq(llegado, Len(bytes) + 1, Len(llegado))
      /\ corta' = (corta \/ Len(bytes) < lector.length)
      /\ \/ /\ bytes = <<>>
            /\ lector' = [pc |-> "cerrado", length |-> 0, entera |-> FALSE]
            /\ UNCHANGED leidos
         \/ /\ bytes # <<>>
            /\ \E l \in Halladas(bytes) :
                  /\ leidos' = Append(leidos, deserialization(m, bytes, l))
                  /\ \E pc \in DespuesDe(m, bytes) \union
                         (IF Prefijo(m) <= l /\ l <= lector.length
                          THEN {} ELSE {"segv"}) :
                        lector' = [pc |-> pc, length |-> 0,
                                   entera |-> FALSE]
  BY DEF readStream, Halladas, Turno, r
<1>. HIDE DEF bytes
<1>7. Recibido(bytes)
  BY <1>2, <1>4, <1>5 DEF Recibido
<1>8. /\ llegado' \in Seq(Bytes) /\ Total' = Total - r
      /\ \A j \in 1 .. Total - r : B(j)' = B(j + r)
  BY <1>1, <1>4, <1>5, <1>6, Quita
<1>9. /\ largos' = largos /\ N' = N
      /\ \A i : Prefijo(i)' = Prefijo(i) /\ L(i)' = L(i)
  BY <1>1, LargosIguales
<1>10. \A j \in 1 .. Total' : flujo'[j] = flujo[j + r]
  <2>1. ASSUME NEW j \in 1 .. Total - r PROVE flujo'[j] = flujo[j + r]
    <3>1. j \in 1 .. Total' /\ j + r \in 1 .. Total
      BY <1>2, <1>4, <1>8
    <3>2. flujo'[j] = B(j)'
      BY <3>1 DEF flujo
    <3>. QED BY <1>8, <3>1, <3>2, FlujoLee
  <2>. QED BY <1>8, <2>1
<1>11. r \in 0 .. Total
  BY <1>2, <1>4
<1>12. FlujoInv'
  <2>1. \A i \in 1 .. N : largos[i] \in Nat
    BY FlujoLee
  <2>2. Cadena(flujo, Total, largos, N)
    BY DEF FlujoInv
  <2>3. Cadena(flujo', Total - r, largos, N)
    <3>1. \A j \in 1 .. Total - r : flujo'[j] = flujo[j + r]
      BY <1>8, <1>10
    <3>. QED BY <1>2, <1>11, <2>1, <2>2, <3>1, CadenaQuita
  <2>4. Cadena(flujo', Total', largos', N')
    BY <1>8, <1>9, <2>3
  <2>5. ASSUME emisor' = "vivo", Total' > 0 PROVE flujo'[Total'].m = N'
    <3>1. Total' \in 1 .. Total' /\ Total' + r = Total
      BY <1>2, <1>4, <1>8, <2>5
    <3>2. flujo[Total].m = N
      BY <1>1, <1>2, <1>4, <1>8, <2>5 DEF FlujoInv
    <3>. QED BY <1>9, <1>10, <3>1, <3>2
  <2>. QED BY <2>4, <2>5 DEF FlujoInv
<1>13. AtrasInv'
  <2>1. \A i \in 1 .. Total : flujo[i].k \in Nat
    BY CadenaK
  <2>2. \A j \in 1 .. Total - r : flujo'[j] = flujo[j + r]
    BY <1>8, <1>10
  <2>3. Atras(flujo, Total)
    BY DEF AtrasInv
  <2>4. Atras(flujo', Total - r)
    BY <1>2, <1>11, <2>1, <2>2, <2>3, AtrasQuita
  <2>. QED BY <1>8, <2>4 DEF AtrasInv
<1>14. lector'.pc # "recv"
  BY <1>6 DEF DespuesDe
<1>15. PeekInv'
  BY <1>14 DEF PeekInv
<1>16. corta' \in BOOLEAN
  BY <1>6, Zenon
<1>17. 0 \in 0 .. 2^Ancho - 1
  BY TamAssumption
<1>18. CASE bytes = <<>>
  <2>1. /\ lector' = [pc |-> "cerrado", length |-> 0, entera |-> FALSE]
        /\ UNCHANGED leidos
    BY <1>6, <1>18
  <2>2. TypeOK'
    BY <1>1, <1>8, <1>16, <1>17, <2>1 DEF TypeOK
  <2>3. MezclaInv'
    BY <1>1, <2>1, TextosIguales DEF MezclaInv
  <2>4. r = 0 /\ Total' = Total
    BY <1>2, <1>5, <1>8, <1>18
  <2>5. ~ Sano'
    <3>1. SUFFICES ASSUME Sano' PROVE FALSE
      OBVIOUS
    <3>2. ~ corta /\ ~ (Len(bytes) < lector.length)
      BY <1>6, <3>1, Zenon DEF Sano
    <3>3. Sano
      BY <1>1, <3>1, <3>2, SanoAntes
    <3>4. lector.entera /\ lector.length = L(m)
      BY <1>1, <3>3 DEF EntregaInv
    <3>5. lector.length = 0
      BY <1>3, <1>5, <2>4, <3>2
    <3>6. Len(llegado) >= TamHeader
      BY <1>1, <3>4 DEF PeekInv
    <3>7. Prefijo(m) <= L(m) /\ m \in 1 .. N
      BY <3>3, <3>6, CabezaEnTurno
    <3>8. Prefijo(m) \in Nat /\ Prefijo(m) >= 1
      BY TamAssumption DEF Prefijo
    <3>. QED BY <3>4, <3>5, <3>7, <3>8
  <2>6. EntregaInv'
    BY <2>5 DEF EntregaInv
  <2>. QED BY <1>12, <1>13, <1>15, <2>2, <2>3, <2>6
<1>19. CASE bytes # <<>>
  <2>1. PICK l \in Halladas(bytes) :
           /\ leidos' = Append(leidos, deserialization(m, bytes, l))
           /\ \E pc \in DespuesDe(m, bytes) \union
                  (IF p <= l /\ l <= lector.length THEN {} ELSE {"segv"}) :
                 lector' = [pc |-> pc, length |-> 0, entera |-> FALSE]
    BY <1>6, <1>19
  <2>2. l \in 0 .. 2^Ancho - 1
    BY <1>7, HalladasTipo
  <2> DEFINE c == deserialization(m, bytes, l)
  <2>3. /\ c \in Seq(Bytes)
        /\ p <= l /\ l <= Len(bytes) => Len(c) = l - p
        /\ \A k \in 1 .. Len(c) :
              c[k] = bytes[p + k] /\ p + k <= Len(bytes)
    <3>1. m \in Nat /\ bytes \in Seq(Bytes)
      BY <1>2, <1>5
    <3>. HIDE DEF m
    <3>. QED BY <2>2, <3>1, TextoDe
  <2>4. Mezcla(c, m)
    BY <1>1, <1>7, LeeTexto
  <2>5. leidos' = Append(leidos, c)
    BY <2>1
  <2>. HIDE DEF c
  <2>6. /\ leidos' \in Seq(Seq(Bytes)) /\ Len(leidos') = m
        /\ leidos'[m] = c
        /\ \A i \in 1 .. Len(leidos) : leidos'[i] = leidos[i]
        /\ DOMAIN leidos' = 1 .. m
    BY <1>2, <2>3, <2>5
  <2>7. \A i \in DOMAIN leidos' : i = m \/ i \in DOMAIN leidos
    BY <1>2, <2>6
  <2>8. MezclaInv'
    <3>1. ASSUME NEW i \in DOMAIN leidos' PROVE Mezcla(leidos'[i], i)
      BY <1>2, <2>4, <2>6, <2>7 DEF MezclaInv
    <3>. QED BY <1>1, <3>1, TextosIguales DEF MezclaInv
  <2>9. TypeOK'
    <3>1. lector' \in [pc : {"peek", "recv", "epoll", "cerrado", "segv"},
                       length : 0 .. 2^Ancho - 1, entera : BOOLEAN]
      BY <1>17, <2>1 DEF DespuesDe
    <3>. QED BY <1>1, <1>8, <1>16, <2>6, <3>1 DEF TypeOK
  <2>10. EntregaInv'
    <3>. SUFFICES ASSUME Sano' PROVE
          /\ lector'.pc # "segv"
          /\ Total' > 0 => flujo'[1] = Byte(Turno', 1) /\ flujo'[Total'].m = N'
          /\ Total' = 0 => Len(leidos') = N'
          /\ \A i \in DOMAIN leidos' : Entero(i)'
      BY <1>14 DEF EntregaInv
    <3>1. ~ corta /\ ~ (Len(bytes) < lector.length)
      BY <1>6, Zenon DEF Sano
    <3>2. Sano
      BY <1>1, <3>1, SanoAntes
    <3>3. lector.entera /\ lector.length = L(m)
      BY <1>1, <3>2 DEF EntregaInv
    <3>4. Len(llegado) >= TamHeader
      BY <1>1, <3>3 DEF PeekInv
    <3>5. p <= L(m) /\ m \in 1 .. N /\ Cabeza(m)
      BY <3>2, <3>4, CabezaEnTurno
    <3>6. TamHeader \in Nat /\ TamHeader <= p /\ p \in Nat /\ TamHeader >= 1
      BY TamAssumption DEF Prefijo
    <3>7. r = L(m) /\ L(m) \in Nat
      BY <1>3, <1>4, <1>5, <3>1, <3>3
    <3>8. l = L(m)
      <4>1. TamHeader <= Len(bytes)
        BY <1>5, <3>5, <3>6, <3>7
      <4>. QED BY <3>3, <4>1 DEF Halladas
    <3>9. Total > 0 /\ flujo[1] = Byte(m, 1) /\ flujo[Total].m = N
      <4>1. Total > 0
        BY <1>2, <1>3
      <4>. QED BY <3>2, <4>1 DEF EntregaInv
    <3>10. /\ \A k \in 1 .. L(m) : flujo[k] = Byte(m, k)
           /\ L(m) < Total => flujo[L(m) + 1] = Byte(m + 1, 1)
      <4>. HIDE DEF m
      <4>. QED BY <3>9, Cabecera
    <3>11. lector'.pc # "segv"
      <4>1. p <= l /\ l <= lector.length
        BY <3>3, <3>5, <3>7, <3>8
      <4>. QED BY <2>1, <4>1 DEF DespuesDe
    <3>12. ASSUME Total' > 0
           PROVE flujo'[1] = Byte(Turno', 1) /\ flujo'[Total'].m = N'
      <4>1. /\ 1 \in 1 .. Total' /\ Total' \in 1 .. Total' /\ r < Total
            /\ Total' + r = Total /\ 1 + r = r + 1 /\ Turno' = m + 1
        BY <1>2, <1>4, <1>8, <2>6, <3>12 DEF Turno
      <4>2. flujo'[1] = flujo[r + 1] /\ flujo'[Total'] = flujo[Total]
        BY <1>10, <4>1
      <4>. QED BY <1>9, <3>7, <3>9, <3>10, <4>1, <4>2
    <3>13. ASSUME Total' = 0 PROVE Len(leidos') = N'
      <4>1. r = Total /\ r \in 1 .. r
        BY <1>2, <1>4, <1>8, <3>9, <3>13
      <4>2. flujo[r] = Byte(m, r)
        BY <3>7, <3>10, <4>1
      <4>3. flujo[r].m = m
        BY <4>2 DEF Byte
      <4>. QED BY <1>9, <2>6, <3>9, <4>1, <4>3
    <3>14. ASSUME NEW k \in 1 .. Len(c)
           PROVE c[k] = Byte(m, p + k) /\ p + k <= L(m)
      <4>1. c[k] = bytes[p + k] /\ p + k <= Len(bytes) /\ k \in Nat /\ k >= 1
        BY <2>3
      <4>2. p + k \in 1 .. r /\ p + k <= L(m)
        BY <1>4, <1>5, <3>6, <3>7, <4>1
      <4>. QED BY <1>5, <3>7, <3>10, <4>1, <4>2
    <3>15. p + Len(c) = L(m)
      <4>1. p <= l /\ l <= Len(bytes)
        BY <1>5, <3>5, <3>7, <3>8
      <4>2. Len(c) = l - p
        BY <2>3, <4>1
      <4>. QED BY <3>6, <3>7, <3>8, <4>2
    <3>16. ASSUME NEW i \in DOMAIN leidos' PROVE Entero(i)'
      <4>1. CASE i = m
        <5>1. leidos'[i] = c /\ Prefijo(i)' = p /\ L(i)' = L(m) /\ N' = N
          BY <1>9, <2>6, <4>1
        <5>. QED BY <3>5, <3>14, <3>15, <4>1, <5>1 DEF Entero, DeTexto
      <4>2. CASE i # m
        <5>1. i \in DOMAIN leidos /\ leidos'[i] = leidos[i]
          BY <1>2, <2>6, <2>7, <4>2
        <5>2. Entero(i)
          BY <3>2, <5>1 DEF EntregaInv
        <5>. QED BY <1>1, <1>9, <5>1, <5>2, TextosIguales DEF Entero
      <4>. QED BY <4>1, <4>2
    <3>. QED BY <3>11, <3>12, <3>13, <3>16
  <2>. QED BY <1>12, <1>13, <1>15, <2>8, <2>9, <2>10
<1>. QED BY <1>18, <1>19

(* writeStream puts one more message at the end of the stream, or the      *)
(* sender dies.                                                            *)
LEMMA Paso_Escribe ==
    ASSUME Invs, NEW n \in Tamanos,
           emisor = "vivo", textos' = Append(textos, n),
           vuelo' = vuelo \o Mensaje(N + 1, n),
           emisor' = (IF Mensaje(N + 1, n) = <<>> THEN "error" ELSE "vivo"),
           UNCHANGED <<alPP, llegado, lector, leidos, corta>>
    PROVE Invs'
<1>. USE DEF Invs
<1> DEFINE m == N + 1
           x == Largo(m, n)
<1>1. /\ N \in Nat /\ Total \in Nat /\ Len(llegado) \in Nat
      /\ Len(leidos) \in Nat /\ DOMAIN leidos = 1 .. Len(leidos)
      /\ n \in Nat /\ m \in Nat
  BY Numeros, TextosAssumption
<1>2. x \in Nat
  BY <1>1, Largos
<1>3. /\ textos' \in Seq(Tamanos) /\ N' = m /\ textos'[m] = n
      /\ \A i \in 1 .. N : textos'[i] = textos[i]
  <2>1. textos \in Seq(Tamanos)
    BY DEF TypeOK
  <2>. QED BY <2>1 DEF N
<1>4. /\ vuelo' \in Seq(Bytes) /\ Total' = Total + x
      /\ (Mensaje(m, n) = <<>> <=> x = 0)
      /\ \A j \in 1 .. Total : B(j)' = B(j)
      /\ \A j \in Total + 1 .. Total + x : B(j)' = Byte(m, j - Total)
  BY <1>1, Pone
<1>5. /\ \A i : Prefijo(i)' = Prefijo(i)
      /\ \A i \in 1 .. N : L(i)' = L(i)
      /\ \A i : i = m => L(i)' = x
  BY <1>3 DEF Prefijo, L, Largo
<1>6. /\ \A j \in 1 .. Total : flujo[j] = B(j)
      /\ \A i \in 1 .. N : largos[i] = L(i) /\ largos[i] \in Nat
      /\ Len(llegado) > 0 => Total > 0
  BY FlujoLee
<1>. HIDE DEF x
<1>7. emisor' = "vivo" => x > 0
  BY <1>2, <1>4
<1>. HIDE DEF m
<1>8. /\ \A i \in 1 .. N : largos'[i] = largos[i]
      /\ largos'[m] = x
  <2>1. \A i \in 1 .. m : largos'[i] = L(i)'
    BY <1>3 DEF largos
  <2>2. m \in 1 .. m /\ \A i \in 1 .. N : i \in 1 .. m
    BY <1>1 DEF m
  <2>. QED BY <1>5, <1>6, <2>1, <2>2
<1>9. /\ \A j \in 1 .. Total : flujo'[j] = flujo[j]
      /\ \A j \in Total + 1 .. Total + x : flujo'[j] = Byte(m, j - Total)
  <2>1. \A j \in 1 .. Total' : flujo'[j] = B(j)'
    BY DEF flujo
  <2>2. /\ \A j \in 1 .. Total : j \in 1 .. Total'
        /\ \A j \in Total + 1 .. Total + x : j \in 1 .. Total'
    BY <1>1, <1>2, <1>4
  <2>. QED BY <1>4, <1>6, <2>1, <2>2
<1>10. FlujoInv'
  <2>1. Total > 0 => flujo[Total].m = N
    BY DEF FlujoInv
  <2>2. Cadena(flujo, Total, largos, N)
    BY DEF FlujoInv
  <2>3. Cadena(flujo', Total', largos', N')
    <3>1. /\ \A i \in 1 .. N : largos[i] \in Nat
          /\ \A i \in 1 .. N : largos'[i] = largos[i]
          /\ largos'[N + 1] = x
          /\ \A j \in 1 .. Total : flujo'[j] = flujo[j]
          /\ \A j \in Total + 1 .. Total + x :
                flujo'[j] = Byte(N + 1, j - Total)
          /\ Total \in Nat /\ N \in Nat /\ x \in Nat
      BY <1>1, <1>2, <1>6, <1>8, <1>9 DEF m
    <3>2. Total' = Total + x /\ N' = N + 1
      BY <1>3, <1>4 DEF m
    <3>3. Sigue(flujo, Total, largos, N, flujo', Total', largos', N', x)
      BY <2>1, <3>1, <3>2 DEF Sigue
    <3>. QED BY <2>2, <3>3, CadenaPone
  <2>4. ASSUME emisor' = "vivo" PROVE flujo'[Total'].m = N'
    <3>1. Total' \in Total + 1 .. Total + x
      BY <1>1, <1>2, <1>4, <1>7, <2>4
    <3>2. flujo'[Total'] = Byte(m, Total' - Total)
      BY <1>9, <3>1
    <3>. QED BY <1>3, <3>2 DEF Byte
  <2>. QED BY <2>3, <2>4 DEF FlujoInv
<1>11. AtrasInv'
  <2>1. Atras(flujo', Total + x)
    BY <1>1, <1>2, <1>9, AtrasPone DEF AtrasInv
  <2>. QED BY <1>4, <2>1 DEF AtrasInv
<1>12. \A i \in 1 .. N : i \in 1 .. N' /\ i # m
  BY <1>1, <1>3 DEF m
<1>13. \A i \in 1 .. N' : i = m \/ i \in 1 .. N
  BY <1>1, <1>3 DEF m
<1>14. Total > 0 => flujo'[1] = flujo[1] /\ flujo[1].m \in 1 .. N
  <2>1. Total > 0 => 1 \in 1 .. Total
    BY <1>1
  <2>. QED BY <1>9, <2>1, CadenaK
<1>15. MezclaInv'
  <2>. SUFFICES ASSUME NEW i \in DOMAIN leidos, Len(leidos[i]) > 0
                PROVE /\ leidos[i][1].m \in 1 .. N'
                      /\ \A q \in 1 .. N' :
                            /\ Prefijo(i)' = Prefijo(q)'
                            /\ leidos[i][1] = Byte(q, Prefijo(q)' + 1)
                            => \A k \in 1 .. Len(leidos[i]) :
                                  /\ leidos[i][k] = Byte(q, Prefijo(q)' + k)
                                  /\ Prefijo(q)' + k <= L(q)'
    BY DEF MezclaInv, Mezcla, DeTexto
  <2>1. Mezcla(leidos[i], i)
    BY DEF MezclaInv
  <2>2. leidos[i][1].m \in 1 .. N
    BY <2>1 DEF Mezcla
  <2>3. ASSUME NEW q \in 1 .. N', Prefijo(i) = Prefijo(q),
               leidos[i][1] = Byte(q, Prefijo(q) + 1)
        PROVE \A k \in 1 .. Len(leidos[i]) :
                  /\ leidos[i][k] = Byte(q, Prefijo(q) + k)
                  /\ Prefijo(q) + k <= L(q)'
    <3>1. q \in 1 .. N
      BY <2>2, <2>3 DEF Byte
    <3>2. DeTexto(leidos[i], q)
      BY <2>1, <2>3, <3>1 DEF Mezcla
    <3>. QED BY <1>5, <3>1, <3>2 DEF DeTexto
  <2>. QED BY <1>5, <1>12, <2>2, <2>3
<1>16. PeekInv'
  <2>. SUFFICES ASSUME lector.pc = "recv"
                PROVE /\ Len(llegado) > 0
                      /\ lector.entera => Len(llegado) >= TamHeader
                      /\ \A q \in 1 .. N' :
                            lector.entera /\ Cabeza(q)'
                               => lector.length = L(q)'
    BY DEF PeekInv
  <2>1. Len(llegado) > 0 /\ (lector.entera => Len(llegado) >= TamHeader)
    BY DEF PeekInv
  <2>2. ASSUME NEW q \in 1 .. N', lector.entera, Cabeza(q)'
        PROVE lector.length = L(q)'
    <3>1. TamHeader \in Nat /\ TamHeader >= 1 /\ Len(llegado) >= TamHeader
      BY <2>1, <2>2, TamAssumption
    <3>2. \A k \in 1 .. TamHeader : k \in 1 .. Total
      BY <1>1, <3>1, Numeros DEF Total
    <3>3. Cabeza(q)
      BY <1>9, <2>2, <3>1, <3>2 DEF Cabeza
    <3>4. flujo[1] = Byte(q, 1) /\ Total > 0
      BY <1>6, <2>1, <3>1, <3>3 DEF Cabeza
    <3>5. q \in 1 .. N
      BY <1>14, <3>4 DEF Byte
    <3>. QED BY <1>5, <2>2, <3>3, <3>5 DEF PeekInv
  <2>. QED BY <2>1, <2>2
<1>17. TypeOK'
  BY <1>3, <1>4 DEF TypeOK
<1>18. EntregaInv'
  <2>. SUFFICES ASSUME Sano' PROVE
        /\ lector.pc # "segv"
        /\ lector.pc = "recv" => lector.entera /\ lector.length = L(Turno)'
        /\ Total' > 0 => flujo'[1] = Byte(Turno', 1) /\ flujo'[Total'].m = N'
        /\ Total' = 0 => Len(leidos) = N'
        /\ \A i \in DOMAIN leidos : Entero(i)'
    BY DEF EntregaInv
  <2>1. DOMAIN textos = 1 .. N /\ DOMAIN textos' = 1 .. N'
    BY <1>3, Numeros DEF N
  <2>2. Sano /\ x >= Prefijo(m)
    <3>1. \A i \in 1 .. N' : L(i)' >= Prefijo(i)'
      BY <2>1 DEF Sano, Encuadra, L
    <3>2. ~ corta /\ m \in 1 .. N'
      BY <1>1, <1>3 DEF Sano, m
    <3>3. \A i \in 1 .. N : L(i) >= Prefijo(i)
      BY <1>5, <1>12, <3>1
    <3>. QED BY <1>5, <2>1, <3>1, <3>2, <3>3 DEF Sano, Encuadra, L
  <2>3. x >= 1
    <3>1. Prefijo(m) \in Nat /\ Prefijo(m) >= 1
      BY <1>1, Largos
    <3>. QED BY <1>2, <2>2, <3>1
  <2>4. Turno' = Turno /\ Total' > 0 /\ Total' \in Total + 1 .. Total + x
    BY <1>1, <1>2, <1>4, <2>3 DEF Turno
  <2>5. flujo'[Total'].m = N'
    <3>1. flujo'[Total'] = Byte(m, Total' - Total)
      BY <1>9, <2>4
    <3>. QED BY <1>3, <3>1 DEF Byte
  <2>6. flujo'[1] = Byte(Turno, 1)
    <3>1. CASE Total > 0
      BY <1>14, <2>2, <3>1 DEF EntregaInv
    <3>2. CASE ~ (Total > 0)
      <4>1. Total = 0
        BY <1>1, <3>2
      <4>2. Len(leidos) = N
        BY <2>2, <4>1 DEF EntregaInv
      <4>3. 1 \in Total + 1 .. Total + x /\ 1 - Total = 1
        BY <1>2, <2>3, <4>1
      <4>4. flujo'[1] = Byte(m, 1)
        BY <1>9, <4>3
      <4>. QED BY <4>2, <4>4 DEF m, Turno
    <3>. QED BY <3>1, <3>2
  <2>7. ASSUME NEW i \in DOMAIN leidos PROVE Entero(i)'
    <3>1. Entero(i)
      BY <2>2 DEF EntregaInv
    <3>2. i \in 1 .. N /\ i \in 1 .. N' /\ L(i)' = L(i)
      BY <1>5, <1>12, <3>1 DEF Entero
    <3>. QED BY <1>5, <3>1, <3>2 DEF Entero, DeTexto
  <2>8. ASSUME lector.pc = "recv"
        PROVE lector.entera /\ lector.length = L(Turno)'
    <3>1. lector.entera /\ lector.length = L(Turno)
      BY <2>2, <2>8 DEF EntregaInv
    <3>2. Total > 0
      BY <1>6, <2>8 DEF PeekInv
    <3>3. flujo[1] = Byte(Turno, 1)
      BY <2>2, <3>2 DEF EntregaInv
    <3>4. Turno \in 1 .. N
      BY <1>14, <3>2, <3>3 DEF Byte
    <3>5. textos'[Turno] = textos[Turno]
      BY <1>3, <3>4
    <3>6. L(Turno)' = L(Turno)
      BY <2>4, <3>5 DEF L, Largo, Prefijo
    <3>. QED BY <3>1, <3>6
  <2>9. lector.pc # "segv" /\ Total' # 0
    BY <2>2, <2>4 DEF EntregaInv
  <2>. QED BY <2>4, <2>5, <2>6, <2>7, <2>8, <2>9
<1>. QED BY <1>10, <1>11, <1>15, <1>16, <1>17, <1>18

LEMMA Paso_writeStream ==
    ASSUME Invs, NEW n \in Tamanos, writeStream(n)
    PROVE Invs'
<1>1. UNCHANGED <<alPP, llegado, lector, leidos, corta>> /\ emisor = "vivo"
  BY DEF writeStream
<1>2. CASE /\ textos' = Append(textos, n)
           /\ vuelo' = vuelo \o Mensaje(N + 1, n)
           /\ emisor' = IF Mensaje(N + 1, n) = <<>> THEN "error" ELSE "vivo"
  BY <1>1, <1>2, Paso_Escribe
<1>3. CASE emisor' = "segv" /\ UNCHANGED <<textos, vuelo>>
  <2>1. Total' = Total /\ \A j : B(j)' = B(j)
    BY <1>1, <1>3 DEF Total, B
  <2>2. TypeOK'
    BY <1>1, <1>3 DEF TypeOK, Invs
  <2>3. Len(llegado') >= Len(llegado)
    <3>1. Len(llegado) \in Nat
      BY Numeros DEF Invs
    <3>. QED BY <1>1, <3>1
  <2>. QED BY <1>1, <1>3, <2>1, <2>2, <2>3, Paso_Quieto
<1>. QED BY <1>2, <1>3 DEF writeStream, N

-----------------------------------------------------------------------------
(* Mensajes: q has the messages of a stream after the first b of n.        *)
Mensajes(q, l, n, b) ==
    /\ q \in Seq(Seq(Bytes)) /\ b \in 0 .. n /\ Len(q) = n - b
    /\ \A i \in 1 .. n - b :
          /\ Len(q[i]) = l[b + i]
          /\ \A k \in 1 .. l[b + i] : q[i][k] = Byte(b + i, k)

(* The first i messages of q, joined in x, are the first bytes of the      *)
(* stream, which goes on with the next one.                                *)
Juntados(x, i, s, t, l, b) ==
    /\ x \in Seq(Bytes) /\ Len(x) \in 1 .. t
    /\ \A j \in 1 .. Len(x) : x[j] = s[j]
    /\ s[Len(x)].m = b + i
    /\ Len(x) < t => s[Len(x) + 1] = Byte((b + i) + 1, 1)

LEMMA JuntaUno ==
    ASSUME NEW s, NEW t, NEW l, NEW n, NEW b, NEW q, NEW o, NEW i, NEW x,
           Mensajes(q, l, n, b), i \in 1 .. n - b, n \in Nat,
           Empieza(s, t, l, n, o, b + i), x \in Seq(Bytes), Len(x) = o,
           \A j \in 1 .. o : x[j] = s[j]
    PROVE Juntados(x \o q[i], i, s, t, l, b)
<1> DEFINE m == b + i
           y == q[i]
           z == x \o y
<1>1. /\ m \in 1 .. n /\ l[m] \in Nat \ {0} /\ o + l[m] <= t
      /\ \A k \in 1 .. l[m] : s[o + k] = Byte(m, k)
      /\ o + l[m] < t => s[(o + l[m]) + 1] = Byte(m + 1, 1)
  <2>. HIDE DEF m
  <2>1. Empieza(s, t, l, n, o, m)
    BY DEF m
  <2>. QED BY <2>1, CadenaLee
<1>2. /\ y \in Seq(Bytes) /\ Len(y) = l[m]
      /\ \A k \in 1 .. l[m] : y[k] = Byte(m, k)
  <2>1. /\ q \in Seq(Seq(Bytes)) /\ Len(q) = n - b
        /\ Len(q[i]) = l[b + i]
        /\ \A k \in 1 .. l[b + i] : q[i][k] = Byte(b + i, k)
    BY DEF Mensajes
  <2>2. q[i] \in Seq(Bytes)
    BY <2>1, ElementOfSeq
  <2>. QED BY <2>1, <2>2
<1>3. o \in Nat /\ t \in Nat
  BY DEF Empieza
<1>. HIDE DEF m, y, z
<1>4. /\ z \in Seq(Bytes) /\ Len(z) = o + l[m]
      /\ \A j \in 1 .. o : z[j] = x[j]
      /\ \A j \in 1 .. l[m] : z[o + j] = y[j]
  <2>1. /\ x \o y \in Seq(Bytes) /\ Len(x \o y) = Len(x) + Len(y)
        /\ \A j \in 1 .. Len(x) : (x \o y)[j] = x[j]
        /\ \A j \in 1 .. Len(y) : (x \o y)[Len(x) + j] = y[j]
    <3>1. x \in Seq(Bytes) /\ y \in Seq(Bytes)
      BY <1>2
    <3>2. x \o y \in Seq(Bytes) /\ Len(x \o y) = Len(x) + Len(y)
      BY <3>1
    <3>3. \A j \in 1 .. Len(x) : (x \o y)[j] = x[j]
      BY <3>1
    <3>4. \A j \in 1 .. Len(y) : (x \o y)[Len(x) + j] = y[j]
      BY <3>1, Junta
    <3>. QED BY <3>2, <3>3, <3>4
  <2>. QED BY <1>2, <2>1 DEF z
<1>5. ASSUME NEW j \in 1 .. o + l[m] PROVE z[j] = s[j]
  <2>1. CASE j <= o
    <3>1. j \in 1 .. o
      BY <1>1, <1>3, <2>1
    <3>. QED BY <1>4, <3>1
  <2>2. CASE ~ (j <= o)
    <3> DEFINE k == j - o
    <3>1. k \in 1 .. l[m] /\ o + k = j
      BY <1>1, <1>3, <2>2
    <3>. HIDE DEF k
    <3>2. z[o + k] = y[k] /\ y[k] = Byte(m, k) /\ s[o + k] = Byte(m, k)
      BY <1>1, <1>2, <1>4, <3>1
    <3>. QED BY <3>1, <3>2
  <2>. QED BY <2>1, <2>2
<1>6. s[o + l[m]].m = m
  <2>1. l[m] \in 1 .. l[m]
    BY <1>1
  <2>2. s[o + l[m]] = Byte(m, l[m])
    BY <1>1, <2>1
  <2>. QED BY <2>2 DEF Byte
<1>7. o + l[m] \in 1 .. t
  BY <1>1, <1>3
<1>8. Juntados(z, i, s, t, l, b)
  BY <1>1, <1>4, <1>5, <1>6, <1>7 DEF Juntados, m
<1>. QED BY <1>8 DEF z, y

(* A stream that starts with the first message not read and ends with the  *)
(* last one sent is the messages not read, one after the other.            *)
LEMMA CadenaAplanada ==
    ASSUME NEW s, NEW t \in Nat, NEW l, NEW n \in Nat, NEW b, NEW q,
           Cadena(s, t, l, n), \A i \in 1 .. n : l[i] \in Nat,
           Mensajes(q, l, n, b),
           t > 0 => s[1] = Byte(b + 1, 1) /\ s[t].m = n, t = 0 => b = n
    PROVE LET x == FlattenSeq(q)
          IN  x \in Seq(Bytes) /\ Len(x) = t /\ \A j \in 1 .. t : x[j] = s[j]
<1>1. /\ q \in Seq(Seq(Bytes)) /\ b \in 0 .. n /\ Len(q) = n - b
      /\ b \in Nat /\ n - b \in Nat
  BY DEF Mensajes
<1>2. \A j \in 1 .. t : s[j].m \in 1 .. n
  BY DEF Cadena
<1>3. CASE b = n
  <2>1. t = 0
    <3>1. SUFFICES ASSUME t > 0 PROVE FALSE
      OBVIOUS
    <3>2. s[1].m = n + 1 /\ 1 \in 1 .. t
      BY <1>3, <3>1 DEF Byte
    <3>. QED BY <1>2, <3>2
  <2>2. Len(q) = 0
    BY <1>1, <1>3
  <2>3. q = <<>>
    BY <1>1, <2>2
  <2>4. FlattenSeq(q) = q
    BY <2>2, Zenon DEF FlattenSeq
  <2>5. FlattenSeq(q) = <<>>
    BY <2>3, <2>4
  <2>6. /\ <<>> \in Seq(Bytes) /\ Len(<<>>) = 0
        /\ \A j \in 1 .. 0 : <<>>[j] = s[j]
    OBVIOUS
  <2>. QED BY <2>1, <2>5, <2>6
<1>4. CASE b # n
  <2> DEFINE c == n - b
  <2>1. c \in Nat /\ c > 0 /\ t > 0 /\ s[1] = Byte(b + 1, 1) /\ s[t].m = n
    BY <1>1, <1>4
  <2>2. PICK f : /\ FlattenSeq(q) = f[c] /\ f[1] = q[1]
                 /\ \A i \in 1 .. c - 1 : f[i + 1] = f[i] \o q[i + 1]
    BY <1>1, <2>1, AplanaEs
  <2>. HIDE DEF c
  <2> DEFINE Bien(i) == Juntados(f[i], i, s, t, l, b)
             T == {i \in Nat : i + 1 <= c => Bien(i + 1)}
  <2>3. Bien(1)
    <3>1. Empieza(s, t, l, n, 0, b + 1)
      BY <2>1 DEF Empieza
    <3>2. 1 \in 1 .. n - b
      BY <2>1 DEF c
    <3>3. /\ <<>> \in Seq(Bytes) /\ Len(<<>>) = 0
          /\ \A j \in 1 .. 0 : <<>>[j] = s[j]
      OBVIOUS
    <3>4. Juntados(<<>> \o q[1], 1, s, t, l, b)
      <4> DEFINE x == <<>>
                 o == 0
                 i == 1
      <4>1. /\ i \in 1 .. n - b /\ Empieza(s, t, l, n, o, b + i)
            /\ x \in Seq(Bytes) /\ Len(x) = o
            /\ \A j \in 1 .. o : x[j] = s[j]
        BY <3>1, <3>2, <3>3
      <4>. HIDE DEF x, o, i
      <4>2. Juntados(x \o q[i], i, s, t, l, b)
        BY <4>1, JuntaUno
      <4>. QED BY <4>2 DEF x, i
    <3>5. <<>> \o q[1] = q[1]
      <4>1. q[1] \in Seq(Bytes)
        BY <1>1, <3>2
      <4>. QED BY <4>1
    <3>. QED BY <2>2, <3>4, <3>5
  <2>4. ASSUME NEW i \in 1 .. c - 1, Bien(i) PROVE Bien(i + 1)
    <3> DEFINE x == f[i]
               o == Len(x)
    <3>1. /\ x \in Seq(Bytes) /\ o \in 1 .. t
          /\ \A j \in 1 .. o : x[j] = s[j]
          /\ s[o].m = b + i
          /\ o < t => s[o + 1] = Byte((b + i) + 1, 1)
      BY <2>4 DEF Juntados
    <3>2. /\ i \in Nat /\ i + 1 \in 1 .. n - b /\ b + i < n
          /\ (b + i) + 1 = b + (i + 1)
      BY <1>1, <2>1 DEF c
    <3>3. f[i + 1] = x \o q[i + 1]
      BY <2>2
    <3>. HIDE DEF x
    <3>4. o < t
      <4>1. o # t
        BY <2>1, <3>1, <3>2
      <4>. QED BY <3>1, <4>1
    <3>5. Empieza(s, t, l, n, o, b + (i + 1))
      <4>1. o \in Nat
        BY <3>1
      <4>. QED BY <3>1, <3>2, <3>4, <4>1 DEF Empieza
    <3>6. Juntados(x \o q[i + 1], i + 1, s, t, l, b)
      <4> DEFINE i1 == i + 1
      <4>1. i1 \in 1 .. n - b /\ Empieza(s, t, l, n, o, b + i1)
        BY <3>2, <3>5
      <4>. HIDE DEF i1
      <4>2. Juntados(x \o q[i1], i1, s, t, l, b)
        BY <3>1, <4>1, JuntaUno
      <4>. QED BY <4>2 DEF i1
    <3>. QED BY <3>3, <3>6
  <2>5. Nat \subseteq T
    <3>1. 0 \in T
      BY <2>3
    <3>2. ASSUME NEW i \in Nat, i \in T PROVE i + 1 \in T
      <4>1. SUFFICES ASSUME (i + 1) + 1 <= c PROVE Bien((i + 1) + 1)
        OBVIOUS
      <4>. HIDE DEF Bien
      <4>2. i + 1 \in 1 .. c - 1 /\ Bien(i + 1)
        BY <2>1, <3>2, <4>1
      <4>. QED BY <2>4, <4>2
    <3>. HIDE DEF T
    <3>. QED BY <3>1, <3>2, Induccion
  <2>6. Bien(c)
    <3>1. c - 1 \in Nat /\ (c - 1) + 1 = c
      BY <2>1
    <3>. HIDE DEF Bien
    <3>2. c - 1 \in T
      BY <2>5, <3>1
    <3>. QED BY <3>1, <3>2
  <2> DEFINE x == f[c]
  <2>7. /\ x \in Seq(Bytes) /\ Len(x) \in 1 .. t
        /\ \A j \in 1 .. Len(x) : x[j] = s[j]
        /\ Len(x) < t => s[Len(x) + 1] = Byte((b + c) + 1, 1)
    BY <2>6 DEF Juntados
  <2>. HIDE DEF x
  <2>8. Len(x) = t
    <3>1. SUFFICES ASSUME Len(x) < t PROVE FALSE
      BY <2>7
    <3>2. b + c = n
      BY <1>1 DEF c
    <3>3. s[Len(x) + 1].m = n + 1 /\ Len(x) + 1 \in 1 .. t
      BY <2>7, <3>1, <3>2 DEF Byte
    <3>. QED BY <1>2, <3>3
  <2>. QED BY <2>2, <2>7, <2>8 DEF x
<1>. QED BY <1>3, <1>4

(* The invariants make the stream the messages not read, and every text    *)
(* read the one sent, cut where its length was.                            *)
LEMMA EntregaDeInvs ==
    ASSUME TypeOK, FlujoInv, EntregaInv
    PROVE EntregaFiel
<1>. SUFFICES ASSUME Sano
              PROVE /\ lector.pc # "segv"
                    /\ Len(leidos) <= Len(textos)
                    /\ \A m \in DOMAIN leidos :
                          /\ IsPrefix(leidos[m], Texto(m))
                          /\ leidos[m] = Texto(m) <=> Cabe(m)
                    /\ llegado \o vuelo =
                          FlattenSeq([i \in 1 .. Len(textos) - Len(leidos) |->
                             Mensaje(Len(leidos) + i,
                                     textos[Len(leidos) + i])])
  BY Zenon DEF EntregaFiel, Sano
<1>1. /\ N \in Nat /\ Total \in Nat /\ Len(llegado) \in Nat
      /\ Len(vuelo) \in Nat /\ Len(leidos) \in Nat
      /\ DOMAIN leidos = 1 .. Len(leidos)
      /\ \A m \in 1 .. N : textos[m] \in Nat \ {0} /\ L(m) \in Nat
  BY Numeros
<1>2. /\ lector.pc # "segv"
      /\ Total > 0 => flujo[1] = Byte(Turno, 1) /\ flujo[Total].m = N
      /\ Total = 0 => Len(leidos) = N
      /\ \A i \in DOMAIN leidos :
            /\ i \in 1 .. N /\ Prefijo(i) + Len(leidos[i]) = L(i)
            /\ \A k \in 1 .. Len(leidos[i]) :
                  leidos[i][k] = Byte(i, Prefijo(i) + k)
  BY DEF EntregaInv, Entero, DeTexto
<1>3. Len(leidos) <= N
  <2>1. CASE Len(leidos) = 0
    BY <1>1, <2>1
  <2>2. CASE Len(leidos) # 0
    <3>1. Len(leidos) \in DOMAIN leidos
      BY <1>1, <2>2
    <3>2. Len(leidos) \in 1 .. N
      BY <1>2, <3>1, Zenon
    <3>. QED BY <1>1, <3>2
  <2>. QED BY <2>1, <2>2
<1>4. ASSUME NEW m \in DOMAIN leidos
      PROVE /\ IsPrefix(leidos[m], Texto(m))
            /\ leidos[m] = Texto(m) <=> Cabe(m)
  <2> DEFINE c == leidos[m]
             n == textos[m]
             p == Prefijo(m)
             t == Texto(m)
  <2>1. /\ m \in 1 .. N
        /\ \A k \in 1 .. Len(c) : c[k] = Byte(m, p + k)
    BY <1>2
  <2>2. n \in Nat /\ n > 0
    BY <1>1, <2>1
  <2>3. p \in Nat /\ L(m) = (p + n) % 2^Ancho
    BY <2>2, Largos DEF L, Largo
  <2>4. c \in Seq(Bytes) /\ Len(c) \in Nat
    BY DEF TypeOK
  <2>5. p + Len(c) = L(m)
    BY <1>2
  <2>6. 2^Ancho \in Nat /\ 2^Ancho > 0
    BY TamAssumption
  <2>7. t = [k \in 1 .. n |-> Byte(m, p + k)]
    BY DEF Texto, Byte
  <2>8. Cabe(m) <=> p + n < 2^Ancho
    BY DEF Cabe
  <2>. HIDE DEF c, n, p, t
  <2>9. Len(c) <= n /\ (Len(c) = n <=> Cabe(m))
    <3> DEFINE x == p + n
               y == 2^Ancho
    <3>1. x \in Nat /\ y \in Nat /\ y > 0
      BY <2>2, <2>3, <2>6
    <3>2. L(m) = x % y
      BY <2>3
    <3>. HIDE DEF x, y
    <3>3. x % y <= x /\ (x % y = x <=> x < y)
      BY <3>1, Resto
    <3>4. p + Len(c) <= x /\ (p + Len(c) = x <=> x < y)
      BY <2>5, <3>2, <3>3
    <3>. QED BY <2>2, <2>3, <2>4, <2>8, <3>4 DEF x, y
  <2>10. Byte(m, p + 1) \in Bytes /\ \A k \in 1 .. n : Byte(m, p + k) \in Bytes
    BY <1>1, <2>1, <2>2, <2>3 DEF Byte, Bytes
  <2>11. /\ t \in Seq(Bytes) /\ Len(t) = n
         /\ \A k \in 1 .. n : t[k] = Byte(m, p + k)
    BY <2>2, <2>7, <2>10
  <2>12. SubSeq(c, 1, Len(c)) = SubSeq(t, 1, Len(c))
    <3> DEFINE a == SubSeq(c, 1, Len(c))
               d == SubSeq(t, 1, Len(c))
    <3>1. /\ a \in Seq(Bytes) /\ Len(a) = Len(c)
          /\ \A k \in 1 .. Len(c) : a[k] = c[k]
      BY <2>4
    <3>2. /\ d \in Seq(Bytes) /\ Len(d) = Len(c)
          /\ \A k \in 1 .. Len(c) : d[k] = t[k]
      BY <2>2, <2>4, <2>9, <2>11
    <3>3. \A k \in 1 .. Len(c) : k \in 1 .. n
      BY <2>2, <2>4, <2>9
    <3>. HIDE DEF a, d
    <3>4. \A k \in 1 .. Len(c) : a[k] = d[k]
      BY <2>1, <2>11, <3>1, <3>2, <3>3 DEF c, p
    <3>5. a = d
      BY <3>1, <3>2, <3>4, SeqEqual
    <3>. QED BY <3>5 DEF a, d
  <2>13. IsPrefix(c, t)
    BY <2>9, <2>11, <2>12 DEF IsPrefix
  <2>14. c = t <=> Len(c) = n
    <3>1. ASSUME Len(c) = n PROVE c = t
      <4>1. \A k \in 1 .. Len(c) : c[k] = t[k]
        BY <2>1, <2>11, <3>1 DEF c, p
      <4>. QED BY <2>4, <2>11, <3>1, <4>1, SeqEqual
    <3>. QED BY <2>11, <3>1
  <2>. QED BY <2>9, <2>13, <2>14 DEF c, t
<1> DEFINE b == Len(leidos)
           q == [i \in 1 .. N - b |-> Mensaje(b + i, textos[b + i])]
<1>5. Mensajes(q, largos, N, b)
  <2>1. b \in 0 .. N /\ N - b \in Nat
    BY <1>1, <1>3
  <2>2. ASSUME NEW i \in 1 .. N - b
        PROVE /\ Mensaje(b + i, textos[b + i]) \in Seq(Bytes)
              /\ Len(Mensaje(b + i, textos[b + i])) = largos[b + i]
              /\ \A k \in 1 .. largos[b + i] :
                    Mensaje(b + i, textos[b + i])[k] = Byte(b + i, k)
    <3> DEFINE m == b + i
               x == L(m)
               y == Mensaje(m, textos[m])
    <3>1. m \in 1 .. N /\ m \in Nat
      BY <1>1, <1>3
    <3>. HIDE DEF m
    <3>2. x \in Nat /\ largos[m] = x
      BY <1>1, <3>1 DEF largos
    <3>3. LargoStream(m, textos[m]) = x
      BY <1>1, <3>1, Largos DEF L
    <3>. HIDE DEF x
    <3>4. y = [k \in 1 .. x |-> Byte(m, k)]
      BY <3>3 DEF Mensaje, Byte
    <3>. HIDE DEF y
    <3>5. \A k \in 1 .. x : Byte(m, k) \in Bytes
      BY <3>1, <3>2 DEF Byte, Bytes
    <3>6. y \in Seq(Bytes) /\ Len(y) = x /\ \A k \in 1 .. x : y[k] = Byte(m, k)
      BY <3>2, <3>4, <3>5
    <3>. QED BY <3>2, <3>6 DEF y, m
  <2>. HIDE DEF b
  <2>3. q \in Seq(Seq(Bytes)) /\ Len(q) = N - b
    BY <2>1, <2>2
  <2>4. \A i \in 1 .. N - b : q[i] = Mensaje(b + i, textos[b + i])
    OBVIOUS
  <2>. HIDE DEF q
  <2>. QED BY <2>1, <2>2, <2>3, <2>4 DEF Mensajes
<1>6. LET x == FlattenSeq(q)
      IN  x \in Seq(Bytes) /\ Len(x) = Total
          /\ \A j \in 1 .. Total : x[j] = flujo[j]
  <2>1. \A i \in 1 .. N : largos[i] \in Nat
    BY FlujoLee
  <2>2. /\ Total > 0 => flujo[1] = Byte(b + 1, 1) /\ flujo[Total].m = N
        /\ Total = 0 => b = N
    BY <1>2 DEF Turno
  <2>. HIDE DEF b, q
  <2>. QED BY <1>1, <1>5, <2>1, <2>2, CadenaAplanada DEF FlujoInv
<1>7. /\ llegado \o vuelo \in Seq(Bytes) /\ Len(llegado \o vuelo) = Total
      /\ \A j \in 1 .. Total : (llegado \o vuelo)[j] = flujo[j]
  <2>1. llegado \in Seq(Bytes) /\ vuelo \in Seq(Bytes)
    BY DEF TypeOK
  <2>2. /\ llegado \o vuelo \in Seq(Bytes)
        /\ Len(llegado \o vuelo) = Len(llegado) + Len(vuelo)
        /\ \A i \in 1 .. Len(llegado) + Len(vuelo) :
              (llegado \o vuelo)[i] = IF i <= Len(llegado) THEN llegado[i]
                                      ELSE vuelo[i - Len(llegado)]
    BY <2>1, ConcatProperties
  <2>. QED BY <2>2 DEF Total, B, flujo
<1>8. llegado \o vuelo = FlattenSeq(q)
  <2> DEFINE x == FlattenSeq(q)
             y == llegado \o vuelo
  <2>1. /\ x \in Seq(Bytes) /\ Len(x) = Total
        /\ \A j \in 1 .. Total : x[j] = flujo[j]
    BY <1>6
  <2>2. /\ y \in Seq(Bytes) /\ Len(y) = Total
        /\ \A j \in 1 .. Total : y[j] = flujo[j]
    BY <1>7
  <2>. HIDE DEF x, y
  <2>3. \A j \in 1 .. Len(y) : y[j] = x[j]
    BY <2>1, <2>2
  <2>4. y = x
    BY <2>1, <2>2, <2>3, SeqEqual
  <2>. QED BY <2>4 DEF x, y
<1>. QED BY <1>2, <1>3, <1>4, <1>8 DEF N

-----------------------------------------------------------------------------
LEMMA Inicio ==
    ASSUME Init
    PROVE Invs
<1>1. TypeOK
  <2>1. 0 \in 0 .. 2^Ancho - 1
    BY TamAssumption
  <2>2. lector \in [pc : {"peek", "recv", "epoll", "cerrado", "segv"},
                    length : 0 .. 2^Ancho - 1, entera : BOOLEAN]
    BY <2>1 DEF Init
  <2>3. /\ textos \in Seq(Tamanos) /\ leidos \in Seq(Seq(Bytes))
        /\ vuelo \in Seq(Bytes) /\ llegado \in Seq(Bytes)
    BY DEF Init
  <2>4. alPP \in BOOLEAN /\ corta \in BOOLEAN /\ emisor = "vivo"
    BY Zenon DEF Init
  <2>. QED BY <2>2, <2>3, <2>4 DEF TypeOK
<1>2. Total = 0 /\ N = 0 /\ Len(leidos) = 0 /\ DOMAIN leidos = {}
  BY DEF Init, Total, N
<1>3. FlujoInv /\ AtrasInv
  BY <1>2 DEF FlujoInv, Cadena, AtrasInv, Atras
<1>4. lector.pc = "peek"
  BY DEF Init
<1>5. PeekInv /\ MezclaInv /\ EntregaInv
  BY <1>2, <1>4 DEF PeekInv, MezclaInv, EntregaInv
<1>. QED BY <1>1, <1>3, <1>5 DEF Invs

(* However TCP cuts and joins the bytes, they are a stream of the messages *)
(* sent, in order and with none missing between two; a reader that peeked  *)
(* at the header of a message goes to recv with its length; a text that    *)
(* starts where that of a message does does not run into the next one;     *)
(* and a reader whose recv are not cut short takes every message whole, in *)
(* its turn (writeStream, readStream, serialization, deserialization).     *)
THEOREM FlujoCorrecto == Spec => []Invs
<1>1. Init => Invs
  BY Inicio
<1>2. Invs /\ [Next]_vars => Invs'
  <2>. SUFFICES ASSUME Invs, [Next]_vars PROVE Invs'
    OBVIOUS
  <2>1. CASE Cierra \/ readStreamERROR \/ Epoll \/ UNCHANGED vars
    BY <2>1, Paso_Cierra
  <2>2. CASE Llega
    BY <2>2, Paso_Llega
  <2>3. CASE Peek
    BY <2>3, Paso_Peek
  <2>4. CASE readStream
    BY <2>4, Paso_readStream
  <2>5. CASE \E n \in Tamanos : writeStream(n)
    <3>1. PICK n \in Tamanos : writeStream(n)
      BY <2>5
    <3>. QED BY <3>1, Paso_writeStream
  <2>. QED BY <2>1, <2>2, <2>3, <2>4, <2>5 DEF Next, Lee
<1>. QED BY <1>1, <1>2, PTL DEF Spec

(* Every variable of the stream has its type, a length always in 16 bits   *)
(* and every text read a sequence of bytes.                                *)
THEOREM FlujoTipos == Spec => []TypeOK
<1>1. Invs => TypeOK
  BY DEF Invs
<1>. QED BY <1>1, FlujoCorrecto, PTL

(* A text that begins where the text of a message does is the start of it  *)
(* or the whole of it and never runs into the next message, although the   *)
(* reader may have lost its place before, or peeked at a length that was   *)
(* not there yet (readStream, deserialization).                            *)
THEOREM TextosSinMezcla == Spec => []SinMezcla
<1>1. TypeOK /\ FlujoInv /\ MezclaInv => SinMezcla
  <2>. SUFFICES ASSUME TypeOK, FlujoInv, MezclaInv,
                       NEW i \in DOMAIN leidos, NEW m \in DOMAIN textos,
                       Prefijo(i) = Prefijo(m), leidos[i] # <<>>,
                       leidos[i][1] = Byte(m, Prefijo(m) + 1)
                PROVE IsPrefix(leidos[i], Texto(m))
    BY DEF SinMezcla, Byte
  <2> DEFINE c == leidos[i]
             n == textos[m]
             p == Prefijo(m)
             t == Texto(m)
  <2>1. m \in 1 .. N /\ n \in Nat /\ L(m) \in Nat
    BY Numeros
  <2>2. p \in Nat /\ L(m) <= p + n
    BY <2>1, Largos DEF L
  <2>3. c \in Seq(Bytes) /\ Len(c) \in Nat /\ Len(c) > 0
    <3>1. c \in Seq(Bytes)
      BY DEF TypeOK
    <3>. QED BY <3>1
  <2>4. \A k \in 1 .. Len(c) : c[k] = Byte(m, p + k) /\ p + k <= L(m)
    <3>1. Mezcla(c, i)
      BY DEF MezclaInv
    <3>2. DeTexto(c, m)
      BY <2>1, <2>3, <3>1 DEF Mezcla
    <3>. QED BY <3>2 DEF DeTexto
  <2>5. t = [k \in 1 .. n |-> Byte(m, p + k)]
    BY DEF Texto, Byte
  <2>. HIDE DEF c, n, p, t
  <2>6. Len(c) <= n
    <3>1. Len(c) \in 1 .. Len(c)
      BY <2>3
    <3>2. p + Len(c) <= L(m)
      BY <2>4, <3>1
    <3>. QED BY <2>1, <2>2, <2>3, <3>2
  <2>7. \A k \in 1 .. n : Byte(m, p + k) \in Bytes
    BY <2>1, <2>2 DEF Byte, Bytes, N
  <2>8. /\ t \in Seq(Bytes) /\ Len(t) = n
        /\ \A k \in 1 .. n : t[k] = Byte(m, p + k)
    BY <2>1, <2>5, <2>7
  <2>9. c = SubSeq(t, 1, Len(c))
    <3> DEFINE d == SubSeq(t, 1, Len(c))
    <3>1. /\ d \in Seq(Bytes) /\ Len(d) = Len(c)
          /\ \A k \in 1 .. Len(c) : d[k] = t[k]
      BY <2>1, <2>3, <2>6, <2>8
    <3>2. \A k \in 1 .. Len(c) : k \in 1 .. n
      BY <2>1, <2>3, <2>6
    <3>. HIDE DEF d
    <3>3. \A k \in 1 .. Len(c) : c[k] = d[k]
      BY <2>4, <2>8, <3>1, <3>2
    <3>4. c = d
      BY <2>3, <3>1, <3>3, SeqEqual
    <3>. QED BY <3>4 DEF d
  <2>10. SubSeq(c, 1, Len(c)) = c
    BY <2>3
  <2>11. IsPrefix(c, t)
    BY <2>6, <2>8, <2>9, <2>10 DEF IsPrefix
  <2>. QED BY <2>11 DEF c, t
<1>2. Invs => SinMezcla
  BY <1>1 DEF Invs
<1>. QED BY <1>2, FlujoCorrecto, PTL

(* As long as no recv is cut short and every message keeps its prefix, the *)
(* texts are read in order, each from its start and whole if its length    *)
(* fits, and what is left to read is exactly the messages not read, one    *)
(* after the other: whatever TCP joins, the reader never takes a byte of   *)
(* the next message nor leaves one of its own (writeStream, readStream,    *)
(* readStreamPri).                                                         *)
THEOREM EntregaDeTextos == Spec => []EntregaFiel
<1>1. TypeOK /\ FlujoInv /\ EntregaInv => EntregaFiel
  BY EntregaDeInvs
<1>2. Invs => EntregaFiel
  BY <1>1 DEF Invs
<1>. QED BY <1>2, FlujoCorrecto, PTL
=============================================================================
