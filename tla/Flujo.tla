------------------------------- MODULE Flujo --------------------------------
(***************************************************************************)
(* One direction of a connection between a PI and the PP, byte by byte:    *)
(* serialization and writeStream at one end, readStream and                *)
(* deserialization at the other, TCP in between.  From the PI to the PP    *)
(* the first message carries a priority (serializationPri, readStreamPri). *)
(*                                                                         *)
(* A message is a header (type, and a uint16 with the length of the whole  *)
(* message), perhaps a priority, and the text with its '\0'.  TCP keeps    *)
(* the bytes in order and cuts or joins them at will.  The reader peeks at *)
(* the header, takes what one recv returns for the whole message, and      *)
(* after a recv cut short goes on with what follows as if it were a header.*)
(*                                                                         *)
(* Left out: what the other direction does to this one (a close with input *)
(* unread, which resets the connection, and a send to a reader that has    *)
(* gone); the module Conexion has clients that vanish.                     *)
(***************************************************************************)
EXTENDS Integers, SequencesExt

CONSTANTS
    Ancho,         \* bits of a length (16 in the code)
    TamHeader,     \* sizeof(t_header)
    TamPriority,   \* sizeof(int32_t)
    Tamanos,       \* sizes of the texts: strlen + 1
    MaxTextos      \* bound: messages sent

ASSUME TamAssumption ==
    /\ TamHeader \in Nat \ {0} /\ TamPriority \in Nat
    /\ Ancho \in Nat /\ 2^Ancho \in Nat
    /\ TamHeader + TamPriority < 2^Ancho
ASSUME TextosAssumption == Tamanos \subseteq Nat \ {0} /\ MaxTextos \in Nat

VARIABLES
    alPP,      \* the direction: from the PI to the PP
    textos,    \* the sizes of the texts sent
    emisor,    \* "vivo", "cerrado", "error" (send failed), "segv"
    vuelo,     \* bytes sent and not arrived
    llegado,   \* bytes arrived and not read
    lector,    \* the reader: pc, the length it peeked, and whether it
               \* peeked at a whole header
    leidos,    \* the texts it got
    corta      \* some recv returned less than was asked for

vars == <<alPP, textos, emisor, vuelo, llegado, lector, leidos, corta>>

(* Bytes of message m before its text, and after the header of the first   *)
(* message to the PP comes its priority.                                   *)
Prefijo(m) == TamHeader + IF alPP /\ m = 1 THEN TamPriority ELSE 0

(* The length of the text alone written in the header.                     *)
MalLargo(m, n) == n % 2^Ancho

(* The length not cut to its width.                                        *)
MalLargoInt(m, n) == Prefijo(m) + n

(* length, in the header: a uint16_t.                                      *)
Largo(m, n) == (Prefijo(m) + n) % 2^Ancho

(* stream->length, also a uint16_t: what writeStream sends.                *)
LargoStream(m, n) == (Prefijo(m) + n) % 2^Ancho

(* The bytes sent of message m, numbered from 1.                           *)
Mensaje(m, n) == [k \in 1 .. LargoStream(m, n) |-> [m |-> m, k |-> k]]

Init ==
    /\ alPP \in BOOLEAN
    /\ textos = <<>>
    /\ emisor = "vivo"
    /\ vuelo = <<>> /\ llegado = <<>>
    /\ lector = [pc |-> "peek", length |-> 0, entera |-> FALSE]
    /\ leidos = <<>>
    /\ corta = FALSE

-----------------------------------------------------------------------------
(* writeStream: the buffer has length bytes and the whole message is       *)
(* copied to it, so one that does not fit in a uint16_t is written past    *)
(* its end and the sender may die.  A send of 0 bytes is taken for an      *)
(* error, and the sender gives the connection up.                          *)
writeStream(n) ==
    LET m == Len(textos) + 1
    IN  /\ emisor = "vivo"
        /\ Len(textos) < MaxTextos
        /\ \/ /\ textos' = Append(textos, n)
              /\ vuelo' = vuelo \o Mensaje(m, n)
              /\ emisor' = IF Mensaje(m, n) = <<>> THEN "error" ELSE "vivo"
           \/ /\ Prefijo(m) + n >= 2^Ancho
              /\ emisor' = "segv"
              /\ UNCHANGED <<textos, vuelo>>
    /\ UNCHANGED <<alPP, llegado, lector, leidos, corta>>

Cierra ==
    /\ emisor = "vivo"
    /\ emisor' = "cerrado"
    /\ UNCHANGED <<alPP, textos, vuelo, llegado, lector, leidos, corta>>

(* Some of the bytes in flight arrive.                                     *)
Llega ==
    /\ \E k \in 1 .. Len(vuelo) :
          /\ llegado' = llegado \o SubSeq(vuelo, 1, k)
          /\ vuelo' = SubSeq(vuelo, k + 1, Len(vuelo))
    /\ UNCHANGED <<alPP, textos, emisor, lector, leidos, corta>>

(* The first bytes that have arrived are the header of a message.          *)
EsHeader(bytes) ==
    /\ Len(bytes) = TamHeader
    /\ \A k \in 1 .. TamHeader : bytes[k] = [m |-> bytes[1].m, k |-> k]

(* The lengths that a header of these bytes may give: the one written, or  *)
(* any when the bytes are of some text or there are too few of them and    *)
(* the rest of the header is not initialised.                              *)
Longitudes(bytes) ==
    IF EsHeader(bytes) THEN {Largo(bytes[1].m, textos[bytes[1].m])}
                       ELSE 0 .. 2^Ancho - 1

(* The header consumed instead of peeked at.                               *)
MalPeek ==
    /\ lector.pc = "peek"
    /\ llegado # <<>>
    /\ LET h == SubSeq(llegado, 1, Min({TamHeader, Len(llegado)}))
       IN  /\ \E l \in Longitudes(h) :
                  lector' = [pc |-> "recv", length |-> l,
                             entera |-> Len(h) = TamHeader]
           /\ corta' = (corta \/ Len(h) < TamHeader)
           /\ llegado' = SubSeq(llegado, Len(h) + 1, Len(llegado))
    /\ UNCHANGED <<alPP, textos, emisor, vuelo, leidos>>

(* recv with MSG_PEEK into the header: whatever is there, be it a header,  *)
(* less than one or the middle of a text.                                  *)
Peek ==
    /\ lector.pc = "peek"
    /\ llegado # <<>>
    /\ LET h == SubSeq(llegado, 1, Min({TamHeader, Len(llegado)}))
       IN  /\ \E l \in Longitudes(h) :
                  lector' = [pc |-> "recv", length |-> l,
                             entera |-> Len(h) = TamHeader]
           /\ corta' = (corta \/ Len(h) < TamHeader)
    /\ UNCHANGED <<alPP, textos, emisor, vuelo, llegado, leidos>>

(* Everything received taken for text.                                     *)
MalDeserialization(m, bytes, l) == SubSeq(bytes, Prefijo(m) + 1, Len(bytes))

(* The text of the m-th message read: what comes after the prefix, as far  *)
(* as the length l in the stream says.  The length of the text is a        *)
(* uint16_t too, and wraps around when l is less than the prefix.  Beyond  *)
(* the bytes received the text goes on with uninitialised memory.          *)
deserialization(m, bytes, l) ==
    SubSeq(bytes, Prefijo(m) + 1,
           Min({Prefijo(m) + ((l - Prefijo(m)) % 2^Ancho), Len(bytes)}))

(* Where the reader goes on.  The PI reads again; the PP waits for epoll,  *)
(* or has refused the script and closed.  The type of a message that is    *)
(* not one may be any: T ends the PI, and R without an image makes the PP  *)
(* close.                                                                  *)
DespuesDe(m, bytes) ==
    (IF alPP THEN {"epoll"} ELSE {"peek"})
        \union (IF bytes[1].k # 1 \/ (alPP /\ m = 1) THEN {"cerrado"} ELSE {})

(* recv of the whole message, which returns what has arrived of it; a      *)
(* length of 0 makes it return 0, an error.  deserialization reads the     *)
(* length again, now from what it received, and may copy more than the     *)
(* buffer has.                                                             *)
readStream ==
    /\ lector.pc = "recv"
    /\ LET bytes == SubSeq(llegado, 1, Min({lector.length, Len(llegado)}))
           m     == Len(leidos) + 1
           ls    == IF lector.entera /\ TamHeader <= Len(bytes)
                    THEN {lector.length}
                    ELSE Longitudes(SubSeq(bytes, 1,
                                           Min({TamHeader, Len(bytes)})))
       IN  /\ llegado' = SubSeq(llegado, Len(bytes) + 1, Len(llegado))
           /\ corta' = (corta \/ Len(bytes) < lector.length)
           /\ \/ /\ bytes = <<>>
                 /\ lector' = [pc |-> "cerrado", length |-> 0,
                               entera |-> FALSE]
                 /\ UNCHANGED leidos
              \/ /\ bytes # <<>>
                 /\ \E l \in ls :
                       /\ leidos' =
                             Append(leidos, deserialization(m, bytes, l))
                       /\ \E pc \in DespuesDe(m, bytes) \union
                              (IF Prefijo(m) <= l /\ l <= lector.length
                               THEN {} ELSE {"segv"}) :
                             lector' = [pc |-> pc, length |-> 0,
                                        entera |-> FALSE]
    /\ UNCHANGED <<alPP, textos, emisor, vuelo>>

(* The sender has closed and everything it sent has arrived.               *)
Fin == emisor # "vivo" /\ vuelo = <<>>

(* recv returns 0: the other end has closed and everything has been read.  *)
readStreamERROR ==
    /\ lector.pc = "peek"
    /\ llegado = <<>> /\ Fin
    /\ lector' = [lector EXCEPT !.pc = "cerrado"]
    /\ UNCHANGED <<alPP, textos, emisor, vuelo, llegado, leidos, corta>>

(* epoll_wait reports input and nothing else, and there is room in MMP.    *)
EpollIn ==
    /\ lector.pc = "epoll"
    /\ llegado # <<>> /\ ~ Fin
    /\ lector' = [lector EXCEPT !.pc = "peek"]
    /\ UNCHANGED <<alPP, textos, emisor, vuelo, llegado, leidos, corta>>

(* EPOLLRDHUP, looked at before EPOLLIN: what has arrived stays unread.    *)
EpollRdhup ==
    /\ lector.pc = "epoll"
    /\ Fin
    /\ lector' = [lector EXCEPT !.pc = "cerrado"]
    /\ UNCHANGED <<alPP, textos, emisor, vuelo, llegado, leidos, corta>>

Lee   == Peek \/ readStream \/ readStreamERROR
Epoll == EpollIn \/ EpollRdhup
Next  == Cierra \/ Llega \/ Lee \/ Epoll \/ \E n \in Tamanos : writeStream(n)

Spec == Init /\ [][Next]_vars

(* Fairness: TCP delivers what was sent, and who has started to read goes  *)
(* on: LTSconex after the handshake, the PI while texts come.  What        *)
(* arrives at epoll is not read surely: it waits for MMP, and a close      *)
(* drops it.                                                               *)
SpecJusta == Spec /\ WF_vars(Llega) /\ WF_vars(Lee)

-----------------------------------------------------------------------------
(***************************************************************************)
(* Properties.                                                             *)
(***************************************************************************)
Bytes == [m : Nat, k : Nat]

(* Every variable has its type.                                            *)
TypeOK ==
    /\ alPP \in BOOLEAN
    /\ textos \in Seq(Tamanos)
    /\ emisor \in {"vivo", "cerrado", "error", "segv"}
    /\ vuelo \in Seq(Bytes) /\ llegado \in Seq(Bytes)
    /\ lector \in [pc : {"peek", "recv", "epoll", "cerrado", "segv"},
                   length : 0 .. 2^Ancho - 1,
                   entera : BOOLEAN]
    /\ leidos \in Seq(Seq(Bytes))
    /\ corta \in BOOLEAN

(* The bytes of the text of message m, its '\0' the last one.              *)
Texto(m) == [k \in 1 .. textos[m] |-> [m |-> m, k |-> Prefijo(m) + k]]

(* The length did not wrap around, or it did and the message still has     *)
(* room for its prefix.                                                    *)
Cabe(m)     == Prefijo(m) + textos[m] < 2^Ancho
Encuadra(m) == Largo(m, textos[m]) >= Prefijo(m)

(* Whatever TCP joins, as long as no recv is cut short and every message   *)
(* keeps its prefix: the texts are read in order, each from its start and  *)
(* whole if its length fits, and what is left to read is exactly the       *)
(* messages not read.  So a text too long spoils itself and not the next   *)
(* one, and the len of LTSconex, a uint16_t, never wraps around for a      *)
(* script that arrives whole.                                              *)
EntregaFiel ==
    ~ corta /\ (\A m \in DOMAIN textos : Encuadra(m)) =>
        /\ lector.pc # "segv"
        /\ Len(leidos) <= Len(textos)
        /\ \A m \in DOMAIN leidos :
               /\ IsPrefix(leidos[m], Texto(m))
               /\ leidos[m] = Texto(m) <=> Cabe(m)
        /\ llegado \o vuelo =
               FlattenSeq([i \in 1 .. Len(textos) - Len(leidos) |->
                  Mensaje(Len(leidos) + i, textos[Len(leidos) + i])])

(* A text that begins where the text of a message does never runs into the *)
(* next message, although recv has been cut short before, or the length    *)
(* was peeked at before the header was whole: deserialization looks at the *)
(* length that came with the text, not at what recv was asked for.         *)
SinMezcla ==
    \A i \in DOMAIN leidos : \A m \in DOMAIN textos :
        Prefijo(i) = Prefijo(m) /\ leidos[i] # <<>> =>
            (leidos[i][1] = [m |-> m, k |-> Prefijo(m) + 1] =>
                IsPrefix(leidos[i], Texto(m)))

(* Once the sender has closed, every text it sent is read by the PI, and   *)
(* by the PP at least the script, although the close may be seen before    *)
(* the rest is read; unless a recv was cut short or a length left no room  *)
(* for the prefix.                                                         *)
TodoLeido ==
    emisor = "cerrado" ~>
        \/ corta
        \/ \E m \in DOMAIN textos : ~ Encuadra(m)
        \/ Len(leidos) = Len(textos)
        \/ alPP /\ leidos # <<>>
=============================================================================
