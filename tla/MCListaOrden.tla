---------------------------- MODULE MCListaOrden ----------------------------
(***************************************************************************)
(* The insertion of a batch into the ready queue, on every queue and batch *)
(* of distinct images up to four in all and every assignment of keys: the  *)
(* inputs are the initial states, the insertion is the only step.          *)
(***************************************************************************)
EXTENDS ListaOrden, FiniteSets

CONSTANTS Imagenes, Claves

ASSUME ClavesAssumption == Claves \subseteq Int

VARIABLES LPL, lpl_empty, prioList, K, insertada

vars == <<LPL, lpl_empty, prioList, K, insertada>>

Distintas(s) == Cardinality(ToSet(s)) = Len(s)

(* LPL_empty counts the queue, or one less when PROCER has taken its token *)
(* and not popped yet.                                                     *)
Init ==
    /\ LPL \in BoundedSeq(Imagenes, Cardinality(Imagenes))
    /\ prioList \in BoundedSeq(Imagenes, Cardinality(Imagenes))
    /\ Distintas(LPL \o prioList)
    /\ lpl_empty \in {n \in {Len(LPL), Len(LPL) - 1} : n >= 0}
    /\ K \in [Imagenes -> Claves]
    /\ insertada = <<>>

Inserta ==
    /\ insertada = <<>>
    /\ insertada' = <<orderInsert(prioList, LPL, lpl_empty, K)>>
    /\ UNCHANGED <<LPL, lpl_empty, prioList, K>>

Next == Inserta
Spec == Init /\ [][Next]_vars

-----------------------------------------------------------------------------
(* The reference: the place of element i of s in the stable sort of s.     *)
Rango(s, i) == Cardinality({j \in DOMAIN s : \/ K[s[j]] < K[s[i]]
                                             \/ K[s[j]] = K[s[i]] /\ j <= i})
Estable(s) == [r \in DOMAIN s |-> s[CHOOSE i \in DOMAIN s : Rango(s, i) = r]]

(* The bubble sort by removal and reinsertion that STS.c repeats is a      *)
(* stable sort: it loses no image, although list_add_in_index drops an     *)
(* element put at the end of a list.                                       *)
OrdenEstable == Burbuja(prioList, K) = Estable(prioList)

(* The insertion of a non-empty batch makes all the images ready, in       *)
(* order, even with PROCER between its wait and its pop; if it is not      *)
(* there, LPL_empty counts them.  Images of the queue go before those of   *)
(* the batch with the same key, and among themselves in the opposite of    *)
(* the order they had.                                                     *)
InsercionFiel ==
    insertada # <<>> /\ prioList # <<>> =>
        /\ insertada[1].LPL = Estable(Reverse(LPL) \o prioList)
        /\ lpl_empty = Len(LPL) => insertada[1].sem = Len(insertada[1].LPL)
=============================================================================
