----------------------------- MODULE ListaOrden -----------------------------
(***************************************************************************)
(* The list routines the schedulers of the PP are built on: the indexed    *)
(* operations of commons/collections/list.c, the bubble sort that STS.c    *)
(* repeats for PRI and SPN, and the insertion of a batch of images into    *)
(* the ready queue.                                                        *)
(* A list is a sequence; C index i is position i + 1.  K maps an element   *)
(* to the field it is sorted by (priority or Tspn).                        *)
(***************************************************************************)
EXTENDS Integers, SequencesExt

(* list_add_in_index: the element is linked only if elements_count > index;*)
(* otherwise the call does nothing and the element is dropped.             *)
list_add_in_index(s, index, x) ==
    IF Len(s) > index /\ index >= 0 THEN InsertAt(s, index + 1, x) ELSE s

(* list_remove: what remains after the element at index is unlinked.       *)
list_remove(s, index) == RemoveAt(s, index + 1)

(* Operators named Mal... are plausible bugs in the definition that        *)
(* follows them; the properties are shown to notice them.                  *)

(* The last place of the list not treated apart.                           *)
MalIntercambia(s, i) ==
    list_add_in_index(list_remove(s, i), i + 1, s[i + 1])

(* One exchange of the sort: element i is removed and put back one place   *)
(* later, with list_add when that place is the end of the list.            *)
Intercambia(s, i) ==
    LET x == s[i + 1]
        r == list_remove(s, i)
    IN  IF (Len(s) - 1) - i = 1 THEN Append(r, x)
                                ELSE list_add_in_index(r, i + 1, x)

(* Equal keys exchanged too.                                               *)
MalPasada(s, K) ==
    LET f[i \in 0 .. Len(s)] ==
            IF i = 0 THEN s
            ELSE LET t == f[i - 1]
                 IN  IF i < Len(s) /\ K[t[i]] >= K[t[i + 1]]
                     THEN Intercambia(t, i - 1) ELSE t
    IN  f[Len(s)]

(* One traversal of the for loop, left to right.                           *)
Pasada(s, K) ==
    LET f[i \in 0 .. Len(s)] ==
            IF i = 0 THEN s
            ELSE LET t == f[i - 1]
                 IN  IF i < Len(s) /\ K[t[i]] > K[t[i + 1]]
                     THEN Intercambia(t, i - 1) ELSE t
    IN  f[Len(s)]

(* A single traversal.                                                     *)
MalBurbuja(s, K) == Pasada(s, K)

(* while (!flag): traversals until one exchanges nothing.  Len(s) of them  *)
(* always reach that point, and the ones after it change nothing.          *)
Burbuja(s, K) ==
    LET g[n \in 0 .. Len(s)] == IF n = 0 THEN s ELSE Pasada(g[n - 1], K)
    IN  g[Len(s)]

(* for (i < queueSize && result != -1): the number of images the insertion *)
(* pops from a ready queue of n images when LPL_empty is t.  The pop comes *)
(* before the test of sem_trywait's result, so the failing one counts too. *)
Extraidos(n, t) == IF t >= n THEN n ELSE t + 1

(* The popped images, each one put in front of the batch.                  *)
Antepone(extraidos, prioList) ==
    LET f[i \in 0 .. Len(extraidos)] ==
            IF i = 0 THEN prioList
            ELSE list_add_in_index(f[i - 1], 0, extraidos[i])
    IN  f[Len(extraidos)]

(* The images of the queue copied to the batch and left in the queue too.  *)
MalOrderInsert(prioList, LPL, t, K) ==
    LET k        == Extraidos(Len(LPL), t)
        ordenada == Burbuja(Antepone(SubSeq(LPL, 1, k), prioList), K)
    IN  [LPL |-> LPL \o ordenada, sem |-> t + Len(ordenada)]

(* orderInsertPrioList and orderInsertSPNList: they differ only in K.      *)
(* The result is the ready queue and the value of LPL_empty.               *)
orderInsert(prioList, LPL, t, K) ==
    LET k        == Extraidos(Len(LPL), t)
        ordenada == Burbuja(Antepone(SubSeq(LPL, 1, k), prioList), K)
    IN  [LPL |-> SubSeq(LPL, k + 1, Len(LPL)) \o ordenada,
         sem |-> (IF t >= k THEN t - k ELSE 0) + Len(ordenada)]
=============================================================================
