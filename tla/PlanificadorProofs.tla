------------------------- MODULE PlanificadorProofs -------------------------
(***************************************************************************)
(* The type invariant of Planificador, proved action by action, and the    *)
(* agreement of the counting semaphores with the queues, with what follows *)
(* from it: no thread pops an empty queue, the assertion of the pool of    *)
(* I/O threads, and the wake-up of the STS. The insertion of a batch (PRI  *)
(* and SPN) takes what ListaProofs proves of orderInsert.                  *)
(***************************************************************************)
EXTENDS Planificador, ListaProofs

(* The initial states have their types.                                    *)
LEMMA InitTipo == ASSUME Init PROVE TypeOK
<1>1. TipoImagenes
  BY TspnAssumption, ScriptAssumption
     DEF Init, TipoImagenes, Estados, EnSistema
<1>2. TipoColas
  BY DEF Init, TipoColas
<1>3. TipoSem
  BY HilosAssumption, CuposAssumption, FS_CardinalityType
     DEF Init, TipoSem, Semaforos
<1>4. TipoLTS /\ TipoNew
  BY DEF Init, TipoLTS, TipoNew
<1>5. TipoSTS
  BY DEF Init, TipoSTS, LocalesSTS, Entradas
<1>6. TipoPROCER
  BY DEF Init, TipoPROCER, LocalesPROCER
<1>7. TipoIO
  BY DEF Init, TipoIO, LocalesIO
<1>8. TipoConf
  <2>. PICK pr \in PrioColas :
          /\ queuesArray \in Ordenados(pr)
          /\ conf = [pc |-> "espera", n |-> 0, i |-> 1, prio |-> pr,
                     aux |-> "LPN"]
    BY DEF Init
  <2>1. queuesArray \in [1 .. 4 -> Entradas]
    BY DEF Ordenados
  <2>2. ALG \in Algs
    BY DEF Init
  <2>. QED BY <2>1, <2>2 DEF TipoConf, LocalesConf, Entradas
<1>9. TipoSenales
  <2>1. SUSPEND \in BOOLEAN
    BY Zenon DEF Init
  <2>2. senales \in Nat
    BY DEF Init
  <2>. QED BY <2>1, <2>2 DEF TipoSenales
<1>. QED BY <1>1, <1>2, <1>3, <1>4, <1>5, <1>6, <1>7, <1>8, <1>9 DEF TypeOK

(* The estimate of the next burst is a natural number.                     *)
LEMMA TspnNat ==
    ASSUME NEW t \in Nat, NEW r \in Nat
    PROVE (t * AlfaNum + r * Escala * (AlfaDen - AlfaNum)) \div AlfaDen \in Nat
<1>1. AlfaNum \in Nat /\ AlfaDen - AlfaNum \in Nat /\ Escala \in Nat
      /\ AlfaDen \in Nat \ {0}
  BY TspnAssumption
<1>2. \A a, b \in Nat : a * b \in Nat
  OBVIOUS
<1>3. \A a, b \in Nat : a + b \in Nat
  OBVIOUS
<1>4. t * AlfaNum + r * Escala * (AlfaDen - AlfaNum) \in Nat
  BY <1>1, <1>2, <1>3
<1>5. \A x \in Nat, d \in Nat \ {0} : x \div d \in Nat
  OBVIOUS
<1>. QED BY <1>1, <1>4, <1>5
-----------------------------------------------------------------------------
(* What a step that leaves alone the variables of a part does to the part. *)
LEMMA IgualImagenes ==
    ASSUME TipoImagenes, UNCHANGED <<pi, lsch, PC, Tspn, sendingList>>
    PROVE TipoImagenes'
  BY DEF TipoImagenes
LEMMA IgualColas ==
    ASSUME TipoColas, UNCHANGED <<cola, LPB, LPS>> PROVE TipoColas'
  BY DEF TipoColas
LEMMA IgualSem == ASSUME TipoSem, UNCHANGED sem PROVE TipoSem'
  BY DEF TipoSem
LEMMA IgualLTS == ASSUME TipoLTS, UNCHANGED lts PROVE TipoLTS'
  BY DEF TipoLTS
LEMMA IgualNew == ASSUME TipoNew, UNCHANGED lnew PROVE TipoNew'
  BY DEF TipoNew
LEMMA IgualSTS == ASSUME TipoSTS, UNCHANGED sts PROVE TipoSTS'
  BY DEF TipoSTS
LEMMA IgualPROCER == ASSUME TipoPROCER, UNCHANGED procer PROVE TipoPROCER'
  BY DEF TipoPROCER
LEMMA IgualIO == ASSUME TipoIO, UNCHANGED io PROVE TipoIO'
  BY DEF TipoIO
LEMMA IgualConf ==
    ASSUME TipoConf, UNCHANGED <<conf, ALG, queuesArray>> PROVE TipoConf'
  BY DEF TipoConf
LEMMA IgualSenales ==
    ASSUME TipoSenales, UNCHANGED <<SUSPEND, senales>> PROVE TipoSenales'
  BY DEF TipoSenales

(* The first element of a queue, and what a pop leaves.                    *)
LEMMA Cabeza ==
    ASSUME NEW S, NEW s \in Seq(S), s # <<>>
    PROVE Head(s) \in S /\ Tail(s) \in Seq(S)
  OBVIOUS

(* The push and the posts of a producer.                                   *)
LEMMA TipoEncola ==
    ASSUME TipoColas, TipoSem, NEW q \in Colas, NEW p \in Procs,
           Encola(q, p), UNCHANGED <<LPB, LPS>>
    PROVE TipoColas' /\ TipoSem'
  BY DEF TipoColas, TipoSem, Encola, Semaforos
LEMMA TipoAvisa == ASSUME TipoSem, Avisa PROVE TipoSem'
  BY DEF TipoSem, Avisa, Semaforos

(* A change of the state of one image, alone among the variables of its    *)
(* part.                                                                   *)
LEMMA TipoLsch ==
    ASSUME TipoImagenes, NEW p \in Procs, NEW e \in Estados,
           lsch' = [lsch EXCEPT ![p] = e],
           UNCHANGED <<pi, PC, Tspn, sendingList>>
    PROVE TipoImagenes'
  BY DEF TipoImagenes

(* PROCER in the loop of processExecution, about to execute a statement.   *)
LEMMA EnCurso ==
    ASSUME TypeOK, procer.pc = "ejecuta"
    PROVE /\ img \in Procs
          /\ Len(Script[img]) \in Nat
          /\ Sigue => PC[img] < Len(Script[img])
<1>1. img \in Procs
  BY DEF TypeOK, TipoPROCER, LocalesPROCER, img
<1>2. Len(Script[img]) \in Nat
  BY <1>1, ScriptAssumption
<1>3. PC[img] \in Nat /\ PC[img] <= Len(Script[img])
  BY <1>1 DEF TypeOK, TipoImagenes
<1>. QED BY <1>1, <1>2, <1>3 DEF Sigue, EnFin

(* What a statement uses up.                                               *)
LEMMA GastaNat == Gasta \in Nat /\ GastaQuantum \in Nat
  BY DEF Gasta, GastaQuantum

(* The pop of a non-empty queue.                                           *)
LEMMA TipoPop ==
    ASSUME TipoColas, NEW q \in Colas, cola[q] # <<>>,
           cola' = [cola EXCEPT ![q] = Tail(@)], UNCHANGED <<LPB, LPS>>
    PROVE TipoColas'
<1>1. Tail(cola[q]) \in Seq(Procs)
  BY DEF TipoColas
<1>. QED BY <1>1 DEF TipoColas

(* An I/O request of the image in execution.                               *)
LEMMA TipoPide ==
    ASSUME TipoColas, TipoSem, img \in Procs, NEW b \in BOOLEAN, PideIO(b),
           UNCHANGED <<cola, LPS>>
    PROVE TipoColas' /\ TipoSem'
<1>1. [img |-> img, nb |-> b] \in Pedidos
  BY DEF Pedidos
<1>. QED BY <1>1 DEF PideIO, TipoColas, TipoSem, Semaforos

(* A new PC for one image.                                                 *)
LEMMA TipoPC ==
    ASSUME TipoImagenes, NEW p \in Procs, NEW n \in Nat,
           n <= Len(Script[p]), PC' = [PC EXCEPT ![p] = n],
           lsch' \in [Procs -> Estados],
           sendingList' \in [Procs -> Seq({"N", "S", "T"})],
           UNCHANGED <<pi, Tspn>>
    PROVE TipoImagenes'
  BY DEF TipoImagenes

(* The account of a statement.                                             *)
LEMMA TipoComputa ==
    ASSUME TipoPROCER, procer.pc = "ejecuta", NEW b \in BOOLEAN, Computa(b)
    PROVE TipoPROCER'
<1>1. /\ procer.quantumCount + GastaQuantum \in Nat
      /\ procer.rafaga + Gasta \in Nat
  BY GastaNat DEF TipoPROCER, LocalesPROCER
<1>2. procer' = [procer EXCEPT
                    !.quantumCount = procer.quantumCount + GastaQuantum,
                    !.rafaga = procer.rafaga + Gasta, !.ioBlock = b]
  BY DEF Computa
<1>3. procer' \in LocalesPROCER
  BY <1>1, <1>2 DEF TipoPROCER, LocalesPROCER
<1>4. procer'.pc = procer.pc /\ procer'.img = procer.img
  BY <1>2 DEF TipoPROCER, LocalesPROCER
<1>. QED BY <1>3, <1>4 DEF TipoPROCER

(* A message for a client.                                                 *)
LEMMA TipoEnvia ==
    ASSUME TipoImagenes, NEW p \in Procs, NEW t \in {"N", "S", "T"},
           Envia(p, t)
    PROVE sendingList' \in [Procs -> Seq({"N", "S", "T"})]
<1>1. sendingList[p] \in Seq({"N", "S", "T"})
  BY DEF TipoImagenes
<1>2. Append(sendingList[p], t) \in Seq({"N", "S", "T"})
  BY <1>1
<1>. QED BY <1>2 DEF TipoImagenes, Envia

(* The advance of PC to a statement that does not jump.                    *)
LEMMA TipoPCMas1 ==
    ASSUME TypeOK, procer.pc = "ejecuta", Sigue, PCMas1,
           lsch' \in [Procs -> Estados],
           sendingList' \in [Procs -> Seq({"N", "S", "T"})],
           UNCHANGED <<pi, Tspn>>
    PROVE TipoImagenes'
<1>1. /\ img \in Procs /\ Len(Script[img]) \in Nat
      /\ PC[img] < Len(Script[img])
  BY EnCurso
<1>2. PC[img] + 1 \in Nat /\ PC[img] + 1 <= Len(Script[img])
  BY <1>1 DEF TypeOK, TipoImagenes
<1>. QED BY <1>1, <1>2, TipoPC DEF TypeOK, PCMas1

LEMMA Tipo_LTSAcepta ==
    ASSUME TypeOK, NEW p \in Procs, LTSAcepta(p) PROVE TypeOK'
<1>1. TipoImagenes'
  BY DEF TypeOK, TipoImagenes, LTSAcepta, Estados, EnSistema, EnMemoria
<1>2. TipoSem'
  BY DEF TypeOK, TipoSem, LTSAcepta, HayMMP, Semaforos
<1>3. TipoLTS'
  BY DEF TypeOK, TipoLTS, LTSAcepta
<1>4. TipoColas' /\ TipoNew' /\ TipoSTS' /\ TipoPROCER' /\ TipoIO' /\
      TipoConf' /\ TipoSenales'
  BY IgualColas, IgualNew, IgualSTS, IgualPROCER, IgualIO, IgualConf,
     IgualSenales
     DEF TypeOK, LTSAcepta
<1>. QED BY <1>1, <1>2, <1>3, <1>4 DEF TypeOK

LEMMA Tipo_LTSDemora ==
    ASSUME TypeOK, LTSDemora PROVE TypeOK'
<1>1. TipoColas' /\ TipoSem'
  BY TipoEncola
     DEF TypeOK, LTSDemora, TipoLTS, Colas
<1>2. TipoLTS'
  BY DEF TypeOK, TipoLTS, LTSDemora
<1>3. TipoImagenes' /\ TipoNew' /\ TipoSTS' /\ TipoPROCER' /\ TipoIO' /\
      TipoConf' /\ TipoSenales'
  BY IgualImagenes, IgualNew, IgualSTS, IgualPROCER, IgualIO, IgualConf,
     IgualSenales
     DEF TypeOK, LTSDemora, imagenes, config
<1>. QED BY <1>1, <1>2, <1>3 DEF TypeOK

LEMMA Tipo_LTSEncola ==
    ASSUME TypeOK, LTSEncola PROVE TypeOK'
<1>1. TipoColas' /\ TipoSem'
  BY TipoEncola
     DEF TypeOK, LTSEncola, TipoLTS, Colas, Entradas
<1>2. TipoLTS'
  BY DEF TypeOK, TipoLTS, LTSEncola
<1>3. TipoImagenes' /\ TipoNew' /\ TipoSTS' /\ TipoPROCER' /\ TipoIO' /\
      TipoConf' /\ TipoSenales'
  BY IgualImagenes, IgualNew, IgualSTS, IgualPROCER, IgualIO, IgualConf,
     IgualSenales
     DEF TypeOK, LTSEncola, imagenes, config
<1>. QED BY <1>1, <1>2, <1>3 DEF TypeOK

LEMMA Tipo_LTSAvisa ==
    ASSUME TypeOK, LTSAvisa PROVE TypeOK'
<1>1. TipoSem'
  BY TipoAvisa
     DEF TypeOK, LTSAvisa
<1>2. TipoLTS'
  BY DEF TypeOK, TipoLTS, LTSAvisa
<1>3. TipoImagenes' /\ TipoColas' /\ TipoNew' /\ TipoSTS' /\ TipoPROCER' /\
      TipoIO' /\ TipoConf' /\ TipoSenales'
  BY IgualImagenes, IgualColas, IgualNew, IgualSTS, IgualPROCER, IgualIO,
     IgualConf, IgualSenales
     DEF TypeOK, LTSAvisa, imagenes, config
<1>. QED BY <1>1, <1>2, <1>3 DEF TypeOK

LEMMA Tipo_LTSReanuda ==
    ASSUME TypeOK, NEW p \in Procs, LTSReanuda(p) PROVE TypeOK'
<1>1. TipoImagenes'
  BY DEF TypeOK, TipoImagenes, LTSReanuda, Estados, EnSistema, EnMemoria
<1>2. TipoColas'
  BY DEF TypeOK, TipoColas, LTSReanuda, restoreSuspended
<1>3. TipoSem'
  BY DEF TypeOK, TipoSem, LTSReanuda, HayMMP, Semaforos
<1>4. TipoLTS'
  BY DEF TypeOK, TipoLTS, LTSReanuda
<1>5. TipoNew' /\ TipoSTS' /\ TipoPROCER' /\ TipoIO' /\ TipoConf' /\
      TipoSenales'
  BY IgualNew, IgualSTS, IgualPROCER, IgualIO, IgualConf, IgualSenales
     DEF TypeOK, LTSReanuda, config
<1>. QED BY <1>1, <1>2, <1>3, <1>4, <1>5 DEF TypeOK

LEMMA Tipo_LTSEnvia ==
    ASSUME TypeOK, NEW p \in Procs, LTSEnvia(p) PROVE TypeOK'
<1>1. TipoImagenes'
  BY Cabeza
     DEF TypeOK, TipoImagenes, LTSEnvia, imagenes
<1>2. TipoColas' /\ TipoSem' /\ TipoLTS' /\ TipoNew' /\ TipoSTS' /\
      TipoPROCER' /\ TipoIO' /\ TipoConf' /\ TipoSenales'
  BY IgualColas, IgualSem, IgualLTS, IgualNew, IgualSTS, IgualPROCER,
     IgualIO, IgualConf, IgualSenales
     DEF TypeOK, LTSEnvia, imagenes, hilosPP
<1>. QED BY <1>1, <1>2 DEF TypeOK

LEMMA Tipo_PIReanuda ==
    ASSUME TypeOK, NEW p \in Procs, PIReanuda(p) PROVE TypeOK'
<1>1. TipoImagenes'
  BY DEF TypeOK, TipoImagenes, PIReanuda, imagenes
<1>2. TipoColas' /\ TipoSem' /\ TipoLTS' /\ TipoNew' /\ TipoSTS' /\
      TipoPROCER' /\ TipoIO' /\ TipoConf' /\ TipoSenales'
  BY IgualColas, IgualSem, IgualLTS, IgualNew, IgualSTS, IgualPROCER,
     IgualIO, IgualConf, IgualSenales
     DEF TypeOK, PIReanuda, imagenes, hilosPP
<1>. QED BY <1>1, <1>2 DEF TypeOK

LEMMA Tipo_NewToma ==
    ASSUME TypeOK, NewToma PROVE TypeOK'
<1>1. TipoColas'
  BY TipoPop, IgualColas DEF TypeOK, NewToma, Colas
<1>2. TipoSem'
  BY DEF TypeOK, TipoSem, NewToma, HayMMP, Semaforos, Colas
<1>3. TipoImagenes'
  BY Cabeza
     DEF TypeOK, TipoImagenes, NewToma, TipoColas, Colas, Estados, EnSistema,
         EnMemoria
<1>4. TipoNew'
  BY Cabeza
     DEF TypeOK, TipoNew, NewToma, TipoColas, Colas
<1>5. TipoLTS' /\ TipoSTS' /\ TipoPROCER' /\ TipoIO' /\ TipoConf' /\
      TipoSenales'
  BY IgualLTS, IgualSTS, IgualPROCER, IgualIO, IgualConf, IgualSenales
     DEF TypeOK, NewToma, config
<1>. QED BY <1>1, <1>2, <1>3, <1>4, <1>5 DEF TypeOK

LEMMA Tipo_NewEncola ==
    ASSUME TypeOK, NewEncola PROVE TypeOK'
<1>1. TipoColas' /\ TipoSem'
  BY TipoEncola
     DEF TypeOK, NewEncola, TipoNew, Colas, Entradas
<1>2. TipoNew'
  BY DEF TypeOK, TipoNew, NewEncola
<1>3. TipoImagenes' /\ TipoLTS' /\ TipoSTS' /\ TipoPROCER' /\ TipoIO' /\
      TipoConf' /\ TipoSenales'
  BY IgualImagenes, IgualLTS, IgualSTS, IgualPROCER, IgualIO, IgualConf,
     IgualSenales
     DEF TypeOK, NewEncola, imagenes, config
<1>. QED BY <1>1, <1>2, <1>3 DEF TypeOK

LEMMA Tipo_NewAvisa ==
    ASSUME TypeOK, NewAvisa PROVE TypeOK'
<1>1. TipoSem'
  BY TipoAvisa
     DEF TypeOK, NewAvisa
<1>2. TipoNew'
  BY DEF TypeOK, TipoNew, NewAvisa
<1>3. TipoImagenes' /\ TipoColas' /\ TipoLTS' /\ TipoSTS' /\ TipoPROCER' /\
      TipoIO' /\ TipoConf' /\ TipoSenales'
  BY IgualImagenes, IgualColas, IgualLTS, IgualSTS, IgualPROCER, IgualIO,
     IgualConf, IgualSenales
     DEF TypeOK, NewAvisa, imagenes, config
<1>. QED BY <1>1, <1>2, <1>3 DEF TypeOK

LEMMA Tipo_STSEspera ==
    ASSUME TypeOK, STSEspera PROVE TypeOK'
<1>1. TipoSTS'
  <2>1. sts' = [sts EXCEPT !.pc = "cola", !.i = 1, !.alg = ALG]
    BY DEF STSEspera
  <2>2. 1 \in 1 .. 4 /\ ALG \in Algs \cup {"FIFO"}
    BY DEF TypeOK, TipoConf
  <2>3. sts' \in LocalesSTS
    BY <2>1, <2>2, Zenon DEF TypeOK, TipoSTS, LocalesSTS
  <2>4. sts'.pc = "cola"
    BY <2>1 DEF TypeOK, TipoSTS, LocalesSTS
  <2>. QED BY <2>3, <2>4 DEF TipoSTS
<1>2. TipoImagenes' /\ TipoColas' /\ TipoSem' /\ TipoLTS' /\ TipoNew' /\
      TipoPROCER' /\ TipoIO' /\ TipoConf' /\ TipoSenales'
  BY IgualImagenes, IgualColas, IgualSem, IgualLTS, IgualNew, IgualPROCER,
     IgualIO, IgualConf, IgualSenales
     DEF TypeOK, STSEspera, imagenes, config
<1>. QED BY <1>1, <1>2 DEF TypeOK

LEMMA Tipo_STSCola ==
    ASSUME TypeOK, STSCola PROVE TypeOK'
<1>1. TipoSTS'
  BY DEF TypeOK, TipoSTS, LocalesSTS, STSCola, TipoConf
<1>2. TipoImagenes' /\ TipoColas' /\ TipoSem' /\ TipoLTS' /\ TipoNew' /\
      TipoPROCER' /\ TipoIO' /\ TipoConf' /\ TipoSenales'
  BY IgualImagenes, IgualColas, IgualSem, IgualLTS, IgualNew, IgualPROCER,
     IgualIO, IgualConf, IgualSenales
     DEF TypeOK, STSCola, imagenes, config
<1>. QED BY <1>1, <1>2 DEF TypeOK

LEMMA Tipo_STSToma ==
    ASSUME TypeOK, STSToma PROVE TypeOK'
<1>1. TipoSem'
  BY DEF TypeOK, TipoSem, STSToma, TipoSTS, Semaforos, Colas, LocalesSTS
<1>2. TipoSTS'
  BY DEF TypeOK, TipoSTS, LocalesSTS, STSToma
<1>3. TipoImagenes' /\ TipoColas' /\ TipoLTS' /\ TipoNew' /\ TipoPROCER' /\
      TipoIO' /\ TipoConf' /\ TipoSenales'
  BY IgualImagenes, IgualColas, IgualLTS, IgualNew, IgualPROCER, IgualIO,
     IgualConf, IgualSenales
     DEF TypeOK, STSToma, imagenes, config
<1>. QED BY <1>1, <1>2, <1>3 DEF TypeOK

LEMMA Tipo_STSAvanza ==
    ASSUME TypeOK, STSAvanza PROVE TypeOK'
<1>1. TipoSTS'
  <2>1. sts.i \in 1 .. 4
    BY DEF TypeOK, TipoSTS, LocalesSTS
  <2>2. CASE sts.i < 4
    <3>1. sts' = [sts EXCEPT !.pc = "cola", !.i = sts.i + 1]
      BY <2>2 DEF STSAvanza
    <3>2. sts.i + 1 \in 1 .. 4
      BY <2>1, <2>2
    <3>3. sts' \in LocalesSTS
      BY <3>1, <3>2, Zenon DEF TypeOK, TipoSTS, LocalesSTS
    <3>4. sts'.pc = "cola"
      BY <3>1 DEF TypeOK, TipoSTS, LocalesSTS
    <3>. QED BY <3>3, <3>4 DEF TipoSTS
  <2>3. CASE ~ (sts.i < 4)
    <3>1. PICK e \in {"inserta", "espera"} :
              sts' = [sts EXCEPT !.pc = e, !.i = 1]
      BY <2>3, Zenon DEF STSAvanza
    <3>2. 1 \in 1 .. 4
      OBVIOUS
    <3>3. sts' \in LocalesSTS
      BY <3>1, <3>2, Zenon DEF TypeOK, TipoSTS, LocalesSTS
    <3>4. sts'.pc # "push"
      BY <3>1 DEF TypeOK, TipoSTS, LocalesSTS
    <3>. QED BY <3>3, <3>4 DEF TipoSTS
  <2>. QED BY <2>2, <2>3
<1>2. TipoImagenes' /\ TipoColas' /\ TipoSem' /\ TipoLTS' /\ TipoNew' /\
      TipoPROCER' /\ TipoIO' /\ TipoConf' /\ TipoSenales'
  BY IgualImagenes, IgualColas, IgualSem, IgualLTS, IgualNew, IgualPROCER,
     IgualIO, IgualConf, IgualSenales
     DEF TypeOK, STSAvanza, imagenes, config
<1>. QED BY <1>1, <1>2 DEF TypeOK

LEMMA Tipo_STSPop ==
    ASSUME TypeOK, STSPop PROVE TypeOK'
<1>1. TipoColas'
  BY TipoPop, IgualColas DEF TypeOK, TipoSTS, LocalesSTS, STSPop, Colas
<1>2. TipoImagenes'
  BY Cabeza
     DEF TypeOK, TipoImagenes, STSPop, TipoSTS, TipoColas, Colas, Estados,
         EnSistema, EnMemoria, LocalesSTS
<1>3. TipoSTS'
  <2>1. CASE cola[sts.q] = <<>>
    BY <2>1 DEF TypeOK, TipoSTS, LocalesSTS, STSPop
  <2>2. CASE cola[sts.q] # <<>>
    <3>. DEFINE p == Head(cola[sts.q])
    <3>1. p \in Procs
      BY <2>2, Cabeza DEF TypeOK, TipoSTS, LocalesSTS, TipoColas, Colas
    <3>2. \/ sts' = [sts EXCEPT !.pc = "toma",
                                !.prioList = Append(sts.prioList, p)]
          \/ sts' = [sts EXCEPT !.pc = "push", !.img = p]
      BY <2>2, Zenon DEF STSPop
    <3>3. Append(sts.prioList, p) \in Seq(Procs)
      BY <3>1 DEF TypeOK, TipoSTS, LocalesSTS
    <3>4. sts' \in LocalesSTS
      BY <3>1, <3>2, <3>3, Zenon DEF TypeOK, TipoSTS, LocalesSTS
    <3>5. sts'.pc = "toma" \/ sts'.img = p
      BY <3>2 DEF TypeOK, TipoSTS, LocalesSTS
    <3>. QED BY <3>1, <3>4, <3>5 DEF TipoSTS
  <2>. QED BY <2>1, <2>2
<1>4. TipoSem' /\ TipoLTS' /\ TipoNew' /\ TipoPROCER' /\ TipoIO' /\
      TipoConf' /\ TipoSenales'
  BY IgualSem, IgualLTS, IgualNew, IgualPROCER, IgualIO, IgualConf,
     IgualSenales
     DEF TypeOK, STSPop, config
<1>. QED BY <1>1, <1>2, <1>3, <1>4 DEF TypeOK

LEMMA Tipo_STSPush ==
    ASSUME TypeOK, STSPush PROVE TypeOK'
<1>1. TipoColas' /\ TipoSem'
  BY TipoEncola
     DEF TypeOK, STSPush, TipoSTS, Colas, LocalesSTS
<1>2. TipoSTS'
  BY DEF TypeOK, TipoSTS, LocalesSTS, STSPush
<1>3. TipoImagenes' /\ TipoLTS' /\ TipoNew' /\ TipoPROCER' /\ TipoIO' /\
      TipoConf' /\ TipoSenales'
  BY IgualImagenes, IgualLTS, IgualNew, IgualPROCER, IgualIO, IgualConf,
     IgualSenales
     DEF TypeOK, STSPush, imagenes, config
<1>. QED BY <1>1, <1>2, <1>3 DEF TypeOK

LEMMA Tipo_ProcerEspera ==
    ASSUME TypeOK, ProcerEspera PROVE TypeOK'
<1>1. TipoSem'
  BY DEF TypeOK, TipoSem, ProcerEspera, Semaforos, Colas
<1>2. TipoPROCER'
  BY DEF TypeOK, TipoPROCER, LocalesPROCER, ProcerEspera
<1>3. TipoImagenes' /\ TipoColas' /\ TipoLTS' /\ TipoNew' /\ TipoSTS' /\
      TipoIO' /\ TipoConf' /\ TipoSenales'
  BY IgualImagenes, IgualColas, IgualLTS, IgualNew, IgualSTS, IgualIO,
     IgualConf, IgualSenales
     DEF TypeOK, ProcerEspera, imagenes, config
<1>. QED BY <1>1, <1>2, <1>3 DEF TypeOK

LEMMA Tipo_ProcerPop ==
    ASSUME TypeOK, ProcerPop PROVE TypeOK'
<1>1. TipoColas'
  BY TipoPop, IgualColas DEF TypeOK, ProcerPop, Colas
<1>2. TipoImagenes'
  BY Cabeza
     DEF TypeOK, TipoImagenes, ProcerPop, TipoColas, Colas, Estados,
         EnSistema, EnMemoria
<1>3. TipoPROCER'
  <2>1. CASE cola["LPL"] = <<>>
    BY <2>1 DEF TypeOK, TipoPROCER, LocalesPROCER, ProcerPop
  <2>2. CASE cola["LPL"] # <<>>
    <3>1. Head(cola["LPL"]) \in Procs
      BY <2>2, Cabeza DEF TypeOK, TipoColas, Colas
    <3>2. procer' = [pc |-> "ejecuta", img |-> Head(cola["LPL"]),
                     quantumCount |-> 0, rafaga |-> 0, ioBlock |-> FALSE]
      BY <2>2, Zenon DEF ProcerPop
    <3>3. 0 \in Nat
      OBVIOUS
    <3>4. procer' \in LocalesPROCER
      BY <3>1, <3>2, <3>3, Zenon DEF LocalesPROCER
    <3>5. procer'.img \in Procs
      BY <3>1, <3>2, Zenon
    <3>. QED BY <3>4, <3>5 DEF TipoPROCER
  <2>. QED BY <2>1, <2>2
<1>4. TipoSenales'
  BY DEF TypeOK, TipoSenales, ProcerPop
<1>5. TipoSem' /\ TipoLTS' /\ TipoNew' /\ TipoSTS' /\ TipoIO' /\ TipoConf'
  BY IgualSem, IgualLTS, IgualNew, IgualSTS, IgualIO, IgualConf
     DEF TypeOK, ProcerPop, config
<1>. QED BY <1>1, <1>2, <1>3, <1>4, <1>5 DEF TypeOK

LEMMA Tipo_EjecutaSimple ==
    ASSUME TypeOK, EjecutaSimple PROVE TypeOK'
<1>1. TipoImagenes'
  <2>1. sendingList' \in [Procs -> Seq({"N", "S", "T"})]
    BY EnCurso, TipoEnvia DEF TypeOK, TipoImagenes, EjecutaSimple, Ejecuta
  <2>2. lsch' \in [Procs -> Estados]
    BY DEF TypeOK, TipoImagenes, EjecutaSimple
  <2>. QED BY <2>1, <2>2, TipoPCMas1 DEF TypeOK, EjecutaSimple, Ejecuta
<1>2. TipoPROCER'
  BY TipoComputa DEF TypeOK, EjecutaSimple, Ejecuta
<1>3. TipoColas' /\ TipoSem' /\ TipoLTS' /\ TipoNew' /\ TipoSTS' /\
      TipoIO' /\ TipoConf' /\ TipoSenales'
  BY IgualColas, IgualSem, IgualLTS, IgualNew, IgualSTS, IgualIO, IgualConf,
     IgualSenales
     DEF TypeOK, EjecutaSimple, config
<1>. QED BY <1>1, <1>2, <1>3 DEF TypeOK

LEMMA Tipo_EjecutaSalto ==
    ASSUME TypeOK, EjecutaSalto PROVE TypeOK'
<1>1. TipoImagenes'
  <2>1. PICK n \in {PC[img] + 1, Etiqueta[img]} : PC' = [PC EXCEPT ![img] = n]
    BY DEF EjecutaSalto
  <2>2. /\ img \in Procs /\ Len(Script[img]) \in Nat
        /\ PC[img] < Len(Script[img]) /\ PC[img] \in Nat
    BY EnCurso DEF EjecutaSalto, Ejecuta, TypeOK, TipoImagenes
  <2>3. Etiqueta[img] \in Nat /\ Etiqueta[img] < Len(Script[img])
    BY <2>2, ScriptAssumption
  <2>4. n \in Nat /\ n <= Len(Script[img])
    BY <2>1, <2>2, <2>3
  <2>. QED
    BY <2>1, <2>2, <2>4, TipoPC DEF TypeOK, TipoImagenes, EjecutaSalto
<1>2. TipoPROCER'
  BY TipoComputa DEF TypeOK, EjecutaSalto, Ejecuta
<1>3. TipoColas' /\ TipoSem' /\ TipoLTS' /\ TipoNew' /\ TipoSTS' /\
      TipoIO' /\ TipoConf' /\ TipoSenales'
  BY IgualColas, IgualSem, IgualLTS, IgualNew, IgualSTS, IgualIO, IgualConf,
     IgualSenales
     DEF TypeOK, EjecutaSalto, config
<1>. QED BY <1>1, <1>2, <1>3 DEF TypeOK

LEMMA Tipo_EjecutaIOBloqueante ==
    ASSUME TypeOK, EjecutaIOBloqueante PROVE TypeOK'
<1>1. TipoImagenes'
  <2>1. lsch' \in [Procs -> Estados]
    BY EnCurso DEF TypeOK, TipoImagenes, EjecutaIOBloqueante, Ejecuta,
                   Estados, EnSistema, EnMemoria
  <2>2. sendingList' \in [Procs -> Seq({"N", "S", "T"})]
    BY DEF TypeOK, TipoImagenes, EjecutaIOBloqueante
  <2>. QED BY <2>1, <2>2, TipoPCMas1 DEF TypeOK, EjecutaIOBloqueante, Ejecuta
<1>2. TipoColas' /\ TipoSem'
  BY EnCurso, TipoPide DEF TypeOK, EjecutaIOBloqueante, Ejecuta
<1>3. TipoPROCER'
  BY TipoComputa DEF TypeOK, EjecutaIOBloqueante, Ejecuta
<1>4. TipoLTS' /\ TipoNew' /\ TipoSTS' /\ TipoIO' /\ TipoConf' /\
      TipoSenales'
  BY IgualLTS, IgualNew, IgualSTS, IgualIO, IgualConf, IgualSenales
     DEF TypeOK, EjecutaIOBloqueante, config
<1>. QED BY <1>1, <1>2, <1>3, <1>4 DEF TypeOK

LEMMA Tipo_EjecutaIONoBloqueante ==
    ASSUME TypeOK, EjecutaIONoBloqueante PROVE TypeOK'
<1>1. TipoImagenes'
  <2>1. sendingList' \in [Procs -> Seq({"N", "S", "T"})]
    BY EnCurso, TipoEnvia
       DEF TypeOK, TipoImagenes, EjecutaIONoBloqueante, Ejecuta
  <2>2. lsch' \in [Procs -> Estados]
    BY DEF TypeOK, TipoImagenes, EjecutaIONoBloqueante
  <2>. QED BY <2>1, <2>2, TipoPCMas1 DEF TypeOK, EjecutaIONoBloqueante, Ejecuta
<1>2. TipoColas' /\ TipoSem'
  BY EnCurso, TipoPide, IgualColas, IgualSem
     DEF TypeOK, EjecutaIONoBloqueante, Ejecuta
<1>3. TipoPROCER'
  BY TipoComputa DEF TypeOK, EjecutaIONoBloqueante, Ejecuta
<1>4. TipoLTS' /\ TipoNew' /\ TipoSTS' /\ TipoIO' /\ TipoConf' /\
      TipoSenales'
  BY IgualLTS, IgualNew, IgualSTS, IgualIO, IgualConf, IgualSenales
     DEF TypeOK, EjecutaIONoBloqueante, config
<1>. QED BY <1>1, <1>2, <1>3, <1>4 DEF TypeOK

LEMMA Tipo_EjecutaXIO0 ==
    ASSUME TypeOK, EjecutaXIO0 PROVE TypeOK'
<1>1. TipoImagenes'
  <2>1. sendingList' \in [Procs -> Seq({"N", "S", "T"})]
    BY EnCurso, TipoEnvia DEF TypeOK, TipoImagenes, EjecutaXIO0, Ejecuta
  <2>2. lsch' \in [Procs -> Estados]
    BY DEF TypeOK, TipoImagenes, EjecutaXIO0
  <2>. QED BY <2>1, <2>2, TipoPCMas1 DEF TypeOK, EjecutaXIO0, Ejecuta
<1>2. TipoPROCER'
  <2>1. CASE HayHilo
    BY <2>1 DEF TypeOK, TipoPROCER, LocalesPROCER, EjecutaXIO0, Ejecuta
  <2>2. CASE ~ HayHilo
    BY <2>2, TipoComputa DEF TypeOK, EjecutaXIO0, Ejecuta
  <2>. QED BY <2>1, <2>2
<1>3. TipoColas' /\ TipoSem' /\ TipoLTS' /\ TipoNew' /\ TipoSTS' /\
      TipoIO' /\ TipoConf' /\ TipoSenales'
  BY IgualColas, IgualSem, IgualLTS, IgualNew, IgualSTS, IgualIO, IgualConf,
     IgualSenales
     DEF TypeOK, EjecutaXIO0, config
<1>. QED BY <1>1, <1>2, <1>3 DEF TypeOK

LEMMA Tipo_ProcerSale ==
    ASSUME TypeOK, ProcerSale PROVE TypeOK'
<1>1. TipoImagenes'
  <2>1. img \in Procs
    BY EnCurso DEF ProcerSale
  <2>2. Tspn[img] \in Nat /\ procer.rafaga \in Nat
    BY <2>1 DEF TypeOK, TipoImagenes, TipoPROCER, LocalesPROCER
  <2>. DEFINE t == (Tspn[img] * AlfaNum
                       + procer.rafaga * Escala * (AlfaDen - AlfaNum))
                    \div AlfaDen
  <2>3. t \in Nat
    BY <2>2, TspnNat
  <2>4. Tspn' = [Tspn EXCEPT ![img] = t]
    BY DEF ProcerSale
  <2>. HIDE DEF t
  <2>5. Tspn' \in [Procs -> Nat]
    BY <2>3, <2>4 DEF TypeOK, TipoImagenes
  <2>. QED BY <2>5 DEF TypeOK, TipoImagenes, ProcerSale
<1>2. TipoPROCER'
  BY DEF TypeOK, TipoPROCER, LocalesPROCER, ProcerSale
<1>3. TipoColas' /\ TipoSem' /\ TipoLTS' /\ TipoNew' /\ TipoSTS' /\
      TipoIO' /\ TipoConf' /\ TipoSenales'
  BY IgualColas, IgualSem, IgualLTS, IgualNew, IgualSTS, IgualIO, IgualConf,
     IgualSenales
     DEF TypeOK, ProcerSale, config
<1>. QED BY <1>1, <1>2, <1>3 DEF TypeOK

LEMMA Tipo_ProcerFinaliza ==
    ASSUME TypeOK, ProcerFinaliza PROVE TypeOK'
<1>1. TipoImagenes'
  <2>1. img \in Procs
    BY DEF TypeOK, TipoPROCER, img, ProcerFinaliza
  <2>2. sendingList' \in [Procs -> Seq({"N", "S", "T"})]
    BY <2>1, TipoEnvia DEF TypeOK, ProcerFinaliza
  <2>3. lsch' \in [Procs -> Estados]
    BY <2>1 DEF TypeOK, TipoImagenes, ProcerFinaliza, Estados
  <2>. QED BY <2>2, <2>3 DEF TypeOK, TipoImagenes, ProcerFinaliza
<1>2. TipoPROCER'
  BY DEF TypeOK, TipoPROCER, LocalesPROCER, ProcerFinaliza
<1>3. TipoSenales'
  BY DEF TypeOK, TipoSenales, ProcerFinaliza
<1>4. TipoColas' /\ TipoSem' /\ TipoLTS' /\ TipoNew' /\ TipoSTS' /\
      TipoIO' /\ TipoConf'
  BY IgualColas, IgualSem, IgualLTS, IgualNew, IgualSTS, IgualIO, IgualConf
     DEF TypeOK, ProcerFinaliza, config
<1>. QED BY <1>1, <1>2, <1>3, <1>4 DEF TypeOK

LEMMA Tipo_ProcerLibera ==
    ASSUME TypeOK, ProcerLibera PROVE TypeOK'
<1>1. TipoSem'
  BY DEF TypeOK, TipoSem, ProcerLibera, Semaforos
<1>2. TipoPROCER'
  BY DEF TypeOK, TipoPROCER, LocalesPROCER, ProcerLibera, ProcerVuelve
<1>3. TipoImagenes' /\ TipoColas' /\ TipoLTS' /\ TipoNew' /\ TipoSTS' /\
      TipoIO' /\ TipoConf' /\ TipoSenales'
  BY IgualImagenes, IgualColas, IgualLTS, IgualNew, IgualSTS, IgualIO,
     IgualConf, IgualSenales
     DEF TypeOK, ProcerLibera, imagenes, config
<1>. QED BY <1>1, <1>2, <1>3 DEF TypeOK

LEMMA Tipo_ProcerBloqueado ==
    ASSUME TypeOK, ProcerBloqueado PROVE TypeOK'
<1>1. TipoPROCER'
  BY DEF TypeOK, TipoPROCER, LocalesPROCER, ProcerBloqueado, ProcerVuelve
<1>2. TipoSenales'
  BY DEF TypeOK, TipoSenales, ProcerBloqueado
<1>3. TipoImagenes' /\ TipoColas' /\ TipoSem' /\ TipoLTS' /\ TipoNew' /\
      TipoSTS' /\ TipoIO' /\ TipoConf'
  BY IgualImagenes, IgualColas, IgualSem, IgualLTS, IgualNew, IgualSTS,
     IgualIO, IgualConf
     DEF TypeOK, ProcerBloqueado, imagenes, config
<1>. QED BY <1>1, <1>2, <1>3 DEF TypeOK

LEMMA Tipo_ProcerSuspende ==
    ASSUME TypeOK, ProcerSuspende PROVE TypeOK'
<1>1. TipoImagenes'
  BY DEF TypeOK, TipoImagenes, ProcerSuspende, TipoPROCER, img, Estados,
         EnSistema, EnMemoria, LocalesPROCER
<1>2. TipoColas'
  BY DEF TypeOK, TipoColas, ProcerSuspende, TipoPROCER, img, LocalesPROCER
<1>3. TipoSem'
  BY DEF TypeOK, TipoSem, ProcerSuspende, Semaforos
<1>4. TipoPROCER'
  BY DEF TypeOK, TipoPROCER, LocalesPROCER, ProcerSuspende
<1>5. TipoLTS' /\ TipoNew' /\ TipoSTS' /\ TipoIO' /\ TipoConf' /\
      TipoSenales'
  BY IgualLTS, IgualNew, IgualSTS, IgualIO, IgualConf, IgualSenales
     DEF TypeOK, ProcerSuspende, config
<1>. QED BY <1>1, <1>2, <1>3, <1>4, <1>5 DEF TypeOK

LEMMA Tipo_ProcerAvisaPI ==
    ASSUME TypeOK, ProcerAvisaPI PROVE TypeOK'
<1>1. TipoImagenes'
  BY DEF TypeOK, TipoImagenes, ProcerAvisaPI, TipoPROCER, Envia, img,
         imagenes, LocalesPROCER
<1>2. TipoPROCER'
  BY DEF TypeOK, TipoPROCER, LocalesPROCER, ProcerAvisaPI, ProcerVuelve
<1>3. TipoSenales'
  BY DEF TypeOK, TipoSenales, ProcerAvisaPI
<1>4. TipoColas' /\ TipoSem' /\ TipoLTS' /\ TipoNew' /\ TipoSTS' /\
      TipoIO' /\ TipoConf'
  BY IgualColas, IgualSem, IgualLTS, IgualNew, IgualSTS, IgualIO, IgualConf
     DEF TypeOK, ProcerAvisaPI, imagenes, config
<1>. QED BY <1>1, <1>2, <1>3, <1>4 DEF TypeOK

LEMMA Tipo_ProcerFinQuantum ==
    ASSUME TypeOK, ProcerFinQuantum PROVE TypeOK'
<1>1. TipoColas' /\ TipoSem'
  BY TipoEncola
     DEF TypeOK, ProcerFinQuantum, TipoPROCER, img, Colas, Entradas,
         LocalesPROCER
<1>2. TipoImagenes'
  BY TipoLsch
     DEF TypeOK, ProcerFinQuantum, TipoPROCER, img, Estados, EnSistema,
         EnMemoria, LocalesPROCER
<1>3. TipoPROCER'
  BY DEF TypeOK, TipoPROCER, LocalesPROCER, ProcerFinQuantum
<1>4. TipoLTS' /\ TipoNew' /\ TipoSTS' /\ TipoIO' /\ TipoConf' /\
      TipoSenales'
  BY IgualLTS, IgualNew, IgualSTS, IgualIO, IgualConf, IgualSenales
     DEF TypeOK, ProcerFinQuantum, config
<1>. QED BY <1>1, <1>2, <1>3, <1>4 DEF TypeOK

LEMMA Tipo_ProcerAvisa ==
    ASSUME TypeOK, ProcerAvisa PROVE TypeOK'
<1>1. TipoSem'
  BY TipoAvisa
     DEF TypeOK, ProcerAvisa
<1>2. TipoPROCER'
  BY DEF TypeOK, TipoPROCER, LocalesPROCER, ProcerAvisa, ProcerVuelve
<1>3. TipoImagenes' /\ TipoColas' /\ TipoLTS' /\ TipoNew' /\ TipoSTS' /\
      TipoIO' /\ TipoConf' /\ TipoSenales'
  BY IgualImagenes, IgualColas, IgualLTS, IgualNew, IgualSTS, IgualIO,
     IgualConf, IgualSenales
     DEF TypeOK, ProcerAvisa, imagenes, config
<1>. QED BY <1>1, <1>2, <1>3 DEF TypeOK

LEMMA Tipo_IOToma ==
    ASSUME TypeOK, NEW h \in Hilos, IOToma(h) PROVE TypeOK'
<1>1. TipoSem'
  BY DEF TypeOK, TipoSem, IOToma, Semaforos
<1>2. TipoIO'
  BY DEF TypeOK, TipoIO, LocalesIO, IOToma
<1>3. TipoImagenes' /\ TipoColas' /\ TipoLTS' /\ TipoNew' /\ TipoSTS' /\
      TipoPROCER' /\ TipoConf' /\ TipoSenales'
  BY IgualImagenes, IgualColas, IgualLTS, IgualNew, IgualSTS, IgualPROCER,
     IgualConf, IgualSenales
     DEF TypeOK, IOToma, imagenes, config
<1>. QED BY <1>1, <1>2, <1>3 DEF TypeOK

LEMMA Tipo_IOPop ==
    ASSUME TypeOK, NEW h \in Hilos, IOPop(h) PROVE TypeOK'
<1>1. TipoColas'
  BY Cabeza
     DEF TypeOK, TipoColas, IOPop
<1>2. TipoIO'
  <2>1. CASE LPB = <<>>
    BY <2>1 DEF TypeOK, TipoIO, LocalesIO, IOPop
  <2>2. CASE LPB # <<>>
    <3>. DEFINE r == Head(LPB)
    <3>0. r \in Pedidos
      BY <2>2, Cabeza DEF TypeOK, TipoColas
    <3>1. r.img \in Procs /\ r.nb \in BOOLEAN
      BY <3>0, Zenon DEF Pedidos
    <3>2. PICK e \in {"fin", "es"} :
              io' = [io EXCEPT ![h] = [pc |-> e, img |-> r.img, nb |-> r.nb]]
      BY <2>2, Zenon DEF IOPop
    <3>3. [pc |-> e, img |-> r.img, nb |-> r.nb] \in LocalesIO
      BY <3>1, Zenon DEF LocalesIO
    <3>. QED BY <3>1, <3>2, <3>3 DEF TypeOK, TipoIO
  <2>. QED BY <2>1, <2>2
<1>3. TipoImagenes' /\ TipoSem' /\ TipoLTS' /\ TipoNew' /\ TipoSTS' /\
      TipoPROCER' /\ TipoConf' /\ TipoSenales'
  BY IgualImagenes, IgualSem, IgualLTS, IgualNew, IgualSTS, IgualPROCER,
     IgualConf, IgualSenales
     DEF TypeOK, IOPop, imagenes, config
<1>. QED BY <1>1, <1>2, <1>3 DEF TypeOK

LEMMA Tipo_IOEncola ==
    ASSUME TypeOK, NEW h \in Hilos, IOEncola(h) PROVE TypeOK'
<1>1. TipoColas' /\ TipoSem'
  BY TipoEncola
     DEF TypeOK, IOEncola, TipoIO, Colas, Entradas, LocalesIO
<1>2. TipoImagenes'
  BY TipoLsch
     DEF TypeOK, IOEncola, TipoIO, Estados, EnSistema, EnMemoria, LocalesIO
<1>3. TipoIO'
  BY DEF TypeOK, TipoIO, LocalesIO, IOEncola
<1>4. TipoLTS' /\ TipoNew' /\ TipoSTS' /\ TipoPROCER' /\ TipoConf' /\
      TipoSenales'
  BY IgualLTS, IgualNew, IgualSTS, IgualPROCER, IgualConf, IgualSenales
     DEF TypeOK, IOEncola, config
<1>. QED BY <1>1, <1>2, <1>3, <1>4 DEF TypeOK

LEMMA Tipo_IOAvisa ==
    ASSUME TypeOK, NEW h \in Hilos, IOAvisa(h) PROVE TypeOK'
<1>1. TipoSem'
  BY TipoAvisa
     DEF TypeOK, IOAvisa
<1>2. TipoIO'
  BY DEF TypeOK, TipoIO, LocalesIO, IOAvisa
<1>3. TipoImagenes' /\ TipoColas' /\ TipoLTS' /\ TipoNew' /\ TipoSTS' /\
      TipoPROCER' /\ TipoConf' /\ TipoSenales'
  BY IgualImagenes, IgualColas, IgualLTS, IgualNew, IgualSTS, IgualPROCER,
     IgualConf, IgualSenales
     DEF TypeOK, IOAvisa, imagenes, config
<1>. QED BY <1>1, <1>2, <1>3 DEF TypeOK

LEMMA Tipo_IOFin ==
    ASSUME TypeOK, NEW h \in Hilos, IOFin(h) PROVE TypeOK'
<1>1. TipoSem'
  BY DEF TypeOK, TipoSem, IOFin, Semaforos
<1>2. TipoIO'
  BY DEF TypeOK, TipoIO, LocalesIO, IOFin
<1>3. TipoImagenes' /\ TipoColas' /\ TipoLTS' /\ TipoNew' /\ TipoSTS' /\
      TipoPROCER' /\ TipoConf' /\ TipoSenales'
  BY IgualImagenes, IgualColas, IgualLTS, IgualNew, IgualSTS, IgualPROCER,
     IgualConf, IgualSenales
     DEF TypeOK, IOFin, imagenes, config
<1>. QED BY <1>1, <1>2, <1>3 DEF TypeOK

LEMMA Tipo_ConfCopia ==
    ASSUME TypeOK, ConfCopia PROVE TypeOK'
<1>1. TipoConf'
  <2>1. PICK i \in 1 .. 3 :
            /\ queuesArray' = [queuesArray EXCEPT ![i + 1] = queuesArray[i]]
            /\ conf' = [conf EXCEPT !.pc = "cierra", !.i = i,
                                    !.aux = queuesArray[i + 1]]
    BY DEF ConfCopia, Proximos, Invertidos
  <2>2. /\ queuesArray' \in [1 .. 4 -> Entradas]
        /\ queuesArray[i + 1] \in Entradas
        /\ i \in 1 .. 4 /\ i < 4
    BY <2>1 DEF TypeOK, TipoConf
  <2>3. conf' \in LocalesConf
    BY <2>1, <2>2, Zenon DEF TypeOK, TipoConf, LocalesConf
  <2>4. conf'.i = i
    BY <2>1 DEF TypeOK, TipoConf, LocalesConf
  <2>5. ALG' = ALG
    BY DEF ConfCopia
  <2>. QED BY <2>2, <2>3, <2>4, <2>5 DEF TypeOK, TipoConf
<1>2. TipoImagenes' /\ TipoColas' /\ TipoSem' /\ TipoLTS' /\ TipoNew' /\
      TipoSTS' /\ TipoPROCER' /\ TipoIO' /\ TipoSenales'
  BY IgualImagenes, IgualColas, IgualSem, IgualLTS, IgualNew, IgualSTS,
     IgualPROCER, IgualIO, IgualSenales
     DEF TypeOK, ConfCopia, imagenes
<1>. QED BY <1>1, <1>2 DEF TypeOK

LEMMA Tipo_ConfCierra ==
    ASSUME TypeOK, ConfCierra PROVE TypeOK'
<1>1. TipoConf'
  <2>1. conf.i + 1 \in 1 .. 4
    BY DEF TypeOK, TipoConf, LocalesConf, ConfCierra
  <2>2. conf' = [conf EXCEPT !.pc = "ordena", !.i = conf.i + 1]
    BY DEF ConfCierra
  <2>3. queuesArray' \in [1 .. 4 -> Entradas]
    BY DEF TypeOK, TipoConf, LocalesConf, ConfCierra
  <2>4. ALG' = ALG
    BY DEF ConfCierra
  <2>. QED BY <2>1, <2>2, <2>3, <2>4 DEF TypeOK, TipoConf, LocalesConf
<1>2. TipoImagenes' /\ TipoColas' /\ TipoSem' /\ TipoLTS' /\ TipoNew' /\
      TipoSTS' /\ TipoPROCER' /\ TipoIO' /\ TipoSenales'
  BY IgualImagenes, IgualColas, IgualSem, IgualLTS, IgualNew, IgualSTS,
     IgualPROCER, IgualIO, IgualSenales
     DEF TypeOK, ConfCierra, imagenes
<1>. QED BY <1>1, <1>2 DEF TypeOK

LEMMA Tipo_ConfFin ==
    ASSUME TypeOK, ConfFin PROVE TypeOK'
<1>1. TipoConf'
  BY DEF TypeOK, TipoConf, LocalesConf, ConfFin
<1>2. TipoImagenes' /\ TipoColas' /\ TipoSem' /\ TipoLTS' /\ TipoNew' /\
      TipoSTS' /\ TipoPROCER' /\ TipoIO' /\ TipoSenales'
  BY IgualImagenes, IgualColas, IgualSem, IgualLTS, IgualNew, IgualSTS,
     IgualPROCER, IgualIO, IgualSenales
     DEF TypeOK, ConfFin, imagenes
<1>. QED BY <1>1, <1>2 DEF TypeOK

LEMMA Tipo_SIGUSR1 ==
    ASSUME TypeOK, SIGUSR1 PROVE TypeOK'
<1>1. TipoSenales'
  BY DEF TypeOK, TipoSenales, SIGUSR1
<1>2. TipoImagenes' /\ TipoColas' /\ TipoSem' /\ TipoLTS' /\ TipoNew' /\
      TipoSTS' /\ TipoPROCER' /\ TipoIO' /\ TipoConf'
  BY IgualImagenes, IgualColas, IgualSem, IgualLTS, IgualNew, IgualSTS,
     IgualPROCER, IgualIO, IgualConf
     DEF TypeOK, SIGUSR1, imagenes, hilosPP
<1>. QED BY <1>1, <1>2 DEF TypeOK

(* The insertion of a batch, whatever it is: what it does to the ready     *)
(* queue and to LPL_empty is orderInsert, and nothing else changes.        *)
LEMMA InsertaEs ==
    ASSUME TypeOK, NEW l \in Seq(Procs), NEW alg, Inserta(l, alg)
    PROVE LET r == orderInsert(l, cola["LPL"], sem["LPL"], Clave(alg))
          IN  /\ cola["LPL"] \in Seq(Procs) /\ sem["LPL"] \in Nat
              /\ Clave(alg) \in Campos(Procs)
              /\ r.LPL \in Seq(Procs) /\ r.sem \in Nat
              /\ cola' = [cola EXCEPT !["LPL"] = r.LPL]
              /\ sem' = [sem EXCEPT !["LPL"] = r.sem]
              /\ cola'["LPL"] = r.LPL /\ sem'["LPL"] = r.sem
              /\ \A c \in Colas \ {"LPL"} : cola'[c] = cola[c]
              /\ \A s \in Semaforos \ {"LPL"} : sem'[s] = sem[s]
<1> DEFINE r == orderInsert(l, cola["LPL"], sem["LPL"], Clave(alg))
<1>1. cola["LPL"] \in Seq(Procs) /\ sem["LPL"] \in Nat
  BY DEF TypeOK, TipoColas, TipoSem, Colas, Semaforos
<1>2. Clave(alg) \in Campos(Procs)
  BY PrioAssumption DEF Clave, Campos, TypeOK, TipoImagenes
<1>3. r.LPL \in Seq(Procs) /\ r.sem \in Nat
  <2>1. Insertada(Procs, l, cola["LPL"], sem["LPL"], Clave(alg))
    BY <1>1, <1>2, OrderInsertEs
  <2>. QED BY <2>1 DEF Insertada
<1>4. /\ cola' = [cola EXCEPT !["LPL"] = r.LPL]
      /\ sem' = [sem EXCEPT !["LPL"] = r.sem]
  BY DEF Inserta
<1>. HIDE DEF r
<1>5. /\ cola'["LPL"] = r.LPL /\ sem'["LPL"] = r.sem
      /\ \A c \in Colas \ {"LPL"} : cola'[c] = cola[c]
      /\ \A s \in Semaforos \ {"LPL"} : sem'[s] = sem[s]
  BY <1>4 DEF TypeOK, TipoColas, TipoSem, Colas, Semaforos
<1>. QED BY <1>1, <1>2, <1>3, <1>4, <1>5 DEF r

LEMMA TipoInserta ==
    ASSUME TypeOK, NEW l \in Seq(Procs), NEW alg, Inserta(l, alg),
           UNCHANGED <<LPB, LPS>>
    PROVE TipoColas' /\ TipoSem'
<1>1. PICK x \in Seq(Procs), y \in Nat :
          /\ cola' = [cola EXCEPT !["LPL"] = x]
          /\ sem' = [sem EXCEPT !["LPL"] = y]
  <2>. DEFINE r == orderInsert(l, cola["LPL"], sem["LPL"], Clave(alg))
  <2>1. /\ r.LPL \in Seq(Procs) /\ r.sem \in Nat
        /\ cola' = [cola EXCEPT !["LPL"] = r.LPL]
        /\ sem' = [sem EXCEPT !["LPL"] = r.sem]
    BY InsertaEs
  <2>. QED BY <2>1
<1>. QED BY <1>1 DEF TypeOK, TipoColas, TipoSem

LEMMA Tipo_STSInserta ==
    ASSUME TypeOK, STSInserta PROVE TypeOK'
<1>1. sts.prioList \in Seq(Procs) /\ sts \in LocalesSTS
  BY DEF TypeOK, TipoSTS, LocalesSTS
<1>2. TipoColas' /\ TipoSem'
  BY <1>1, TipoInserta DEF STSInserta
<1>3. TipoSTS'
  <2>1. <<>> \in Seq(Procs) /\ sts' = [sts EXCEPT !.pc = "espera", !.prioList = <<>>]
    BY DEF STSInserta
  <2>2. sts' \in LocalesSTS
    BY <1>1, <2>1, Zenon DEF LocalesSTS
  <2>3. sts'.pc = "espera"
    BY <1>1, <2>1 DEF LocalesSTS
  <2>. QED BY <2>2, <2>3 DEF TipoSTS
<1>4. TipoImagenes' /\ TipoLTS' /\ TipoNew' /\ TipoPROCER' /\ TipoIO' /\
      TipoConf' /\ TipoSenales'
  BY IgualImagenes, IgualLTS, IgualNew, IgualPROCER, IgualIO, IgualConf,
     IgualSenales
     DEF TypeOK, STSInserta, imagenes, config
<1>. QED BY <1>2, <1>3, <1>4 DEF TypeOK

(* A change of pp.config reorders the ready queue if it selects PRI or     *)
(* SPN, and leaves the queues alone if it selects FIFO or RR.              *)
LEMMA Tipo_ConfLee ==
    ASSUME TypeOK, NEW alg \in Algs, NEW pr \in PrioColas, ConfLee(alg, pr)
    PROVE TypeOK'
<1>1. TipoConf'
  <2>1. conf' = [conf EXCEPT !.pc = "ordena", !.n = conf.n + 1, !.i = 1,
                             !.prio = pr]
    BY DEF ConfLee
  <2>2. conf.n + 1 \in Nat /\ 1 \in 1 .. 4
    BY DEF TypeOK, TipoConf, LocalesConf
  <2>3. conf' \in LocalesConf
    BY <2>1, <2>2, Zenon DEF TypeOK, TipoConf, LocalesConf
  <2>4. conf'.pc = "ordena"
    BY <2>1 DEF TypeOK, TipoConf, LocalesConf
  <2>. QED BY <2>3, <2>4 DEF TypeOK, TipoConf, ConfLee
<1>2. TipoColas' /\ TipoSem'
  <2>1. CASE PorLotes(alg)
    <3>1. <<>> \in Seq(Procs)
      OBVIOUS
    <3>. QED BY <2>1, <3>1, TipoInserta DEF ConfLee
  <2>2. CASE ~ PorLotes(alg)
    BY <2>2, IgualColas, IgualSem DEF TypeOK, ConfLee
  <2>. QED BY <2>1, <2>2
<1>3. TipoImagenes' /\ TipoLTS' /\ TipoNew' /\ TipoSTS' /\ TipoPROCER' /\
      TipoIO' /\ TipoSenales'
  BY IgualImagenes, IgualLTS, IgualNew, IgualSTS, IgualPROCER, IgualIO,
     IgualSenales
     DEF TypeOK, ConfLee, imagenes
<1>. QED BY <1>1, <1>2, <1>3 DEF TypeOK

-----------------------------------------------------------------------------
(* pp.config only ever names the algorithms that move the images one at a  *)
(* time.                                                                   *)
DeAUno == Algs \subseteq {"FIFO", "RR"}

(* Under FIFO and RR the STS never builds a batch.                         *)
LEMMA LotesPaso ==
    ASSUME DeAUno, TypeOK, SinLotes, [Next]_vars
    PROVE SinLotes'
<1>1. CASE UNCHANGED vars
  BY <1>1 DEF SinLotes, PorLotes, vars
<1>2. CASE UNCHANGED sts
  BY <1>2 DEF SinLotes, PorLotes
<1>3. CASE STS
  <2>1. CASE STSEspera
    BY <2>1
       DEF DeAUno, STSEspera, SinLotes, PorLotes, TypeOK, TipoSTS, LocalesSTS,
           TipoConf
  <2>2. CASE STSCola \/ STSToma \/ STSAvanza \/ STSPush
    BY <2>2
       DEF STSCola, STSToma, STSAvanza, STSPush, SinLotes, PorLotes, TypeOK,
           TipoSTS, LocalesSTS
  <2>3. CASE STSPop
    BY <2>3 DEF STSPop, SinLotes, PorLotes, TypeOK, TipoSTS, LocalesSTS
  <2>4. CASE STSInserta
    BY <2>4 DEF STSInserta, SinLotes
  <2>. QED BY <1>3, <2>1, <2>2, <2>3, <2>4 DEF STS
<1>4. CASE LTSconex \/ LTSnew \/ PROCER \/ configure \/ SIGUSR1
  <2>1. UNCHANGED sts
    BY <1>4
       DEF LTSconex, LTSDemora, LTSEncola, LTSAvisa, LTSAcepta, LTSReanuda,
           LTSEnvia, LTSnew, NewToma, NewEncola, NewAvisa, PROCER,
           ProcerEspera, ProcerPop, processExecution, EjecutaSimple,
           EjecutaSalto, EjecutaIOBloqueante, EjecutaIONoBloqueante,
           EjecutaXIO0, ProcerSale, ProcerFinaliza, ProcerLibera,
           ProcerBloqueado, ProcerSuspende, ProcerAvisaPI, ProcerFinQuantum,
           ProcerAvisa, configure, ConfLee, ConfCopia, ConfCierra, ConfFin,
           SIGUSR1, hilosPP
  <2>. QED BY <2>1, <1>2
<1>5. CASE (\E h \in Hilos : ioThread(h)) \/ (\E p \in Procs : PIReanuda(p))
  <2>1. UNCHANGED sts
    BY <1>5
       DEF ioThread, IOToma, IOPop, IOEncola, IOAvisa, IOFin, PIReanuda,
           hilosPP
  <2>. QED BY <2>1, <1>2
<1>. QED BY <1>1, <1>3, <1>4, <1>5 DEF Next

(* Every step preserves the types.                                         *)
LEMMA TipoPaso ==
    ASSUME TypeOK, [Next]_vars
    PROVE TypeOK'
<1>1. CASE UNCHANGED vars
  <2>1. UNCHANGED <<pi, lsch, PC, Tspn, cola, LPB, LPS, sem, sendingList,
                    lts, lnew, sts, procer, io, conf, SUSPEND, senales, ALG,
                    queuesArray>>
    BY <1>1 DEF vars
  <2>. QED BY <2>1, IgualImagenes, IgualColas, IgualSem, IgualLTS, IgualNew,
              IgualSTS, IgualPROCER, IgualIO, IgualConf, IgualSenales
           DEF TypeOK
<1>2. CASE LTSconex
  BY <1>2, Tipo_LTSDemora, Tipo_LTSEncola, Tipo_LTSAvisa, Tipo_LTSAcepta,
           Tipo_LTSReanuda, Tipo_LTSEnvia
     DEF LTSconex
<1>3. CASE LTSnew
  BY <1>3, Tipo_NewToma, Tipo_NewEncola, Tipo_NewAvisa
     DEF LTSnew
<1>4. CASE STS
  BY <1>4, Tipo_STSEspera, Tipo_STSCola, Tipo_STSToma, Tipo_STSAvanza,
           Tipo_STSPop, Tipo_STSPush, Tipo_STSInserta
     DEF STS
<1>5. CASE PROCER
  BY <1>5, Tipo_ProcerEspera, Tipo_ProcerPop, Tipo_EjecutaSimple,
           Tipo_EjecutaSalto, Tipo_EjecutaIOBloqueante,
           Tipo_EjecutaIONoBloqueante, Tipo_EjecutaXIO0, Tipo_ProcerSale,
           Tipo_ProcerFinaliza, Tipo_ProcerLibera, Tipo_ProcerBloqueado,
           Tipo_ProcerSuspende, Tipo_ProcerAvisaPI, Tipo_ProcerFinQuantum,
           Tipo_ProcerAvisa
     DEF PROCER, processExecution
<1>6. CASE configure
  BY <1>6, Tipo_ConfLee, Tipo_ConfCopia, Tipo_ConfCierra, Tipo_ConfFin
     DEF configure
<1>7. CASE SIGUSR1
  BY <1>7, Tipo_SIGUSR1
<1>8. CASE \E h \in Hilos : ioThread(h)
  BY <1>8, Tipo_IOToma, Tipo_IOPop, Tipo_IOEncola, Tipo_IOAvisa, Tipo_IOFin
     DEF ioThread
<1>9. CASE \E p \in Procs : PIReanuda(p)
  BY <1>9, Tipo_PIReanuda
<1>. QED BY <1>1, <1>2, <1>3, <1>4, <1>5, <1>6, <1>7, <1>8, <1>9
         DEF Next

(* The type invariant, for any number of processes, I/O threads, places    *)
(* and signals and under every algorithm: the images that the threads of   *)
(* the PP hold and the queues contain are images of processes, no          *)
(* semaphore is negative and no PC runs past fin_programa.                 *)
THEOREM TipoCorrecto == Spec => []TypeOK
<1>1. Init => TypeOK
  BY InitTipo
<1>2. TypeOK /\ [Next]_vars => TypeOK'
  BY TipoPaso
<1>. QED BY <1>1, <1>2, PTL DEF Spec

(* Under FIFO and RR the STS moves the images one at a time.               *)
LEMMA LotesSiempre == Spec => [](DeAUno => SinLotes)
<1> DEFINE Lotes == DeAUno => SinLotes
<1>1. Init => Lotes
  BY DEF DeAUno, Init, SinLotes, PorLotes
<1>2. TypeOK /\ Lotes /\ [Next]_vars => Lotes'
  BY LotesPaso DEF DeAUno
<1>. QED BY <1>1, <1>2, TipoCorrecto, PTL DEF Spec

-----------------------------------------------------------------------------
(* A thread alone writes its locals.                                       *)
LEMMA SoloNew ==
    ASSUME [Next]_vars PROVE NewToma \/ NewEncola \/ NewAvisa \/ UNCHANGED lnew
<1>1. CASE LTSconex
  BY <1>1 DEF LTSconex, LTSDemora, LTSEncola, LTSAvisa, LTSAcepta,
              LTSReanuda, LTSEnvia, hilosPP
<1>2. CASE STS
  BY <1>2 DEF STS, STSEspera, STSCola, STSToma, STSAvanza, STSPop, STSPush,
              STSInserta, hilosPP
<1>3. CASE PROCER
  BY <1>3 DEF PROCER, ProcerEspera, ProcerPop, processExecution,
              EjecutaSimple, EjecutaSalto, EjecutaIOBloqueante,
              EjecutaIONoBloqueante, EjecutaXIO0, ProcerSale, ProcerFinaliza,
              ProcerLibera, ProcerBloqueado, ProcerSuspende, ProcerAvisaPI,
              ProcerFinQuantum, ProcerAvisa, hilosPP
<1>4. CASE configure
  BY <1>4 DEF configure, ConfLee, ConfCopia, ConfCierra, ConfFin, hilosPP
<1>5. CASE \E h \in Hilos : ioThread(h)
  BY <1>5 DEF ioThread, IOToma, IOPop, IOEncola, IOAvisa, IOFin, hilosPP
<1>6. CASE SIGUSR1 \/ \E p \in Procs : PIReanuda(p)
  BY <1>6 DEF SIGUSR1, PIReanuda, hilosPP
<1>7. CASE UNCHANGED vars
  BY <1>7 DEF vars
<1>. QED BY <1>1, <1>2, <1>3, <1>4, <1>5, <1>6, <1>7 DEF Next, LTSnew

LEMMA SoloSTS ==
    ASSUME [Next]_vars
    PROVE \/ STSEspera \/ STSCola \/ STSToma \/ STSAvanza \/ STSPop
          \/ STSPush \/ STSInserta \/ UNCHANGED sts
<1>1. CASE LTSconex
  BY <1>1 DEF LTSconex, LTSDemora, LTSEncola, LTSAvisa, LTSAcepta,
              LTSReanuda, LTSEnvia, hilosPP
<1>2. CASE LTSnew
  BY <1>2 DEF LTSnew, NewToma, NewEncola, NewAvisa, hilosPP
<1>3. CASE PROCER
  BY <1>3 DEF PROCER, ProcerEspera, ProcerPop, processExecution,
              EjecutaSimple, EjecutaSalto, EjecutaIOBloqueante,
              EjecutaIONoBloqueante, EjecutaXIO0, ProcerSale, ProcerFinaliza,
              ProcerLibera, ProcerBloqueado, ProcerSuspende, ProcerAvisaPI,
              ProcerFinQuantum, ProcerAvisa, hilosPP
<1>4. CASE configure
  BY <1>4 DEF configure, ConfLee, ConfCopia, ConfCierra, ConfFin, hilosPP
<1>5. CASE \E h \in Hilos : ioThread(h)
  BY <1>5 DEF ioThread, IOToma, IOPop, IOEncola, IOAvisa, IOFin, hilosPP
<1>6. CASE SIGUSR1 \/ \E p \in Procs : PIReanuda(p)
  BY <1>6 DEF SIGUSR1, PIReanuda, hilosPP
<1>7. CASE UNCHANGED vars
  BY <1>7 DEF vars
<1>. QED BY <1>1, <1>2, <1>3, <1>4, <1>5, <1>6, <1>7 DEF Next, STS

LEMMA SoloPROCER ==
    ASSUME [Next]_vars PROVE PROCER \/ UNCHANGED procer
<1>1. CASE LTSconex
  BY <1>1 DEF LTSconex, LTSDemora, LTSEncola, LTSAvisa, LTSAcepta,
              LTSReanuda, LTSEnvia, hilosPP
<1>2. CASE LTSnew
  BY <1>2 DEF LTSnew, NewToma, NewEncola, NewAvisa, hilosPP
<1>3. CASE STS
  BY <1>3 DEF STS, STSEspera, STSCola, STSToma, STSAvanza, STSPop, STSPush,
              STSInserta, hilosPP
<1>4. CASE configure
  BY <1>4 DEF configure, ConfLee, ConfCopia, ConfCierra, ConfFin, hilosPP
<1>5. CASE \E h \in Hilos : ioThread(h)
  BY <1>5 DEF ioThread, IOToma, IOPop, IOEncola, IOAvisa, IOFin, hilosPP
<1>6. CASE SIGUSR1 \/ \E p \in Procs : PIReanuda(p)
  BY <1>6 DEF SIGUSR1, PIReanuda, hilosPP
<1>7. CASE UNCHANGED vars
  BY <1>7 DEF vars
<1>. QED BY <1>1, <1>2, <1>3, <1>4, <1>5, <1>6, <1>7 DEF Next

LEMMA SoloIO ==
    ASSUME [Next]_vars
    PROVE \/ \E h \in Hilos : \/ IOToma(h) \/ IOPop(h) \/ IOEncola(h)
                              \/ IOAvisa(h) \/ IOFin(h)
          \/ UNCHANGED io
<1>1. CASE LTSconex
  BY <1>1 DEF LTSconex, LTSDemora, LTSEncola, LTSAvisa, LTSAcepta,
              LTSReanuda, LTSEnvia, hilosPP
<1>2. CASE LTSnew
  BY <1>2 DEF LTSnew, NewToma, NewEncola, NewAvisa, hilosPP
<1>3. CASE STS
  BY <1>3 DEF STS, STSEspera, STSCola, STSToma, STSAvanza, STSPop, STSPush,
              STSInserta, hilosPP
<1>4. CASE PROCER
  BY <1>4 DEF PROCER, ProcerEspera, ProcerPop, processExecution,
              EjecutaSimple, EjecutaSalto, EjecutaIOBloqueante,
              EjecutaIONoBloqueante, EjecutaXIO0, ProcerSale, ProcerFinaliza,
              ProcerLibera, ProcerBloqueado, ProcerSuspende, ProcerAvisaPI,
              ProcerFinQuantum, ProcerAvisa, hilosPP
<1>5. CASE configure
  BY <1>5 DEF configure, ConfLee, ConfCopia, ConfCierra, ConfFin, hilosPP
<1>6. CASE SIGUSR1 \/ \E p \in Procs : PIReanuda(p)
  BY <1>6 DEF SIGUSR1, PIReanuda, hilosPP
<1>7. CASE UNCHANGED vars
  BY <1>7 DEF vars
<1>. QED BY <1>1, <1>2, <1>3, <1>4, <1>5, <1>6, <1>7 DEF Next, ioThread

LEMMA SoloConf ==
    ASSUME [Next]_vars
    PROVE configure \/ UNCHANGED <<conf, ALG, queuesArray>>
<1>1. CASE LTSconex
  BY <1>1 DEF LTSconex, LTSDemora, LTSEncola, LTSAvisa, LTSAcepta,
              LTSReanuda, LTSEnvia, hilosPP, config
<1>2. CASE LTSnew
  BY <1>2 DEF LTSnew, NewToma, NewEncola, NewAvisa, config
<1>3. CASE STS
  BY <1>3 DEF STS, STSEspera, STSCola, STSToma, STSAvanza, STSPop, STSPush,
              STSInserta, config
<1>4. CASE PROCER
  BY <1>4 DEF PROCER, ProcerEspera, ProcerPop, processExecution,
              EjecutaSimple, EjecutaSalto, EjecutaIOBloqueante,
              EjecutaIONoBloqueante, EjecutaXIO0, ProcerSale, ProcerFinaliza,
              ProcerLibera, ProcerBloqueado, ProcerSuspende, ProcerAvisaPI,
              ProcerFinQuantum, ProcerAvisa, config
<1>5. CASE \E h \in Hilos : ioThread(h)
  BY <1>5 DEF ioThread, IOToma, IOPop, IOEncola, IOAvisa, IOFin, config
<1>6. CASE SIGUSR1 \/ \E p \in Procs : PIReanuda(p)
  BY <1>6 DEF SIGUSR1, PIReanuda, hilosPP
<1>7. CASE UNCHANGED vars
  BY <1>7 DEF vars
<1>. QED BY <1>1, <1>2, <1>3, <1>4, <1>5, <1>6, <1>7 DEF Next

-----------------------------------------------------------------------------
(***************************************************************************)
(* The sort of queuesArray, whatever the algorithms.  In the middle of an  *)
(* exchange the array is complete but for conf.aux.                        *)
(***************************************************************************)
Completo(a) == {a[i] : i \in 1 .. 4} = Entradas

ArregloInv ==
    /\ TipoConf
    /\ conf.pc # "cierra" => Completo(queuesArray)
    /\ conf.pc = "cierra"
          => Completo([queuesArray EXCEPT ![conf.i] = conf.aux])
    /\ ArregloOrdenado

LEMMA CompletoSi ==
    ASSUME NEW a \in [1 .. 4 -> Entradas]
    PROVE Completo(a) <=> {a[1], a[2], a[3], a[4]} = Entradas
<1>1. 1 .. 4 = {1, 2, 3, 4}
  OBVIOUS
<1>. QED BY <1>1 DEF Completo

(* An order without repetitions names the four queues.                     *)
LEMMA OrdenadosCompleto ==
    ASSUME NEW pr \in PrioColas, NEW a \in Ordenados(pr)
    PROVE /\ a \in [1 .. 4 -> Entradas] /\ Completo(a)
          /\ \A i \in 1 .. 3 : pr[a[i]] <= pr[a[i + 1]]
<1>1. pr \in [Entradas -> Int] /\ a \in [1 .. 4 -> Entradas]
  BY PrioAssumption DEF Ordenados
<1>2. \A q \in Entradas : Puesto[q] \in Int
  BY DEF Entradas, Puesto
<1>3. ASSUME NEW i \in 1 .. 4, NEW j \in 1 .. 4, i < j
      PROVE a[i] # a[j] /\ pr[a[i]] <= pr[a[j]]
  <2>1. \/ pr[a[i]] < pr[a[j]]
        \/ pr[a[i]] = pr[a[j]] /\ Puesto[a[i]] < Puesto[a[j]]
    BY <1>3 DEF Ordenados
  <2>2. /\ a[i] \in Entradas /\ a[j] \in Entradas
        /\ pr[a[i]] \in Int /\ pr[a[j]] \in Int
        /\ Puesto[a[i]] \in Int /\ Puesto[a[j]] \in Int
    BY <1>1, <1>2
  <2>. QED BY <2>1, <2>2
<1>4. {a[1], a[2], a[3], a[4]} = Entradas
  <2>1. /\ a[1] # a[2] /\ a[1] # a[3] /\ a[1] # a[4]
        /\ a[2] # a[3] /\ a[2] # a[4] /\ a[3] # a[4]
    BY <1>3
  <2>2. a[1] \in Entradas /\ a[2] \in Entradas /\ a[3] \in Entradas
        /\ a[4] \in Entradas
    BY <1>1
  <2>. QED BY <2>1, <2>2 DEF Entradas
<1>. QED BY <1>1, <1>3, <1>4, CompletoSi

LEMMA ArregloInit == ASSUME Init PROVE ArregloInv
<1>1. TipoConf
  BY InitTipo DEF TypeOK
<1>2. PICK pr \in PrioColas :
          /\ queuesArray \in Ordenados(pr)
          /\ conf = [pc |-> "espera", n |-> 0, i |-> 1, prio |-> pr,
                     aux |-> "LPN"]
  BY DEF Init
<1>3. conf.pc = "espera" /\ conf.prio = pr
  BY <1>2
<1>4. /\ Completo(queuesArray)
      /\ \A i \in 1 .. 3 : pr[queuesArray[i]] <= pr[queuesArray[i + 1]]
  BY <1>2, OrdenadosCompleto
<1>. QED BY <1>1, <1>3, <1>4 DEF ArregloInv, ArregloOrdenado, Completo

LEMMA Arreglo_ConfLee ==
    ASSUME ArregloInv, NEW alg \in Algs, NEW pr \in PrioColas,
           ConfLee(alg, pr)
    PROVE ArregloInv'
<1>1. /\ conf'.pc = "ordena" /\ conf' \in LocalesConf /\ ALG' \in Algs
      /\ UNCHANGED queuesArray /\ conf.pc = "espera"
  <2>1. /\ conf' = [conf EXCEPT !.pc = "ordena", !.n = conf.n + 1, !.i = 1,
                                !.prio = pr]
        /\ conf.pc = "espera" /\ UNCHANGED queuesArray /\ ALG' = alg
    BY DEF ConfLee
  <2>2. conf \in LocalesConf /\ conf.n + 1 \in Nat /\ 1 \in 1 .. 4
    BY DEF ArregloInv, TipoConf, LocalesConf
  <2>3. conf' \in LocalesConf
    BY <2>1, <2>2, Zenon DEF LocalesConf
  <2>4. conf'.pc = "ordena"
    BY <2>1, <2>2 DEF LocalesConf
  <2>. QED BY <2>1, <2>3, <2>4
<1>2. TipoConf'
  BY <1>1 DEF ArregloInv, TipoConf
<1>3. Completo(queuesArray)
  BY <1>1 DEF ArregloInv
<1>. QED BY <1>1, <1>2, <1>3 DEF ArregloInv, ArregloOrdenado, Completo

LEMMA Arreglo_ConfCopia ==
    ASSUME ArregloInv, ConfCopia PROVE ArregloInv'
<1>1. PICK i \in 1 .. 3 :
          /\ queuesArray' = [queuesArray EXCEPT ![i + 1] = queuesArray[i]]
          /\ conf' = [conf EXCEPT !.pc = "cierra", !.i = i,
                                  !.aux = queuesArray[i + 1]]
  BY DEF ConfCopia, Proximos, Invertidos
<1>2. /\ queuesArray \in [1 .. 4 -> Entradas] /\ i + 1 \in 1 .. 4
      /\ i \in 1 .. 4 /\ conf \in LocalesConf
  BY DEF ArregloInv, TipoConf
<1>3. /\ conf'.pc = "cierra" /\ conf'.i = i /\ conf'.aux = queuesArray[i + 1]
      /\ conf' \in LocalesConf
  BY <1>1, <1>2 DEF LocalesConf
<1>4. queuesArray' \in [1 .. 4 -> Entradas]
  BY <1>1, <1>2
<1>5. TipoConf'
  BY <1>3, <1>4 DEF ConfCopia, ArregloInv, TipoConf
<1> DEFINE a == queuesArray
           b == [queuesArray' EXCEPT ![conf'.i] = conf'.aux]
<1>6. /\ b \in [1 .. 4 -> Entradas] /\ b[i] = a[i + 1] /\ b[i + 1] = a[i]
      /\ \A j \in 1 .. 4 \ {i, i + 1} : b[j] = a[j]
  BY <1>1, <1>2, <1>3, <1>4
<1>7. {a[1], a[2], a[3], a[4]} = Entradas /\ a \in [1 .. 4 -> Entradas]
  BY <1>2, CompletoSi DEF ConfCopia, ArregloInv
<1>. HIDE DEF a, b
<1>8. {b[1], b[2], b[3], b[4]} = Entradas
  <2>1. CASE i = 1
    BY <1>6, <1>7, <2>1
  <2>2. CASE i = 2
    BY <1>6, <1>7, <2>2
  <2>3. CASE i = 3
    BY <1>6, <1>7, <2>3
  <2>. QED BY <2>1, <2>2, <2>3
<1>9. Completo(b)
  BY <1>6, <1>8, CompletoSi
<1>. QED BY <1>3, <1>5, <1>9 DEF ArregloInv, ArregloOrdenado, b

LEMMA Arreglo_ConfCierra ==
    ASSUME ArregloInv, ConfCierra PROVE ArregloInv'
<1>1. /\ conf.pc = "cierra" /\ conf \in LocalesConf /\ conf.i < 4
      /\ queuesArray' = [queuesArray EXCEPT ![conf.i] = conf.aux]
      /\ queuesArray \in [1 .. 4 -> Entradas] /\ ALG' \in Algs
  BY DEF ConfCierra, ArregloInv, TipoConf
<1>2. conf.i \in 1 .. 4 /\ conf.aux \in Entradas
  BY <1>1 DEF LocalesConf
<1>3. conf'.pc = "ordena" /\ conf' \in LocalesConf
  <2>1. conf' = [conf EXCEPT !.pc = "ordena", !.i = conf.i + 1]
    BY DEF ConfCierra
  <2>2. conf.i + 1 \in 1 .. 4
    BY <1>1, <1>2
  <2>3. conf' \in LocalesConf
    BY <1>1, <2>1, <2>2, Zenon DEF LocalesConf
  <2>. QED BY <1>1, <2>1, <2>3 DEF LocalesConf
<1>4. TipoConf'
  BY <1>1, <1>2, <1>3 DEF TipoConf
<1>5. Completo(queuesArray)'
  BY <1>1 DEF ArregloInv, Completo
<1>. QED BY <1>3, <1>4, <1>5 DEF ArregloInv, ArregloOrdenado, Completo

LEMMA Arreglo_ConfFin ==
    ASSUME ArregloInv, ConfFin PROVE ArregloInv'
<1>1. /\ conf.pc = "ordena" /\ conf \in LocalesConf /\ Completo(queuesArray)
      /\ queuesArray \in [1 .. 4 -> Entradas] /\ UNCHANGED queuesArray
  BY DEF ConfFin, ArregloInv, TipoConf
<1>2. /\ conf'.pc = "espera" /\ conf'.prio = conf.prio
      /\ conf' \in LocalesConf
  BY <1>1 DEF ConfFin, LocalesConf
<1>3. TipoConf'
  BY <1>1, <1>2 DEF ConfFin, ArregloInv, TipoConf
<1>4. \A i \in 1 .. 3 :
          conf.prio[queuesArray[i]] <= conf.prio[queuesArray[i + 1]]
  <2>1. conf.prio \in [Entradas -> Int]
    BY <1>1, PrioAssumption DEF LocalesConf
  <2>2. SUFFICES ASSUME NEW i \in 1 .. 3
                 PROVE conf.prio[queuesArray[i]] <= conf.prio[queuesArray[i + 1]]
    OBVIOUS
  <2>3. /\ conf.prio[queuesArray[i]] \in Int
        /\ conf.prio[queuesArray[i + 1]] \in Int
    BY <1>1, <2>1
  <2>4. ~ (conf.prio[queuesArray[i]] > conf.prio[queuesArray[i + 1]])
    BY DEF ConfFin, Invertidos
  <2>. QED BY <2>3, <2>4
<1>. QED BY <1>1, <1>2, <1>3, <1>4 DEF ArregloInv, ArregloOrdenado, Completo

(* Under every algorithm and for all priorities, the exchanges of          *)
(* configure lose no queue and its sort leaves queuesArray in order, with  *)
(* the STS reading it all the time.                                        *)
THEOREM ArregloCorrecto == Spec => []ArregloOrdenado
<1>1. Init => ArregloInv
  BY ArregloInit
<1>2. ArregloInv /\ [Next]_vars => ArregloInv'
  <2>1. SUFFICES ASSUME ArregloInv, [Next]_vars PROVE ArregloInv'
    OBVIOUS
  <2>2. CASE UNCHANGED <<conf, ALG, queuesArray>>
    BY <2>1, <2>2 DEF ArregloInv, TipoConf, ArregloOrdenado, Completo
  <2>3. CASE configure
    BY <2>1, <2>3, Arreglo_ConfLee, Arreglo_ConfCopia, Arreglo_ConfCierra,
       Arreglo_ConfFin
       DEF configure
  <2>. QED BY <2>1, <2>2, <2>3, SoloConf
<1>3. ArregloInv => ArregloOrdenado
  BY DEF ArregloInv
<1>. QED BY <1>1, <1>2, <1>3, PTL DEF Spec

-----------------------------------------------------------------------------
(***************************************************************************)
(* The agreement of the counting semaphores with the queues, and what      *)
(* follows from it.  It holds for all of them under the algorithms that    *)
(* move the images one at a time (FIFO and RR); under PRI and SPN it does  *)
(* not hold for LPL (run ColaVacia), and does for the others.              *)
(***************************************************************************)

(* What of the agreement holds under every algorithm: the ready queue is   *)
(* the one that batches take out of step with its semaphore.               *)
CuentaLPL == DeAUno => SemLPL
SemInv    == SemEntradas /\ SemLFIFO /\ CuentaLPL /\ SemLPB /\ SemIO

(* What a push does to the lengths and to the semaphores.                  *)
LEMMA EfectoEncola ==
    ASSUME TipoColas, TipoSem, NEW q \in Colas, NEW p \in Procs, Encola(q, p)
    PROVE /\ Len(cola'[q]) = Len(cola[q]) + 1
          /\ sem'[q] = sem[q] + 1
          /\ \A c \in Colas \ {q} : cola'[c] = cola[c]
          /\ \A s \in Semaforos \ {q} : sem'[s] = sem[s]
<1>1. cola[q] \in Seq(Procs) /\ cola'[q] = Append(cola[q], p)
  BY DEF TipoColas, Encola
<1>2. Len(cola'[q]) = Len(cola[q]) + 1
  BY <1>1
<1>3. sem'[q] = sem[q] + 1 /\ \A s \in Semaforos \ {q} : sem'[s] = sem[s]
  BY DEF TipoSem, Encola, Semaforos
<1>4. \A c \in Colas \ {q} : cola'[c] = cola[c]
  BY DEF TipoColas, Encola
<1>. QED BY <1>2, <1>3, <1>4

(* What a pop does to the lengths.                                         *)
LEMMA EfectoPop ==
    ASSUME TipoColas, NEW q \in Colas, cola[q] # <<>>,
           cola' = [cola EXCEPT ![q] = Tail(@)]
    PROVE /\ Len(cola'[q]) = Len(cola[q]) - 1
          /\ \A c \in Colas \ {q} : cola'[c] = cola[c]
<1>1. cola[q] \in Seq(Procs) /\ cola'[q] = Tail(cola[q])
  BY DEF TipoColas
<1>2. Len(cola'[q]) = Len(cola[q]) - 1
  BY <1>1, HeadTailProperties
<1>3. \A c \in Colas \ {q} : cola'[c] = cola[c]
  BY DEF TipoColas
<1>. QED BY <1>2, <1>3

(* The sizes of queues are natural numbers, zero for the empty one.        *)
LEMMA Largos ==
    ASSUME TipoColas
    PROVE /\ \A q \in Colas : /\ Len(cola[q]) \in Nat
                              /\ Len(cola[q]) > 0 => cola[q] # <<>>
          /\ Len(LPB) \in Nat /\ (Len(LPB) > 0 => LPB # <<>>)
<1>1. \A q \in Colas : cola[q] \in Seq(Procs)
  BY DEF TipoColas
<1>2. LPB \in Seq(Pedidos)
  BY DEF TipoColas
<1>. QED BY <1>1, <1>2

(* Sets of I/O threads are finite; one more, one less.                     *)
LEMMA Contar ==
    ASSUME NEW S \in SUBSET Hilos, NEW h \in Hilos
    PROVE /\ Cardinality(S) \in Nat
          /\ h \notin S => Cardinality(S \cup {h}) = Cardinality(S) + 1
          /\ h \in S => /\ Cardinality(S) > 0
                        /\ Cardinality(S \ {h}) = Cardinality(S) - 1
<1>1. IsFiniteSet(S) /\ Cardinality(S) \in Nat
  BY HilosAssumption, FS_Subset, FS_CardinalityType
<1>2. h \notin S => Cardinality(S \cup {h}) = Cardinality(S) + 1
  BY <1>1, FS_AddElement
<1>3. ASSUME h \in S PROVE /\ Cardinality(S) > 0
                           /\ Cardinality(S \ {h}) = Cardinality(S) - 1
  <2>1. Cardinality(S \ {h}) = Cardinality(S) - 1
    BY <1>1, <1>3, FS_RemoveElement
  <2>2. IsFiniteSet(S \ {h}) /\ Cardinality(S \ {h}) \in Nat
    BY <1>1, FS_Subset, FS_CardinalityType
  <2>. QED BY <1>1, <2>1, <2>2
<1>. QED BY <1>1, <1>2, <1>3

(* How a new pc of one I/O thread changes a set of threads chosen by pc.   *)
LEMMA UnHilo ==
    ASSUME TipoIO, NEW h \in Hilos, NEW c, NEW r \in LocalesIO,
           io' = [io EXCEPT ![h] = r]
    PROVE LET S == {k \in Hilos : io[k].pc = c}
              T == {k \in Hilos : io'[k].pc = c}
          IN  /\ io[h].pc = c /\ r.pc # c => h \in S /\ T = S \ {h}
              /\ io[h].pc # c /\ r.pc = c => h \notin S /\ T = S \cup {h}
              /\ (io[h].pc = c <=> r.pc = c) => T = S
  BY DEF TipoIO

-----------------------------------------------------------------------------
(* What a step that leaves alone a queue, its semaphore and its consumer   *)
(* does to their agreement.                                                *)
LEMMA IgualEntradas ==
    ASSUME SemEntradas, UNCHANGED sts,
           \A q \in Entradas : cola'[q] = cola[q] /\ sem'[q] = sem[q]
    PROVE SemEntradas'
  BY DEF SemEntradas, UnoSi
LEMMA IgualLFIFO ==
    ASSUME SemLFIFO, cola'["LFIFO"] = cola["LFIFO"],
           sem'["LFIFO"] = sem["LFIFO"]
    PROVE SemLFIFO'
  BY DEF SemLFIFO
LEMMA IgualLPL ==
    ASSUME CuentaLPL, cola'["LPL"] = cola["LPL"], sem'["LPL"] = sem["LPL"],
           procer.pc = "pop" <=> procer'.pc = "pop"
    PROVE CuentaLPL'
  BY DEF CuentaLPL, SemLPL, DeAUno, UnoSi
LEMMA IgualLPB ==
    ASSUME SemLPB, UNCHANGED <<LPB, io>>, sem'["LPB"] = sem["LPB"]
    PROVE SemLPB'
  BY DEF SemLPB, EnPop
LEMMA IgualHilos ==
    ASSUME SemIO, UNCHANGED io, sem'["io"] = sem["io"]
    PROVE SemIO'
  BY DEF SemIO, Ociosos

(* The steps of PROCER that touch no queue.                                *)
LEMMA NadaCambia ==
    ASSUME SemInv, UNCHANGED <<cola, sem, LPB, io, sts>>,
           procer.pc = "pop" <=> procer'.pc = "pop"
    PROVE SemInv'
  BY IgualEntradas, IgualLFIFO, IgualLPL, IgualLPB, IgualHilos
     DEF SemInv

(* A push to an entry queue.                                               *)
LEMMA SemEncola ==
    ASSUME TipoColas, TipoSem, SemInv, NEW q \in Entradas,
           NEW p \in Procs, Encola(q, p), UNCHANGED <<sts, LPB>>,
           procer.pc = "pop" <=> procer'.pc = "pop"
    PROVE /\ SemEntradas' /\ SemLFIFO' /\ CuentaLPL'
          /\ sem'["LPB"] = sem["LPB"] /\ sem'["io"] = sem["io"]
<1>1. /\ Len(cola'[q]) = Len(cola[q]) + 1 /\ sem'[q] = sem[q] + 1
      /\ \A c \in Colas \ {q} : cola'[c] = cola[c]
      /\ \A s \in Semaforos \ {q} : sem'[s] = sem[s]
  BY EfectoEncola DEF Colas
<1>2. SemEntradas'
  BY <1>1, Largos
     DEF SemInv, SemEntradas, Semaforos, Colas, UnoSi, TipoSem
<1>3. SemLFIFO' /\ CuentaLPL' /\ sem'["LPB"] = sem["LPB"]
      /\ sem'["io"] = sem["io"]
  BY <1>1, IgualLFIFO, IgualLPL
     DEF SemInv, Semaforos, Colas, Entradas
<1>. QED BY <1>2, <1>3

(* The insertion of a batch.                                               *)
LEMMA SemInserta ==
    ASSUME TypeOK, SemInv, ~ DeAUno, NEW l \in Seq(Procs), NEW alg,
           Inserta(l, alg), UNCHANGED <<LPB, io>>,
           sts.pc = "pop" <=> sts'.pc = "pop", sts'.q = sts.q
    PROVE SemInv'
<1>1. /\ \A c \in Colas \ {"LPL"} : cola'[c] = cola[c]
      /\ \A s \in Semaforos \ {"LPL"} : sem'[s] = sem[s]
  BY InsertaEs
<1>2. /\ \A q \in Entradas \cup {"LFIFO"} :
            cola'[q] = cola[q] /\ sem'[q] = sem[q]
      /\ sem'["LPB"] = sem["LPB"] /\ sem'["io"] = sem["io"]
  BY <1>1 DEF Semaforos, Colas, Entradas
<1>3. SemEntradas'
  BY <1>2 DEF SemInv, SemEntradas, UnoSi
<1>4. SemLFIFO' /\ SemLPB' /\ SemIO'
  BY <1>2, IgualLFIFO, IgualLPB, IgualHilos DEF SemInv
<1>5. CuentaLPL'
  BY DEF CuentaLPL, DeAUno
<1>. QED BY <1>3, <1>4, <1>5 DEF SemInv

LEMMA Sem_LTSEnvia ==
    ASSUME TypeOK, SemInv, NEW p \in Procs, LTSEnvia(p)
    PROVE SemInv'
  BY NadaCambia
     DEF LTSEnvia, imagenes, hilosPP

LEMMA Sem_PIReanuda ==
    ASSUME TypeOK, SemInv, NEW p \in Procs, PIReanuda(p)
    PROVE SemInv'
  BY NadaCambia
     DEF PIReanuda, imagenes, hilosPP

LEMMA Sem_ConfCopia ==
    ASSUME TypeOK, SemInv, ConfCopia
    PROVE SemInv'
  BY NadaCambia
     DEF ConfCopia, imagenes

LEMMA Sem_ConfCierra ==
    ASSUME TypeOK, SemInv, ConfCierra
    PROVE SemInv'
  BY NadaCambia
     DEF ConfCierra, imagenes

LEMMA Sem_ConfFin ==
    ASSUME TypeOK, SemInv, ConfFin
    PROVE SemInv'
  BY NadaCambia
     DEF ConfFin, imagenes

LEMMA Sem_SIGUSR1 ==
    ASSUME TypeOK, SemInv, SIGUSR1
    PROVE SemInv'
  BY NadaCambia
     DEF SIGUSR1, imagenes, hilosPP

LEMMA Sem_ConfLee ==
    ASSUME TypeOK, SemInv, NEW alg \in Algs, NEW pr \in PrioColas,
           ConfLee(alg, pr)
    PROVE SemInv'
<1>1. CASE PorLotes(alg)
  <2>1. <<>> \in Seq(Procs)
    OBVIOUS
  <2>2. ~ DeAUno /\ Inserta(<<>>, alg) /\ UNCHANGED <<LPB, io, sts>>
    BY <1>1 DEF ConfLee, DeAUno, PorLotes
  <2>. QED BY <2>1, <2>2, SemInserta
<1>2. CASE ~ PorLotes(alg)
  BY <1>2, NadaCambia DEF ConfLee, imagenes
<1>. QED BY <1>1, <1>2

LEMMA Sem_EjecutaSimple ==
    ASSUME TypeOK, SemInv, EjecutaSimple
    PROVE SemInv'
  BY NadaCambia
     DEF EjecutaSimple, Ejecuta, Computa, config, TypeOK, TipoPROCER,
         LocalesPROCER

LEMMA Sem_EjecutaSalto ==
    ASSUME TypeOK, SemInv, EjecutaSalto
    PROVE SemInv'
  BY NadaCambia
     DEF EjecutaSalto, Ejecuta, Computa, config, TypeOK, TipoPROCER,
         LocalesPROCER

LEMMA Sem_EjecutaXIO0 ==
    ASSUME TypeOK, SemInv, EjecutaXIO0
    PROVE SemInv'
  BY NadaCambia
     DEF EjecutaXIO0, Ejecuta, Computa, config, TypeOK, TipoPROCER,
         LocalesPROCER

LEMMA Sem_ProcerSale ==
    ASSUME TypeOK, SemInv, ProcerSale
    PROVE SemInv'
  BY NadaCambia
     DEF ProcerSale, config, TypeOK, TipoPROCER, LocalesPROCER

LEMMA Sem_ProcerFinaliza ==
    ASSUME TypeOK, SemInv, ProcerFinaliza
    PROVE SemInv'
  BY NadaCambia
     DEF ProcerFinaliza, config, TypeOK, TipoPROCER, LocalesPROCER

LEMMA Sem_ProcerBloqueado ==
    ASSUME TypeOK, SemInv, ProcerBloqueado
    PROVE SemInv'
  BY NadaCambia
     DEF ProcerBloqueado, ProcerVuelve, imagenes, config, TypeOK, TipoPROCER,
         LocalesPROCER

LEMMA Sem_ProcerAvisaPI ==
    ASSUME TypeOK, SemInv, ProcerAvisaPI
    PROVE SemInv'
  BY NadaCambia
     DEF ProcerAvisaPI, ProcerVuelve, imagenes, config, TypeOK, TipoPROCER,
         LocalesPROCER

LEMMA Sem_LTSAcepta ==
    ASSUME TypeOK, SemInv, NEW p \in Procs, LTSAcepta(p)
    PROVE SemInv'
<1>1. SemEntradas' /\ SemLFIFO' /\ CuentaLPL' /\ SemLPB' /\ SemIO'
  BY IgualEntradas, IgualLFIFO, IgualLPL, IgualLPB, IgualHilos
     DEF SemInv, LTSAcepta, TypeOK, TipoSem, TipoColas, Semaforos,
         Colas, Entradas
<1>. QED BY <1>1 DEF SemInv

LEMMA Sem_LTSReanuda ==
    ASSUME TypeOK, SemInv, NEW p \in Procs, LTSReanuda(p)
    PROVE SemInv'
<1>1. SemEntradas' /\ SemLFIFO' /\ CuentaLPL' /\ SemLPB' /\ SemIO'
  BY IgualEntradas, IgualLFIFO, IgualLPL, IgualLPB, IgualHilos
     DEF SemInv, LTSReanuda, TypeOK, TipoSem, TipoColas, Semaforos,
         Colas, Entradas, config
<1>. QED BY <1>1 DEF SemInv

LEMMA Sem_LTSAvisa ==
    ASSUME TypeOK, SemInv, LTSAvisa
    PROVE SemInv'
<1>1. SemEntradas' /\ SemLFIFO' /\ CuentaLPL' /\ SemLPB' /\ SemIO'
  BY IgualEntradas, IgualLFIFO, IgualLPL, IgualLPB, IgualHilos
     DEF SemInv, LTSAvisa, TypeOK, TipoSem, TipoColas, Semaforos,
         Colas, Entradas, imagenes, config, Avisa
<1>. QED BY <1>1 DEF SemInv

LEMMA Sem_NewAvisa ==
    ASSUME TypeOK, SemInv, NewAvisa
    PROVE SemInv'
<1>1. SemEntradas' /\ SemLFIFO' /\ CuentaLPL' /\ SemLPB' /\ SemIO'
  BY IgualEntradas, IgualLFIFO, IgualLPL, IgualLPB, IgualHilos
     DEF SemInv, NewAvisa, TypeOK, TipoSem, TipoColas, Semaforos,
         Colas, Entradas, imagenes, config, Avisa
<1>. QED BY <1>1 DEF SemInv

LEMMA Sem_ProcerLibera ==
    ASSUME TypeOK, SemInv, ProcerLibera
    PROVE SemInv'
<1>1. SemEntradas' /\ SemLFIFO' /\ CuentaLPL' /\ SemLPB' /\ SemIO'
  BY IgualEntradas, IgualLFIFO, IgualLPL, IgualLPB, IgualHilos
     DEF SemInv, ProcerLibera, TypeOK, TipoSem, TipoColas,
         Semaforos, Colas, Entradas, imagenes, config, ProcerVuelve,
         TipoPROCER, LocalesPROCER
<1>. QED BY <1>1 DEF SemInv

LEMMA Sem_ProcerAvisa ==
    ASSUME TypeOK, SemInv, ProcerAvisa
    PROVE SemInv'
<1>1. SemEntradas' /\ SemLFIFO' /\ CuentaLPL' /\ SemLPB' /\ SemIO'
  BY IgualEntradas, IgualLFIFO, IgualLPL, IgualLPB, IgualHilos
     DEF SemInv, ProcerAvisa, TypeOK, TipoSem, TipoColas, Semaforos,
         Colas, Entradas, imagenes, config, Avisa, ProcerVuelve, TipoPROCER,
         LocalesPROCER
<1>. QED BY <1>1 DEF SemInv

LEMMA Sem_ProcerSuspende ==
    ASSUME TypeOK, SemInv, ProcerSuspende
    PROVE SemInv'
<1>1. SemEntradas' /\ SemLFIFO' /\ CuentaLPL' /\ SemLPB' /\ SemIO'
  BY IgualEntradas, IgualLFIFO, IgualLPL, IgualLPB, IgualHilos
     DEF SemInv, ProcerSuspende, TypeOK, TipoSem, TipoColas,
         Semaforos, Colas, Entradas, config, TipoPROCER, LocalesPROCER
<1>. QED BY <1>1 DEF SemInv

LEMMA Sem_LTSEncola ==
    ASSUME TypeOK, SemInv, LTSEncola
    PROVE SemInv'
<1>1. lts.img \in Procs
  BY DEF TypeOK, LTSEncola, TipoLTS
<1>2. lts.q \in Entradas
  BY DEF TypeOK, TipoLTS, Entradas
<1>3. /\ SemEntradas' /\ SemLFIFO' /\ CuentaLPL'
      /\ sem'["LPB"] = sem["LPB"] /\ sem'["io"] = sem["io"]
  BY <1>1, <1>2, SemEncola
     DEF TypeOK, LTSEncola
<1>4. SemLPB' /\ SemIO'
  BY <1>3, IgualLPB, IgualHilos
     DEF SemInv, LTSEncola
<1>. QED BY <1>3, <1>4 DEF SemInv

LEMMA Sem_NewEncola ==
    ASSUME TypeOK, SemInv, NewEncola
    PROVE SemInv'
<1>1. lnew.img \in Procs
  BY DEF TypeOK, NewEncola, TipoNew
<1>2. /\ SemEntradas' /\ SemLFIFO' /\ CuentaLPL'
      /\ sem'["LPB"] = sem["LPB"] /\ sem'["io"] = sem["io"]
  BY <1>1, SemEncola
     DEF TypeOK, NewEncola, Entradas
<1>3. SemLPB' /\ SemIO'
  BY <1>2, IgualLPB, IgualHilos
     DEF SemInv, NewEncola
<1>. QED BY <1>2, <1>3 DEF SemInv

LEMMA Sem_ProcerFinQuantum ==
    ASSUME TypeOK, SemInv, ProcerFinQuantum
    PROVE SemInv'
<1>1. img \in Procs
  BY DEF TypeOK, ProcerFinQuantum, TipoPROCER, LocalesPROCER, img
<1>2. /\ SemEntradas' /\ SemLFIFO' /\ CuentaLPL'
      /\ sem'["LPB"] = sem["LPB"] /\ sem'["io"] = sem["io"]
  BY <1>1, SemEncola
     DEF TypeOK, ProcerFinQuantum, Entradas, TipoPROCER, LocalesPROCER
<1>3. SemLPB' /\ SemIO'
  BY <1>2, IgualLPB, IgualHilos
     DEF SemInv, ProcerFinQuantum
<1>. QED BY <1>2, <1>3 DEF SemInv

LEMMA Sem_LTSDemora ==
    ASSUME TypeOK, SemInv, LTSDemora
    PROVE SemInv'
<1>1. lts.img \in Procs /\ "LFIFO" \in Colas
  BY DEF TypeOK, LTSDemora, TipoLTS, Colas
<1>2. /\ Len(cola'["LFIFO"]) = Len(cola["LFIFO"]) + 1
      /\ sem'["LFIFO"] = sem["LFIFO"] + 1
      /\ \A c \in Colas \ {"LFIFO"} : cola'[c] = cola[c]
      /\ \A s \in Semaforos \ {"LFIFO"} : sem'[s] = sem[s]
  BY <1>1, EfectoEncola DEF TypeOK, LTSDemora
<1>3. SemLFIFO'
  BY <1>2 DEF SemInv, SemLFIFO
<1>4. SemEntradas' /\ CuentaLPL' /\ SemLPB' /\ SemIO'
  BY <1>2, IgualEntradas, IgualLPL, IgualLPB, IgualHilos
     DEF SemInv, LTSDemora, Semaforos, Colas, Entradas
<1>. QED BY <1>3, <1>4 DEF SemInv

LEMMA Sem_NewToma ==
    ASSUME TypeOK, SemInv, NewToma
    PROVE SemInv'
<1>1. cola["LFIFO"] # <<>>
  BY Largos
     DEF NewToma, SemInv, SemLFIFO, TypeOK, Colas
<1>2. /\ Len(cola'["LFIFO"]) = Len(cola["LFIFO"]) - 1
      /\ \A c \in Colas \ {"LFIFO"} : cola'[c] = cola[c]
  BY <1>1, EfectoPop DEF NewToma, TypeOK, Colas
<1>3. /\ sem'["LFIFO"] = sem["LFIFO"] - 1
      /\ \A s \in Semaforos \ {"LFIFO", "MMP"} : sem'[s] = sem[s]
  BY DEF NewToma, TypeOK, TipoSem, Semaforos, Colas
<1>4. SemLFIFO'
  BY <1>2, <1>3 DEF SemInv, SemLFIFO
<1>5. SemEntradas' /\ CuentaLPL' /\ SemLPB' /\ SemIO'
  BY <1>2, <1>3, IgualEntradas, IgualLPL, IgualLPB, IgualHilos
     DEF SemInv, NewToma, Semaforos, Colas, Entradas
<1>. QED BY <1>4, <1>5 DEF SemInv

LEMMA Sem_STSEspera ==
    ASSUME TypeOK, SemInv, STSEspera
    PROVE SemInv'
<1>1. SemEntradas'
  BY DEF SemInv, SemEntradas, STSEspera, imagenes, config, TypeOK,
         TipoSTS, LocalesSTS, UnoSi
<1>2. SemLFIFO' /\ CuentaLPL' /\ SemLPB' /\ SemIO'
  BY IgualLFIFO, IgualLPL, IgualLPB, IgualHilos
     DEF SemInv, STSEspera
<1>. QED BY <1>1, <1>2 DEF SemInv

LEMMA Sem_STSCola ==
    ASSUME TypeOK, SemInv, STSCola
    PROVE SemInv'
<1>1. SemEntradas'
  BY DEF SemInv, SemEntradas, STSCola, imagenes, config, TypeOK,
         TipoSTS, LocalesSTS, UnoSi
<1>2. SemLFIFO' /\ CuentaLPL' /\ SemLPB' /\ SemIO'
  BY IgualLFIFO, IgualLPL, IgualLPB, IgualHilos
     DEF SemInv, STSCola
<1>. QED BY <1>1, <1>2 DEF SemInv

LEMMA Sem_STSAvanza ==
    ASSUME TypeOK, SemInv, STSAvanza
    PROVE SemInv'
<1>1. SemEntradas'
  BY DEF SemInv, SemEntradas, STSAvanza, imagenes, config, TypeOK,
         TipoSTS, LocalesSTS, UnoSi
<1>2. SemLFIFO' /\ CuentaLPL' /\ SemLPB' /\ SemIO'
  BY IgualLFIFO, IgualLPL, IgualLPB, IgualHilos
     DEF SemInv, STSAvanza
<1>. QED BY <1>1, <1>2 DEF SemInv

LEMMA Sem_STSToma ==
    ASSUME TypeOK, SemInv, STSToma
    PROVE SemInv'
<1>1. sts.q \in Entradas
  BY DEF TypeOK, TipoSTS, LocalesSTS
<1>2. /\ sem'[sts.q] = sem[sts.q] - 1
      /\ \A s \in Semaforos \ {sts.q, "STS_in"} : sem'[s] = sem[s]
  BY <1>1 DEF STSToma, TypeOK, TipoSem, Semaforos, Colas, Entradas
<1>3. sts'.pc = "pop" /\ sts'.q = sts.q
  BY DEF STSToma, TypeOK, TipoSTS, LocalesSTS
<1>4. \A q \in Entradas : sem[q] \in Nat /\ sem[q] - 1 + 1 = sem[q]
  BY DEF TypeOK, TipoSem, Semaforos, Colas
<1>5. SemEntradas'
  <2>1. SUFFICES ASSUME NEW q \in Entradas
                 PROVE Len(cola[q]) = sem'[q] + UnoSi(sts.q = q)
    BY <1>3 DEF SemEntradas, UnoSi, STSToma
  <2>2. Len(cola[q]) = sem[q]
    BY <1>4 DEF SemInv, SemEntradas, STSToma, UnoSi
  <2>3. CASE q = sts.q
    BY <1>2, <1>4, <2>2, <2>3 DEF UnoSi
  <2>4. CASE q # sts.q
    <3>1. sem'[q] = sem[q]
      BY <1>2, <2>4 DEF Semaforos, Colas, Entradas
    <3>. QED BY <3>1, <1>4, <2>2, <2>4 DEF UnoSi
  <2>. QED BY <2>3, <2>4
<1>6. SemLFIFO' /\ CuentaLPL' /\ SemLPB' /\ SemIO'
  <2>1. \A s \in {"LFIFO", "LPL", "LPB", "io"} : sem'[s] = sem[s]
    BY <1>1, <1>2 DEF Semaforos, Colas, Entradas
  <2>. QED BY <2>1, IgualLFIFO, IgualLPL, IgualLPB, IgualHilos
           DEF SemInv, STSToma
<1>. QED BY <1>5, <1>6 DEF SemInv

LEMMA Sem_STSPop ==
    ASSUME TypeOK, SemInv, STSPop
    PROVE SemInv'
<1>1. sts.q \in Entradas /\ sts.q \in Colas /\ sts.pc = "pop"
  BY DEF TypeOK, TipoSTS, LocalesSTS, Colas, STSPop
<1>2. Len(cola[sts.q]) = sem[sts.q] + 1 /\ sem[sts.q] \in Nat
  BY <1>1
     DEF SemInv, SemEntradas, UnoSi, TypeOK, TipoSem, Semaforos
<1>3. cola[sts.q] # <<>>
  BY <1>1, <1>2, Largos DEF TypeOK
<1>4. cola' = [cola EXCEPT ![sts.q] = Tail(@)] /\ sts'.pc # "pop"
  BY <1>3 DEF STSPop, TypeOK, TipoSTS, LocalesSTS
<1>5. /\ Len(cola'[sts.q]) = Len(cola[sts.q]) - 1
      /\ \A c \in Colas \ {sts.q} : cola'[c] = cola[c]
  BY <1>1, <1>3, <1>4, EfectoPop DEF TypeOK
<1>6. SemEntradas'
  <2>1. SUFFICES ASSUME NEW q \in Entradas
                 PROVE Len(cola'[q]) = sem[q]
    BY <1>4 DEF SemEntradas, UnoSi, STSPop, TypeOK, TipoSem, Semaforos, Colas
  <2>2. CASE q = sts.q
    BY <1>2, <1>5, <2>2
  <2>3. CASE q # sts.q
    BY <1>5, <2>3
       DEF SemInv, SemEntradas, UnoSi, Colas, TypeOK, TipoSem,
           Semaforos
  <2>. QED BY <2>2, <2>3
<1>7. SemLFIFO' /\ CuentaLPL' /\ SemLPB' /\ SemIO'
  <2>1. \A c \in {"LFIFO", "LPL"} : cola'[c] = cola[c]
    BY <1>1, <1>5 DEF Colas, Entradas
  <2>. QED BY <2>1, IgualLFIFO, IgualLPL, IgualLPB, IgualHilos
           DEF SemInv, STSPop
<1>. QED BY <1>6, <1>7 DEF SemInv

LEMMA Sem_STSPush ==
    ASSUME TypeOK, SemInv, STSPush
    PROVE SemInv'
<1>1. sts.img \in Procs /\ "LPL" \in Colas
  BY DEF TypeOK, STSPush, TipoSTS, LocalesSTS, Colas
<1>2. /\ Len(cola'["LPL"]) = Len(cola["LPL"]) + 1
      /\ sem'["LPL"] = sem["LPL"] + 1
      /\ \A c \in Colas \ {"LPL"} : cola'[c] = cola[c]
      /\ \A s \in Semaforos \ {"LPL"} : sem'[s] = sem[s]
  BY <1>1, EfectoEncola DEF TypeOK, STSPush
<1>3. CuentaLPL'
  BY <1>2, Largos
     DEF SemInv, CuentaLPL, SemLPL, DeAUno, STSPush, UnoSi, TypeOK, TipoSem, Semaforos,
         Colas
<1>4. sts.pc # "pop" /\ sts'.pc # "pop"
  BY DEF STSPush, TypeOK, TipoSTS, LocalesSTS
<1>5. \A q \in Entradas : cola'[q] = cola[q] /\ sem'[q] = sem[q]
  BY <1>2 DEF Semaforos, Colas, Entradas
<1>6. SemEntradas'
  BY <1>4, <1>5 DEF SemInv, SemEntradas, UnoSi
<1>7. SemLFIFO' /\ SemLPB' /\ SemIO'
  BY <1>2, IgualLFIFO, IgualLPB, IgualHilos
     DEF SemInv, STSPush, Semaforos, Colas
<1>. QED BY <1>3, <1>6, <1>7 DEF SemInv

LEMMA Sem_ProcerEspera ==
    ASSUME TypeOK, SemInv, ProcerEspera
    PROVE SemInv'
<1>1. /\ sem["LPL"] \in Nat /\ sem'["LPL"] = sem["LPL"] - 1
      /\ \A s \in Semaforos \ {"LPL"} : sem'[s] = sem[s]
  BY DEF ProcerEspera, TypeOK, TipoSem, Semaforos, Colas
<1>2. procer.pc # "pop" /\ procer'.pc = "pop"
  BY DEF ProcerEspera, TypeOK, TipoPROCER, LocalesPROCER
<1>3. CuentaLPL'
  BY <1>1, <1>2
     DEF SemInv, CuentaLPL, SemLPL, DeAUno, ProcerEspera, UnoSi
<1>4. SemEntradas' /\ SemLFIFO' /\ SemLPB' /\ SemIO'
  BY <1>1, IgualEntradas, IgualLFIFO, IgualLPB, IgualHilos
     DEF SemInv, ProcerEspera, Semaforos, Colas, Entradas
<1>. QED BY <1>3, <1>4 DEF SemInv

LEMMA Sem_ProcerPop ==
    ASSUME TypeOK, SemInv, ProcerPop
    PROVE SemInv'
<1>1. \A c \in Colas \ {"LPL"} : cola'[c] = cola[c]
  BY DEF ProcerPop, TypeOK, TipoColas
<1>2. ASSUME DeAUno PROVE SemLPL'
  <2>1. Len(cola["LPL"]) = sem["LPL"] + 1 /\ sem["LPL"] \in Nat
    BY <1>2 DEF ProcerPop, SemInv, CuentaLPL, SemLPL, UnoSi, TypeOK, TipoSem,
                Semaforos, Colas
  <2>2. cola["LPL"] # <<>>
    BY <2>1, Largos DEF TypeOK, Colas
  <2>3. cola' = [cola EXCEPT !["LPL"] = Tail(@)] /\ procer'.pc # "pop"
    BY <2>2 DEF ProcerPop
  <2>4. Len(cola'["LPL"]) = Len(cola["LPL"]) - 1
    BY <2>2, <2>3, EfectoPop DEF TypeOK, Colas
  <2>. QED BY <2>1, <2>3, <2>4 DEF SemLPL, UnoSi, ProcerPop
<1>3. CuentaLPL'
  BY <1>2 DEF CuentaLPL, DeAUno
<1>4. SemEntradas' /\ SemLFIFO' /\ SemLPB' /\ SemIO'
  BY <1>1, IgualEntradas, IgualLFIFO, IgualLPB, IgualHilos
     DEF SemInv, ProcerPop, Colas, Entradas
<1>. QED BY <1>3, <1>4 DEF SemInv

(* An I/O request of the image in execution.                               *)
LEMMA SemPide ==
    ASSUME TypeOK, SemInv, NEW b \in BOOLEAN, procer.pc = "ejecuta",
           procer'.pc = "ejecuta", PideIO(b), UNCHANGED <<cola, sts, io>>
    PROVE SemInv'
<1>1. /\ sem["LPB"] \in Nat /\ sem'["LPB"] = sem["LPB"] + 1
      /\ \A s \in Semaforos \ {"LPB"} : sem'[s] = sem[s]
  BY DEF PideIO, TypeOK, TipoSem, Semaforos
<1>2. img \in Procs
  BY DEF TypeOK, TipoPROCER, LocalesPROCER, img
<1>3. [img |-> img, nb |-> b] \in Pedidos
  BY <1>2 DEF Pedidos
<1>4. Len(LPB') = Len(LPB) + 1
  BY <1>3 DEF PideIO, TypeOK, TipoColas
<1>5. Cardinality(EnPop) \in Nat /\ EnPop' = EnPop
  BY HilosAssumption, FS_Subset, FS_CardinalityType DEF EnPop
<1>6. SemLPB'
  BY <1>1, <1>4, <1>5 DEF SemInv, SemLPB
<1>7. SemEntradas' /\ SemLFIFO' /\ CuentaLPL' /\ SemIO'
  BY <1>1, IgualEntradas, IgualLFIFO, IgualLPL, IgualHilos
     DEF SemInv, Semaforos, Colas, Entradas
<1>. QED BY <1>6, <1>7 DEF SemInv

LEMMA Sem_EjecutaIOBloqueante ==
    ASSUME TypeOK, SemInv, EjecutaIOBloqueante
    PROVE SemInv'
<1>1. procer.pc = "ejecuta" /\ procer'.pc = "ejecuta"
  BY DEF EjecutaIOBloqueante, Ejecuta, Computa, TypeOK, TipoPROCER,
         LocalesPROCER
<1>. QED BY <1>1, SemPide DEF EjecutaIOBloqueante

LEMMA Sem_EjecutaIONoBloqueante ==
    ASSUME TypeOK, SemInv, EjecutaIONoBloqueante
    PROVE SemInv'
<1>1. procer.pc = "ejecuta" /\ procer'.pc = "ejecuta"
  BY DEF EjecutaIONoBloqueante, Ejecuta, Computa, TypeOK, TipoPROCER,
         LocalesPROCER
<1>2. CASE HayHilo
  BY <1>1, <1>2, SemPide DEF EjecutaIONoBloqueante
<1>3. CASE ~ HayHilo
  BY <1>1, <1>3, NadaCambia DEF EjecutaIONoBloqueante
<1>. QED BY <1>2, <1>3

LEMMA Sem_IOToma ==
    ASSUME TypeOK, SemInv, NEW h \in Hilos, IOToma(h)
    PROVE SemInv'
<1>1. io' = [io EXCEPT ![h] = [io[h] EXCEPT !.pc = "pop"]]
  BY DEF IOToma
<1>2. [io[h] EXCEPT !.pc = "pop"] \in LocalesIO
  BY DEF TypeOK, TipoIO, LocalesIO
<1>3. [io[h] EXCEPT !.pc = "pop"].pc = "pop" /\ io[h].pc = "espera"
  BY DEF TypeOK, TipoIO, LocalesIO, IOToma
<1>4. h \notin EnPop /\ EnPop' = EnPop \cup {h}
  BY <1>1, <1>2, <1>3, UnHilo DEF TypeOK, EnPop
<1>5. h \in Ociosos /\ Ociosos' = Ociosos \ {h}
  BY <1>1, <1>2, <1>3, UnHilo DEF TypeOK, Ociosos
<1>6. /\ sem["LPB"] \in Nat /\ sem'["LPB"] = sem["LPB"] - 1
      /\ sem["io"] \in Nat /\ sem'["io"] = sem["io"] - 1
      /\ \A s \in Semaforos \ {"LPB", "io"} : sem'[s] = sem[s]
  BY DEF IOToma, TypeOK, TipoSem, Semaforos
<1>7. /\ Cardinality(EnPop) \in Nat
      /\ Cardinality(EnPop') = Cardinality(EnPop) + 1
      /\ Cardinality(Ociosos') = Cardinality(Ociosos) - 1
  BY <1>4, <1>5, Contar DEF EnPop, Ociosos
<1>8. SemLPB' /\ SemIO'
  <2>1. SemLPB'
    BY <1>6, <1>7 DEF SemInv, SemLPB, IOToma
  <2>2. SemIO'
    BY <1>6, <1>7 DEF SemInv, SemIO
  <2>. QED BY <2>1, <2>2
<1>9. SemEntradas' /\ SemLFIFO' /\ CuentaLPL'
  BY <1>6, IgualEntradas, IgualLFIFO, IgualLPL
     DEF SemInv, IOToma, Semaforos, Colas, Entradas
<1>. QED BY <1>8, <1>9 DEF SemInv

LEMMA Sem_IOPop ==
    ASSUME TypeOK, SemInv, NEW h \in Hilos, IOPop(h)
    PROVE SemInv'
<1>1. h \in EnPop /\ io[h].pc = "pop"
  BY DEF IOPop, EnPop
<1>2. /\ Cardinality(EnPop) \in Nat /\ Cardinality(EnPop) > 0
      /\ Cardinality(EnPop \ {h}) = Cardinality(EnPop) - 1
  BY <1>1, Contar DEF EnPop
<1>3. sem["LPB"] \in Nat
  BY DEF TypeOK, TipoSem, Semaforos
<1>4. LPB # <<>>
  BY <1>2, <1>3, Largos DEF SemInv, SemLPB, TypeOK
<1>5. Head(LPB) \in Pedidos /\ Len(LPB') = Len(LPB) - 1 /\ Len(LPB) \in Nat
  BY <1>4, HeadTailProperties, Largos DEF IOPop, TypeOK, TipoColas
<1> DEFINE r == [pc  |-> IF Head(LPB).nb THEN "fin" ELSE "es",
                 img |-> Head(LPB).img, nb |-> Head(LPB).nb]
<1>6. io' = [io EXCEPT ![h] = r]
  BY <1>4 DEF IOPop
<1>7. r \in LocalesIO /\ r.pc # "pop" /\ r.pc # "espera"
  <2>1. Head(LPB).nb \in BOOLEAN /\ Head(LPB).img \in Procs
    BY <1>5, Zenon DEF Pedidos
  <2>2. r.pc \in {"fin", "es"}
    OBVIOUS
  <2>3. r \in LocalesIO
    BY <2>1, Zenon DEF LocalesIO
  <2>. QED BY <2>2, <2>3
<1> HIDE DEF r
<1>8. EnPop' = EnPop \ {h}
  <2>1. TipoIO /\ io[h].pc = "pop" /\ r.pc # "pop" /\ r \in LocalesIO
    BY <1>1, <1>7 DEF TypeOK
  <2>2. {k \in Hilos : io'[k].pc = "pop"}
            = {k \in Hilos : io[k].pc = "pop"} \ {h}
    BY <2>1, <1>6 DEF TipoIO
  <2>. QED BY <2>2 DEF EnPop
<1>9. Ociosos' = Ociosos
  BY <1>1, <1>6, <1>7, UnHilo DEF TypeOK, Ociosos
<1>10. SemLPB' /\ SemIO'
  BY <1>2, <1>3, <1>5, <1>8, <1>9 DEF SemInv, SemLPB, SemIO, IOPop
<1>11. SemEntradas' /\ SemLFIFO' /\ CuentaLPL'
  BY IgualEntradas, IgualLFIFO, IgualLPL DEF SemInv, IOPop
<1>. QED BY <1>10, <1>11 DEF SemInv

LEMMA Sem_IOEncola ==
    ASSUME TypeOK, SemInv, NEW h \in Hilos, IOEncola(h)
    PROVE SemInv'
<1>1. io[h].img \in Procs
  BY DEF TypeOK, TipoIO, IOEncola
<1>2. /\ SemEntradas' /\ SemLFIFO' /\ CuentaLPL'
      /\ sem'["LPB"] = sem["LPB"] /\ sem'["io"] = sem["io"]
  BY <1>1, SemEncola DEF TypeOK, IOEncola, Entradas
<1>3. io' = [io EXCEPT ![h] = [io[h] EXCEPT !.pc = "avisa"]]
  BY DEF IOEncola
<1>4. /\ [io[h] EXCEPT !.pc = "avisa"] \in LocalesIO
      /\ [io[h] EXCEPT !.pc = "avisa"].pc = "avisa" /\ io[h].pc = "es"
  BY DEF TypeOK, TipoIO, LocalesIO, IOEncola
<1>5. EnPop' = EnPop /\ Ociosos' = Ociosos
  BY <1>3, <1>4, UnHilo DEF TypeOK, EnPop, Ociosos
<1>6. SemLPB' /\ SemIO'
  BY <1>2, <1>5 DEF SemInv, SemLPB, SemIO, IOEncola
<1>. QED BY <1>2, <1>6 DEF SemInv

LEMMA Sem_IOAvisa ==
    ASSUME TypeOK, SemInv, NEW h \in Hilos, IOAvisa(h)
    PROVE SemInv'
<1>1. \A s \in Semaforos \ {"STS_in"} : sem'[s] = sem[s]
  BY DEF IOAvisa, Avisa, TypeOK, TipoSem, Semaforos
<1>2. io' = [io EXCEPT ![h] = [io[h] EXCEPT !.pc = "fin"]]
  BY DEF IOAvisa
<1>3. /\ [io[h] EXCEPT !.pc = "fin"] \in LocalesIO
      /\ [io[h] EXCEPT !.pc = "fin"].pc = "fin" /\ io[h].pc = "avisa"
  BY DEF TypeOK, TipoIO, LocalesIO, IOAvisa
<1>4. EnPop' = EnPop /\ Ociosos' = Ociosos
  BY <1>2, <1>3, UnHilo DEF TypeOK, EnPop, Ociosos
<1>5. SemLPB' /\ SemIO'
  BY <1>1, <1>4 DEF SemInv, SemLPB, SemIO, IOAvisa, Semaforos
<1>6. SemEntradas' /\ SemLFIFO' /\ CuentaLPL'
  BY <1>1, IgualEntradas, IgualLFIFO, IgualLPL
     DEF SemInv, IOAvisa, Semaforos, Colas, Entradas
<1>. QED BY <1>5, <1>6 DEF SemInv

LEMMA Sem_IOFin ==
    ASSUME TypeOK, SemInv, NEW h \in Hilos, IOFin(h)
    PROVE SemInv'
<1> DEFINE r == [pc |-> "espera", img |-> Nadie, nb |-> FALSE]
<1>1. io' = [io EXCEPT ![h] = r] /\ io[h].pc = "fin"
  BY DEF IOFin
<1>2. r \in LocalesIO /\ r.pc = "espera"
  BY DEF LocalesIO
<1>3. EnPop' = EnPop
  BY <1>1, <1>2, UnHilo DEF TypeOK, EnPop
<1>4. h \notin Ociosos /\ Ociosos' = Ociosos \cup {h}
  BY <1>1, <1>2, UnHilo DEF TypeOK, Ociosos
<1>5. Cardinality(Ociosos') = Cardinality(Ociosos) + 1
  BY <1>4, Contar DEF Ociosos
<1>6. /\ sem["io"] \in Nat /\ sem'["io"] = sem["io"] + 1
      /\ \A s \in Semaforos \ {"io"} : sem'[s] = sem[s]
  BY DEF IOFin, TypeOK, TipoSem, Semaforos
<1>7. SemLPB' /\ SemIO'
  BY <1>3, <1>5, <1>6 DEF SemInv, SemLPB, SemIO, IOFin, Semaforos
<1>8. SemEntradas' /\ SemLFIFO' /\ CuentaLPL'
  BY <1>6, IgualEntradas, IgualLFIFO, IgualLPL
     DEF SemInv, IOFin, Semaforos, Colas, Entradas
<1>. QED BY <1>7, <1>8 DEF SemInv

-----------------------------------------------------------------------------
LEMMA Sem_STSInserta ==
    ASSUME TypeOK, SemInv, DeAUno => SinLotes, STSInserta
    PROVE SemInv'
<1>1. sts.prioList \in Seq(Procs) /\ sts \in LocalesSTS
  BY DEF TypeOK, TipoSTS, LocalesSTS
<1>2. ~ DeAUno
  BY DEF STSInserta, SinLotes
<1>3. /\ sts.pc = "inserta" /\ sts'.pc = "espera" /\ sts'.q = sts.q
      /\ Inserta(sts.prioList, sts.alg) /\ UNCHANGED <<LPB, io>>
  BY <1>1 DEF STSInserta, LocalesSTS
<1>. QED BY <1>1, <1>2, <1>3, SemInserta

(* At the start every queue is empty and every I/O thread is free.         *)
LEMMA InitSem == ASSUME Init PROVE SemInv
<1>1. \A q \in Colas : cola[q] = <<>>
  BY DEF Init
<1>2. \A s \in Semaforos \ {"MPS", "MMP", "io"} : sem[s] = 0
  BY DEF Init
<1>3. sem["io"] = Cardinality(Hilos)
  BY DEF Init, Semaforos
<1>4. sts.pc # "pop" /\ procer.pc # "pop" /\ LPB = <<>>
  BY DEF Init
<1>5. EnPop = {} /\ Ociosos = Hilos
  BY DEF Init, EnPop, Ociosos
<1>6. SemEntradas /\ SemLFIFO /\ CuentaLPL
  <2>1. SemLPL
    BY <1>1, <1>2, <1>4 DEF SemLPL, UnoSi, Semaforos, Colas
  <2>2. SemEntradas
    BY <1>1, <1>2, <1>4 DEF SemEntradas, UnoSi, Semaforos, Colas, Entradas
  <2>3. SemLFIFO
    BY <1>1, <1>2, <1>4 DEF SemLFIFO, UnoSi, Semaforos, Colas
  <2>. QED BY <2>1, <2>2, <2>3 DEF CuentaLPL
<1>7. SemLPB /\ SemIO
  BY <1>2, <1>3, <1>4, <1>5, FS_EmptySet DEF SemLPB, SemIO, Semaforos
<1>. QED BY <1>6, <1>7 DEF SemInv

(* Every step preserves the agreement.                                     *)
LEMMA SemPaso ==
    ASSUME TypeOK, DeAUno => SinLotes, SemInv, [Next]_vars
    PROVE SemInv'
<1>1. CASE UNCHANGED vars
  BY <1>1, NadaCambia DEF vars
<1>2. CASE LTSconex
  BY <1>2, Sem_LTSDemora, Sem_LTSEncola, Sem_LTSAvisa, Sem_LTSAcepta,
           Sem_LTSReanuda, Sem_LTSEnvia
     DEF LTSconex
<1>3. CASE LTSnew
  BY <1>3, Sem_NewToma, Sem_NewEncola, Sem_NewAvisa
     DEF LTSnew
<1>4. CASE STS
  BY <1>4, Sem_STSEspera, Sem_STSCola, Sem_STSToma, Sem_STSAvanza,
           Sem_STSPop, Sem_STSPush, Sem_STSInserta
     DEF STS
<1>5. CASE PROCER
  BY <1>5, Sem_ProcerEspera, Sem_ProcerPop, Sem_EjecutaSimple,
           Sem_EjecutaSalto, Sem_EjecutaIOBloqueante,
           Sem_EjecutaIONoBloqueante, Sem_EjecutaXIO0, Sem_ProcerSale,
           Sem_ProcerFinaliza, Sem_ProcerLibera, Sem_ProcerBloqueado,
           Sem_ProcerSuspende, Sem_ProcerAvisaPI, Sem_ProcerFinQuantum,
           Sem_ProcerAvisa
     DEF PROCER, processExecution
<1>6. CASE configure
  BY <1>6, Sem_ConfLee, Sem_ConfCopia, Sem_ConfCierra, Sem_ConfFin
     DEF configure
<1>7. CASE SIGUSR1
  BY <1>7, Sem_SIGUSR1
<1>8. CASE \E h \in Hilos : ioThread(h)
  BY <1>8, Sem_IOToma, Sem_IOPop, Sem_IOEncola, Sem_IOAvisa, Sem_IOFin
     DEF ioThread
<1>9. CASE \E p \in Procs : PIReanuda(p)
  BY <1>9, Sem_PIReanuda
<1>. QED BY <1>1, <1>2, <1>3, <1>4, <1>5, <1>6, <1>7, <1>8, <1>9
         DEF Next

LEMMA SemInvSiempre == Spec => []SemInv
<1> DEFINE Lotes == DeAUno => SinLotes
<1>1. Init => SemInv
  BY InitSem
<1>2. TypeOK /\ Lotes /\ SemInv /\ [Next]_vars => SemInv'
  BY SemPaso
<1>3. Spec => []Lotes
  BY LotesSiempre
<1>. QED BY <1>1, <1>2, <1>3, TipoCorrecto, PTL DEF Spec

(* Under every algorithm the semaphores of the entry queues, of LFIFO, of  *)
(* LPB and io_threads count what they should, for any number of processes  *)
(* and I/O threads: no interleaving of producers and consumers loses a     *)
(* post or takes a token twice.                                            *)
THEOREM SemaforosDeEntrada ==
    Spec => [](SemEntradas /\ SemLFIFO /\ SemLPB /\ SemIO)
<1>1. SemInv => SemEntradas /\ SemLFIFO /\ SemLPB /\ SemIO
  BY DEF SemInv
<1>. QED BY <1>1, SemInvSiempre, PTL

(* Every counting semaphore of the PP counts its queue, LPL_empty too when *)
(* the images move one at a time.                                          *)
THEOREM SemaforosCorrectos ==
    ASSUME DeAUno PROVE Spec => []SemaforosFieles
<1>1. SemInv => SemaforosFieles
  BY DEF SemInv, CuentaLPL, SemaforosFieles
<1>. QED BY <1>1, SemInvSiempre, PTL

-----------------------------------------------------------------------------
(* Only PROCER may be left without an image, and only if there are batches. *)
NULLSoloPROCER ==
    lnew.pc # "segv" /\ sts.pc # "segv" /\ \A h \in Hilos : io[h].pc # "segv"
NULLInv == NULLSoloPROCER /\ (DeAUno => procer.pc # "segv")

(* A thread that has taken a token finds an image in its queue.            *)
LEMMA NULLPaso ==
    ASSUME TypeOK, SemInv, NULLInv, [Next]_vars
    PROVE NULLInv'
<1>1. lnew'.pc # "segv"
  <2>1. CASE NewToma
    <3>1. cola["LFIFO"] # <<>>
      BY <2>1, Largos DEF NewToma, SemInv, SemLFIFO, TypeOK, Colas
    <3>. QED BY <2>1, <3>1 DEF NewToma
  <2>2. CASE NewEncola \/ NewAvisa
    BY <2>2 DEF NewEncola, NewAvisa, TypeOK, TipoNew
  <2>3. CASE UNCHANGED lnew
    BY <2>3 DEF NULLInv, NULLSoloPROCER
  <2>. QED BY <2>1, <2>2, <2>3, SoloNew
<1>2. sts'.pc # "segv"
  <2>1. CASE STSPop
    <3>1. sts.q \in Entradas /\ sts.q \in Colas /\ sts.pc = "pop"
      BY <2>1 DEF TypeOK, TipoSTS, LocalesSTS, Colas, STSPop
    <3>2. Len(cola[sts.q]) = sem[sts.q] + 1 /\ sem[sts.q] \in Nat
      BY <3>1
         DEF SemInv, SemEntradas, UnoSi, TypeOK, TipoSem, Semaforos
    <3>3. cola[sts.q] # <<>>
      BY <3>1, <3>2, Largos DEF TypeOK
    <3>. QED BY <2>1, <3>3 DEF STSPop, TypeOK, TipoSTS, LocalesSTS
  <2>2. CASE STSEspera \/ STSCola \/ STSToma \/ STSAvanza \/ STSPush
    BY <2>2
       DEF STSEspera, STSCola, STSToma, STSAvanza, STSPush, TypeOK, TipoSTS,
           LocalesSTS
  <2>3. CASE STSInserta
    BY <2>3 DEF STSInserta, TypeOK, TipoSTS, LocalesSTS
  <2>4. CASE UNCHANGED sts
    BY <2>4 DEF NULLInv, NULLSoloPROCER
  <2>. QED BY <2>1, <2>2, <2>3, <2>4, SoloSTS
<1>3. ASSUME DeAUno PROVE procer'.pc # "segv"
  <2>1. CASE ProcerPop
    <3>1. Len(cola["LPL"]) = sem["LPL"] + 1 /\ sem["LPL"] \in Nat
      BY <1>3, <2>1
         DEF ProcerPop, SemInv, CuentaLPL, SemLPL, UnoSi, TypeOK, TipoSem,
             Semaforos, Colas
    <3>2. cola["LPL"] # <<>>
      BY <3>1, Largos DEF TypeOK, Colas
    <3>. QED BY <2>1, <3>2 DEF ProcerPop
  <2>2. CASE processExecution
    <3>1. procer \in LocalesPROCER /\ procer.pc = "ejecuta"
      BY <2>2
         DEF processExecution, EjecutaSimple, EjecutaSalto,
             EjecutaIOBloqueante, EjecutaIONoBloqueante, EjecutaXIO0, Ejecuta,
             TypeOK, TipoPROCER
    <3>2. CASE \E b \in BOOLEAN : Computa(b)
      BY <3>1, <3>2 DEF Computa, LocalesPROCER
    <3>3. CASE procer' = [procer EXCEPT !.pc = "colgado"]
      BY <3>1, <3>3 DEF LocalesPROCER
    <3>. QED BY <2>2, <3>2, <3>3
             DEF processExecution, EjecutaSimple, EjecutaSalto,
                 EjecutaIOBloqueante, EjecutaIONoBloqueante, EjecutaXIO0
  <2>3. CASE ProcerLibera \/ ProcerBloqueado \/ ProcerAvisaPI \/ ProcerAvisa
    BY <2>3
       DEF ProcerLibera, ProcerBloqueado, ProcerAvisaPI, ProcerAvisa,
           ProcerVuelve
  <2>4. CASE \/ ProcerEspera \/ ProcerSale \/ ProcerFinaliza
             \/ ProcerSuspende \/ ProcerFinQuantum
    BY <2>4
       DEF ProcerEspera, ProcerSale, ProcerFinaliza, ProcerSuspende,
           ProcerFinQuantum, TypeOK, TipoPROCER, LocalesPROCER
  <2>5. CASE UNCHANGED procer
    BY <1>3, <2>5 DEF NULLInv
  <2>. QED BY <2>1, <2>2, <2>3, <2>4, <2>5, SoloPROCER DEF PROCER
<1>4. \A h \in Hilos : io'[h].pc # "segv"
  <2>1. CASE \E h \in Hilos : IOPop(h)
    <3>1. PICK h \in Hilos : IOPop(h)
      BY <2>1
    <3>2. Cardinality(EnPop) \in Nat /\ Cardinality(EnPop) > 0
      BY <3>1, Contar DEF IOPop, EnPop
    <3>3. LPB # <<>>
      BY <3>2, Largos
         DEF SemInv, SemLPB, TypeOK, TipoSem, Semaforos
    <3>4. io'[h].pc \in {"fin", "es"} /\ \A k \in Hilos \ {h} : io'[k] = io[k]
      BY <3>1, <3>3 DEF IOPop, TypeOK, TipoIO
    <3>. QED BY <3>4 DEF NULLInv, NULLSoloPROCER
  <2>2. CASE \E h \in Hilos : \/ IOToma(h) \/ IOEncola(h) \/ IOAvisa(h)
                              \/ IOFin(h)
    <3>1. PICK h \in Hilos : \/ IOToma(h) \/ IOEncola(h) \/ IOAvisa(h)
                             \/ IOFin(h)
      BY <2>2
    <3>2. io'[h].pc \in {"pop", "avisa", "fin", "espera"}
      <4>1. h \in DOMAIN io /\ io[h] \in LocalesIO
        BY DEF TypeOK, TipoIO
      <4>2. CASE IOToma(h)
        BY <4>1, <4>2 DEF IOToma, LocalesIO
      <4>3. CASE IOEncola(h)
        BY <4>1, <4>3 DEF IOEncola, LocalesIO
      <4>4. CASE IOAvisa(h)
        BY <4>1, <4>4 DEF IOAvisa, LocalesIO
      <4>5. CASE IOFin(h)
        BY <4>1, <4>5 DEF IOFin
      <4>. QED BY <3>1, <4>2, <4>3, <4>4, <4>5
    <3>3. \A k \in Hilos \ {h} : io'[k] = io[k]
      BY <3>1 DEF IOToma, IOEncola, IOAvisa, IOFin, TypeOK, TipoIO
    <3>. QED BY <3>2, <3>3 DEF NULLInv, NULLSoloPROCER
  <2>3. CASE UNCHANGED io
    BY <2>3 DEF NULLInv, NULLSoloPROCER
  <2>. QED BY <2>1, <2>2, <2>3, SoloIO
<1>. QED BY <1>1, <1>2, <1>3, <1>4 DEF NULLInv, NULLSoloPROCER, DeAUno

LEMMA NULLInvSiempre == Spec => []NULLInv
<1>1. Init => NULLInv
  BY DEF Init, NULLInv, NULLSoloPROCER
<1>2. TypeOK /\ SemInv /\ NULLInv /\ [Next]_vars => NULLInv'
  BY NULLPaso
<1>. QED BY <1>1, <1>2, TipoCorrecto, SemInvSiempre, PTL DEF Spec

(* Under every algorithm PROCER is the only thread that can find its queue *)
(* empty after its sem_wait: LTSnew, the STS and the I/O threads never     *)
(* dereference the NULL of queue_pop.                                      *)
THEOREM SoloPROCERSinImagen == Spec => []NULLSoloPROCER
<1>1. NULLInv => NULLSoloPROCER
  BY DEF NULLInv
<1>. QED BY <1>1, NULLInvSiempre, PTL

(* Under FIFO and RR no thread dereferences the NULL of an empty queue:    *)
(* holding a token of X_empty means that X is not empty.                   *)
THEOREM SinNULL ==
    ASSUME DeAUno PROVE Spec => []NingunNULL
<1>1. NULLInv => NingunNULL
  BY DEF NULLInv, NULLSoloPROCER, NingunNULL
<1>. QED BY <1>1, NULLInvSiempre, PTL
-----------------------------------------------------------------------------
(* The threads with no I/O under way.                                      *)
Disponibles == {h \in Hilos : io[h].pc \in {"espera", "pop"}}

(* PROCER alone makes requests, non-blocking ones only with a thread for   *)
(* them, and the I/O threads alone take them.                              *)
LEMMA SoloLPB ==
    ASSUME [Next]_vars
    PROVE \/ UNCHANGED LPB
          \/ \E nb \in BOOLEAN : PideIO(nb) /\ (nb => HayHilo) /\ UNCHANGED io
          \/ \E h \in Hilos : IOPop(h)
<1>1. CASE LTSconex
  BY <1>1 DEF LTSconex, LTSDemora, LTSEncola, LTSAvisa, LTSAcepta,
              LTSReanuda, LTSEnvia
<1>2. CASE LTSnew
  BY <1>2 DEF LTSnew, NewToma, NewEncola, NewAvisa
<1>3. CASE STS
  BY <1>3 DEF STS, STSEspera, STSCola, STSToma, STSAvanza, STSPop, STSPush,
              STSInserta
<1>4. CASE EjecutaIOBloqueante
  BY <1>4 DEF EjecutaIOBloqueante
<1>5. CASE EjecutaIONoBloqueante
  BY <1>5 DEF EjecutaIONoBloqueante
<1>6. CASE PROCER /\ ~ EjecutaIOBloqueante /\ ~ EjecutaIONoBloqueante
  BY <1>6 DEF PROCER, ProcerEspera, ProcerPop, processExecution,
              EjecutaSimple, EjecutaSalto, EjecutaXIO0, ProcerSale,
              ProcerFinaliza, ProcerLibera, ProcerBloqueado, ProcerSuspende,
              ProcerAvisaPI, ProcerFinQuantum, ProcerAvisa
<1>7. CASE configure
  BY <1>7 DEF configure, ConfLee, ConfCopia, ConfCierra, ConfFin
<1>8. CASE \E h \in Hilos : ioThread(h)
  BY <1>8 DEF ioThread, IOToma, IOEncola, IOAvisa, IOFin
<1>9. CASE SIGUSR1 \/ \E p \in Procs : PIReanuda(p)
  BY <1>9 DEF SIGUSR1, PIReanuda
<1>10. CASE UNCHANGED vars
  BY <1>10 DEF vars
<1>. QED BY <1>1, <1>2, <1>3, <1>4, <1>5, <1>6, <1>7, <1>8, <1>9, <1>10
         DEF Next

(* Except for IOPop the threads without I/O under way do not decrease.     *)
LEMMA MasDisponibles ==
    ASSUME TypeOK, [Next]_vars, \A h \in Hilos : ~ IOPop(h)
    PROVE Disponibles \subseteq Disponibles'
<1>1. ASSUME NEW h \in Hilos, IOToma(h) \/ IOEncola(h) \/ IOAvisa(h) \/ IOFin(h)
      PROVE Disponibles \subseteq Disponibles'
  <2>1. \A k \in Hilos \ {h} : io'[k] = io[k]
    BY <1>1 DEF IOToma, IOEncola, IOAvisa, IOFin, TypeOK, TipoIO
  <2>2. h \in DOMAIN io /\ io[h] \in LocalesIO
    BY DEF TypeOK, TipoIO
  <2>3. io[h].pc \in {"espera", "pop"} => io'[h].pc \in {"espera", "pop"}
    <3>1. CASE IOToma(h)
      BY <2>2, <3>1 DEF IOToma, LocalesIO
    <3>2. CASE ~ IOToma(h)
      BY <1>1, <2>2, <3>2 DEF IOEncola, IOAvisa, IOFin, LocalesIO
    <3>. QED BY <3>1, <3>2
  <2>. QED BY <2>1, <2>3 DEF Disponibles
<1>. QED BY <1>1, SoloIO DEF Disponibles

LEMMA MenosQue ==
    ASSUME NEW S \in SUBSET Hilos, NEW T \in SUBSET S
    PROVE /\ Cardinality(S) \in Nat /\ Cardinality(T) \in Nat
          /\ Cardinality(T) <= Cardinality(S)
  BY HilosAssumption, FS_Subset, FS_CardinalityType

LEMMA HiloPaso ==
    ASSUME TypeOK, TypeOK', SemInv, HiloParaNoBloqueante, [Next]_vars
    PROVE HiloParaNoBloqueante'
<1>1. LPB \in Seq(Pedidos) /\ Len(LPB) \in Nat
  BY DEF TypeOK, TipoColas
<1>2. Disponibles \in SUBSET Hilos /\ Disponibles' \in SUBSET Hilos
  BY DEF Disponibles
<1>3. Cardinality(Disponibles) \in Nat /\ Cardinality(Disponibles') \in Nat
  BY <1>2, MenosQue
<1>4. \A i \in DOMAIN LPB : LPB[i].nb => i <= Cardinality(Disponibles)
  BY DEF HiloParaNoBloqueante, Disponibles
<1>5. SUFFICES ASSUME NEW i \in DOMAIN LPB', LPB'[i].nb
               PROVE i <= Cardinality(Disponibles')
  BY DEF HiloParaNoBloqueante, Disponibles
<1>6. CASE \E h \in Hilos : IOPop(h)
  <2>1. PICK h \in Hilos : IOPop(h)
    BY <1>6
  <2>2. CASE LPB = <<>>
    BY <1>5, <2>1, <2>2 DEF IOPop
  <2>3. CASE LPB # <<>>
    <3>1. /\ LPB' = Tail(LPB) /\ h \in Disponibles
          /\ Disponibles' = Disponibles \ {h}
      <4>1. /\ io[h].pc = "pop" /\ LPB' = Tail(LPB)
            /\ io'[h].pc \notin {"espera", "pop"}
            /\ \A k \in Hilos \ {h} : io'[k] = io[k]
        BY <2>1, <2>3 DEF IOPop, TypeOK, TipoIO
      <4>. QED BY <4>1 DEF Disponibles
    <3>2. Cardinality(Disponibles') = Cardinality(Disponibles) - 1
      BY <1>2, <3>1, Contar
    <3>3. i + 1 \in DOMAIN LPB /\ LPB'[i] = LPB[i + 1] /\ i \in Nat
      BY <1>1, <1>5, <2>3, <3>1
    <3>4. i + 1 <= Cardinality(Disponibles)
      BY <1>4, <1>5, <3>3
    <3>. QED BY <1>3, <3>2, <3>3, <3>4
  <2>. QED BY <2>2, <2>3
<1>7. CASE \A h \in Hilos : ~ IOPop(h)
  <2>1. Cardinality(Disponibles) <= Cardinality(Disponibles')
    BY <1>2, <1>7, MasDisponibles, MenosQue
  <2>2. CASE UNCHANGED LPB
    <3>1. i <= Cardinality(Disponibles) /\ i \in Nat
      BY <1>1, <1>4, <1>5, <2>2
    <3>. QED BY <1>3, <2>1, <3>1
  <2>3. ASSUME NEW nb \in BOOLEAN, PideIO(nb), nb => HayHilo, UNCHANGED io
        PROVE i <= Cardinality(Disponibles')
    <3>1. LPB' = Append(LPB, [img |-> img, nb |-> nb])
      BY <2>3 DEF PideIO
    <3>2. CASE i \in DOMAIN LPB
      <4>1. LPB'[i] = LPB[i] /\ i \in Nat
        BY <1>1, <3>1, <3>2
      <4>2. i <= Cardinality(Disponibles)
        BY <1>4, <1>5, <3>2, <4>1
      <4>. QED BY <1>3, <2>1, <4>1, <4>2
    <3>3. CASE i \notin DOMAIN LPB
      <4>1. i = Len(LPB) + 1 /\ LPB'[i] = [img |-> img, nb |-> nb]
        BY <1>1, <1>5, <3>1, <3>3
      <4>2. Len(LPB) < Cardinality(Ociosos)
        BY <1>5, <2>3, <4>1 DEF HayHilo, SemInv, SemIO
      <4>3. Ociosos \in SUBSET Disponibles
        BY DEF Ociosos, Disponibles
      <4>4. /\ Cardinality(Ociosos) <= Cardinality(Disponibles)
            /\ Cardinality(Ociosos) \in Nat
        BY <1>2, <4>3, MenosQue
      <4>. QED BY <1>1, <1>3, <2>1, <4>1, <4>2, <4>4
    <3>. QED BY <3>2, <3>3
  <2>. QED BY <1>7, <2>2, <2>3, SoloLPB
<1>. QED BY <1>6, <1>7

(* Under every algorithm a non-blocking request never has to wait, however *)
(* many requests and threads there are: the threads with no I/O under way  *)
(* are enough for it and for all the requests before it.                   *)
THEOREM HiloAsegurado == Spec => []HiloParaNoBloqueante
<1>1. Init => HiloParaNoBloqueante
  BY DEF Init, HiloParaNoBloqueante
<1>2. /\ TypeOK /\ TypeOK' /\ SemInv /\ HiloParaNoBloqueante
      /\ [Next]_vars
      => HiloParaNoBloqueante'
  BY HiloPaso
<1>. QED BY <1>1, <1>2, TipoCorrecto, SemInvSiempre, PTL DEF Spec

-----------------------------------------------------------------------------
(***************************************************************************)
(* No lost wake-up of the STS: the tokens of the entry queues are covered  *)
(* by STS_in_empty and by the producers that are between their two posts.  *)
(***************************************************************************)
Fichas  == sem["LPN"] + sem["LPR"] + sem["LFQ"] + sem["LFIO"]
EnAviso == {h \in Hilos : io[h].pc = "avisa"}
Avisan  == UnoSi(lts.pc = "avisa") + UnoSi(lnew.pc = "avisa")
           + UnoSi(procer.pc = "avisa") + Cardinality(EnAviso)

(* The quantities of the invariant are natural numbers.                    *)
LEMMA Naturales ==
    ASSUME TypeOK
    PROVE /\ \A s \in Entradas \cup {"STS_in"} : sem[s] \in Nat
          /\ Cardinality(EnAviso) \in Nat
<1>1. \A s \in Entradas \cup {"STS_in"} : sem[s] \in Nat
  BY DEF TypeOK, TipoSem, Semaforos, Colas
<1>2. Cardinality(EnAviso) \in Nat
  BY HilosAssumption, FS_Subset, FS_CardinalityType DEF EnAviso
<1>. QED BY <1>1, <1>2

(* A step that posts and takes nothing, and starts or ends no notice.      *)
LEMMA Ajeno ==
    ASSUME SinDespertarPerdido,
           \A s \in Entradas \cup {"STS_in"} : sem'[s] = sem[s],
           lts.pc = "avisa" <=> lts'.pc = "avisa",
           lnew.pc = "avisa" <=> lnew'.pc = "avisa",
           procer.pc = "avisa" <=> procer'.pc = "avisa",
           EnAviso' = EnAviso
    PROVE SinDespertarPerdido'
<1>1. Fichas' = Fichas /\ sem'["STS_in"] = sem["STS_in"]
  BY DEF Fichas, Entradas
<1>. QED BY <1>1 DEF SinDespertarPerdido, Fichas, EnAviso, UnoSi

(* A push by a producer that is about to announce it.                      *)
LEMMA Produce ==
    ASSUME TypeOK, SinDespertarPerdido, Fichas' = Fichas + 1,
           sem'["STS_in"] = sem["STS_in"], Avisan' = Avisan + 1
    PROVE SinDespertarPerdido'
<1>1. Fichas \in Nat /\ sem["STS_in"] \in Nat /\ Avisan \in Nat
  BY Naturales DEF Fichas, Avisan, UnoSi, Entradas
<1>2. Fichas <= sem["STS_in"] + Avisan
  BY Naturales DEF SinDespertarPerdido, Fichas, Avisan, EnAviso, UnoSi
<1>3. Fichas' <= sem'["STS_in"] + Avisan'
  BY <1>1, <1>2
<1>4. Cardinality(EnAviso)' \in Nat /\ sem'["STS_in"] \in Nat
  <2>1. EnAviso' \in SUBSET Hilos
    BY DEF EnAviso
  <2>. QED BY <2>1, <1>1, HilosAssumption, FS_Subset, FS_CardinalityType
<1>. QED BY <1>3, <1>4 DEF SinDespertarPerdido, Fichas, Avisan, EnAviso, UnoSi

(* The announcement.                                                       *)
LEMMA Anuncia ==
    ASSUME TypeOK, SinDespertarPerdido, Fichas' = Fichas,
           sem'["STS_in"] = sem["STS_in"] + 1, Avisan' = Avisan - 1
    PROVE SinDespertarPerdido'
<1>1. Fichas \in Nat /\ sem["STS_in"] \in Nat /\ Avisan \in Nat
  BY Naturales DEF Fichas, Avisan, UnoSi, Entradas
<1>2. Fichas <= sem["STS_in"] + Avisan
  BY Naturales DEF SinDespertarPerdido, Fichas, Avisan, EnAviso, UnoSi
<1>3. Fichas' <= sem'["STS_in"] + Avisan'
  BY <1>1, <1>2
<1>4. Cardinality(EnAviso)' \in Nat /\ sem'["STS_in"] \in Nat
  <2>1. EnAviso' \in SUBSET Hilos
    BY DEF EnAviso
  <2>. QED BY <2>1, <1>1, HilosAssumption, FS_Subset, FS_CardinalityType
<1>. QED BY <1>3, <1>4 DEF SinDespertarPerdido, Fichas, Avisan, EnAviso, UnoSi

(* A push to an entry queue is one more token and leaves STS_in_empty.     *)
LEMMA UnaFicha ==
    ASSUME TypeOK, NEW q \in Entradas, NEW p \in Procs, Encola(q, p)
    PROVE Fichas' = Fichas + 1 /\ sem'["STS_in"] = sem["STS_in"]
<1>1. /\ sem'[q] = sem[q] + 1
      /\ \A s \in Semaforos \ {q} : sem'[s] = sem[s]
  BY EfectoEncola DEF TypeOK, Colas
<1>2. sem'["STS_in"] = sem["STS_in"]
  BY <1>1 DEF Semaforos, Entradas
<1>3. \A s \in Entradas : sem[s] \in Nat
  BY Naturales
<1>4. \A s \in Entradas \ {q} : sem'[s] = sem[s]
  BY <1>1 DEF Semaforos, Colas
<1>5. Fichas' = Fichas + 1
  BY <1>1, <1>3, <1>4 DEF Fichas, Entradas
<1>. QED BY <1>2, <1>5

(* The post of STS_in_empty leaves the tokens.                             *)
LEMMA UnAviso ==
    ASSUME TypeOK, Avisa
    PROVE Fichas' = Fichas /\ sem'["STS_in"] = sem["STS_in"] + 1
  BY DEF Avisa, Fichas, TypeOK, TipoSem, Semaforos, Colas, Entradas

LEMMA Despierta_LTSEnvia ==
    ASSUME TypeOK, SinDespertarPerdido, NEW p \in Procs, LTSEnvia(p)
    PROVE SinDespertarPerdido'
  BY Ajeno DEF LTSEnvia, imagenes, hilosPP, EnAviso

LEMMA Despierta_PIReanuda ==
    ASSUME TypeOK, SinDespertarPerdido, NEW p \in Procs, PIReanuda(p)
    PROVE SinDespertarPerdido'
  BY Ajeno DEF PIReanuda, imagenes, hilosPP, EnAviso

LEMMA Despierta_ConfCopia ==
    ASSUME TypeOK, SinDespertarPerdido, ConfCopia
    PROVE SinDespertarPerdido'
  BY Ajeno DEF ConfCopia, imagenes, EnAviso

LEMMA Despierta_ConfCierra ==
    ASSUME TypeOK, SinDespertarPerdido, ConfCierra
    PROVE SinDespertarPerdido'
  BY Ajeno DEF ConfCierra, imagenes, EnAviso

LEMMA Despierta_ConfFin ==
    ASSUME TypeOK, SinDespertarPerdido, ConfFin
    PROVE SinDespertarPerdido'
  BY Ajeno DEF ConfFin, imagenes, EnAviso

LEMMA Despierta_SIGUSR1 ==
    ASSUME TypeOK, SinDespertarPerdido, SIGUSR1
    PROVE SinDespertarPerdido'
  BY Ajeno DEF SIGUSR1, imagenes, hilosPP, EnAviso

LEMMA DespiertaInserta ==
    ASSUME TypeOK, SinDespertarPerdido, NEW l \in Seq(Procs), NEW alg,
           Inserta(l, alg), UNCHANGED <<lts, lnew, procer, io>>
    PROVE SinDespertarPerdido'
<1>1. \A s \in Semaforos \ {"LPL"} : sem'[s] = sem[s]
  BY InsertaEs
<1>2. \A s \in Entradas \cup {"STS_in"} : sem'[s] = sem[s]
  BY <1>1 DEF Semaforos, Colas, Entradas
<1>. QED BY <1>2, Ajeno DEF EnAviso

LEMMA Despierta_STSInserta ==
    ASSUME TypeOK, SinDespertarPerdido, STSInserta
    PROVE SinDespertarPerdido'
<1>1. sts.prioList \in Seq(Procs)
  BY DEF TypeOK, TipoSTS, LocalesSTS
<1>. QED BY <1>1, DespiertaInserta DEF STSInserta

LEMMA Despierta_ConfLee ==
    ASSUME TypeOK, SinDespertarPerdido, NEW alg \in Algs, NEW pr \in PrioColas,
           ConfLee(alg, pr)
    PROVE SinDespertarPerdido'
<1>1. CASE PorLotes(alg)
  <2>1. <<>> \in Seq(Procs)
    OBVIOUS
  <2>. QED BY <1>1, <2>1, DespiertaInserta DEF ConfLee
<1>2. CASE ~ PorLotes(alg)
  BY <1>2, Ajeno DEF ConfLee, EnAviso
<1>. QED BY <1>1, <1>2

LEMMA Despierta_STSEspera ==
    ASSUME TypeOK, SinDespertarPerdido, STSEspera
    PROVE SinDespertarPerdido'
  BY Ajeno DEF STSEspera, imagenes, config, EnAviso

LEMMA Despierta_STSCola ==
    ASSUME TypeOK, SinDespertarPerdido, STSCola
    PROVE SinDespertarPerdido'
  BY Ajeno DEF STSCola, imagenes, config, EnAviso

LEMMA Despierta_STSAvanza ==
    ASSUME TypeOK, SinDespertarPerdido, STSAvanza
    PROVE SinDespertarPerdido'
  BY Ajeno DEF STSAvanza, imagenes, config, EnAviso

LEMMA Despierta_STSPop ==
    ASSUME TypeOK, SinDespertarPerdido, STSPop
    PROVE SinDespertarPerdido'
  BY Ajeno DEF STSPop, config, EnAviso

LEMMA Despierta_LTSAcepta ==
    ASSUME TypeOK, SinDespertarPerdido, NEW p \in Procs, LTSAcepta(p)
    PROVE SinDespertarPerdido'
  BY Ajeno DEF LTSAcepta, TypeOK, TipoSem, Semaforos, Colas, Entradas,
               EnAviso

LEMMA Despierta_LTSReanuda ==
    ASSUME TypeOK, SinDespertarPerdido, NEW p \in Procs, LTSReanuda(p)
    PROVE SinDespertarPerdido'
  BY Ajeno DEF LTSReanuda, config, TypeOK, TipoSem, Semaforos, Colas,
               Entradas, EnAviso

LEMMA Despierta_NewToma ==
    ASSUME TypeOK, SinDespertarPerdido, NewToma
    PROVE SinDespertarPerdido'
<1>1. lnew.pc # "avisa" /\ lnew'.pc # "avisa"
  BY DEF NewToma, TypeOK, TipoNew
<1>2. \A s \in Entradas \cup {"STS_in"} : sem'[s] = sem[s]
  BY DEF NewToma, TypeOK, TipoSem, Semaforos, Colas, Entradas
<1>. QED BY <1>1, <1>2, Ajeno DEF NewToma, EnAviso

LEMMA Despierta_LTSDemora ==
    ASSUME TypeOK, SinDespertarPerdido, LTSDemora
    PROVE SinDespertarPerdido'
<1>1. lts.img \in Procs /\ "LFIFO" \in Colas
  BY DEF TypeOK, LTSDemora, TipoLTS, Colas
<1>2. \A s \in Semaforos \ {"LFIFO"} : sem'[s] = sem[s]
  BY <1>1, EfectoEncola DEF TypeOK, LTSDemora
<1>3. \A s \in Entradas \cup {"STS_in"} : sem'[s] = sem[s]
  BY <1>2 DEF Semaforos, Colas, Entradas
<1>. QED BY <1>3, Ajeno
         DEF LTSDemora, TypeOK, TipoLTS, EnAviso

LEMMA Despierta_STSPush ==
    ASSUME TypeOK, SinDespertarPerdido, STSPush
    PROVE SinDespertarPerdido'
<1>1. sts.img \in Procs /\ "LPL" \in Colas
  BY DEF TypeOK, STSPush, TipoSTS, LocalesSTS, Colas
<1>2. \A s \in Semaforos \ {"LPL"} : sem'[s] = sem[s]
  BY <1>1, EfectoEncola DEF TypeOK, STSPush
<1>3. \A s \in Entradas \cup {"STS_in"} : sem'[s] = sem[s]
  BY <1>2 DEF Semaforos, Colas, Entradas
<1>. QED BY <1>3, Ajeno
         DEF STSPush, EnAviso

LEMMA Despierta_ProcerEspera ==
    ASSUME TypeOK, SinDespertarPerdido, ProcerEspera
    PROVE SinDespertarPerdido'
  BY Ajeno DEF ProcerEspera, imagenes, config, TypeOK, TipoSem, Semaforos,
               Colas, Entradas, TipoPROCER, LocalesPROCER, EnAviso

LEMMA Despierta_ProcerPop ==
    ASSUME TypeOK, SinDespertarPerdido, ProcerPop
    PROVE SinDespertarPerdido'
  BY Ajeno DEF ProcerPop, config, TypeOK, TipoPROCER, LocalesPROCER, EnAviso

LEMMA Despierta_EjecutaSimple ==
    ASSUME TypeOK, SinDespertarPerdido, EjecutaSimple
    PROVE SinDespertarPerdido'
  BY Ajeno DEF EjecutaSimple, config, Ejecuta, Computa, TypeOK, TipoPROCER,
               LocalesPROCER, EnAviso

LEMMA Despierta_EjecutaSalto ==
    ASSUME TypeOK, SinDespertarPerdido, EjecutaSalto
    PROVE SinDespertarPerdido'
  BY Ajeno DEF EjecutaSalto, config, Ejecuta, Computa, TypeOK, TipoPROCER,
               LocalesPROCER, EnAviso

LEMMA Despierta_EjecutaXIO0 ==
    ASSUME TypeOK, SinDespertarPerdido, EjecutaXIO0
    PROVE SinDespertarPerdido'
  BY Ajeno DEF EjecutaXIO0, config, Ejecuta, Computa, TypeOK, TipoPROCER,
               LocalesPROCER, EnAviso

LEMMA Despierta_ProcerSale ==
    ASSUME TypeOK, SinDespertarPerdido, ProcerSale
    PROVE SinDespertarPerdido'
  BY Ajeno DEF ProcerSale, config, TypeOK, TipoPROCER, LocalesPROCER, EnAviso

LEMMA Despierta_ProcerFinaliza ==
    ASSUME TypeOK, SinDespertarPerdido, ProcerFinaliza
    PROVE SinDespertarPerdido'
  BY Ajeno DEF ProcerFinaliza, config, TypeOK, TipoPROCER, LocalesPROCER,
               EnAviso

LEMMA Despierta_ProcerBloqueado ==
    ASSUME TypeOK, SinDespertarPerdido, ProcerBloqueado
    PROVE SinDespertarPerdido'
  BY Ajeno DEF ProcerBloqueado, imagenes, config, ProcerVuelve, EnAviso

LEMMA Despierta_ProcerAvisaPI ==
    ASSUME TypeOK, SinDespertarPerdido, ProcerAvisaPI
    PROVE SinDespertarPerdido'
  BY Ajeno DEF ProcerAvisaPI, imagenes, config, ProcerVuelve, EnAviso

LEMMA Despierta_ProcerLibera ==
    ASSUME TypeOK, SinDespertarPerdido, ProcerLibera
    PROVE SinDespertarPerdido'
  BY Ajeno DEF ProcerLibera, imagenes, config, ProcerVuelve, TypeOK, TipoSem,
               Semaforos, Colas, Entradas, EnAviso

LEMMA Despierta_ProcerSuspende ==
    ASSUME TypeOK, SinDespertarPerdido, ProcerSuspende
    PROVE SinDespertarPerdido'
  BY Ajeno DEF ProcerSuspende, config, TypeOK, TipoSem, Semaforos, Colas,
               Entradas, TipoPROCER, LocalesPROCER, EnAviso

LEMMA Despierta_EjecutaIOBloqueante ==
    ASSUME TypeOK, SinDespertarPerdido, EjecutaIOBloqueante
    PROVE SinDespertarPerdido'
<1>1. procer.pc # "avisa" /\ procer'.pc # "avisa"
  BY DEF EjecutaIOBloqueante, Ejecuta, Computa, TypeOK, TipoPROCER,
         LocalesPROCER
<1>2. \A s \in Entradas \cup {"STS_in"} : sem'[s] = sem[s]
  BY DEF EjecutaIOBloqueante, PideIO, TypeOK, TipoSem, Semaforos, Colas,
         Entradas
<1>. QED BY <1>1, <1>2, Ajeno DEF EjecutaIOBloqueante, EnAviso

LEMMA Despierta_EjecutaIONoBloqueante ==
    ASSUME TypeOK, SinDespertarPerdido, EjecutaIONoBloqueante
    PROVE SinDespertarPerdido'
<1>1. procer.pc # "avisa" /\ procer'.pc # "avisa"
  BY DEF EjecutaIONoBloqueante, Ejecuta, Computa, TypeOK, TipoPROCER,
         LocalesPROCER
<1>2. \A s \in Entradas \cup {"STS_in"} : sem'[s] = sem[s]
  BY DEF EjecutaIONoBloqueante, PideIO, TypeOK, TipoSem, Semaforos, Colas,
         Entradas
<1>. QED BY <1>1, <1>2, Ajeno DEF EjecutaIONoBloqueante, EnAviso

LEMMA Despierta_LTSEncola ==
    ASSUME TypeOK, SinDespertarPerdido, LTSEncola
    PROVE SinDespertarPerdido'
<1>1. lts.img \in Procs /\ lts.q \in Entradas
  BY DEF TypeOK, LTSEncola, TipoLTS, Entradas
<1>2. Fichas' = Fichas + 1 /\ sem'["STS_in"] = sem["STS_in"]
  BY <1>1, UnaFicha DEF LTSEncola
<1>3. lts.pc # "avisa" /\ lts'.pc = "avisa"
  BY DEF LTSEncola, TypeOK, TipoLTS
<1>4. EnAviso' = EnAviso /\ UNCHANGED <<lnew, procer>>
  BY DEF LTSEncola, EnAviso
<1>5. Avisan' = Avisan + 1
  BY <1>3, <1>4, Naturales DEF Avisan, UnoSi
<1>. QED BY <1>2, <1>5, Produce

LEMMA Despierta_NewEncola ==
    ASSUME TypeOK, SinDespertarPerdido, NewEncola
    PROVE SinDespertarPerdido'
<1>1. lnew.img \in Procs
  BY DEF TypeOK, NewEncola, TipoNew
<1>2. Fichas' = Fichas + 1 /\ sem'["STS_in"] = sem["STS_in"]
  BY <1>1, UnaFicha DEF NewEncola, Entradas
<1>3. lnew.pc # "avisa" /\ lnew'.pc = "avisa"
  BY DEF NewEncola, TypeOK, TipoNew
<1>4. EnAviso' = EnAviso /\ UNCHANGED <<lts, procer>>
  BY DEF NewEncola, EnAviso
<1>5. Avisan' = Avisan + 1
  BY <1>3, <1>4, Naturales DEF Avisan, UnoSi
<1>. QED BY <1>2, <1>5, Produce

LEMMA Despierta_ProcerFinQuantum ==
    ASSUME TypeOK, SinDespertarPerdido, ProcerFinQuantum
    PROVE SinDespertarPerdido'
<1>1. img \in Procs
  BY DEF TypeOK, ProcerFinQuantum, TipoPROCER, LocalesPROCER, img
<1>2. Fichas' = Fichas + 1 /\ sem'["STS_in"] = sem["STS_in"]
  BY <1>1, UnaFicha DEF ProcerFinQuantum, Entradas
<1>3. procer.pc # "avisa" /\ procer'.pc = "avisa"
  BY DEF ProcerFinQuantum, TypeOK, TipoPROCER, LocalesPROCER, img
<1>4. EnAviso' = EnAviso /\ UNCHANGED <<lts, lnew>>
  BY DEF ProcerFinQuantum, EnAviso
<1>5. Avisan' = Avisan + 1
  BY <1>3, <1>4, Naturales DEF Avisan, UnoSi
<1>. QED BY <1>2, <1>5, Produce

LEMMA Despierta_LTSAvisa ==
    ASSUME TypeOK, SinDespertarPerdido, LTSAvisa
    PROVE SinDespertarPerdido'
<1>1. Fichas' = Fichas /\ sem'["STS_in"] = sem["STS_in"] + 1
  BY UnAviso DEF LTSAvisa
<1>2. lts.pc = "avisa" /\ lts'.pc # "avisa"
  BY DEF LTSAvisa, TypeOK, TipoLTS
<1>3. EnAviso' = EnAviso /\ UNCHANGED <<lnew, procer>>
  BY DEF LTSAvisa, EnAviso
<1>4. Avisan' = Avisan - 1
  BY <1>2, <1>3, Naturales DEF Avisan, UnoSi
<1>. QED BY <1>1, <1>4, Anuncia

LEMMA Despierta_NewAvisa ==
    ASSUME TypeOK, SinDespertarPerdido, NewAvisa
    PROVE SinDespertarPerdido'
<1>1. Fichas' = Fichas /\ sem'["STS_in"] = sem["STS_in"] + 1
  BY UnAviso DEF NewAvisa
<1>2. lnew.pc = "avisa" /\ lnew'.pc # "avisa"
  BY DEF NewAvisa, TypeOK, TipoNew
<1>3. EnAviso' = EnAviso /\ UNCHANGED <<lts, procer>>
  BY DEF NewAvisa, EnAviso
<1>4. Avisan' = Avisan - 1
  BY <1>2, <1>3, Naturales DEF Avisan, UnoSi
<1>. QED BY <1>1, <1>4, Anuncia

LEMMA Despierta_ProcerAvisa ==
    ASSUME TypeOK, SinDespertarPerdido, ProcerAvisa
    PROVE SinDespertarPerdido'
<1>1. Fichas' = Fichas /\ sem'["STS_in"] = sem["STS_in"] + 1
  BY UnAviso DEF ProcerAvisa
<1>2. procer.pc = "avisa" /\ procer'.pc # "avisa"
  BY DEF ProcerAvisa, ProcerVuelve
<1>3. EnAviso' = EnAviso /\ UNCHANGED <<lts, lnew>>
  BY DEF ProcerAvisa, EnAviso
<1>4. Avisan' = Avisan - 1
  BY <1>2, <1>3, Naturales DEF Avisan, UnoSi
<1>. QED BY <1>1, <1>4, Anuncia

LEMMA Despierta_STSToma ==
    ASSUME TypeOK, SinDespertarPerdido, STSToma
    PROVE SinDespertarPerdido'
<1>1. sts.q \in Entradas /\ sem[sts.q] > 0
  BY DEF STSToma, TypeOK, TipoSTS, LocalesSTS
<1>2. /\ sem'[sts.q] = sem[sts.q] - 1
      /\ sem'["STS_in"] = IF sem["STS_in"] > 0 THEN sem["STS_in"] - 1
                          ELSE sem["STS_in"]
      /\ \A s \in Entradas \ {sts.q} : sem'[s] = sem[s]
  BY <1>1 DEF STSToma, TypeOK, TipoSem, Semaforos, Colas, Entradas
<1>3. Fichas' = Fichas - 1
  BY <1>1, <1>2, Naturales DEF Fichas, Entradas
<1>4. EnAviso' = EnAviso /\ UNCHANGED <<lts, lnew, procer>>
  BY DEF STSToma, EnAviso
<1>5. UnoSi(lts.pc = "avisa") \in Nat /\ UnoSi(lnew.pc = "avisa") \in Nat
      /\ UnoSi(procer.pc = "avisa") \in Nat
  BY DEF UnoSi
<1>6. Fichas \in Nat /\ sem["STS_in"] \in Nat /\ Cardinality(EnAviso) \in Nat
  BY Naturales DEF Fichas, Entradas
<1>7. sem'["STS_in"] >= sem["STS_in"] - 1
  BY <1>2, <1>6
<1>8. Fichas <= sem["STS_in"] + UnoSi(lts.pc = "avisa")
          + UnoSi(lnew.pc = "avisa") + UnoSi(procer.pc = "avisa")
          + Cardinality(EnAviso)
  BY DEF SinDespertarPerdido, Fichas, EnAviso
<1>9. Fichas' <= sem'["STS_in"] + UnoSi(lts.pc = "avisa")
          + UnoSi(lnew.pc = "avisa") + UnoSi(procer.pc = "avisa")
          + Cardinality(EnAviso)
  BY <1>2, <1>3, <1>5, <1>6, <1>7, <1>8
<1>. QED BY <1>4, <1>9 DEF SinDespertarPerdido, Fichas, EnAviso, UnoSi

LEMMA Despierta_IOToma ==
    ASSUME TypeOK, SinDespertarPerdido, NEW h \in Hilos, IOToma(h)
    PROVE SinDespertarPerdido'
<1>1. io[h].pc # "avisa" /\ io'[h].pc # "avisa"
  BY DEF IOToma, TypeOK, TipoIO, LocalesIO
<1>2. \A k \in Hilos \ {h} : io'[k] = io[k]
  BY DEF IOToma, TypeOK, TipoIO
<1>3. EnAviso' = EnAviso
  BY <1>1, <1>2 DEF EnAviso
<1>4. \A s \in Entradas \cup {"STS_in"} : sem'[s] = sem[s]
  BY DEF IOToma, TypeOK, TipoSem, Semaforos, Colas, Entradas
<1>. QED BY <1>3, <1>4, Ajeno DEF IOToma

LEMMA Despierta_IOPop ==
    ASSUME TypeOK, SinDespertarPerdido, NEW h \in Hilos, IOPop(h)
    PROVE SinDespertarPerdido'
<1>1. io[h].pc # "avisa" /\ io'[h].pc # "avisa"
  <2>1. h \in DOMAIN io /\ io[h] \in LocalesIO
    BY DEF TypeOK, TipoIO
  <2>. QED BY <2>1 DEF IOPop, LocalesIO
<1>2. \A k \in Hilos \ {h} : io'[k] = io[k]
  BY DEF IOPop, TypeOK, TipoIO
<1>3. EnAviso' = EnAviso
  BY <1>1, <1>2 DEF EnAviso
<1>4. \A s \in Entradas \cup {"STS_in"} : sem'[s] = sem[s]
  BY DEF IOPop
<1>. QED BY <1>3, <1>4, Ajeno DEF IOPop

LEMMA Despierta_IOFin ==
    ASSUME TypeOK, SinDespertarPerdido, NEW h \in Hilos, IOFin(h)
    PROVE SinDespertarPerdido'
<1>1. io[h].pc # "avisa" /\ io'[h].pc # "avisa"
  BY DEF IOFin, TypeOK, TipoIO, LocalesIO
<1>2. \A k \in Hilos \ {h} : io'[k] = io[k]
  BY DEF IOFin, TypeOK, TipoIO
<1>3. EnAviso' = EnAviso
  BY <1>1, <1>2 DEF EnAviso
<1>4. \A s \in Entradas \cup {"STS_in"} : sem'[s] = sem[s]
  BY DEF IOFin, TypeOK, TipoSem, Semaforos, Colas, Entradas
<1>. QED BY <1>3, <1>4, Ajeno DEF IOFin

LEMMA Despierta_IOEncola ==
    ASSUME TypeOK, SinDespertarPerdido, NEW h \in Hilos, IOEncola(h)
    PROVE SinDespertarPerdido'
<1>1. io[h].img \in Procs
  BY DEF TypeOK, TipoIO, IOEncola
<1>2. Fichas' = Fichas + 1 /\ sem'["STS_in"] = sem["STS_in"]
  BY <1>1, UnaFicha DEF IOEncola, Entradas
<1>3. io' = [io EXCEPT ![h] = [io[h] EXCEPT !.pc = "avisa"]]
  BY DEF IOEncola
<1>4. /\ [io[h] EXCEPT !.pc = "avisa"] \in LocalesIO
      /\ [io[h] EXCEPT !.pc = "avisa"].pc = "avisa" /\ io[h].pc = "es"
  BY DEF TypeOK, TipoIO, LocalesIO, IOEncola
<1>5. h \notin EnAviso /\ EnAviso' = EnAviso \cup {h}
  BY <1>3, <1>4, UnHilo DEF TypeOK, EnAviso
<1>6. Cardinality(EnAviso') = Cardinality(EnAviso) + 1
  BY <1>5, Contar DEF EnAviso
<1>7. UNCHANGED <<lts, lnew, procer>>
  BY DEF IOEncola
<1>8. Avisan' = Avisan + 1
  BY <1>6, <1>7, Naturales DEF Avisan, UnoSi
<1>. QED BY <1>2, <1>8, Produce

LEMMA Despierta_IOAvisa ==
    ASSUME TypeOK, SinDespertarPerdido, NEW h \in Hilos, IOAvisa(h)
    PROVE SinDespertarPerdido'
<1>1. Fichas' = Fichas /\ sem'["STS_in"] = sem["STS_in"] + 1
  BY UnAviso DEF IOAvisa
<1>2. io' = [io EXCEPT ![h] = [io[h] EXCEPT !.pc = "fin"]]
  BY DEF IOAvisa
<1>3. /\ [io[h] EXCEPT !.pc = "fin"] \in LocalesIO
      /\ [io[h] EXCEPT !.pc = "fin"].pc = "fin" /\ io[h].pc = "avisa"
  BY DEF TypeOK, TipoIO, LocalesIO, IOAvisa
<1>4. h \in EnAviso /\ EnAviso' = EnAviso \ {h}
  BY <1>2, <1>3, UnHilo DEF TypeOK, EnAviso
<1>5. Cardinality(EnAviso') = Cardinality(EnAviso) - 1
  BY <1>4, Contar DEF EnAviso
<1>6. UNCHANGED <<lts, lnew, procer>>
  BY DEF IOAvisa
<1>7. Avisan' = Avisan - 1
  BY <1>5, <1>6, Naturales DEF Avisan, UnoSi
<1>. QED BY <1>1, <1>7, Anuncia

-----------------------------------------------------------------------------
(* Every step preserves the cover.                                         *)
LEMMA DespiertaPaso ==
    ASSUME TypeOK, SinDespertarPerdido, [Next]_vars
    PROVE SinDespertarPerdido'
<1>1. CASE UNCHANGED vars
  BY <1>1, Ajeno DEF vars, EnAviso
<1>2. CASE LTSconex
  BY <1>2, Despierta_LTSDemora, Despierta_LTSEncola, Despierta_LTSAvisa,
     Despierta_LTSAcepta, Despierta_LTSReanuda, Despierta_LTSEnvia
     DEF LTSconex
<1>3. CASE LTSnew
  BY <1>3, Despierta_NewToma, Despierta_NewEncola, Despierta_NewAvisa
     DEF LTSnew
<1>4. CASE STS
  BY <1>4, Despierta_STSEspera, Despierta_STSCola, Despierta_STSToma,
     Despierta_STSAvanza, Despierta_STSPop, Despierta_STSPush,
     Despierta_STSInserta
     DEF STS
<1>5. CASE PROCER
  BY <1>5, Despierta_ProcerEspera, Despierta_ProcerPop,
     Despierta_EjecutaSimple, Despierta_EjecutaSalto,
     Despierta_EjecutaIOBloqueante, Despierta_EjecutaIONoBloqueante,
     Despierta_EjecutaXIO0, Despierta_ProcerSale, Despierta_ProcerFinaliza,
     Despierta_ProcerLibera, Despierta_ProcerBloqueado,
     Despierta_ProcerSuspende, Despierta_ProcerAvisaPI,
     Despierta_ProcerFinQuantum, Despierta_ProcerAvisa
     DEF PROCER, processExecution
<1>6. CASE configure
  BY <1>6, Despierta_ConfLee, Despierta_ConfCopia, Despierta_ConfCierra,
     Despierta_ConfFin
     DEF configure
<1>7. CASE SIGUSR1
  BY <1>7, Despierta_SIGUSR1
<1>8. CASE \E h \in Hilos : ioThread(h)
  BY <1>8, Despierta_IOToma, Despierta_IOPop, Despierta_IOEncola,
     Despierta_IOAvisa, Despierta_IOFin
     DEF ioThread
<1>9. CASE \E p \in Procs : PIReanuda(p)
  BY <1>9, Despierta_PIReanuda
<1>. QED BY <1>1, <1>2, <1>3, <1>4, <1>5, <1>6, <1>7, <1>8, <1>9
         DEF Next

(* The STS never sleeps on STS_in_empty while an entry queue has a token   *)
(* that no producer is about to announce, for any number of processes and  *)
(* I/O threads: sem_trywait of STS_in_empty may find it at zero and the    *)
(* count drift, but never below what is queued.                            *)
THEOREM STSDespierta == Spec => []SinDespertarPerdido
<1>1. Init => SinDespertarPerdido
  <2>1. SUFFICES ASSUME Init PROVE SinDespertarPerdido
    OBVIOUS
  <2>2. \A s \in Entradas \cup {"STS_in"} : sem[s] = 0
    BY <2>1 DEF Init, Semaforos, Colas, Entradas
  <2>3. Cardinality(EnAviso) \in Nat
    BY <2>1, InitTipo, Naturales
  <2>4. lts.pc # "avisa" /\ lnew.pc # "avisa" /\ procer.pc # "avisa"
    BY <2>1 DEF Init
  <2>. QED BY <2>2, <2>3, <2>4
           DEF SinDespertarPerdido, EnAviso, UnoSi, Entradas
<1>2. TypeOK /\ SinDespertarPerdido /\ [Next]_vars
          => SinDespertarPerdido'
  BY DespiertaPaso
<1>. QED BY <1>1, <1>2, TipoCorrecto, PTL DEF Spec
=============================================================================
