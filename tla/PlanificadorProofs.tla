------------------------- MODULE PlanificadorProofs -------------------------
(***************************************************************************)
(* What holds of Planificador for every set of processes, of resources and *)
(* of programs, every degree of multiprogramming and both algorithms.      *)
(*                                                                         *)
(* The type of the variables depends on the hand-over of pcb_en_ejecucion: *)
(* the CPU thread appends it to queues, so it must be a pcb and not NULL   *)
(* while that thread runs.  Inv1 is what the three prove together.  Inv2   *)
(* adds what the counting semaphores say of the queues, which is why no    *)
(* thread ever pops an empty one.                                          *)
(***************************************************************************)
EXTENDS Planificador, SequenceTheorems, FiniteSetTheorems, TLAPS

(* The globals and locals that hold a pcb hold one whenever a thread is    *)
(* about to use it.                                                        *)
PcbUsado ==
    /\ sem["proceso_running"] > 0 \/ cpu # "proceso_running" =>
           pcb_en_ejecucion \in Procesos
    /\ largo \in {"list_add", "cantidad_procesos", "lista_global", "enlaza"} =>
           pcb_largo \in Procesos
    /\ cpu = "signal" => pcb_desbloqueado \in Procesos

Inv1 == TypeOK /\ FichaDeEjecucion /\ PcbUsado

-----------------------------------------------------------------------------
(* Lemmas about the operators of the model.                                *)

\* Removing one element of a sequence leaves a sequence one shorter.
LEMMA QuitarUno ==
    ASSUME NEW S, NEW s \in Seq(S), NEW i \in 1..Len(s)
    PROVE  /\ RemoveAt(s, i) \in Seq(S)
           /\ Len(RemoveAt(s, i)) = Len(s) - 1
<1> DEFINE antes == SubSeq(s, 1, i - 1)
           despues == SubSeq(s, i + 1, Len(s))
<1>1. Len(s) \in Nat
  BY LenProperties
<1>2. antes \in Seq(S) /\ Len(antes) = i - 1
  BY SubSeqProperties
<1>3. despues \in Seq(S) /\ Len(despues) = Len(s) - i
  BY SubSeqProperties
<1>4. RemoveAt(s, i) = antes \o despues
  BY DEF RemoveAt
<1> HIDE DEF antes, despues
<1>5. antes \o despues \in Seq(S)
  BY <1>2, <1>3, ConcatProperties
<1>6. Len(antes \o despues) = Len(antes) + Len(despues)
  BY <1>2, <1>3, ConcatProperties
<1>7. Len(antes) + Len(despues) = Len(s) - 1
  BY <1>1, <1>2, <1>3
<1> QED
  BY <1>4, <1>5, <1>6, <1>7

\* Adding one to a counter of a function keeps its type.
LEMMA SumaUno ==
    ASSUME NEW D, NEW f \in [D -> Nat], NEW x
    PROVE  [f EXCEPT ![x] = @ + 1] \in [D -> Nat]
<1> DEFINE g == [f EXCEPT ![x] = @ + 1]
<1>1. ASSUME NEW y \in D PROVE g[y] \in Nat
  OBVIOUS
<1> QED
  BY <1>1

\* sem_wait and sem_post keep the semaphores naturals.
LEMMA WaitTipo ==
    ASSUME TipoSemaforos, NEW s \in Semaforos, Wait(s)
    PROVE  TipoSemaforos'
  BY DEF TipoSemaforos, Wait

\* The same for sem_post on each semaphore of a set.
LEMMA PostTipo ==
    ASSUME TipoSemaforos, NEW S, Post(S)
    PROVE  TipoSemaforos'
  BY DEF TipoSemaforos, Post

-----------------------------------------------------------------------------
\* The state main.c leaves before it creates the threads.
LEMMA InitInv1 == Init => Inv1
<1> SUFFICES ASSUME Init PROVE Inv1
  OBVIOUS
<1> USE RecursosAssumption, ProcesosAssumption, GradoAssumption
<1>1. TypeOK
  BY DEF Init, TypeOK, TipoSemaforos, TipoProcesos, TipoColas, TipoRecursos,
         TipoHilos, Semaforos
<1>2. FichaDeEjecucion
  BY DEF Init, FichaDeEjecucion, Semaforos, Uno
<1>3. PcbUsado
  BY DEF Init, PcbUsado, Semaforos
<1> QED
  BY <1>1, <1>2, <1>3 DEF Inv1

-----------------------------------------------------------------------------
(* Each part of TypeOK: one step per action that writes one of its         *)
(* variables, and one for the others.                                      *)

\* A semaphore is never below zero: sem_wait is taken only when it can be.
LEMMA TipoSemaforosInv ==
    ASSUME TypeOK, Next PROVE TipoSemaforos'
<1> TipoSemaforos
  BY DEF TypeOK
<1>1. ASSUME NEW p \in Procesos, AvisarNuevo(p) PROVE TipoSemaforos'
  BY <1>1, PostTipo DEF AvisarNuevo
<1>2. ASSUME LargoEsperaNuevo PROVE TipoSemaforos'
  BY <1>2, WaitTipo DEF LargoEsperaNuevo, LargoEspera, Semaforos
<1>3. ASSUME LargoEsperaGrado PROVE TipoSemaforos'
  BY <1>3, WaitTipo DEF LargoEsperaGrado, LargoEspera, Semaforos
<1>4. ASSUME LargoAvisaListo PROVE TipoSemaforos'
  BY <1>4, PostTipo DEF LargoAvisaListo, AvisaListo
<1>5. ASSUME LargoRegistra PROVE TipoSemaforos'
  BY <1>5, PostTipo DEF LargoRegistra
<1>6. ASSUME CortoArranca PROVE TipoSemaforos'
  BY <1>6, WaitTipo DEF CortoArranca, CortoEspera, Semaforos
<1>7. ASSUME CortoReplanifica PROVE TipoSemaforos'
  BY <1>7, WaitTipo DEF CortoReplanifica, CortoEspera, Semaforos
<1>8. ASSUME CortoTope PROVE TipoSemaforos'
  BY <1>8, WaitTipo DEF CortoTope, CortoEspera, Semaforos
<1>9. ASSUME CortoCantidad PROVE TipoSemaforos'
  BY <1>9, WaitTipo DEF CortoCantidad, CortoEspera, Semaforos
<1>10. ASSUME CortoDespacha PROVE TipoSemaforos'
  BY <1>10, PostTipo DEF CortoDespacha
<1>11. ASSUME CpuToma PROVE TipoSemaforos'
  BY <1>11, WaitTipo DEF CpuToma, Semaforos
<1>12. ASSUME EjecutaIO PROVE TipoSemaforos'
  BY <1>12, PostTipo DEF EjecutaIO
<1>13. ASSUME NEW r \in Recursos, EjecutaWaitBloquea(r) PROVE TipoSemaforos'
  BY <1>13, PostTipo DEF EjecutaWaitBloquea
<1>14. ASSUME CpuTerminaSignal PROVE TipoSemaforos'
  BY <1>14, PostTipo DEF CpuTerminaSignal, AvisaListo
<1>15. ASSUME CpuTerminaYield PROVE TipoSemaforos'
  BY <1>15, PostTipo DEF CpuTerminaYield, AvisaListo
<1>16. ASSUME NEW motivo \in Motivos, TerminarProcesoEnEjecucion(motivo) PROVE
       TipoSemaforos'
  BY <1>16, PostTipo DEF TerminarProcesoEnEjecucion
<1>17. ASSUME NEW n \in 1..Len(pasando), BloqueadorTermina(n) PROVE
       TipoSemaforos'
  BY <1>17, PostTipo DEF BloqueadorTermina, AvisaListo
<1>18. CASE \/ \E p \in Procesos : EncolarNuevo(p)
            \/ LargoQuitaNuevo
            \/ LargoAgrega
            \/ LargoBuscaUltimo
            \/ CortoQuita
            \/ \E r \in Recursos : EjecutaWait(r)
            \/ \E r \in Recursos : EjecutaSignal(r)
            \/ \E r \in Recursos : EjecutaSignalDespierta(r)
            \/ EjecutaYield
            \/ EjecutaSegmento
            \/ \E p \in Procesos : BloqueadorDespierta(p)
  BY <1>18 DEF EncolarNuevo, LargoQuitaNuevo, LargoAgrega, LargoBuscaUltimo,
    CortoQuita, EjecutaWait, EjecutaSignal, EjecutaSignalDespierta,
    EjecutaYield, EjecutaSegmento, BloqueadorDespierta, TipoSemaforos
<1> QED
  BY <1>1, <1>2, <1>3, <1>4, <1>5, <1>6, <1>7, <1>8, <1>9, <1>10, <1>11,
    <1>12, <1>13, <1>14, <1>15, <1>16, <1>17, <1>18
  DEF Next, Consola, LargoPlazo, CortoPlazo, ComunicacionCPU, Bloqueador

\* The pcbs: programs never change, program counters only grow.
LEMMA TipoProcesosInv ==
    ASSUME TypeOK, Next PROVE TipoProcesos'
<1> USE DEF TypeOK, TipoProcesos
<1>1. ASSUME NEW p \in Procesos, EncolarNuevo(p) PROVE TipoProcesos'
  BY <1>1 DEF EncolarNuevo
<1>2. ASSUME NEW p \in Procesos, AvisarNuevo(p) PROVE TipoProcesos'
  BY <1>2 DEF AvisarNuevo
<1>3. ASSUME LargoAvisaListo PROVE TipoProcesos'
  BY <1>3 DEF LargoAvisaListo, AvisaListo
<1>4. ASSUME CortoDespacha PROVE TipoProcesos'
  BY <1>4 DEF CortoDespacha
<1>5. ASSUME EjecutaIO PROVE TipoProcesos'
  BY <1>5 DEF EjecutaIO
<1>6. ASSUME NEW r \in Recursos, EjecutaWait(r) PROVE TipoProcesos'
  BY <1>6, SumaUno DEF EjecutaWait, Avanza
<1>7. ASSUME NEW r \in Recursos, EjecutaWaitBloquea(r) PROVE TipoProcesos'
  BY <1>7 DEF EjecutaWaitBloquea
<1>8. ASSUME NEW r \in Recursos, EjecutaSignal(r) PROVE TipoProcesos'
  BY <1>8, SumaUno DEF EjecutaSignal, Avanza
<1>9. ASSUME CpuTerminaSignal PROVE TipoProcesos'
  BY <1>9, SumaUno DEF CpuTerminaSignal, AvisaListo, Avanza
<1>10. ASSUME CpuTerminaYield PROVE TipoProcesos'
  BY <1>10, SumaUno DEF CpuTerminaYield, AvisaListo, Avanza
<1>11. ASSUME EjecutaSegmento PROVE TipoProcesos'
  BY <1>11, SumaUno DEF EjecutaSegmento, Avanza
<1>12. ASSUME NEW motivo \in Motivos, TerminarProcesoEnEjecucion(motivo) PROVE
       TipoProcesos'
  BY <1>12 DEF TerminarProcesoEnEjecucion
<1>13. ASSUME NEW p \in Procesos, BloqueadorDespierta(p) PROVE TipoProcesos'
  BY <1>13, SumaUno DEF BloqueadorDespierta
<1>14. ASSUME NEW n \in 1..Len(pasando), BloqueadorTermina(n) PROVE
       TipoProcesos'
  BY <1>14 DEF BloqueadorTermina, AvisaListo
<1>15. CASE \/ LargoEsperaNuevo
            \/ LargoEsperaGrado
            \/ LargoQuitaNuevo
            \/ LargoAgrega
            \/ LargoBuscaUltimo
            \/ LargoRegistra
            \/ CortoArranca
            \/ CortoReplanifica
            \/ CortoTope
            \/ CortoCantidad
            \/ CortoQuita
            \/ CpuToma
            \/ \E r \in Recursos : EjecutaSignalDespierta(r)
            \/ EjecutaYield
  BY <1>15 DEF LargoEsperaNuevo, LargoEsperaGrado, LargoQuitaNuevo,
    LargoAgrega, LargoBuscaUltimo, LargoRegistra, CortoArranca,
    CortoReplanifica, CortoTope, CortoCantidad, CortoQuita, CpuToma,
    EjecutaSignalDespierta, EjecutaYield, LargoEspera, CortoEspera
<1> QED
  BY <1>1, <1>2, <1>3, <1>4, <1>5, <1>6, <1>7, <1>8, <1>9, <1>10, <1>11,
    <1>12, <1>13, <1>14, <1>15
  DEF Next, Consola, LargoPlazo, CortoPlazo, ComunicacionCPU, Bloqueador

\* The queues hold pcbs.  This is the part that needs PcbUsado: the planner
\* and the CPU thread append what pcb_largo and pcb_en_ejecucion hold.
LEMMA TipoColasInv ==
    ASSUME TypeOK, PcbUsado, Next PROVE TipoColas'
<1> USE DEF TypeOK, PcbUsado, TipoColas, TipoRecursos, colas, bloqueadores
<1>1. ASSUME NEW p \in Procesos, EncolarNuevo(p) PROVE TipoColas'
  BY <1>1 DEF EncolarNuevo
<1>2. ASSUME LargoQuitaNuevo PROVE TipoColas'
  BY <1>2 DEF LargoQuitaNuevo
<1>3. ASSUME LargoAgrega PROVE TipoColas'
  BY <1>3 DEF LargoAgrega, Agrega
<1>4. ASSUME LargoRegistra PROVE TipoColas'
  BY <1>4 DEF LargoRegistra, EnlazaAlUltimo
<1>5. ASSUME CortoQuita PROVE TipoColas'
  BY <1>5, QuitarUno DEF CortoQuita, Elecciones
<1>6. ASSUME EjecutaIO PROVE TipoColas'
  BY <1>6 DEF EjecutaIO, Devuelve
<1>7. ASSUME NEW r \in Recursos, EjecutaSignalDespierta(r) PROVE TipoColas'
  BY <1>7 DEF EjecutaSignalDespierta, HayEnEspera, Agrega
<1>8. ASSUME EjecutaYield PROVE TipoColas'
  BY <1>8 DEF EjecutaYield, Devuelve, Agrega
<1>9. ASSUME NEW motivo \in Motivos, TerminarProcesoEnEjecucion(motivo) PROVE
       TipoColas'
  BY <1>9, QuitarUno DEF TerminarProcesoEnEjecucion, BorraDeLaGlobal
<1>10. ASSUME NEW p \in Procesos, BloqueadorDespierta(p) PROVE TipoColas'
  BY <1>10 DEF BloqueadorDespierta, Agrega
<1>11. ASSUME NEW n \in 1..Len(pasando), BloqueadorTermina(n) PROVE TipoColas'
  BY <1>11, QuitarUno DEF BloqueadorTermina
<1>12. CASE \/ \E p \in Procesos : AvisarNuevo(p)
            \/ LargoEsperaNuevo
            \/ LargoEsperaGrado
            \/ LargoAvisaListo
            \/ LargoBuscaUltimo
            \/ CortoArranca
            \/ CortoReplanifica
            \/ CortoTope
            \/ CortoCantidad
            \/ CortoDespacha
            \/ CpuToma
            \/ \E r \in Recursos : EjecutaWait(r)
            \/ \E r \in Recursos : EjecutaWaitBloquea(r)
            \/ \E r \in Recursos : EjecutaSignal(r)
            \/ CpuTerminaSignal
            \/ CpuTerminaYield
            \/ EjecutaSegmento
  BY <1>12 DEF AvisarNuevo, LargoEsperaNuevo, LargoEsperaGrado,
    LargoAvisaListo, LargoBuscaUltimo, CortoArranca, CortoReplanifica,
    CortoTope, CortoCantidad, CortoDespacha, CpuToma, EjecutaWait,
    EjecutaWaitBloquea, EjecutaSignal, CpuTerminaSignal, CpuTerminaYield,
    EjecutaSegmento, LargoEspera, CortoEspera
<1> QED
  BY <1>1, <1>2, <1>3, <1>4, <1>5, <1>6, <1>7, <1>8, <1>9, <1>10, <1>11, <1>12
  DEF Next, Consola, LargoPlazo, CortoPlazo, ComunicacionCPU, Bloqueador

\* The resources: WAIT takes an instance only when one is left.
LEMMA TipoRecursosInv ==
    ASSUME TypeOK, PcbUsado, Next PROVE TipoRecursos'
<1> USE DEF TypeOK, PcbUsado, TipoRecursos
<1>1. ASSUME NEW r \in Recursos, EjecutaWait(r) PROVE TipoRecursos'
  BY <1>1 DEF EjecutaWait, HayInstancias
<1>2. ASSUME NEW r \in Recursos, EjecutaWaitBloquea(r) PROVE TipoRecursos'
  BY <1>2 DEF EjecutaWaitBloquea, DevuelveRecurso, Devuelve
<1>3. ASSUME NEW r \in Recursos, EjecutaSignal(r) PROVE TipoRecursos'
  BY <1>3, SumaUno DEF EjecutaSignal, SumaInstancia
<1>4. ASSUME NEW r \in Recursos, EjecutaSignalDespierta(r) PROVE TipoRecursos'
  BY <1>4, SumaUno DEF EjecutaSignalDespierta, SumaInstancia, HayEnEspera,
    Desencola
<1>5. CASE \/ \E p \in Procesos : EncolarNuevo(p)
           \/ \E p \in Procesos : AvisarNuevo(p)
           \/ LargoEsperaNuevo
           \/ LargoEsperaGrado
           \/ LargoQuitaNuevo
           \/ LargoAgrega
           \/ LargoAvisaListo
           \/ LargoBuscaUltimo
           \/ LargoRegistra
           \/ CortoArranca
           \/ CortoReplanifica
           \/ CortoTope
           \/ CortoCantidad
           \/ CortoQuita
           \/ CortoDespacha
           \/ CpuToma
           \/ EjecutaIO
           \/ CpuTerminaSignal
           \/ EjecutaYield
           \/ CpuTerminaYield
           \/ EjecutaSegmento
           \/ \E motivo \in Motivos : TerminarProcesoEnEjecucion(motivo)
           \/ \E p \in Procesos : BloqueadorDespierta(p)
           \/ \E n \in 1..Len(pasando) : BloqueadorTermina(n)
  BY <1>5 DEF EncolarNuevo, AvisarNuevo, LargoEsperaNuevo, LargoEsperaGrado,
    LargoQuitaNuevo, LargoAgrega, LargoAvisaListo, LargoBuscaUltimo,
    LargoRegistra, CortoArranca, CortoReplanifica, CortoTope, CortoCantidad,
    CortoQuita, CortoDespacha, CpuToma, EjecutaIO, CpuTerminaSignal,
    EjecutaYield, CpuTerminaYield, EjecutaSegmento,
    TerminarProcesoEnEjecucion, BloqueadorDespierta, BloqueadorTermina,
    recursos, LargoEspera, CortoEspera
<1> QED
  BY <1>1, <1>2, <1>3, <1>4, <1>5
  DEF Next, Consola, LargoPlazo, CortoPlazo, ComunicacionCPU, Bloqueador

\* Where each thread is, and the pcb it holds.
LEMMA TipoHilosInv ==
    ASSUME TypeOK, Next PROVE TipoHilos'
<1> USE DEF TypeOK, TipoColas, TipoRecursos, TipoHilos, hilo_largo, hilo_cpu
<1>1. ASSUME LargoEsperaNuevo PROVE TipoHilos'
  BY <1>1 DEF LargoEsperaNuevo, LargoEspera
<1>2. ASSUME LargoEsperaGrado PROVE TipoHilos'
  BY <1>2 DEF LargoEsperaGrado, LargoEspera
<1>3. ASSUME LargoQuitaNuevo PROVE TipoHilos'
  BY <1>3 DEF LargoQuitaNuevo
<1>4. ASSUME LargoAgrega PROVE TipoHilos'
  BY <1>4 DEF LargoAgrega
<1>5. ASSUME LargoAvisaListo PROVE TipoHilos'
  BY <1>5 DEF LargoAvisaListo
<1>6. ASSUME LargoBuscaUltimo PROVE TipoHilos'
  BY <1>6, ElementOfSeq DEF LargoBuscaUltimo, Last
<1>7. ASSUME LargoRegistra PROVE TipoHilos'
  BY <1>7 DEF LargoRegistra
<1>8. ASSUME CortoArranca PROVE TipoHilos'
  BY <1>8 DEF CortoArranca, CortoEspera
<1>9. ASSUME CortoReplanifica PROVE TipoHilos'
  BY <1>9 DEF CortoReplanifica, CortoEspera
<1>10. ASSUME CortoTope PROVE TipoHilos'
  BY <1>10 DEF CortoTope, CortoEspera
<1>11. ASSUME CortoCantidad PROVE TipoHilos'
  BY <1>11 DEF CortoCantidad, CortoEspera
<1>12. ASSUME CortoQuita PROVE TipoHilos'
  BY <1>12 DEF CortoQuita, Elecciones
<1>13. ASSUME CortoDespacha PROVE TipoHilos'
  BY <1>13 DEF CortoDespacha
<1>14. ASSUME CpuToma PROVE TipoHilos'
  BY <1>14 DEF CpuToma
<1>15. ASSUME EjecutaIO PROVE TipoHilos'
  BY <1>15 DEF EjecutaIO
<1>16. ASSUME NEW r \in Recursos, EjecutaWaitBloquea(r) PROVE TipoHilos'
  BY <1>16 DEF EjecutaWaitBloquea
<1>17. ASSUME NEW r \in Recursos, EjecutaSignalDespierta(r) PROVE TipoHilos'
  BY <1>17 DEF EjecutaSignalDespierta, HayEnEspera
<1>18. ASSUME CpuTerminaSignal PROVE TipoHilos'
  BY <1>18 DEF CpuTerminaSignal
<1>19. ASSUME EjecutaYield PROVE TipoHilos'
  BY <1>19 DEF EjecutaYield
<1>20. ASSUME CpuTerminaYield PROVE TipoHilos'
  BY <1>20 DEF CpuTerminaYield
<1>21. ASSUME NEW motivo \in Motivos, TerminarProcesoEnEjecucion(motivo) PROVE
       TipoHilos'
  BY <1>21 DEF TerminarProcesoEnEjecucion
<1>22. CASE \/ \E p \in Procesos : EncolarNuevo(p)
            \/ \E p \in Procesos : AvisarNuevo(p)
            \/ \E r \in Recursos : EjecutaWait(r)
            \/ \E r \in Recursos : EjecutaSignal(r)
            \/ EjecutaSegmento
            \/ \E p \in Procesos : BloqueadorDespierta(p)
            \/ \E n \in 1..Len(pasando) : BloqueadorTermina(n)
  BY <1>22 DEF EncolarNuevo, AvisarNuevo, EjecutaWait, EjecutaSignal,
    EjecutaSegmento, BloqueadorDespierta, BloqueadorTermina
<1> QED
  BY <1>1, <1>2, <1>3, <1>4, <1>5, <1>6, <1>7, <1>8, <1>9, <1>10, <1>11,
    <1>12, <1>13, <1>14, <1>15, <1>16, <1>17, <1>18, <1>19, <1>20, <1>21,
    <1>22
  DEF Next, Consola, LargoPlazo, CortoPlazo, ComunicacionCPU, Bloqueador

-----------------------------------------------------------------------------
\* The kernel serves an instruction only while the CPU thread has a process.
LEMMA DevuelveConCpu ==
    /\ \A S : Devuelve(S) => cpu = "ejecuta"
    /\ \A op, r : DevuelveRecurso(op, r) => cpu = "ejecuta"
  BY DEF Devuelve, DevuelveRecurso

(* The dispatch token.                                                     *)

\* replanificar() posts both semaphores once per pcb taken off the CPU.
LEMMA FichaInv ==
    ASSUME TypeOK, FichaDeEjecucion, Next PROVE FichaDeEjecucion'
<1> USE DEF TypeOK, TipoSemaforos, FichaDeEjecucion, Semaforos, Uno, Wait,
            Post, Replanificar, hilo_cpu
<1>1. ASSUME NEW p \in Procesos, AvisarNuevo(p) PROVE FichaDeEjecucion'
  BY <1>1 DEF AvisarNuevo
<1>2. ASSUME LargoEsperaNuevo PROVE FichaDeEjecucion'
  BY <1>2 DEF LargoEsperaNuevo, LargoEspera
<1>3. ASSUME LargoEsperaGrado PROVE FichaDeEjecucion'
  BY <1>3 DEF LargoEsperaGrado, LargoEspera
<1>4. ASSUME LargoAvisaListo PROVE FichaDeEjecucion'
  BY <1>4 DEF LargoAvisaListo, AvisaListo
<1>5. ASSUME LargoRegistra PROVE FichaDeEjecucion'
  BY <1>5 DEF LargoRegistra
<1>6. ASSUME CortoArranca PROVE FichaDeEjecucion'
  BY <1>6 DEF CortoArranca, CortoEspera
<1>7. ASSUME CortoReplanifica PROVE FichaDeEjecucion'
  BY <1>7 DEF CortoReplanifica, CortoEspera
<1>8. ASSUME CortoTope PROVE FichaDeEjecucion'
  BY <1>8 DEF CortoTope, CortoEspera
<1>9. ASSUME CortoCantidad PROVE FichaDeEjecucion'
  BY <1>9 DEF CortoCantidad, CortoEspera
<1>10. ASSUME CortoQuita PROVE FichaDeEjecucion'
  BY <1>10 DEF CortoQuita
<1>11. ASSUME CortoDespacha PROVE FichaDeEjecucion'
  BY <1>11 DEF CortoDespacha
<1>12. ASSUME CpuToma PROVE FichaDeEjecucion'
  BY <1>12 DEF CpuToma
<1>13. ASSUME EjecutaIO PROVE FichaDeEjecucion'
  BY <1>13, DevuelveConCpu DEF EjecutaIO
<1>14. ASSUME NEW r \in Recursos, EjecutaWaitBloquea(r) PROVE
       FichaDeEjecucion'
  <2>1. cpu = "ejecuta"
    BY <1>14, DevuelveConCpu DEF EjecutaWaitBloquea
  <2>2. Post(Replanificar) /\ cpu' = "proceso_running" /\ corto' = corto
    BY <1>14 DEF EjecutaWaitBloquea
  <2> QED BY <2>1, <2>2
<1>15. ASSUME NEW r \in Recursos, EjecutaSignalDespierta(r) PROVE
       FichaDeEjecucion'
  BY <1>15, DevuelveConCpu DEF EjecutaSignalDespierta
<1>16. ASSUME CpuTerminaSignal PROVE FichaDeEjecucion'
  BY <1>16 DEF CpuTerminaSignal, AvisaListo
<1>17. ASSUME EjecutaYield PROVE FichaDeEjecucion'
  BY <1>17, DevuelveConCpu DEF EjecutaYield
<1>18. ASSUME CpuTerminaYield PROVE FichaDeEjecucion'
  BY <1>18 DEF CpuTerminaYield, AvisaListo
<1>19. ASSUME NEW motivo \in Motivos, TerminarProcesoEnEjecucion(motivo) PROVE
       FichaDeEjecucion'
  BY <1>19, DevuelveConCpu DEF TerminarProcesoEnEjecucion, AlTerminar
<1>20. ASSUME NEW n \in 1..Len(pasando), BloqueadorTermina(n) PROVE
       FichaDeEjecucion'
  BY <1>20 DEF BloqueadorTermina, AvisaListo
<1>21. CASE \/ \E p \in Procesos : EncolarNuevo(p)
            \/ LargoQuitaNuevo
            \/ LargoAgrega
            \/ LargoBuscaUltimo
            \/ \E r \in Recursos : EjecutaWait(r)
            \/ \E r \in Recursos : EjecutaSignal(r)
            \/ EjecutaSegmento
            \/ \E p \in Procesos : BloqueadorDespierta(p)
  BY <1>21 DEF EncolarNuevo, LargoQuitaNuevo, LargoAgrega, LargoBuscaUltimo,
    EjecutaWait, EjecutaSignal, EjecutaSegmento, BloqueadorDespierta,
    LargoEspera, CortoEspera
<1> HIDE DEF TypeOK, TipoSemaforos, FichaDeEjecucion, Semaforos, Uno, Wait,
            Post, Replanificar, hilo_cpu
<1> QED
  BY <1>1, <1>2, <1>3, <1>4, <1>5, <1>6, <1>7, <1>8, <1>9, <1>10, <1>11,
    <1>12, <1>13, <1>14, <1>15, <1>16, <1>17, <1>18, <1>19, <1>20, <1>21
  DEF Next, Consola, LargoPlazo, CortoPlazo, ComunicacionCPU, Bloqueador

\* proceso_running is posted only after pcb_en_ejecucion was checked.
LEMMA PcbUsadoInv ==
    ASSUME TypeOK, FichaDeEjecucion, PcbUsado, Next PROVE PcbUsado'
<1> USE DEF TypeOK, TipoSemaforos, PcbUsado, Semaforos, Wait, Post,
            Replanificar, hilo_cpu, hilo_largo
<1>1. ASSUME NEW p \in Procesos, AvisarNuevo(p) PROVE PcbUsado'
  BY <1>1 DEF AvisarNuevo
<1>2. ASSUME LargoEsperaNuevo PROVE PcbUsado'
  BY <1>2 DEF LargoEsperaNuevo, LargoEspera
<1>3. ASSUME LargoEsperaGrado PROVE PcbUsado'
  BY <1>3 DEF LargoEsperaGrado, LargoEspera
<1>4. ASSUME LargoQuitaNuevo PROVE PcbUsado'
  BY <1>4 DEF LargoQuitaNuevo, TipoColas
<1>5. ASSUME LargoAgrega PROVE PcbUsado'
  BY <1>5 DEF LargoAgrega
<1>6. ASSUME LargoAvisaListo PROVE PcbUsado'
  BY <1>6 DEF LargoAvisaListo, AvisaListo
<1>7. ASSUME LargoBuscaUltimo PROVE PcbUsado'
  BY <1>7 DEF LargoBuscaUltimo
<1>8. ASSUME LargoRegistra PROVE PcbUsado'
  BY <1>8 DEF LargoRegistra
<1>9. ASSUME CortoArranca PROVE PcbUsado'
  BY <1>9 DEF CortoArranca, CortoEspera
<1>10. ASSUME CortoReplanifica PROVE PcbUsado'
  BY <1>10 DEF CortoReplanifica, CortoEspera
<1>11. ASSUME CortoTope PROVE PcbUsado'
  BY <1>11 DEF CortoTope, CortoEspera
<1>12. ASSUME CortoCantidad PROVE PcbUsado'
  BY <1>12 DEF CortoCantidad, CortoEspera
<1>13. ASSUME CortoQuita PROVE PcbUsado'
  BY <1>13 DEF CortoQuita, FichaDeEjecucion, Uno
<1>14. ASSUME CortoDespacha PROVE PcbUsado'
  BY <1>14 DEF CortoDespacha, TipoHilos
<1>15. ASSUME CpuToma PROVE PcbUsado'
  BY <1>15 DEF CpuToma
<1>16. ASSUME EjecutaIO PROVE PcbUsado'
  BY <1>16, DevuelveConCpu DEF EjecutaIO
<1>17. ASSUME NEW r \in Recursos, EjecutaWaitBloquea(r) PROVE PcbUsado'
  BY <1>17, DevuelveConCpu DEF EjecutaWaitBloquea
<1>18. ASSUME NEW r \in Recursos, EjecutaSignalDespierta(r) PROVE PcbUsado'
  BY <1>18, DevuelveConCpu DEF EjecutaSignalDespierta, HayEnEspera,
    TipoRecursos
<1>19. ASSUME CpuTerminaSignal PROVE PcbUsado'
  BY <1>19 DEF CpuTerminaSignal, AvisaListo
<1>20. ASSUME EjecutaYield PROVE PcbUsado'
  BY <1>20, DevuelveConCpu DEF EjecutaYield
<1>21. ASSUME CpuTerminaYield PROVE PcbUsado'
  BY <1>21 DEF CpuTerminaYield, AvisaListo
<1>22. ASSUME NEW motivo \in Motivos, TerminarProcesoEnEjecucion(motivo) PROVE
       PcbUsado'
  BY <1>22, DevuelveConCpu DEF TerminarProcesoEnEjecucion, AlTerminar
<1>23. ASSUME NEW n \in 1..Len(pasando), BloqueadorTermina(n) PROVE PcbUsado'
  BY <1>23 DEF BloqueadorTermina, AvisaListo
<1>24. CASE \/ \E p \in Procesos : EncolarNuevo(p)
            \/ \E r \in Recursos : EjecutaWait(r)
            \/ \E r \in Recursos : EjecutaSignal(r)
            \/ EjecutaSegmento
            \/ \E p \in Procesos : BloqueadorDespierta(p)
  BY <1>24 DEF EncolarNuevo, EjecutaWait, EjecutaSignal, EjecutaSegmento,
    BloqueadorDespierta, LargoEspera, CortoEspera
<1> HIDE DEF TypeOK, TipoSemaforos, PcbUsado, Semaforos, Wait, Post,
            Replanificar, hilo_cpu, hilo_largo
<1> QED
  BY <1>1, <1>2, <1>3, <1>4, <1>5, <1>6, <1>7, <1>8, <1>9, <1>10, <1>11,
    <1>12, <1>13, <1>14, <1>15, <1>16, <1>17, <1>18, <1>19, <1>20, <1>21,
    <1>22, <1>23, <1>24
  DEF Next, Consola, LargoPlazo, CortoPlazo, ComunicacionCPU, Bloqueador

-----------------------------------------------------------------------------
\* Inv1 is inductive.
LEMMA Inv1Invariante == Inv1 /\ [Next]_vars => Inv1'
<1> SUFFICES ASSUME Inv1, [Next]_vars PROVE Inv1'
  OBVIOUS
<1>1. CASE Next
  BY <1>1, TipoSemaforosInv, TipoProcesosInv, TipoColasInv, TipoRecursosInv,
     TipoHilosInv, FichaInv, PcbUsadoInv DEF Inv1, TypeOK
<1>2. CASE UNCHANGED vars
  BY <1>2 DEF vars, colas, recursos, bloqueadores, hilo_largo, hilo_cpu, Inv1,
              TypeOK, TipoSemaforos, TipoProcesos, TipoColas, TipoRecursos,
              TipoHilos, FichaDeEjecucion, PcbUsado
<1> QED
  BY <1>1, <1>2

(* Types, dispatch token and pcbs in use, together, hold of every state.   *)
THEOREM SpecInv1 == Spec => []Inv1
  BY InitInv1, Inv1Invariante, PTL DEF Spec

(* Every variable of the kernel keeps its type: no thread appends NULL to  *)
(* a queue and no semaphore goes below zero, whatever the interleaving of  *)
(* main.c, planificador.c and comunicacion_cpu.c.                          *)
THEOREM TipoCorrecto == Spec => []TypeOK
<1>1. Inv1 => TypeOK
  BY DEF Inv1
<1> QED
  BY <1>1, SpecInv1, PTL

(* One thread at a time holds the dispatch token.                          *)
THEOREM FichaUnica == Spec => []FichaDeEjecucion
<1>1. Inv1 => FichaDeEjecucion
  BY DEF Inv1
<1> QED
  BY <1>1, SpecInv1, PTL

\* The planner writes pcb_en_ejecucion only while the CPU thread waits.
LEMMA PcbEstable ==
    ASSUME Inv1, Next, cpu # "proceso_running"
    PROVE  pcb_en_ejecucion' = pcb_en_ejecucion
<1>1. ~CortoQuita
  BY DEF CortoQuita, Inv1, TypeOK, TipoSemaforos, FichaDeEjecucion,
         Semaforos, Uno
<1> QED
  BY <1>1 DEF Next, Consola, LargoPlazo, CortoPlazo, ComunicacionCPU,
      Bloqueador, LargoEspera, CortoEspera, EncolarNuevo, AvisarNuevo,
      LargoEsperaNuevo, LargoEsperaGrado, LargoQuitaNuevo, LargoAgrega,
      LargoAvisaListo, LargoBuscaUltimo, LargoRegistra, CortoArranca,
      CortoReplanifica, CortoTope, CortoCantidad, CortoDespacha, CpuToma,
      EjecutaIO, EjecutaWait, EjecutaWaitBloquea, EjecutaSignal,
      EjecutaSignalDespierta, CpuTerminaSignal, EjecutaYield,
      CpuTerminaYield, EjecutaSegmento, TerminarProcesoEnEjecucion,
      BloqueadorDespierta, BloqueadorTermina

(* pcb_en_ejecucion, which comunicacion_cpu.c reads with no lock, does not *)
(* change while the CPU thread serves a process.                           *)
THEOREM EjecucionEstable == Spec => PcbEnEjecucionEstable
<1>1. Inv1 /\ [Next]_vars =>
        [cpu # "proceso_running" => pcb_en_ejecucion' = pcb_en_ejecucion]_vars
  BY PcbEstable DEF vars
<1> QED
  BY <1>1, SpecInv1, PTL DEF Spec, PcbEnEjecucionEstable

-----------------------------------------------------------------------------
(* The counters: cantidad_procesos against lista_pcbs and proceso_nuevo    *)
(* against cola_new.                                                       *)

Encolados == {p \in Procesos : consola[p] = "encolado"}
Espera == Uno(largo \in {"grado_multiprogramacion_disponible", "cola_new"})

(* A pcb in cola_new is announced by proceso_nuevo, or by the console that *)
(* is about to post it, or has been waited for by the long-term planner.   *)
CuentaDeNuevos ==
    /\ IsFiniteSet(Encolados)
    /\ Len(cola_new) = sem["proceso_nuevo"] + Cardinality(Encolados) + Espera

PcbElegido == corto = "proceso_running" => pcb_en_ejecucion \in Procesos

Inv2 == Inv1 /\ CuentaDeListos /\ CuentaDeNuevos /\ PcbElegido

\* Both counters start at zero, with empty queues.
LEMMA InitInv2 == Init => Inv2
<1> SUFFICES ASSUME Init PROVE Inv2
  OBVIOUS
<1>1. CuentaDeListos
  BY DEF Init, CuentaDeListos, Semaforos, Uno
<1>2. Encolados = {}
  BY DEF Init, Encolados
<1>3. CuentaDeNuevos
  BY <1>2, FS_EmptySet DEF Init, CuentaDeNuevos, Espera, Semaforos, Uno
<1>4. PcbElegido
  BY DEF Init, PcbElegido
<1> QED
  BY <1>1, <1>3, <1>4, InitInv1 DEF Inv2

\* The list_add of pasar_a_ready makes lista_pcbs one longer.
LEMMA AgregaUno ==
    ASSUME lista_pcbs \in Seq(Procesos), NEW p \in Procesos, Agrega(p)
    PROVE  Len(lista_pcbs') = Len(lista_pcbs) + 1
  BY AppendProperties DEF Agrega

\* Each step that adds a pcb to lista_pcbs, or announces it, moves the count
\* by one; resto is what is halfway, I/O threads aside.
LEMMA CuentaDeListosInv ==
    ASSUME TypeOK, PcbUsado, CuentaDeListos, Next PROVE CuentaDeListos'
<1> USE DEF TipoSemaforos, CuentaDeListos, Semaforos, Uno, Wait, Post,
            Replanificar, hilo_cpu, hilo_largo, colas, bloqueadores
<1> DEFINE resto == Uno(corto = "quitar") + Uno(largo = "cantidad_procesos")
                   + Uno(cpu \in {"signal", "yield"})
<1>a. TipoColas' /\ TipoSemaforos'
  BY TipoColasInv, TipoSemaforosInv
<1>b. /\ sem["cantidad_procesos"] \in Nat /\ sem'["cantidad_procesos"] \in Nat
      /\ TipoSemaforos
      /\ Len(lista_pcbs) \in Nat /\ Len(pasando) \in Nat
      /\ Len(lista_pcbs') \in Nat /\ Len(pasando') \in Nat
  BY <1>a, LenProperties DEF TypeOK, TipoColas, TipoSemaforos, Semaforos
<1>c. Len(lista_pcbs) = sem["cantidad_procesos"] + resto + Len(pasando)
  BY <1>b DEF CuentaDeListos, Uno
<1> USE <1>b
<1>1. ASSUME NEW p \in Procesos, AvisarNuevo(p) PROVE CuentaDeListos'
  BY <1>1 DEF AvisarNuevo
<1>2. ASSUME LargoEsperaNuevo PROVE CuentaDeListos'
  BY <1>2 DEF LargoEsperaNuevo, LargoEspera
<1>3. ASSUME LargoEsperaGrado PROVE CuentaDeListos'
  BY <1>3 DEF LargoEsperaGrado, LargoEspera
<1>4. ASSUME LargoQuitaNuevo PROVE CuentaDeListos'
  BY <1>4 DEF LargoQuitaNuevo
<1>5. ASSUME LargoAgrega PROVE CuentaDeListos'
  <2>1. Len(lista_pcbs') = Len(lista_pcbs) + 1
    BY <1>5, AgregaUno DEF LargoAgrega, TypeOK, TipoColas, PcbUsado
  <2> QED
    BY <1>5, <2>1 DEF LargoAgrega
<1>6. ASSUME LargoAvisaListo PROVE CuentaDeListos'
  BY <1>6 DEF LargoAvisaListo, AvisaListo
<1>7. ASSUME LargoBuscaUltimo PROVE CuentaDeListos'
  BY <1>7 DEF LargoBuscaUltimo
<1>8. ASSUME LargoRegistra PROVE CuentaDeListos'
  BY <1>8 DEF LargoRegistra
<1>9. ASSUME CortoArranca PROVE CuentaDeListos'
  BY <1>9 DEF CortoArranca, CortoEspera
<1>10. ASSUME CortoReplanifica PROVE CuentaDeListos'
  BY <1>10 DEF CortoReplanifica, CortoEspera
<1>11. ASSUME CortoTope PROVE CuentaDeListos'
  BY <1>11 DEF CortoTope, CortoEspera
<1>12. ASSUME CortoCantidad PROVE CuentaDeListos'
  BY <1>12 DEF CortoCantidad, CortoEspera
<1>13. ASSUME CortoQuita PROVE CuentaDeListos'
  <2>1. corto = "quitar" /\ corto' = "proceso_running"
    BY <1>13 DEF CortoQuita
  <2>2. lista_pcbs # <<>>
    <3>1. Len(lista_pcbs) # 0
      BY <2>1, <1>c
    <3>2. lista_pcbs \in Seq(Procesos)
      BY DEF TypeOK, TipoColas
    <3> HIDE DEF CuentaDeListos, TipoSemaforos, Semaforos, Wait, Post
    <3> QED
      BY <3>1, <3>2, EmptySeq
  <2>3. Len(lista_pcbs') + 1 = Len(lista_pcbs)
    <3>1. PICK i \in 1..Len(lista_pcbs) : lista_pcbs' = RemoveAt(lista_pcbs, i)
      BY <1>13, <2>2, EmptySeq DEF CortoQuita, Elecciones, TypeOK, TipoColas
    <3>2. Len(lista_pcbs') = Len(lista_pcbs) - 1
      BY <3>1, QuitarUno DEF TypeOK, TipoColas
    <3> QED
      BY <3>2
  <2>4. UNCHANGED <<sem, largo, cpu, pasando>>
    BY <1>13 DEF CortoQuita
  <2>5. resto' \in Nat /\ resto' + 1 = resto
    BY <2>1, <2>4
  <2> HIDE DEF resto, Uno, TipoSemaforos, Semaforos, Wait, Post
  <2>6. Len(lista_pcbs') = sem'["cantidad_procesos"] + resto' + Len(pasando')
    BY <2>3, <2>4, <2>5, <1>c
  <2> QED
    BY <2>6 DEF resto, Uno
<1>14. ASSUME CortoDespacha PROVE CuentaDeListos'
  BY <1>14 DEF CortoDespacha
<1>15. ASSUME CpuToma PROVE CuentaDeListos'
  BY <1>15 DEF CpuToma
<1>16. ASSUME EjecutaIO PROVE CuentaDeListos'
  BY <1>16, DevuelveConCpu DEF EjecutaIO
<1>17. ASSUME NEW r \in Recursos, EjecutaWaitBloquea(r) PROVE CuentaDeListos'
  BY <1>17, DevuelveConCpu DEF EjecutaWaitBloquea
<1>18. ASSUME NEW r \in Recursos, EjecutaSignalDespierta(r) PROVE
       CuentaDeListos'
  <2>1. Head(procesos_bloqueados[r]) \in Procesos
    BY <1>18, HeadTailProperties
    DEF EjecutaSignalDespierta, HayEnEspera, TypeOK, TipoRecursos
  <2>2. Len(lista_pcbs') = Len(lista_pcbs) + 1
    BY <1>18, <2>1, AgregaUno
    DEF EjecutaSignalDespierta, TypeOK, TipoColas
  <2>3. cpu = "ejecuta"
    BY <1>18, DevuelveConCpu DEF EjecutaSignalDespierta
  <2> QED
    BY <1>18, <2>2, <2>3 DEF EjecutaSignalDespierta
<1>19. ASSUME CpuTerminaSignal PROVE CuentaDeListos'
  BY <1>19 DEF CpuTerminaSignal, AvisaListo
<1>20. ASSUME EjecutaYield PROVE CuentaDeListos'
  <2>1. cpu = "ejecuta"
    BY <1>20, DevuelveConCpu DEF EjecutaYield
  <2>2. Len(lista_pcbs') = Len(lista_pcbs) + 1
    BY <1>20, <2>1, AgregaUno DEF EjecutaYield, TypeOK, TipoColas, PcbUsado
  <2> QED
    BY <1>20, <2>1, <2>2 DEF EjecutaYield
<1>21. ASSUME CpuTerminaYield PROVE CuentaDeListos'
  BY <1>21 DEF CpuTerminaYield, AvisaListo
<1>22. ASSUME NEW motivo \in Motivos, TerminarProcesoEnEjecucion(motivo) PROVE
       CuentaDeListos'
  BY <1>22, DevuelveConCpu DEF TerminarProcesoEnEjecucion, AlTerminar
<1>23. ASSUME NEW p \in Procesos, BloqueadorDespierta(p) PROVE CuentaDeListos'
  <2>1. Len(lista_pcbs') = Len(lista_pcbs) + 1
    BY <1>23, AgregaUno DEF BloqueadorDespierta, TypeOK, TipoColas
  <2>2. Len(pasando) + 1 = Len(pasando')
    BY <1>23, AppendProperties DEF BloqueadorDespierta, TypeOK, TipoColas
  <2>3. UNCHANGED <<sem, corto, largo, cpu>>
    BY <1>23 DEF BloqueadorDespierta
  <2>4. resto \in Nat /\ resto' = resto
    BY <2>3
  <2> HIDE DEF resto, Uno, TipoSemaforos, Semaforos, Wait, Post
  <2>5. Len(lista_pcbs') = sem'["cantidad_procesos"] + resto' + Len(pasando')
    BY <2>1, <2>2, <2>3, <2>4, <1>c
  <2> QED
    BY <2>5 DEF resto, Uno
<1>24. ASSUME NEW n \in 1..Len(pasando), BloqueadorTermina(n) PROVE
       CuentaDeListos'
  <2>1. Len(pasando) - 1 = Len(pasando')
    BY <1>24, QuitarUno DEF BloqueadorTermina, TypeOK, TipoColas
  <2>2. UNCHANGED <<lista_pcbs, corto, largo, cpu>>
    BY <1>24 DEF BloqueadorTermina
  <2>3. sem'["cantidad_procesos"] = sem["cantidad_procesos"] + 1
    BY <1>24 DEF BloqueadorTermina, AvisaListo
  <2>4. resto \in Nat /\ resto' = resto
    BY <2>2
  <2> HIDE DEF resto, Uno, TipoSemaforos, Semaforos, Wait, Post
  <2>5. Len(lista_pcbs') = sem'["cantidad_procesos"] + resto' + Len(pasando')
    BY <2>1, <2>2, <2>3, <2>4, <1>c
  <2> QED
    BY <2>5 DEF resto, Uno
<1>25. CASE \/ \E p \in Procesos : EncolarNuevo(p)
            \/ \E r \in Recursos : EjecutaWait(r)
            \/ \E r \in Recursos : EjecutaSignal(r)
            \/ EjecutaSegmento
  BY <1>25 DEF EncolarNuevo, EjecutaWait, EjecutaSignal, EjecutaSegmento,
    LargoEspera, CortoEspera
<1> QED
  BY <1>1, <1>2, <1>3, <1>4, <1>5, <1>6, <1>7, <1>8, <1>9, <1>10, <1>11,
    <1>12, <1>13, <1>14, <1>15, <1>16, <1>17, <1>18, <1>19, <1>20, <1>21,
    <1>22, <1>23, <1>24, <1>25
  DEF Next, Consola, LargoPlazo, CortoPlazo, ComunicacionCPU, Bloqueador

\* A step that leaves cola_new and the consoles alone, does not touch
\* proceso_nuevo and does not move the long-term planner across its pop.
LEMMA NuevosIguales ==
    ASSUME CuentaDeNuevos, UNCHANGED <<cola_new, consola>>,
           sem'["proceso_nuevo"] = sem["proceso_nuevo"],
           Espera' = Espera
    PROVE  CuentaDeNuevos'
  BY DEF CuentaDeNuevos, Encolados

\* The same for cola_new; the consoles halfway are a finite set.
LEMMA CuentaDeNuevosInv ==
    ASSUME TypeOK, PcbUsado, CuentaDeNuevos, Next PROVE CuentaDeNuevos'
<1>a. /\ Cardinality(Encolados) \in Nat
      /\ sem["proceso_nuevo"] \in Nat /\ sem'["proceso_nuevo"] \in Nat
      /\ Len(cola_new) \in Nat /\ Len(cola_new') \in Nat
  <2>1. TipoColas' /\ TipoSemaforos'
    BY TipoColasInv, TipoSemaforosInv
  <2> QED
    BY <2>1, LenProperties, FS_CardinalityType
    DEF CuentaDeNuevos, TypeOK, TipoColas, TipoSemaforos, Semaforos
<1>b. Espera \in Nat /\ Espera' \in Nat
  BY DEF Espera, Uno
<1>1. ASSUME NEW p \in Procesos, EncolarNuevo(p) PROVE CuentaDeNuevos'
  <2>1. p \notin Encolados /\ Encolados' = Encolados \cup {p}
    BY <1>1 DEF EncolarNuevo, Encolados, TypeOK, TipoProcesos
  <2>2. /\ IsFiniteSet(Encolados')
        /\ Cardinality(Encolados') = Cardinality(Encolados) + 1
    BY <2>1, FS_AddElement DEF CuentaDeNuevos
  <2>3. Len(cola_new') = Len(cola_new) + 1
    BY <1>1, AppendProperties DEF EncolarNuevo, TypeOK, TipoColas
  <2>4. UNCHANGED <<sem, Espera>>
    BY <1>1 DEF EncolarNuevo, hilo_largo, Espera
  <2> QED
    BY <1>a, <1>b, <2>2, <2>3, <2>4 DEF CuentaDeNuevos
<1>2. ASSUME NEW p \in Procesos, AvisarNuevo(p) PROVE CuentaDeNuevos'
  <2>1. p \in Encolados /\ Encolados' = Encolados \ {p}
    BY <1>2 DEF AvisarNuevo, Encolados, TypeOK, TipoProcesos
  <2>2. /\ IsFiniteSet(Encolados')
        /\ Cardinality(Encolados') = Cardinality(Encolados) - 1
    BY <2>1, FS_RemoveElement DEF CuentaDeNuevos
  <2>3. sem'["proceso_nuevo"] = sem["proceso_nuevo"] + 1
    BY <1>2 DEF AvisarNuevo, Post, Semaforos
  <2>4. UNCHANGED <<cola_new, Espera>>
    BY <1>2 DEF AvisarNuevo, colas, hilo_largo, Espera
  <2> QED
    BY <1>a, <1>b, <2>2, <2>3, <2>4 DEF CuentaDeNuevos
<1>3. ASSUME LargoEsperaNuevo PROVE CuentaDeNuevos'
  <2>1. Espera = 0 /\ Espera' = 1
    BY <1>3 DEF LargoEsperaNuevo, LargoEspera, Espera, Uno
  <2>2. sem'["proceso_nuevo"] = sem["proceso_nuevo"] - 1
    BY <1>3 DEF LargoEsperaNuevo, LargoEspera, Wait, TypeOK, TipoSemaforos,
                Semaforos
  <2>3. UNCHANGED <<cola_new, Encolados>>
    BY <1>3 DEF LargoEsperaNuevo, LargoEspera, colas, Encolados
  <2> QED
    BY <1>a, <1>b, <2>1, <2>2, <2>3 DEF CuentaDeNuevos
<1>4. ASSUME LargoEsperaGrado PROVE CuentaDeNuevos'
  BY <1>4, NuevosIguales DEF LargoEsperaGrado, LargoEspera, Wait, colas,
    hilo_largo, TypeOK, TipoSemaforos, Semaforos, Espera, Uno
<1>5. ASSUME LargoQuitaNuevo PROVE CuentaDeNuevos'
  <2>1. Espera = 1 /\ Espera' = 0
    BY <1>5 DEF LargoQuitaNuevo, Espera, Uno
  <2>2. Len(cola_new') = Len(cola_new) - 1
    BY <1>5, HeadTailProperties DEF LargoQuitaNuevo, TypeOK, TipoColas
  <2>3. UNCHANGED <<sem, Encolados>>
    BY <1>5 DEF LargoQuitaNuevo, Encolados
  <2> QED
    BY <1>a, <1>b, <2>1, <2>2, <2>3 DEF CuentaDeNuevos
<1>6. ASSUME LargoAvisaListo PROVE CuentaDeNuevos'
  BY <1>6, NuevosIguales DEF LargoAvisaListo, AvisaListo, Post, colas,
    hilo_largo, TypeOK, TipoSemaforos, Semaforos, Espera, Uno
<1>7. ASSUME LargoRegistra PROVE CuentaDeNuevos'
  BY <1>7, NuevosIguales DEF LargoRegistra, Post, colas, hilo_largo, TypeOK,
    TipoSemaforos, Semaforos, Espera, Uno
<1>8. ASSUME CortoArranca PROVE CuentaDeNuevos'
  BY <1>8, NuevosIguales DEF CortoArranca, CortoEspera, Wait, colas,
    hilo_largo, TypeOK, TipoSemaforos, Semaforos, Espera, Uno
<1>9. ASSUME CortoReplanifica PROVE CuentaDeNuevos'
  BY <1>9, NuevosIguales DEF CortoReplanifica, CortoEspera, Wait, colas,
    hilo_largo, TypeOK, TipoSemaforos, Semaforos, Espera, Uno
<1>10. ASSUME CortoTope PROVE CuentaDeNuevos'
  BY <1>10, NuevosIguales DEF CortoTope, CortoEspera, Wait, colas, hilo_largo,
    TypeOK, TipoSemaforos, Semaforos, Espera, Uno
<1>11. ASSUME CortoCantidad PROVE CuentaDeNuevos'
  BY <1>11, NuevosIguales DEF CortoCantidad, CortoEspera, Wait, colas,
    hilo_largo, TypeOK, TipoSemaforos, Semaforos, Espera, Uno
<1>12. ASSUME CortoDespacha PROVE CuentaDeNuevos'
  BY <1>12, NuevosIguales DEF CortoDespacha, Post, colas, hilo_largo, TypeOK,
    TipoSemaforos, Semaforos, Espera, Uno
<1>13. ASSUME CpuToma PROVE CuentaDeNuevos'
  BY <1>13, NuevosIguales DEF CpuToma, Wait, colas, hilo_largo, TypeOK,
    TipoSemaforos, Semaforos, Espera, Uno
<1>14. ASSUME EjecutaIO PROVE CuentaDeNuevos'
  BY <1>14, NuevosIguales DEF EjecutaIO, Post, Replanificar, colas,
    hilo_largo, TypeOK, TipoSemaforos, Semaforos, Espera, Uno
<1>15. ASSUME NEW r \in Recursos, EjecutaWaitBloquea(r) PROVE CuentaDeNuevos'
  BY <1>15, NuevosIguales DEF EjecutaWaitBloquea, Post, Replanificar, colas,
    hilo_largo, TypeOK, TipoSemaforos, Semaforos, Espera, Uno
<1>16. ASSUME CpuTerminaSignal PROVE CuentaDeNuevos'
  BY <1>16, NuevosIguales DEF CpuTerminaSignal, AvisaListo, Post, colas,
    hilo_largo, TypeOK, TipoSemaforos, Semaforos, Espera, Uno
<1>17. ASSUME CpuTerminaYield PROVE CuentaDeNuevos'
  BY <1>17, NuevosIguales DEF CpuTerminaYield, AvisaListo, Post, Replanificar,
    colas, hilo_largo, TypeOK, TipoSemaforos, Semaforos, Espera, Uno
<1>18. ASSUME NEW motivo \in Motivos, TerminarProcesoEnEjecucion(motivo) PROVE
       CuentaDeNuevos'
  BY <1>18, NuevosIguales DEF TerminarProcesoEnEjecucion, AlTerminar, Post,
    Replanificar, colas, hilo_largo, TypeOK, TipoSemaforos, Semaforos, Espera,
    Uno
<1>19. ASSUME NEW n \in 1..Len(pasando), BloqueadorTermina(n) PROVE
       CuentaDeNuevos'
  BY <1>19, NuevosIguales DEF BloqueadorTermina, AvisaListo, Post, colas,
    hilo_largo, TypeOK, TipoSemaforos, Semaforos, Espera, Uno
<1>20. CASE \/ LargoAgrega
            \/ LargoBuscaUltimo
            \/ CortoQuita
            \/ \E r \in Recursos : EjecutaWait(r)
            \/ \E r \in Recursos : EjecutaSignal(r)
            \/ \E r \in Recursos : EjecutaSignalDespierta(r)
            \/ EjecutaYield
            \/ EjecutaSegmento
            \/ \E p \in Procesos : BloqueadorDespierta(p)
  BY <1>20, NuevosIguales DEF LargoAgrega, LargoBuscaUltimo, CortoQuita,
    EjecutaWait,
    EjecutaSignal, EjecutaSignalDespierta, EjecutaYield, EjecutaSegmento,
    BloqueadorDespierta, LargoEspera, CortoEspera, colas, hilo_largo, Espera,
    Uno
<1> QED
  BY <1>1, <1>2, <1>3, <1>4, <1>5, <1>6, <1>7, <1>8, <1>9, <1>10, <1>11,
    <1>12, <1>13, <1>14, <1>15, <1>16, <1>17, <1>18, <1>19, <1>20
  DEF Next, Consola, LargoPlazo, CortoPlazo, ComunicacionCPU, Bloqueador

\* The planner removes from a non-empty list, so what it chose is a pcb.
LEMMA PcbElegidoInv ==
    ASSUME TypeOK, CuentaDeListos, PcbElegido, Next PROVE PcbElegido'
<1>1. ASSUME CortoQuita PROVE PcbElegido'
  <2>1. lista_pcbs # <<>>
    BY <1>1, EmptySeq, LenProperties
    DEF CortoQuita, CuentaDeListos, TypeOK, TipoColas, TipoSemaforos,
        Semaforos, Uno
  <2>2. PICK i \in 1..Len(lista_pcbs) : pcb_en_ejecucion' = lista_pcbs[i]
    BY <1>1, <2>1, EmptySeq DEF CortoQuita, Elecciones, TypeOK, TipoColas
  <2> QED
    BY <2>2, ElementOfSeq DEF PcbElegido, TypeOK, TipoColas
<1>2. ASSUME CortoArranca \/ CortoReplanifica \/ CortoTope \/ CortoCantidad
             \/ CortoDespacha
      PROVE  PcbElegido'
  BY <1>2 DEF CortoArranca, CortoReplanifica, CortoTope, CortoCantidad,
              CortoDespacha, CortoEspera, PcbElegido
<1>3. CASE UNCHANGED <<corto, pcb_en_ejecucion>>
  BY <1>3 DEF PcbElegido
<1> QED
  BY <1>1, <1>2, <1>3 DEF Next, Consola, LargoPlazo, CortoPlazo,
        ComunicacionCPU, Bloqueador, LargoEspera, EncolarNuevo, AvisarNuevo,
        LargoEsperaNuevo, LargoEsperaGrado, LargoQuitaNuevo, LargoAgrega,
        LargoAvisaListo, LargoBuscaUltimo, LargoRegistra, CpuToma,
        EjecutaIO, EjecutaWait, EjecutaWaitBloquea, EjecutaSignal,
        EjecutaSignalDespierta, CpuTerminaSignal, EjecutaYield,
        CpuTerminaYield, EjecutaSegmento, TerminarProcesoEnEjecucion,
        BloqueadorDespierta, BloqueadorTermina

-----------------------------------------------------------------------------
\* Inv2 is inductive.
LEMMA Inv2Invariante == Inv2 /\ [Next]_vars => Inv2'
<1> SUFFICES ASSUME Inv2, [Next]_vars PROVE Inv2'
  OBVIOUS
<1>1. Inv1'
  BY Inv1Invariante DEF Inv2
<1>2. CASE Next
  BY <1>1, <1>2, CuentaDeListosInv, CuentaDeNuevosInv, PcbElegidoInv
  DEF Inv1, Inv2
<1>3. CASE UNCHANGED vars
  BY <1>1, <1>3 DEF vars, colas, bloqueadores, hilo_largo, hilo_cpu, Inv2,
      CuentaDeListos, CuentaDeNuevos, Encolados, Espera, PcbElegido
<1> QED
  BY <1>2, <1>3

(* Both counters, with what Inv1 says, hold of every state.                *)
THEOREM SpecInv2 == Spec => []Inv2
  BY InitInv2, Inv2Invariante, PTL DEF Spec

(* cantidad_procesos, the semaphore the short-term planner waits for, is   *)
(* exact: the length of lista_pcbs is its value plus the pcbs whose        *)
(* pasar_a_ready is halfway and the one waited for and not yet removed.    *)
THEOREM ListosExactos == Spec => []CuentaDeListos
<1>1. Inv2 => CuentaDeListos
  BY DEF Inv2
<1> QED
  BY <1>1, SpecInv2, PTL

(* Neither planner pops an empty queue (planificador.c:13-15 and 44-73).   *)
THEOREM QuitaSeguro == Spec => []NuncaQuitaDeListaVacia
<1>1. ASSUME Inv2 PROVE NuncaQuitaDeListaVacia
  <2>1. corto = "quitar" => lista_pcbs # <<>>
    BY <1>1, EmptySeq, LenProperties
    DEF Inv2, Inv1, CuentaDeListos, TypeOK, TipoColas, TipoSemaforos,
        Semaforos, Uno
  <2>2. corto = "proceso_running" => pcb_en_ejecucion # Ninguno
    BY <1>1, ProcesosAssumption DEF Inv2, PcbElegido
  <2>3. largo \in {"grado_multiprogramacion_disponible", "cola_new"} =>
            cola_new # <<>>
    BY <1>1, EmptySeq, FS_CardinalityType
    DEF Inv2, Inv1, CuentaDeNuevos, Espera, TypeOK, TipoSemaforos, Semaforos,
        Uno
  <2> QED
    BY <2>1, <2>2, <2>3 DEF NuncaQuitaDeListaVacia
<1> QED
  BY <1>1, SpecInv2, PTL
=============================================================================
