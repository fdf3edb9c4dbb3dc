---------------------------- MODULE Planificador ----------------------------
(***************************************************************************)
(* The process scheduling core of the kernel, thread by thread:            *)
(*   - one console thread per connected console    (main.c)                *)
(*   - the long-term and the short-term planner    (planificador.c)        *)
(*   - the thread that talks to the CPU            (comunicacion_cpu.c)    *)
(*   - one detached thread per I/O burst           (planificador.c)        *)
(* The threads share the queues of pcbs and synchronise with POSIX         *)
(* semaphores.  A step is one semaphore operation, or one section between  *)
(* two of them that touches only data no other thread can touch meanwhile; *)
(* a trailing sem_post is part of the step it ends.                        *)
(*                                                                         *)
(* The CPU module is seen through what it returns: the next instruction of *)
(* the running process that needs the kernel.  The instructions on files   *)
(* and the sockets to the memory are not part of this module.              *)
(***************************************************************************)
EXTENDS Integers, Sequences, FiniteSets, SequencesExt

CONSTANTS
    Procesos,                    \* the processes the consoles may start
    Recursos,                    \* RECURSOS of the configuration
    InstanciasRecursos,          \* INSTANCIAS_RECURSOS
    GRADO_MAX_MULTIPROGRAMACION,
    ALGORITMO_PLANIFICACION,     \* "FIFO" or "HRRN"
    Programas,                   \* the programs a process may be given
    Ninguno                      \* no pcb (NULL), and no such resource

ASSUME RecursosAssumption ==
    /\ InstanciasRecursos \in [Recursos -> Nat]
    /\ Ninguno \notin Recursos
ASSUME ProcesosAssumption == Ninguno \notin Procesos
ASSUME GradoAssumption == GRADO_MAX_MULTIPROGRAMACION \in Nat
ASSUME AlgoritmoAssumption == ALGORITMO_PLANIFICACION \in {"FIFO", "HRRN"}

\* What the CPU hands back as motivo_desalojo, files aside.
Operaciones == {"IO", "WAIT", "SIGNAL", "CREATE_SEGMENT", "DELETE_SEGMENT",
                "YIELD", "EXIT", "SEG_FAULT"}

\* parametro1 is told apart only as the resource it names, if it names one.
Instruccion == [nombre : Operaciones, parametro1 : Recursos \cup {Ninguno}]

ASSUME ProgramasAssumption == Programas \subseteq Seq(Instruccion)

\* The semaphores of main.c that this module's threads use.  The mutexes are
\* not listed: each section they protect is one step.
Semaforos == {"proceso_nuevo", "grado_multiprogramacion_disponible",
              "sem_corto_plazo", "sem_replanificar", "tope_ejecucion",
              "cantidad_procesos", "proceso_running"}

Motivos == {"FINALIZA_PROCESO", "SEGMENTATION_FAULT", "RECURSO_INVALIDO",
            "SIN_MEMORIA", "SIN_ESPACIO_EN_TABLA", "SEGMENTO_YA_CREADO"}

\* A pcb that has not ended has no motivo_fin_proceso.
ASSUME MotivosAssumption == Ninguno \notin Motivos

VARIABLES
    sem,                   \* the value of each semaphore
    \* --- pcbs
    programa,              \* pcb->instrucciones
    program_counter,
    \* --- where pcbs wait
    cola_new, lista_pcbs, lista_global_de_pcbs, pcb_en_ejecucion,
    instancias, procesos_bloqueados,       \* of each t_recurso
    durmiendo,             \* pcbs whose bloquear_por_tiempo thread sleeps
    pasando,               \* pcbs whose bloquear_por_tiempo thread is inside
                           \* pasar_a_ready, after its list_add
    notificado,            \* last motivo published in proceso_finalizado
    \* --- control of the threads: what each is about to do
    consola, largo, pcb_largo, ultimo, corto, cpu, pcb_desbloqueado

colas == <<cola_new, lista_pcbs, lista_global_de_pcbs>>
recursos == <<instancias, procesos_bloqueados>>
bloqueadores == <<durmiendo, pasando>>
hilo_largo == <<largo, pcb_largo, ultimo>>
hilo_cpu == <<cpu, pcb_desbloqueado>>
vars == <<sem, programa, program_counter, colas, pcb_en_ejecucion,
          recursos, bloqueadores, notificado, consola, hilo_largo, corto,
          hilo_cpu>>

-----------------------------------------------------------------------------
Init ==
    /\ sem = [s \in Semaforos |->
                IF s = "grado_multiprogramacion_disponible"
                THEN GRADO_MAX_MULTIPROGRAMACION
                ELSE IF s \in {"sem_replanificar", "tope_ejecucion"} THEN 1
                ELSE 0]
    /\ programa \in [Procesos -> Programas]
    /\ program_counter = [p \in Procesos |-> 0]
    /\ cola_new = <<>>
    /\ lista_pcbs = <<>>
    /\ lista_global_de_pcbs = <<>>
    /\ pcb_en_ejecucion = Ninguno
    /\ instancias = InstanciasRecursos
    /\ procesos_bloqueados = [r \in Recursos |-> <<>>]
    /\ durmiendo = {}
    /\ pasando = <<>>
    /\ notificado = [p \in Procesos |-> Ninguno]
    /\ consola = [p \in Procesos |-> "inicio"]
    /\ largo = "proceso_nuevo"
    /\ pcb_largo = Ninguno
    /\ ultimo = Ninguno
    /\ corto = "sem_corto_plazo"
    /\ cpu = "proceso_running"
    /\ pcb_desbloqueado = Ninguno

\* sem_wait on one semaphore; sem_post on each semaphore of a set.
Wait(s) ==
    /\ sem[s] > 0
    /\ sem' = [sem EXCEPT ![s] = @ - 1]

Post(S) ==
    sem' = [s \in Semaforos |-> IF s \in S THEN sem[s] + 1 ELSE sem[s]]

\* (mutant) replanificar() forgets tope_ejecucion.
Replanificar_SinTope == {"sem_replanificar"}
\* The semaphores replanificar() posts to let the short-term planner choose.
Replanificar == {"tope_ejecucion", "sem_replanificar"}

\* pasar_a_ready in two steps: the list_add under mutex_lista_pcbs, then the
\* sem_post, here with the posts of S that follow it.
Agrega(p) == lista_pcbs' = Append(lista_pcbs, p)

\* (mutant) pasar_a_ready without its sem_post.
AvisaListo_SinPost(S) == Post(S)

\* (mutant) the thread also calls replanificar().
AvisaListo_Replanifica(S) == Post({"cantidad_procesos"} \cup Replanificar)

AvisaListo(S) == Post({"cantidad_procesos"} \cup S)

-----------------------------------------------------------------------------
(* Console threads: comunicacion_consola up to the wait for the end of its *)
(* process.                                                                *)

EncolarNuevo(p) ==
    /\ consola[p] = "inicio"
    /\ cola_new' = Append(cola_new, p)
    /\ consola' = [consola EXCEPT ![p] = "encolado"]
    /\ UNCHANGED <<sem, programa, program_counter, lista_pcbs,
                   lista_global_de_pcbs, pcb_en_ejecucion, recursos,
                   bloqueadores, notificado, hilo_largo, corto, hilo_cpu>>

AvisarNuevo(p) ==
    /\ consola[p] = "encolado"
    /\ Post({"proceso_nuevo"})
    /\ consola' = [consola EXCEPT ![p] = "espera_fin"]
    /\ UNCHANGED <<programa, program_counter, colas, pcb_en_ejecucion,
                   recursos, bloqueadores, notificado, hilo_largo, corto,
                   hilo_cpu>>

-----------------------------------------------------------------------------
(* planificador_largo_plazo                                                *)

LargoEspera(s, siguiente) ==
    /\ largo = s
    /\ Wait(s)
    /\ largo' = siguiente
    /\ UNCHANGED <<programa, program_counter, colas, pcb_en_ejecucion,
                   recursos, bloqueadores, notificado, consola, pcb_largo,
                   ultimo, corto, hilo_cpu>>

LargoEsperaNuevo ==
    LargoEspera("proceso_nuevo", "grado_multiprogramacion_disponible")

LargoEsperaGrado ==
    LargoEspera("grado_multiprogramacion_disponible", "cola_new")

\* queue_pop(cola_new); the memory then creates the segment table.
LargoQuitaNuevo ==
    /\ largo = "cola_new"
    /\ cola_new # <<>>
    /\ pcb_largo' = Head(cola_new)
    /\ cola_new' = Tail(cola_new)
    /\ largo' = "list_add"
    /\ UNCHANGED <<sem, programa, program_counter, lista_pcbs,
                   lista_global_de_pcbs, pcb_en_ejecucion, recursos,
                   bloqueadores, notificado, consola, ultimo, corto, hilo_cpu>>

LargoAgrega ==
    /\ largo = "list_add"
    /\ Agrega(pcb_largo)
    /\ largo' = "cantidad_procesos"
    /\ UNCHANGED <<sem, programa, program_counter, cola_new,
                   lista_global_de_pcbs, pcb_en_ejecucion, recursos,
                   bloqueadores, notificado, consola, pcb_largo, ultimo,
                   corto, hilo_cpu>>

LargoAvisaListo ==
    /\ largo = "cantidad_procesos"
    /\ AvisaListo({})
    /\ largo' = "lista_global"
    /\ UNCHANGED <<programa, program_counter, colas, pcb_en_ejecucion,
                   recursos, bloqueadores, notificado, consola, pcb_largo,
                   ultimo, corto, hilo_cpu>>

\* list_add(lista_global_de_pcbs, pcb), which no mutex protects: the library
\* finds the last node and links the new one to it.  The link is lost if the
\* CPU thread removed that node in between.
LargoBuscaUltimo ==
    /\ largo = "lista_global"
    /\ ultimo' = IF lista_global_de_pcbs = <<>> THEN Ninguno
                 ELSE Last(lista_global_de_pcbs)
    /\ largo' = "enlaza"
    /\ UNCHANGED <<sem, programa, program_counter, colas,
                   pcb_en_ejecucion, recursos, bloqueadores, notificado,
                   consola, pcb_largo, corto, hilo_cpu>>

EnlazaAlUltimo ==
    lista_global_de_pcbs' =
        IF ultimo = Ninguno \/ ultimo \in Range(lista_global_de_pcbs)
        THEN Append(lista_global_de_pcbs, pcb_largo)
        ELSE lista_global_de_pcbs

LargoRegistra ==
    /\ largo = "enlaza"
    /\ EnlazaAlUltimo
    /\ Post({"sem_corto_plazo"})
    /\ largo' = "proceso_nuevo"
    /\ pcb_largo' = Ninguno
    /\ ultimo' = Ninguno
    /\ UNCHANGED <<programa, program_counter, cola_new, lista_pcbs,
                   pcb_en_ejecucion, recursos, bloqueadores, notificado,
                   consola, corto, hilo_cpu>>

-----------------------------------------------------------------------------
(* planificador_corto_plazo: the first process ever ready starts it, then  *)
(* each turn of its loop waits for three semaphores, removes one pcb from  *)
(* lista_pcbs and wakes the CPU thread.                                    *)

CortoEspera(s, siguiente) ==
    /\ corto = s
    /\ Wait(s)
    /\ corto' = siguiente
    /\ UNCHANGED <<programa, program_counter, colas, pcb_en_ejecucion,
                   recursos, bloqueadores, notificado, consola, hilo_largo,
                   hilo_cpu>>

CortoArranca == CortoEspera("sem_corto_plazo", "sem_replanificar")
CortoReplanifica == CortoEspera("sem_replanificar", "tope_ejecucion")
\* (mutant) cantidad_procesos is not waited for.
CortoTope_SinContador == CortoEspera("tope_ejecucion", "quitar")
CortoTope == CortoEspera("tope_ejecucion", "cantidad_procesos")
CortoCantidad == CortoEspera("cantidad_procesos", "quitar")

\* (mutant) the pcb chosen stays in the list.
Elecciones_SinQuitar ==
    IF lista_pcbs = <<>> THEN {<<Ninguno, <<>> >>}
    ELSE {<<lista_pcbs[1], lista_pcbs>>}

\* (mutant) the newest ready process is taken.
Elecciones_UltimoPrimero ==
    IF lista_pcbs = <<>> THEN {<<Ninguno, <<>> >>}
    ELSE {<<Last(lista_pcbs), Front(lista_pcbs)>>}

\* What the algorithm may take out of lista_pcbs: the pcb, and the list left.
\* HRRN compares response ratios computed from wall-clock times, so any ready
\* process may have the highest.  On an empty list both variants get NULL.
Elecciones ==
    IF lista_pcbs = <<>> THEN {<<Ninguno, <<>> >>}
    ELSE {<<lista_pcbs[i], RemoveAt(lista_pcbs, i)>> :
             i \in IF ALGORITMO_PLANIFICACION = "FIFO" THEN {1}
                   ELSE 1..Len(lista_pcbs)}

\* The section under mutex_lista_pcbs.
CortoQuita ==
    /\ corto = "quitar"
    /\ \E e \in Elecciones :
          /\ pcb_en_ejecucion' = e[1]
          /\ lista_pcbs' = e[2]
    /\ corto' = "proceso_running"
    /\ UNCHANGED <<sem, programa, program_counter, cola_new,
                   lista_global_de_pcbs, recursos, bloqueadores, notificado,
                   consola, hilo_largo, hilo_cpu>>

CortoDespacha ==
    /\ corto = "proceso_running"
    /\ pcb_en_ejecucion # Ninguno
    /\ Post({"proceso_running"})
    /\ corto' = "sem_replanificar"
    /\ UNCHANGED <<programa, program_counter, colas, pcb_en_ejecucion,
                   recursos, bloqueadores, notificado, consola, hilo_largo,
                   hilo_cpu>>

-----------------------------------------------------------------------------
(* comunicacion_CPU: takes the dispatched process, sends its context, and  *)
(* serves what the CPU returns until flag_replanificar is set.             *)

CpuToma ==
    /\ cpu = "proceso_running"
    /\ Wait("proceso_running")
    /\ cpu' = "ejecuta"
    /\ UNCHANGED <<programa, program_counter, colas, pcb_en_ejecucion,
                   recursos, bloqueadores, notificado, consola, hilo_largo,
                   corto, pcb_desbloqueado>>

Pendiente(p) == programa[p][program_counter[p] + 1]

\* The CPU returned with one of these operations as motivo_desalojo.  A
\* program that ran past its last instruction never returns.
Devuelve(operaciones) ==
    /\ cpu = "ejecuta"
    /\ program_counter[pcb_en_ejecucion] < Len(programa[pcb_en_ejecucion])
    /\ Pendiente(pcb_en_ejecucion).nombre \in operaciones

DevuelveRecurso(operacion, r) ==
    /\ Devuelve({operacion})
    /\ Pendiente(pcb_en_ejecucion).parametro1 = r

Avanza == program_counter' =
              [program_counter EXCEPT ![pcb_en_ejecucion] = @ + 1]

\* (mutant) an off-by-one in the test of the instances.
HayInstancias_ConCero(r) == instancias[r] >= 0
HayInstancias(r) == instancias[r] > 0

\* (mutant) an off-by-one in the test of the queue.
HayEnEspera_MasDeUno(r) == Len(procesos_bloqueados[r]) > 1
HayEnEspera(r) == procesos_bloqueados[r] # <<>>

\* (mutant) a SIGNAL that wakes a process does not count its instance.
SumaInstancia_SinEspera(r) ==
    instancias' = [instancias EXCEPT
                      ![r] = IF HayEnEspera(r) THEN @ ELSE @ + 1]

SumaInstancia(r) == instancias' = [instancias EXCEPT ![r] = @ + 1]

\* (mutant) queue_peek for queue_pop.
Desencola_SoloMira(r) == UNCHANGED procesos_bloqueados
Desencola(r) ==
    procesos_bloqueados' = [procesos_bloqueados EXCEPT ![r] = Tail(@)]

\* IO: pasar_a_blocked, replanificar, and a thread that sleeps.
EjecutaIO ==
    /\ Devuelve({"IO"})
    /\ durmiendo' = durmiendo \cup {pcb_en_ejecucion}
    /\ Post(Replanificar)
    /\ cpu' = "proceso_running"
    /\ UNCHANGED <<programa, program_counter, colas, pcb_en_ejecucion,
                   recursos, pasando, notificado, consola, hilo_largo, corto,
                   pcb_desbloqueado>>

\* WAIT with instances left: the process goes on.
EjecutaWait(r) ==
    /\ DevuelveRecurso("WAIT", r)
    /\ HayInstancias(r)
    /\ instancias' = [instancias EXCEPT ![r] = @ - 1]
    /\ Avanza
    /\ UNCHANGED <<sem, programa, colas, pcb_en_ejecucion,
                   procesos_bloqueados, bloqueadores, notificado, consola,
                   hilo_largo, corto, hilo_cpu>>

\* WAIT with none left: the process is queued, and its program counter stays
\* at the WAIT, which it executes again once it is woken.
EjecutaWaitBloquea(r) ==
    /\ DevuelveRecurso("WAIT", r)
    /\ ~HayInstancias(r)
    /\ procesos_bloqueados' =
          [procesos_bloqueados EXCEPT ![r] = Append(@, pcb_en_ejecucion)]
    /\ Post(Replanificar)
    /\ cpu' = "proceso_running"
    /\ UNCHANGED <<programa, program_counter, colas, pcb_en_ejecucion,
                   instancias, bloqueadores, notificado, consola, hilo_largo,
                   corto, pcb_desbloqueado>>

\* SIGNAL with nobody queued.
EjecutaSignal(r) ==
    /\ DevuelveRecurso("SIGNAL", r)
    /\ ~HayEnEspera(r)
    /\ SumaInstancia(r)
    /\ Avanza
    /\ UNCHANGED <<sem, programa, colas, pcb_en_ejecucion,
                   procesos_bloqueados, bloqueadores, notificado, consola,
                   hilo_largo, corto, hilo_cpu>>

\* SIGNAL with processes queued: the first one is popped and added to
\* lista_pcbs; the rest of pasar_a_ready is the step that follows.
EjecutaSignalDespierta(r) ==
    /\ DevuelveRecurso("SIGNAL", r)
    /\ HayEnEspera(r)
    /\ SumaInstancia(r)
    /\ pcb_desbloqueado' = Head(procesos_bloqueados[r])
    /\ Desencola(r)
    /\ Agrega(Head(procesos_bloqueados[r]))
    /\ cpu' = "signal"
    /\ UNCHANGED <<sem, programa, program_counter, cola_new,
                   lista_global_de_pcbs, pcb_en_ejecucion, bloqueadores,
                   notificado, consola, hilo_largo, corto>>

CpuTerminaSignal ==
    /\ cpu = "signal"
    /\ AvisaListo({})
    /\ Avanza
    /\ cpu' = "ejecuta"
    /\ pcb_desbloqueado' = Ninguno
    /\ UNCHANGED <<programa, colas, pcb_en_ejecucion, recursos, bloqueadores,
                   notificado, consola, hilo_largo, corto>>

\* YIELD: pasar_a_ready first, then the program counter and replanificar.
EjecutaYield ==
    /\ Devuelve({"YIELD"})
    /\ Agrega(pcb_en_ejecucion)
    /\ cpu' = "yield"
    /\ UNCHANGED <<sem, programa, program_counter, cola_new,
                   lista_global_de_pcbs, pcb_en_ejecucion, recursos,
                   bloqueadores, notificado, consola, hilo_largo, corto,
                   pcb_desbloqueado>>

CpuTerminaYield ==
    /\ cpu = "yield"
    /\ AvisaListo(Replanificar)
    /\ Avanza
    /\ cpu' = "proceso_running"
    /\ UNCHANGED <<programa, colas, pcb_en_ejecucion, recursos, bloqueadores,
                   notificado, consola, hilo_largo, corto, pcb_desbloqueado>>

\* CREATE_SEGMENT that the memory accepts, and DELETE_SEGMENT.
EjecutaSegmento ==
    /\ Devuelve({"CREATE_SEGMENT", "DELETE_SEGMENT"})
    /\ Avanza
    /\ UNCHANGED <<sem, programa, colas, pcb_en_ejecucion, recursos,
                   bloqueadores, notificado, consola, hilo_largo, corto,
                   hilo_cpu>>

\* Why the kernel ends the running process at instruction i.  A CREATE_SEGMENT
\* may also be refused for a compaction: the kernel compacts, and the CPU
\* returns with the same instruction, which leaves this state unchanged.
MotivosDeFin(i) ==
    CASE i.nombre = "EXIT" -> {"FINALIZA_PROCESO"}
      [] i.nombre = "SEG_FAULT" -> {"SEGMENTATION_FAULT"}
      [] i.nombre \in {"WAIT", "SIGNAL"} ->
             IF i.parametro1 \in Recursos THEN {} ELSE {"RECURSO_INVALIDO"}
      [] i.nombre = "CREATE_SEGMENT" ->
             {"SIN_MEMORIA", "SIN_ESPACIO_EN_TABLA", "SEGMENTO_YA_CREADO"}
      [] OTHER -> {}

\* (mutant) the place in the degree of multiprogramming is leaked.
AlTerminar_SinGrado == Replanificar
AlTerminar == {"grado_multiprogramacion_disponible"} \cup Replanificar

\* list_remove_element(lista_global_de_pcbs, p): nothing if p is not there yet.
BorraDeLaGlobal(p) ==
    \/ \E i \in 1..Len(lista_global_de_pcbs) :
          /\ lista_global_de_pcbs[i] = p
          /\ lista_global_de_pcbs' = RemoveAt(lista_global_de_pcbs, i)
    \/ /\ p \notin Range(lista_global_de_pcbs)
       /\ UNCHANGED lista_global_de_pcbs

\* terminar_proceso_en_ejecucion and replanificar.  Nothing gives back the
\* instances the process holds.
TerminarProcesoEnEjecucion(motivo) ==
    /\ Devuelve(Operaciones)
    /\ motivo \in MotivosDeFin(Pendiente(pcb_en_ejecucion))
    /\ BorraDeLaGlobal(pcb_en_ejecucion)
    /\ notificado' = [notificado EXCEPT ![pcb_en_ejecucion] = motivo]
    /\ Post(AlTerminar)
    /\ cpu' = "proceso_running"
    /\ UNCHANGED <<programa, program_counter, cola_new, lista_pcbs,
                   pcb_en_ejecucion, recursos, bloqueadores, consola,
                   hilo_largo, corto, pcb_desbloqueado>>

-----------------------------------------------------------------------------
(* bloquear_por_tiempo: one detached thread per I/O burst.                 *)

\* The sleep ends: program_counter++ and the list_add of pasar_a_ready.
BloqueadorDespierta(p) ==
    /\ p \in durmiendo
    /\ durmiendo' = durmiendo \ {p}
    /\ program_counter' = [program_counter EXCEPT ![p] = @ + 1]
    /\ Agrega(p)
    /\ pasando' = Append(pasando, p)
    /\ UNCHANGED <<sem, programa, cola_new, lista_global_de_pcbs,
                   pcb_en_ejecucion, recursos, notificado, consola,
                   hilo_largo, corto, hilo_cpu>>

\* The second half of pasar_a_ready, of any of those threads.
BloqueadorTermina(n) ==
    /\ n \in 1..Len(pasando)
    /\ AvisaListo({})
    /\ pasando' = RemoveAt(pasando, n)
    /\ UNCHANGED <<programa, program_counter, colas, pcb_en_ejecucion,
                   recursos, durmiendo, notificado, consola, hilo_largo,
                   corto, hilo_cpu>>

-----------------------------------------------------------------------------
Consola(p) == EncolarNuevo(p) \/ AvisarNuevo(p)

LargoPlazo ==
    \/ LargoEsperaNuevo
    \/ LargoEsperaGrado
    \/ LargoQuitaNuevo
    \/ LargoAgrega
    \/ LargoAvisaListo
    \/ LargoBuscaUltimo
    \/ LargoRegistra

CortoPlazo ==
    \/ CortoArranca
    \/ CortoReplanifica
    \/ CortoTope
    \/ CortoCantidad
    \/ CortoQuita
    \/ CortoDespacha

ComunicacionCPU ==
    \/ CpuToma
    \/ EjecutaIO
    \/ \E r \in Recursos :
          \/ EjecutaWait(r)
          \/ EjecutaWaitBloquea(r)
          \/ EjecutaSignal(r)
          \/ EjecutaSignalDespierta(r)
    \/ CpuTerminaSignal
    \/ EjecutaYield
    \/ CpuTerminaYield
    \/ EjecutaSegmento
    \/ \E motivo \in Motivos : TerminarProcesoEnEjecucion(motivo)

Bloqueador ==
    \/ \E p \in Procesos : BloqueadorDespierta(p)
    \/ \E n \in 1..Len(pasando) : BloqueadorTermina(n)

Next ==
    \/ \E p \in Procesos : Consola(p)
    \/ LargoPlazo
    \/ CortoPlazo
    \/ ComunicacionCPU
    \/ Bloqueador

Spec == Init /\ [][Next]_vars

-----------------------------------------------------------------------------
(* Correctness.                                                            *)

\* The type of every variable.
TipoSemaforos == sem \in [Semaforos -> Nat]
TipoProcesos ==
    /\ programa \in [Procesos -> Programas]
    /\ program_counter \in [Procesos -> Nat]
    /\ notificado \in [Procesos -> Motivos \cup {Ninguno}]
    /\ consola \in [Procesos -> {"inicio", "encolado", "espera_fin"}]
TipoColas ==
    /\ cola_new \in Seq(Procesos)
    /\ lista_pcbs \in Seq(Procesos)
    /\ lista_global_de_pcbs \in Seq(Procesos)
    /\ durmiendo \in SUBSET Procesos
    /\ pasando \in Seq(Procesos)
TipoRecursos ==
    /\ instancias \in [Recursos -> Nat]
    /\ procesos_bloqueados \in [Recursos -> Seq(Procesos)]
TipoHilos ==
    /\ largo \in {"proceso_nuevo", "grado_multiprogramacion_disponible",
                  "cola_new", "list_add", "cantidad_procesos", "lista_global",
                  "enlaza"}
    /\ corto \in {"sem_corto_plazo", "sem_replanificar", "tope_ejecucion",
                  "cantidad_procesos", "quitar", "proceso_running"}
    /\ cpu \in {"proceso_running", "ejecuta", "signal", "yield"}
    /\ pcb_largo \in Procesos \cup {Ninguno}
    /\ ultimo \in Procesos \cup {Ninguno}
    /\ pcb_en_ejecucion \in Procesos \cup {Ninguno}
    /\ pcb_desbloqueado \in Procesos \cup {Ninguno}
TypeOK ==
    /\ TipoSemaforos
    /\ TipoProcesos
    /\ TipoColas
    /\ TipoRecursos
    /\ TipoHilos

Uno(condicion) == IF condicion THEN 1 ELSE 0

(* The dispatch token.  tope_ejecucion, and sem_replanificar with it, is   *)
(* handed from the planner to the CPU thread through proceso_running and   *)
(* back by replanificar(): one of them holds it at any time.               *)
FichaDeEjecucion ==
    /\ sem["sem_replanificar"] + Uno(corto \in {"tope_ejecucion",
          "cantidad_procesos", "quitar", "proceso_running"})
       + sem["proceso_running"] + Uno(cpu # "proceso_running") = 1
    /\ sem["tope_ejecucion"] + Uno(corto \in {"cantidad_procesos", "quitar",
          "proceso_running"})
       + sem["proceso_running"] + Uno(cpu # "proceso_running") = 1

(* The global pcb_en_ejecucion is written by the short-term planner and    *)
(* read, without a lock, by the CPU thread between any two of its steps:   *)
(* it never changes while the CPU thread is using it.                      *)
PcbEnEjecucionEstable ==
    [][cpu # "proceso_running" => pcb_en_ejecucion' = pcb_en_ejecucion]_vars

(* cantidad_procesos never promises more pcbs than lista_pcbs holds: it    *)
(* counts those whose pasar_a_ready is complete, less the one the planner  *)
(* has waited for and not yet removed.                                     *)
CuentaDeListos ==
    Len(lista_pcbs) = sem["cantidad_procesos"] + Uno(corto = "quitar")
        + Uno(largo = "cantidad_procesos") + Uno(cpu \in {"signal", "yield"})
        + Len(pasando)

(* No thread takes a pcb out of an empty queue: the planner at lista_pcbs  *)
(* (planificador.c:51: "que no intente quitar un elemento si ya no hay     *)
(* mas") and the long-term planner at cola_new.                            *)
NuncaQuitaDeListaVacia ==
    /\ corto = "quitar" => lista_pcbs # <<>>
    /\ corto = "proceso_running" => pcb_en_ejecucion # Ninguno
    /\ largo \in {"grado_multiprogramacion_disponible", "cola_new"} =>
           cola_new # <<>>

\* The process the CPU has, or is about to be given.
Ejecutando ==
    IF \/ corto = "proceso_running"
       \/ sem["proceso_running"] > 0
       \/ cpu \in {"ejecuta", "signal"}
    THEN {pcb_en_ejecucion} ELSE {}

Terminados == {p \in Procesos : notificado[p] # Ninguno}

\* How many times an element is in a sequence, and the queues that hold p.
Veces(s, e) == Cardinality({i \in DOMAIN s : s[i] = e})
EnEspera(p) == {r \in Recursos : Veces(procesos_bloqueados[r], p) = 1}

(* No pcb is lost and none is in two places: a process that arrived is     *)
(* exactly once in one of the queues, or about to be added to lista_pcbs,  *)
(* or running, or in an I/O burst, or finished.                            *)
CadaPcbEnUnLugar ==
    \A p \in Procesos :
        /\ Veces(cola_new, p) + Veces(lista_pcbs, p)
              + Uno(largo = "list_add" /\ pcb_largo = p)
              + Uno(p \in Ejecutando) + Uno(p \in durmiendo)
              + Cardinality(EnEspera(p)) + Uno(p \in Terminados)
           = Uno(consola[p] # "inicio")
        /\ \A r \in Recursos : Veces(procesos_bloqueados[r], p) <= 1

\* Processes past the long-term planner's wait on the degree and not finished.
Admitidos ==
    {p \in Procesos : consola[p] # "inicio"} \ (Range(cola_new) \cup Terminados)

(* The degree of multiprogramming: the semaphore counts the places left,   *)
(* so the admitted processes never exceed it and no place is leaked.       *)
GradoRespetado ==
    sem["grado_multiprogramacion_disponible"] + Cardinality(Admitidos)
        + Uno(largo = "cola_new") = GRADO_MAX_MULTIPROGRAMACION

(* No lost wake-up on a resource: while processes are queued for it, every *)
(* instance that is free has a process, ready or running, about to retry   *)
(* its WAIT on it.                                                         *)
Reintentan(r) ==
    {p \in Range(lista_pcbs) \cup Ejecutando :
        /\ program_counter[p] < Len(programa[p])
        /\ Pendiente(p) = [nombre |-> "WAIT", parametro1 |-> r]}

SinDespertarPerdido ==
    \A r \in Recursos :
        procesos_bloqueados[r] # <<>> =>
            instancias[r] <= Cardinality(Reintentan(r))

(* Every instance is accounted for: those left, less those the SIGNALs     *)
(* executed so far created, are those the WAITs executed so far took.  A   *)
(* WAIT that blocked and was retried took one instance, not two.           *)
HechasPor(p, op, r) ==
    {k \in 1..program_counter[p] :
        programa[p][k] = [nombre |-> op, parametro1 |-> r]}
Hechas(p, op, r) == Cardinality(HechasPor(p, op, r))

Ejecutadas(op, r) ==
    UNION {{<<p, k>> : k \in HechasPor(p, op, r)} : p \in Procesos}
Total(op, r) == Cardinality(Ejecutadas(op, r))

RecursosConservados ==
    \A r \in Recursos :
        instancias[r] + Total("WAIT", r) =
            InstanciasRecursos[r] + Total("SIGNAL", r)
            + Uno(cpu = "signal" /\ Pendiente(pcb_en_ejecucion).parametro1 = r)

(* The program that runs went past its last instruction, and the CPU never *)
(* returns.                                                                *)
SinRetorno ==
    /\ cpu = "ejecuta"
    /\ program_counter[pcb_en_ejecucion] >= Len(programa[pcb_en_ejecucion])

(* No thread can take a step: the consoles wait for the end of their       *)
(* process, both planners at a semaphore that is zero, the CPU thread at   *)
(* its own or for the CPU, and no I/O thread is left.                      *)
Detenido ==
    /\ \A p \in Procesos : consola[p] = "espera_fin"
    /\ largo \in {"proceso_nuevo", "grado_multiprogramacion_disponible"}
    /\ sem[largo] = 0
    /\ corto \in {"sem_corto_plazo", "sem_replanificar", "tope_ejecucion",
                  "cantidad_procesos"}
    /\ sem[corto] = 0
    /\ SinRetorno \/ (cpu = "proceso_running" /\ sem["proceso_running"] = 0)
    /\ durmiendo = {}
    /\ pasando = <<>>

(* The kernel stops only for a reason: the running program never returns,  *)
(* or every process finished, or is queued for a resource with no instance *)
(* left, or is NEW because the degree of multiprogramming is exhausted.    *)
DetencionJustificada ==
    Detenido =>
        \/ SinRetorno
        \/ \A p \in Procesos :
              \/ p \in Terminados
              \/ \E r \in Recursos : /\ p \in Range(procesos_bloqueados[r])
                                     /\ instancias[r] = 0
              \/ /\ p \in Range(cola_new)
                 /\ sem["grado_multiprogramacion_disponible"] = 0

(* The threads, seen through where each pcb is, follow the life cycle that *)
(* CicloDeVida specifies: admission and FIFO order, one process on the     *)
(* CPU, the degree of multiprogramming.                                    *)
Ciclo == INSTANCE CicloDeVida WITH
    nuevos <- IF largo = "list_add" THEN <<pcb_largo>> \o cola_new
              ELSE cola_new,
    listos <- lista_pcbs,
    ejecutando <- Ejecutando,
    bloqueados <- durmiendo \cup
                  UNION {Range(procesos_bloqueados[r]) : r \in Recursos},
    terminados <- Terminados

ImplementaCicloDeVida == Ciclo!Spec

-----------------------------------------------------------------------------
(* Fairness: every thread of the kernel is eventually scheduled, and every *)
(* sleep ends.  Consoles need not arrive.                                  *)
Equidad ==
    /\ \A p \in Procesos : WF_vars(AvisarNuevo(p))
    /\ WF_vars(LargoPlazo)
    /\ WF_vars(CortoPlazo)
    /\ WF_vars(ComunicacionCPU)
    /\ \A p \in Procesos : WF_vars(BloqueadorDespierta(p))
    /\ WF_vars(\E n \in 1..Len(pasando) : BloqueadorTermina(n))

SpecEquitativa == Spec /\ Equidad

(* A process that can never go on: it is in a set of processes each queued *)
(* for a resource whose instances are all held inside the set, or by       *)
(* processes that ended without a SIGNAL (terminar_proceso_en_ejecucion    *)
(* gives no instance back); or it is NEW behind such a set, which has      *)
(* every place of the degree of multiprogramming.                          *)
Sostienen(r) ==
    {p \in Procesos : Hechas(p, "WAIT", r) > Hechas(p, "SIGNAL", r)}

Atascado(conjunto) ==
    \A p \in conjunto : \E r \in Recursos :
        /\ p \in Range(procesos_bloqueados[r])
        /\ instancias[r] = 0
        /\ Sostienen(r) \subseteq conjunto \cup Terminados

Trabado(p) ==
    \/ \E conjunto \in SUBSET Admitidos : p \in conjunto /\ Atascado(conjunto)
    \/ /\ p \in Range(cola_new)
       /\ Cardinality(Admitidos) = GRADO_MAX_MULTIPROGRAMACION
       /\ Atascado(Admitidos)

(* A process whose console waits for it ends, unless the processes         *)
(* themselves took it into a circular wait or one that ended kept what it  *)
(* needs: the kernel adds no reason of its own.                            *)
TodosTerminan ==
    \A p \in Procesos :
        consola[p] = "espera_fin" ~> p \in Terminados \/ Trabado(p)
=============================================================================
