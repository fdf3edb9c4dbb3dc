---------------------------- MODULE CicloDeVida -----------------------------
(***************************************************************************)
(* What the kernel's planners promise about the life of a process, without *)
(* threads or semaphores: the five states of estado_proceso, NEW and READY *)
(* kept in order, at most one process RUNNING, and no more than the degree *)
(* of multiprogramming between READY, RUNNING and BLOCKED.  Planificador   *)
(* implements it.                                                          *)
(***************************************************************************)
EXTENDS Integers, Sequences, FiniteSets, SequencesExt

CONSTANTS Procesos, GRADO_MAX_MULTIPROGRAMACION, ALGORITMO_PLANIFICACION

VARIABLES nuevos, listos, ejecutando, bloqueados, terminados

vars == <<nuevos, listos, ejecutando, bloqueados, terminados>>

Init ==
    /\ nuevos = <<>>
    /\ listos = <<>>
    /\ ejecutando = {}
    /\ bloqueados = {}
    /\ terminados = {}

EnMemoria == Range(listos) \cup ejecutando \cup bloqueados
Conocidos == Range(nuevos) \cup EnMemoria \cup terminados

\* A console brings a process.
Llega(p) ==
    /\ p \notin Conocidos
    /\ nuevos' = Append(nuevos, p)
    /\ UNCHANGED <<listos, ejecutando, bloqueados, terminados>>

HayLugar == Cardinality(EnMemoria) < GRADO_MAX_MULTIPROGRAMACION

\* The long-term planner admits the oldest one while the degree allows.
Admite ==
    /\ nuevos # <<>>
    /\ HayLugar
    /\ listos' = Append(listos, Head(nuevos))
    /\ nuevos' = Tail(nuevos)
    /\ UNCHANGED <<ejecutando, bloqueados, terminados>>

CpuLibre == ejecutando = {}

\* The short-term planner dispatches one ready process on an idle CPU.
Despacha ==
    /\ CpuLibre
    /\ \E i \in 1..Len(listos) :
          /\ ALGORITMO_PLANIFICACION = "FIFO" => i = 1
          /\ ejecutando' = ejecutando \cup {listos[i]}
          /\ listos' = RemoveAt(listos, i)
    /\ UNCHANGED <<nuevos, bloqueados, terminados>>

Cede ==
    /\ \E p \in ejecutando : listos' = Append(listos, p)
    /\ ejecutando' = {}
    /\ UNCHANGED <<nuevos, bloqueados, terminados>>

Bloquea ==
    /\ ejecutando # {}
    /\ bloqueados' = bloqueados \cup ejecutando
    /\ ejecutando' = {}
    /\ UNCHANGED <<nuevos, listos, terminados>>

Desbloquea(p) == bloqueados' = bloqueados \ {p}

\* An I/O burst or the wait for a resource ends.
Despierta(p) ==
    /\ p \in bloqueados
    /\ Desbloquea(p)
    /\ listos' = Append(listos, p)
    /\ UNCHANGED <<nuevos, ejecutando, terminados>>

Termina ==
    /\ ejecutando # {}
    /\ terminados' = terminados \cup ejecutando
    /\ ejecutando' = {}
    /\ UNCHANGED <<nuevos, listos, bloqueados>>

Next ==
    \/ \E p \in Procesos : Llega(p) \/ Despierta(p)
    \/ Admite
    \/ Despacha
    \/ Cede
    \/ Bloquea
    \/ Termina

Spec == Init /\ [][Next]_vars

=============================================================================
