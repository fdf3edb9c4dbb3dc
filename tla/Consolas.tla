------------------------------ MODULE Consolas ------------------------------
(***************************************************************************)
(* The consoles: the program consola, which sends its instructions and     *)
(* waits for one byte, and the kernel's thread for it (main.c,             *)
(* comunicacion_consola): how it gives the process a pid and how it learns *)
(* that the process ended.                                                 *)
(*                                                                         *)
(* pid_actual is a global that no mutex protects.  The end of a process is *)
(* published in proceso_finalizado, one slot for all of them, under        *)
(* mutex_proceso_finalizado, and broadcast on finaliza_proceso.  A section *)
(* under that mutex is one step.  What the planners do between the arrival *)
(* of a process and its end is in Planificador.                            *)
(***************************************************************************)
EXTENDS Integers, FiniteSets

CONSTANTS
    Consolas,           \* the console threads, one process each
    Motivos,            \* the motivos a process may end with
    Conocidos,          \* those that the consola has a case for
    MOTIVO_DESCONOCIDO  \* what proceso_finalizado holds at first

ASSUME MotivoAssumption ==
    MOTIVO_DESCONOCIDO \notin Motivos /\ Conocidos \subseteq Motivos

VARIABLES
    pid_actual,
    pid,                \* pcb->pid of each console's process
    registro,           \* the value pid_actual++ loaded
    hilo,               \* what each console thread is about to do
    proceso_finalizado,
    motivo,             \* how each process ended
    respuesta,          \* what each console was sent
    consola             \* the program: "carga", "espera", or how it ended

vars == <<pid_actual, pid, registro, hilo, proceso_finalizado, motivo,
          respuesta, consola>>

SinPid == 0
Hilos == {"inicio", "incrementa", "asigna", "encola", "revisa", "duerme",
          "responde", "fin"}

Init ==
    /\ pid_actual = 0
    /\ pid = [c \in Consolas |-> SinPid]
    /\ registro = [c \in Consolas |-> 0]
    /\ hilo = [c \in Consolas |-> "inicio"]
    /\ proceso_finalizado =
          [pid |-> -1, motivo_desalojo |-> MOTIVO_DESCONOCIDO]
    /\ motivo = [c \in Consolas |-> MOTIVO_DESCONOCIDO]
    /\ respuesta = [c \in Consolas |-> MOTIVO_DESCONOCIDO]
    /\ consola = [c \in Consolas |-> "carga"]

Va(c, siguiente) == hilo' = [hilo EXCEPT ![c] = siguiente]

-----------------------------------------------------------------------------
(* The program consola.                                                    *)

kernel == <<pid_actual, pid, registro, hilo, proceso_finalizado, motivo,
            respuesta>>

\* Reads the file of instructions, shakes hands and sends them all.
Envia(c) ==
    /\ consola[c] = "carga"
    /\ consola' = [consola EXCEPT ![c] = "espera"]
    /\ UNCHANGED kernel

\* The byte it waits for; a motivo with no case is "Respuesta inesperada".
RecibeRespuesta(c) ==
    /\ consola[c] = "espera"
    /\ hilo[c] = "fin"
    /\ consola' = [consola EXCEPT ![c] =
          IF respuesta[c] \in Conocidos \cup {MOTIVO_DESCONOCIDO}
          THEN "informa" ELSE "inesperada"]
    /\ UNCHANGED kernel

Consola(c) == Envia(c) \/ RecibeRespuesta(c)

-----------------------------------------------------------------------------
(* crear_pcb: pid_actual++ is a load and a store, and the pid of the pcb   *)
(* is read from pid_actual again.                                          *)

\* comunicacion_consola has received the instructions.
CargaPid(c) ==
    /\ hilo[c] = "inicio"
    /\ consola[c] = "espera"
    /\ registro' = [registro EXCEPT ![c] = pid_actual]
    /\ Va(c, "incrementa")
    /\ UNCHANGED <<pid_actual, pid, proceso_finalizado, motivo, respuesta>>

\* (mutant) pid_actual-- for pid_actual++.
Incrementado_Menos(n) == n - 1
Incrementado(n) == n + 1

IncrementaPid(c) ==
    /\ hilo[c] = "incrementa"
    /\ pid_actual' = Incrementado(registro[c])
    /\ Va(c, "asigna")
    /\ UNCHANGED <<pid, registro, proceso_finalizado, motivo, respuesta>>

AsignaPid(c) ==
    /\ hilo[c] = "asigna"
    /\ pid' = [pid EXCEPT ![c] = pid_actual]
    /\ Va(c, "encola")
    /\ UNCHANGED <<pid_actual, registro, proceso_finalizado, motivo,
                   respuesta>>

\* The pcb goes to cola_new and proceso_nuevo is posted.
Encola(c) ==
    /\ hilo[c] = "encola"
    /\ Va(c, "revisa")
    /\ UNCHANGED <<pid_actual, pid, registro, proceso_finalizado, motivo,
                   respuesta>>

-----------------------------------------------------------------------------
(* The wait for the end of the process, under mutex_proceso_finalizado.    *)

\* (mutant) any notification is taken for the end of its own process.
EsSuFin_Cualquiera(c) == proceso_finalizado.pid # -1
EsSuFin(c) == proceso_finalizado.pid = pid[c]

Revisa(c) ==
    /\ hilo[c] = "revisa"
    /\ Va(c, IF EsSuFin(c) THEN "responde" ELSE "duerme")
    /\ UNCHANGED <<pid_actual, pid, registro, proceso_finalizado, motivo,
                   respuesta>>

\* The slot is read again after the unlock.
Responde(c) ==
    /\ hilo[c] = "responde"
    /\ respuesta' =
          [respuesta EXCEPT ![c] = proceso_finalizado.motivo_desalojo]
    /\ Va(c, "fin")
    /\ UNCHANGED <<pid_actual, pid, registro, proceso_finalizado, motivo>>

-----------------------------------------------------------------------------
(* terminar_proceso_en_ejecucion, in the CPU thread, for the process of c. *)

Vivo(c) ==
    /\ hilo[c] \notin {"inicio", "incrementa", "asigna", "encola"}
    /\ motivo[c] = MOTIVO_DESCONOCIDO

\* (mutant) the slot is written and nobody is woken.
Notifica_SinBroadcast == UNCHANGED hilo
\* pthread_cond_broadcast: every sleeping console takes the mutex again.
Notifica ==
    hilo' = [c \in Consolas |->
                IF hilo[c] = "duerme" THEN "revisa" ELSE hilo[c]]

Termina(c, m) ==
    /\ Vivo(c)
    /\ motivo' = [motivo EXCEPT ![c] = m]
    /\ proceso_finalizado' = [pid |-> pid[c], motivo_desalojo |-> m]
    /\ Notifica
    /\ UNCHANGED <<pid_actual, pid, registro, respuesta>>

-----------------------------------------------------------------------------
HiloConsola(c) ==
    /\ \/ CargaPid(c)
       \/ IncrementaPid(c)
       \/ AsignaPid(c)
       \/ Encola(c)
       \/ Revisa(c)
       \/ Responde(c)
    /\ UNCHANGED consola

Fin(c) == (\E m \in Motivos : Termina(c, m)) /\ UNCHANGED consola

Next == \E c \in Consolas : Consola(c) \/ HiloConsola(c) \/ Fin(c)

Spec == Init /\ [][Next]_vars

\* Programs and threads are scheduled, and processes end.
Equidad ==
    \A c \in Consolas : /\ WF_vars(Consola(c))
                        /\ WF_vars(HiloConsola(c))
                        /\ WF_vars(Fin(c))
SpecEquitativa == Spec /\ Equidad

-----------------------------------------------------------------------------
(* The type of every variable.                                             *)
TypeOK ==
    /\ pid_actual \in Nat
    /\ pid \in [Consolas -> Nat]
    /\ registro \in [Consolas -> Nat]
    /\ hilo \in [Consolas -> Hilos]
    /\ proceso_finalizado \in
          [pid : Int, motivo_desalojo : Motivos \cup {MOTIVO_DESCONOCIDO}]
    /\ motivo \in [Consolas -> Motivos \cup {MOTIVO_DESCONOCIDO}]
    /\ respuesta \in [Consolas -> Motivos \cup {MOTIVO_DESCONOCIDO}]
    /\ consola \in
          [Consolas -> {"carga", "espera", "informa", "inesperada"}]

Respondidas == {c \in Consolas : hilo[c] = "fin"}

(* A console is never answered before a process with its pid ended, and    *)
(* what it is sent is how some process ended, never the initial value of   *)
(* the slot; the program finds no case for it only if a process ended for  *)
(* a reason that has none.                                                 *)
RespuestaTrasUnFin ==
    \A c \in Respondidas :
        /\ \E d \in Consolas : /\ pid[d] = pid[c]
                               /\ motivo[d] # MOTIVO_DESCONOCIDO
        /\ \E d \in Consolas : respuesta[c] = motivo[d]
        /\ respuesta[c] # MOTIVO_DESCONOCIDO
        /\ consola[c] = "inesperada" =>
              \E d \in Consolas : motivo[d] \in Motivos \ Conocidos

(* No lost wake-up of the last notification: the program of a console ends *)
(* if proceso_finalizado keeps holding its pid, that is, if no other       *)
(* process ends before its thread looks.                                   *)
UltimoFinSeResponde ==
    \A c \in Consolas :
        <>[](pid[c] # SinPid /\ proceso_finalizado.pid = pid[c])
            => <>(consola[c] \in {"informa", "inesperada"})

(* planificador.c:252: the broadcast is to "notificar a todos los hilos a  *)
(* la espera", and main.c:228 waits "para el proceso asociado": a console  *)
(* whose process ended is answered with how that process ended.            *)
TodasSeResponden ==
    \A c \in Consolas :
        motivo[c] # MOTIVO_DESCONOCIDO ~>
            c \in Respondidas /\ respuesta[c] = motivo[c]
=============================================================================
