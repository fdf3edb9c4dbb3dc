--------------------------- MODULE ConsolasProofs ---------------------------
(***************************************************************************)
(* What holds of Consolas for any number of consoles and any motivos.      *)
(*                                                                         *)
(* RespuestaTrasUnFin is about the answers; why it holds is in the slot    *)
(* they are read from.  A console thread reads it again after it unlocked  *)
(* the mutex, so the slot may be of another process by then: what does not *)
(* change is that it is of a process that ended (RanuraDeUnFin), and that  *)
(* the pid of a process is fixed before the process can end (PidFijo).     *)
(***************************************************************************)
EXTENDS Consolas, TLAPS

Desconocido == MOTIVO_DESCONOCIDO

\* A process can only end once its thread has queued it, with its pid.
PidFijo ==
    \A c \in Consolas :
        motivo[c] # Desconocido =>
            hilo[c] \in {"revisa", "duerme", "responde", "fin"}

\* The slot is as it started while no process ended; then it is of one that did.
RanuraDeUnFin ==
    \/ /\ proceso_finalizado.pid = -1
       /\ \A c \in Consolas : motivo[c] = Desconocido
    \/ \E d \in Consolas :
          /\ motivo[d] # Desconocido
          /\ proceso_finalizado = [pid |-> pid[d], motivo_desalojo |-> motivo[d]]

\* A thread that goes on to answer saw the end of a process with its pid.
VioUnFin ==
    \A c \in Consolas :
        hilo[c] \in {"responde", "fin"} =>
            \E d \in Consolas : pid[d] = pid[c] /\ motivo[d] # Desconocido

\* What was answered is how a process ended, and what the program makes of it.
Respondio ==
    \A c \in Consolas :
        /\ hilo[c] = "fin" => /\ respuesta[c] # Desconocido
                              /\ \E d \in Consolas : respuesta[c] = motivo[d]
        /\ consola[c] = "inesperada" =>
              hilo[c] = "fin" /\ respuesta[c] \notin Conocidos

Inv == TypeOK /\ PidFijo /\ RanuraDeUnFin /\ VioUnFin /\ Respondio

-----------------------------------------------------------------------------
\* Nobody has ended and the slot is empty.
LEMMA InitInv == Init => Inv
  BY MotivoAssumption
  DEF Init, Inv, TypeOK, PidFijo, RanuraDeUnFin, VioUnFin, Respondio, SinPid,
      Hilos, Desconocido

\* Every step keeps the types.
LEMMA TipoInv == TypeOK /\ Next => TypeOK'
<1> SUFFICES ASSUME TypeOK, NEW c \in Consolas,
                    Consola(c) \/ HiloConsola(c) \/ Fin(c)
             PROVE  TypeOK'
  BY DEF Next
<1>1. CASE Consola(c)
  BY <1>1 DEF Consola, Envia, RecibeRespuesta, kernel, TypeOK
<1>2. CASE HiloConsola(c)
  BY <1>2 DEF HiloConsola, CargaPid, IncrementaPid, Incrementado, AsignaPid,
    Encola, Revisa, Responde, Va, Hilos, TypeOK
<1>3. CASE Fin(c)
  BY <1>3 DEF Fin, Termina, Notifica, Hilos, TypeOK
<1> QED
  BY <1>1, <1>2, <1>3

\* The program of a console touches nothing but what it made of the answer.
LEMMA ConsolaInv ==
    ASSUME Inv, NEW c \in Consolas, Consola(c)
    PROVE  PidFijo' /\ RanuraDeUnFin' /\ VioUnFin' /\ Respondio'
<1>1. UNCHANGED kernel
  BY DEF Consola, Envia, RecibeRespuesta
<1>2. PidFijo' /\ RanuraDeUnFin' /\ VioUnFin'
  BY <1>1 DEF kernel, Inv, PidFijo, RanuraDeUnFin, VioUnFin
<1>3. consola'[c] = "inesperada" =>
         hilo[c] = "fin" /\ respuesta[c] \notin Conocidos
  BY DEF Consola, Envia, RecibeRespuesta, Inv, TypeOK
<1>4. \A d \in Consolas \ {c} : consola'[d] = consola[d]
  BY DEF Consola, Envia, RecibeRespuesta, Inv, TypeOK
<1>5. Respondio'
  BY <1>1, <1>3, <1>4 DEF kernel, Inv, Respondio
<1> QED
  BY <1>2, <1>5

\* Before it answers, a thread only prepares its own process.
LEMMA PreparaInv ==
    ASSUME Inv, NEW c \in Consolas, UNCHANGED consola,
           CargaPid(c) \/ IncrementaPid(c) \/ AsignaPid(c) \/ Encola(c)
    PROVE  PidFijo' /\ RanuraDeUnFin' /\ VioUnFin' /\ Respondio'
<1>1. /\ hilo[c] \in {"inicio", "incrementa", "asigna", "encola"}
      /\ hilo'[c] \in {"incrementa", "asigna", "encola", "revisa"}
      /\ \A d \in Consolas \ {c} : hilo'[d] = hilo[d] /\ pid'[d] = pid[d]
      /\ UNCHANGED <<proceso_finalizado, motivo, respuesta>>
  BY DEF CargaPid, IncrementaPid, AsignaPid, Encola, Va, Inv, TypeOK
<1>2. motivo[c] = Desconocido
  BY <1>1 DEF Inv, PidFijo
<1>3. PidFijo'
  BY <1>1, <1>2 DEF Inv, PidFijo
<1>4. RanuraDeUnFin'
  BY <1>1, <1>2 DEF Inv, RanuraDeUnFin
<1>5. VioUnFin'
  BY <1>1, <1>2 DEF Inv, VioUnFin
<1>6. Respondio'
  BY <1>1 DEF Inv, Respondio
<1> QED
  BY <1>3, <1>4, <1>5, <1>6

\* It goes on to answer only if the slot has its pid, which no longer changes.
LEMMA RevisaInv ==
    ASSUME Inv, NEW c \in Consolas, UNCHANGED consola, Revisa(c)
    PROVE  PidFijo' /\ RanuraDeUnFin' /\ VioUnFin' /\ Respondio'
<1>1. /\ hilo[c] = "revisa"
      /\ hilo' = [hilo EXCEPT ![c] =
                     IF EsSuFin(c) THEN "responde" ELSE "duerme"]
      /\ hilo \in [Consolas -> Hilos]
      /\ UNCHANGED <<pid, proceso_finalizado, motivo, respuesta, consola>>
  BY DEF Revisa, Va, Inv, TypeOK
<1>2. /\ hilo'[c] \in {"responde", "duerme"}
      /\ \A d \in Consolas \ {c} : hilo'[d] = hilo[d]
  BY <1>1
<1>3. PidFijo'
  BY <1>1, <1>2 DEF Inv, PidFijo
<1>4. RanuraDeUnFin'
  BY <1>1 DEF Inv, RanuraDeUnFin
<1>5. EsSuFin(c) =>
         \E d \in Consolas : pid[d] = pid[c] /\ motivo[d] # Desconocido
  BY DEF EsSuFin, Inv, RanuraDeUnFin, TypeOK
<1>6. VioUnFin'
  BY <1>1, <1>2, <1>5 DEF Inv, VioUnFin
<1>7. Respondio'
  BY <1>1, <1>2 DEF Inv, Respondio
<1> QED
  BY <1>3, <1>4, <1>6, <1>7

\* By then the slot may be of another process, but it is of one that ended.
LEMMA RespondeInv ==
    ASSUME Inv, NEW c \in Consolas, UNCHANGED consola, Responde(c)
    PROVE  PidFijo' /\ RanuraDeUnFin' /\ VioUnFin' /\ Respondio'
<1>1. /\ hilo[c] = "responde" /\ hilo'[c] = "fin"
      /\ respuesta'[c] = proceso_finalizado.motivo_desalojo
      /\ \A d \in Consolas \ {c} :
            hilo'[d] = hilo[d] /\ respuesta'[d] = respuesta[d]
      /\ UNCHANGED <<pid, proceso_finalizado, motivo, consola>>
  BY DEF Responde, Va, Inv, TypeOK
<1>2. /\ proceso_finalizado.motivo_desalojo # Desconocido
      /\ \E d \in Consolas : proceso_finalizado.motivo_desalojo = motivo[d]
  BY <1>1 DEF Inv, VioUnFin, RanuraDeUnFin
<1>3. PidFijo' /\ RanuraDeUnFin' /\ VioUnFin'
  BY <1>1 DEF Inv, PidFijo, RanuraDeUnFin, VioUnFin
<1>4. Respondio'
  BY <1>1, <1>2 DEF Inv, Respondio
<1> QED
  BY <1>3, <1>4

\* The end of a process fills the slot, and nobody's motivo is overwritten.
LEMMA FinInv ==
    ASSUME Inv, NEW c \in Consolas, Fin(c)
    PROVE  PidFijo' /\ RanuraDeUnFin' /\ VioUnFin' /\ Respondio'
<1>1. PICK m \in Motivos : Termina(c, m)
  BY DEF Fin
<1>2. /\ hilo[c] \notin {"inicio", "incrementa", "asigna", "encola"}
      /\ motivo[c] = Desconocido
      /\ motivo'[c] = m /\ m # Desconocido
      /\ \A d \in Consolas \ {c} : motivo'[d] = motivo[d]
      /\ proceso_finalizado' = [pid |-> pid[c], motivo_desalojo |-> m]
      /\ UNCHANGED <<pid, respuesta, consola>>
  BY <1>1, MotivoAssumption DEF Termina, Vivo, Fin, Inv, TypeOK, Desconocido
<1>3. \A d \in Consolas :
         hilo'[d] = IF hilo[d] = "duerme" THEN "revisa" ELSE hilo[d]
  BY <1>1 DEF Termina, Notifica
<1>4. hilo[c] \in Hilos
  BY DEF Inv, TypeOK
<1>5. PidFijo'
  BY <1>2, <1>3, <1>4 DEF Inv, PidFijo, Hilos
<1>6. RanuraDeUnFin'
  BY <1>2 DEF RanuraDeUnFin
<1>7. VioUnFin'
  BY <1>2, <1>3 DEF Inv, VioUnFin
<1>8. Respondio'
  BY <1>2, <1>3 DEF Inv, Respondio
<1> QED
  BY <1>5, <1>6, <1>7, <1>8

\* Every step keeps the invariant.
LEMMA InvInvariante == Inv /\ [Next]_vars => Inv'
<1>1. ASSUME Inv, NEW c \in Consolas, Consola(c) \/ HiloConsola(c) \/ Fin(c)
      PROVE  PidFijo' /\ RanuraDeUnFin' /\ VioUnFin' /\ Respondio'
  BY <1>1, ConsolaInv, PreparaInv, RevisaInv, RespondeInv, FinInv
  DEF HiloConsola
<1>2. ASSUME Inv, UNCHANGED vars PROVE Inv'
  BY <1>2 DEF vars, Inv, TypeOK, PidFijo, RanuraDeUnFin, VioUnFin, Respondio
<1> QED
  BY <1>1, <1>2, TipoInv DEF Next, Inv

-----------------------------------------------------------------------------
\* The slot is of a process that ended, in every state where one has.
THEOREM SpecInv == Spec => []Inv
  BY InitInv, InvInvariante, PTL DEF Spec

\* The variables keep their types: pid_actual counts up from 0.
THEOREM TipoCorrecto == Spec => []TypeOK
<1>1. Inv => TypeOK
  BY DEF Inv
<1> QED
  BY <1>1, SpecInv, PTL

(* Whoever reads the slot of proceso_finalizado, and however late: no      *)
(* console is answered before a process with its pid ended, nor with the   *)
(* value the slot started with.                                            *)
THEOREM RespuestaDeUnFin == Spec => []RespuestaTrasUnFin
<1>1. ASSUME Inv PROVE RespuestaTrasUnFin
  <2> SUFFICES ASSUME NEW c \in Consolas, hilo[c] = "fin"
               PROVE  /\ \E d \in Consolas : pid[d] = pid[c]
                                             /\ motivo[d] # Desconocido
                      /\ \E d \in Consolas : respuesta[c] = motivo[d]
                      /\ respuesta[c] # Desconocido
                      /\ consola[c] = "inesperada" =>
                            \E d \in Consolas : motivo[d] \in Motivos \ Conocidos
    BY DEF RespuestaTrasUnFin, Respondidas, Desconocido
  <2>1. /\ respuesta[c] # Desconocido
        /\ \E d \in Consolas : respuesta[c] = motivo[d]
        /\ consola[c] = "inesperada" => respuesta[c] \notin Conocidos
    BY <1>1 DEF Inv, Respondio
  <2>2. respuesta[c] \in Motivos
    BY <1>1, <2>1 DEF Inv, TypeOK, Desconocido
  <2> QED
    BY <1>1, <2>1, <2>2 DEF Inv, VioUnFin
<1> QED
  BY <1>1, SpecInv, PTL
=============================================================================
