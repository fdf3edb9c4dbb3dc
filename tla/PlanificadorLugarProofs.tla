----------------------- MODULE PlanificadorLugarProofs -----------------------
(***************************************************************************)
(* Where each pcb is, and what follows from it: no pcb is lost or in two   *)
(* queues, the degree of multiprogramming is respected, no wake-up on a    *)
(* resource is lost, every instance is accounted for, and the threads      *)
(* implement the abstract life cycle of a process.                         *)
(*                                                                         *)
(* Each of them rests on the one before.  Inv3 adds the places to Inv2:    *)
(* the cardinalities are those of finite sets, and the instruction a pcb   *)
(* left pending is the one that put it where it is.  Inv4 adds the degree, *)
(* Inv5 the resources.  Inv6 adds that nothing runs before the first       *)
(* process is announced; from it follows why the kernel may stop.          *)
(***************************************************************************)
EXTENDS PlanificadorProofs

LugarUnico ==
    /\ CadaPcbEnUnLugar
    /\ \A p \in Procesos : IsFiniteSet(EnEspera(p))

HayPendiente(p) == program_counter[p] < Len(programa[p])

(* The pending instruction of a pcb says why it is not ready: it sleeps at *)
(* its IO, it is queued at its WAIT, and the CPU thread is halfway through *)
(* the SIGNAL or the YIELD of pcb_en_ejecucion.                            *)
DormidosEnIO ==
    \A p \in durmiendo : HayPendiente(p) /\ Pendiente(p).nombre = "IO"

EncoladosEnWait ==
    \A r \in Recursos : \A p \in Range(procesos_bloqueados[r]) :
        /\ HayPendiente(p)
        /\ Pendiente(p) = [nombre |-> "WAIT", parametro1 |-> r]

SignalAMedias ==
    cpu = "signal" => /\ HayPendiente(pcb_en_ejecucion)
                      /\ Pendiente(pcb_en_ejecucion).nombre = "SIGNAL"

YieldAMedias ==
    cpu = "yield" => /\ HayPendiente(pcb_en_ejecucion)
                     /\ Pendiente(pcb_en_ejecucion).nombre = "YIELD"
                     /\ pcb_en_ejecucion \in Range(lista_pcbs)

OperacionPendiente ==
    DormidosEnIO /\ EncoladosEnWait /\ SignalAMedias /\ YieldAMedias

Inv3 == Inv2 /\ LugarUnico /\ OperacionPendiente

GradoExacto == IsFiniteSet(Admitidos) /\ GradoRespetado

Inv4 == Inv3 /\ GradoExacto

(* RecursosConservados counts finite sets: few instructions were executed. *)
CuentaDeInstancias ==
    /\ RecursosConservados
    /\ \A r \in Recursos : /\ IsFiniteSet(Ejecutadas("WAIT", r))
                            /\ IsFiniteSet(Ejecutadas("SIGNAL", r))

Inv5 == Inv3 /\ SinDespertarPerdido /\ CuentaDeInstancias

-----------------------------------------------------------------------------
(* Lemmas about sequences.                                                 *)

\* Where an element of a sequence goes when another is removed.
LEMMA QuitarCorre ==
    ASSUME NEW S, NEW s \in Seq(S), NEW i \in 1..Len(s),
           NEW j \in 1..(Len(s) - 1)
    PROVE  RemoveAt(s, i)[j] = IF j < i THEN s[j] ELSE s[j + 1]
<1> DEFINE antes == SubSeq(s, 1, i - 1)
           despues == SubSeq(s, i + 1, Len(s))
<1>1. Len(s) \in Nat
  BY LenProperties
<1>2. /\ antes \in Seq(S) /\ Len(antes) = i - 1
      /\ \A k \in 1..(i - 1) : antes[k] = s[k]
  <2>1. \A k \in 1..(i - 1) : s[k] \in S
    BY <1>1
  <2>2. /\ antes \in Seq(S) /\ Len(antes) = IF 1 <= i - 1 THEN i - 1 ELSE 0
        /\ \A k \in 1..((i - 1) - 1 + 1) : antes[k] = s[1 + k - 1]
    BY <1>1, <2>1, SubSeqProperties
  <2> QED
    BY <1>1, <2>2
<1>3. /\ despues \in Seq(S) /\ Len(despues) = Len(s) - i
      /\ \A k \in 1..(Len(s) - i) : despues[k] = s[i + k]
  <2>1. \A k \in (i + 1)..Len(s) : s[k] \in S
    BY <1>1
  <2>2. /\ despues \in Seq(S)
        /\ Len(despues) = IF i + 1 <= Len(s) THEN Len(s) - (i + 1) + 1 ELSE 0
        /\ \A k \in 1..(Len(s) - (i + 1) + 1) : despues[k] = s[(i + 1) + k - 1]
    BY <1>1, <2>1, SubSeqProperties
  <2> QED
    BY <1>1, <2>2
<1>4. RemoveAt(s, i) = antes \o despues
  BY DEF RemoveAt
<1> HIDE DEF antes, despues
<1>5. (antes \o despues)[j] = IF j <= Len(antes) THEN antes[j]
                              ELSE despues[j - Len(antes)]
  BY <1>1, <1>2, <1>3, ConcatProperties
<1>6. CASE j < i
  BY <1>1, <1>2, <1>4, <1>5, <1>6
<1>7. CASE ~ (j < i)
  <2>1. j - (i - 1) \in 1..(Len(s) - i) /\ i + (j - (i - 1)) = j + 1
    BY <1>1, <1>7
  <2>2. (antes \o despues)[j] = despues[j - (i - 1)]
    BY <1>1, <1>2, <1>5, <1>7
  <2>3. despues[j - (i - 1)] = s[i + (j - (i - 1))]
    BY <1>3, <2>1
  <2> QED
    BY <1>4, <1>7, <2>1, <2>2, <2>3
<1> QED
  BY <1>6, <1>7

\* Veces counts: a natural, zero exactly when the element is not there.
LEMMA VecesTipo ==
    ASSUME NEW S, NEW s \in Seq(S), NEW e
    PROVE  /\ IsFiniteSet({i \in DOMAIN s : s[i] = e})
           /\ Veces(s, e) \in Nat
           /\ Veces(s, e) = 0 <=> e \notin Range(s)
<1> DEFINE donde == {i \in DOMAIN s : s[i] = e}
<1>1. Len(s) \in Nat /\ DOMAIN s = 1..Len(s)
  BY LenProperties
<1>2. IsFiniteSet(donde)
  <2>1. IsFiniteSet(1..Len(s))
    BY <1>1, FS_Interval
  <2>2. donde \in SUBSET (1..Len(s))
    BY <1>1
  <2> QED
    BY <2>1, <2>2, FS_Subset
<1>3. Cardinality(donde) \in Nat /\ (Cardinality(donde) = 0 <=> donde = {})
  BY <1>2, FS_CardinalityType, FS_EmptySet
<1>4. donde = {} <=> e \notin Range(s)
  BY DEF Range
<1> QED
  BY <1>2, <1>3, <1>4 DEF Veces

\* list_add counts its element once more.
LEMMA VecesAppend ==
    ASSUME NEW S, NEW s \in Seq(S), NEW x \in S, NEW e
    PROVE  Veces(Append(s, x), e) = Veces(s, e) + Uno(x = e)
<1> DEFINE donde == {i \in DOMAIN s : s[i] = e}
           luego == {i \in DOMAIN Append(s, x) : Append(s, x)[i] = e}
<1>1. Len(s) \in Nat /\ DOMAIN s = 1..Len(s)
  BY LenProperties
<1>2. DOMAIN Append(s, x) = 1..(Len(s) + 1)
  BY AppendProperties, LenProperties
<1>3. /\ \A i \in 1..Len(s) : Append(s, x)[i] = s[i]
      /\ Append(s, x)[Len(s) + 1] = x
  BY AppendProperties
<1>4. IsFiniteSet(donde) /\ Cardinality(donde) \in Nat
  BY VecesTipo, FS_CardinalityType
<1>5. /\ Veces(s, e) = Cardinality(donde)
      /\ Veces(Append(s, x), e) = Cardinality(luego)
  BY DEF Veces
<1>6. Len(s) + 1 \notin donde
  BY <1>1
<1>7. CASE x = e
  <2>1. luego = donde \cup {Len(s) + 1}
    BY <1>1, <1>2, <1>3, <1>7
  <2> HIDE DEF donde, luego
  <2> QED
    BY <1>4, <1>5, <1>6, <1>7, <2>1, FS_AddElement DEF Uno
<1>8. CASE x # e
  <2>1. luego = donde
    BY <1>1, <1>2, <1>3, <1>8
  <2> HIDE DEF donde, luego
  <2> QED
    BY <1>4, <1>5, <1>8, <2>1 DEF Uno
<1> QED
  BY <1>7, <1>8

\* list_remove counts the element it removed once less.
LEMMA VecesQuitar ==
    ASSUME NEW S, NEW s \in Seq(S), NEW i \in 1..Len(s), NEW e
    PROVE  Veces(RemoveAt(s, i), e) = Veces(s, e) - Uno(s[i] = e)
<1> DEFINE t == RemoveAt(s, i)
           donde == {j \in DOMAIN s : s[j] = e}
           luego == {j \in DOMAIN t : t[j] = e}
           viene(j) == IF j < i THEN j ELSE j + 1
           f == [j \in luego |-> viene(j)]
<1>1. Len(s) \in Nat /\ DOMAIN s = 1..Len(s) /\ DOMAIN t = 1..(Len(s) - 1)
  BY LenProperties, QuitarUno
<1>2. \A j \in DOMAIN t : t[j] = s[viene(j)]
  BY <1>1, QuitarCorre
<1>3. IsFiniteSet(donde) /\ Cardinality(donde) \in Nat
  BY VecesTipo, FS_CardinalityType
<1>4. IsFiniteSet(luego) /\ Cardinality(luego) \in Nat
  <2>1. t \in Seq(S)
    BY QuitarUno
  <2> HIDE DEF t
  <2> QED
    BY <2>1, VecesTipo, FS_CardinalityType
<1> HIDE DEF t
<1>5. f \in Bijection(luego, donde \ {i})
  <2>1. ASSUME NEW j \in luego PROVE viene(j) \in donde \ {i}
    BY <1>1, <1>2
  <2>2. ASSUME NEW j \in luego, NEW k \in luego, viene(j) = viene(k)
        PROVE  j = k
    BY <1>1, <2>2
  <2>3. ASSUME NEW k \in donde \ {i} PROVE \E j \in luego : viene(j) = k
    <3>1. CASE k < i
      BY <1>1, <1>2, <3>1
    <3>2. CASE k > i
      <4>1. k - 1 \in DOMAIN t /\ viene(k - 1) = k
        BY <1>1, <3>2
      <4> QED
        BY <1>2, <4>1
    <3> QED
      BY <1>1, <3>1, <3>2
  <2> QED
    BY <2>1, <2>2, <2>3 DEF Bijection, Injection, Surjection, IsInjective
<1>6. Cardinality(luego) = Cardinality(donde \ {i})
  BY <1>4, <1>5, FS_Bijection DEF ExistsBijection
<1>7. Cardinality(donde \ {i}) = IF i \in donde THEN Cardinality(donde) - 1
                                 ELSE Cardinality(donde)
  BY <1>3, FS_RemoveElement
<1>8. i \in donde <=> s[i] = e
  BY <1>1
<1> QED
  BY <1>3, <1>6, <1>7, <1>8 DEF Veces, Uno, t

\* So does queue_pop.
LEMMA VecesTail ==
    ASSUME NEW S, NEW s \in Seq(S), s # <<>>, NEW e
    PROVE  Veces(Tail(s), e) = Veces(s, e) - Uno(Head(s) = e)
<1>1. Len(s) \in Nat \ {0}
  BY EmptySeq
<1>2. Tail(s) = RemoveAt(s, 1)
  <2>1. SubSeq(s, 1, 0) = <<>> /\ Tail(s) = SubSeq(s, 2, Len(s))
    BY SubSeqEmpty, TailIsSubSeq
  <2>2. <<>> \o Tail(s) = Tail(s)
    BY HeadTailProperties, ConcatEmptySeq
  <2> QED
    BY <2>1, <2>2 DEF RemoveAt
<1>3. Head(s) = s[1]
  OBVIOUS
<1> QED
  <2>1. 1 \in 1..Len(s)
    BY <1>1
  <2>2. Veces(RemoveAt(s, 1), e) = Veces(s, e) - Uno(s[1] = e)
    BY <2>1, VecesQuitar
  <2> QED
    BY <1>2, <1>3, <2>2

\* The elements of a queue after list_add, list_remove and queue_pop.
LEMMA RangoAppend ==
    ASSUME NEW S, NEW s \in Seq(S), NEW x \in S
    PROVE  Range(Append(s, x)) = Range(s) \cup {x}
<1>1. Append(s, x) \in Seq(S)
  BY AppendProperties
<1>2. ASSUME NEW e PROVE e \in Range(Append(s, x)) <=> e \in Range(s) \cup {x}
  <2>1. /\ Veces(s, e) \in Nat
        /\ Veces(s, e) = 0 <=> e \notin Range(s)
        /\ Veces(Append(s, x), e) = 0 <=> e \notin Range(Append(s, x))
    BY <1>1, VecesTipo
  <2>2. Veces(Append(s, x), e) = Veces(s, e) + Uno(x = e)
    BY VecesAppend
  <2> QED
    BY <2>1, <2>2 DEF Uno
<1> QED
  BY <1>2

\* The element removed and the others are those of the sequence.
LEMMA RangoQuitar ==
    ASSUME NEW S, NEW s \in Seq(S), NEW i \in 1..Len(s)
    PROVE  Range(s) = Range(RemoveAt(s, i)) \cup {s[i]}
<1>1. RemoveAt(s, i) \in Seq(S)
  BY QuitarUno
<1>2. ASSUME NEW e
      PROVE  e \in Range(s) <=> e \in Range(RemoveAt(s, i)) \cup {s[i]}
  <2>1. /\ Veces(s, e) \in Nat /\ Veces(RemoveAt(s, i), e) \in Nat
        /\ Veces(s, e) = 0 <=> e \notin Range(s)
        /\ Veces(RemoveAt(s, i), e) = 0 <=> e \notin Range(RemoveAt(s, i))
    BY <1>1, VecesTipo
  <2>2. Veces(RemoveAt(s, i), e) = Veces(s, e) - Uno(s[i] = e)
    BY VecesQuitar
  <2> QED
    BY <2>1, <2>2 DEF Uno
<1> QED
  BY <1>2

\* The head and the tail have the elements of the sequence.
LEMMA RangoTail ==
    ASSUME NEW S, NEW s \in Seq(S), s # <<>>
    PROVE  Range(s) = Range(Tail(s)) \cup {Head(s)}
<1>1. Tail(s) \in Seq(S)
  BY HeadTailProperties
<1>2. ASSUME NEW e
      PROVE  e \in Range(s) <=> e \in Range(Tail(s)) \cup {Head(s)}
  <2>1. /\ Veces(s, e) \in Nat /\ Veces(Tail(s), e) \in Nat
        /\ Veces(s, e) = 0 <=> e \notin Range(s)
        /\ Veces(Tail(s), e) = 0 <=> e \notin Range(Tail(s))
    BY <1>1, VecesTipo
  <2>2. Veces(Tail(s), e) = Veces(s, e) - Uno(Head(s) = e)
    BY VecesTail
  <2> QED
    BY <2>1, <2>2 DEF Uno
<1> QED
  BY <1>2

\* A sequence has finitely many elements.
LEMMA RangoFinito ==
    ASSUME NEW S, NEW s \in Seq(S)
    PROVE  Range(s) \subseteq S /\ IsFiniteSet(Range(s))
<1>1. Len(s) \in Nat /\ s \in [1..Len(s) -> S]
  BY LenProperties
<1>2. s \in Surjection(1..Len(s), Range(s))
  BY <1>1 DEF Surjection, Range
<1>3. IsFiniteSet(1..Len(s))
  BY <1>1, FS_Interval
<1>4. IsFiniteSet(Range(s))
  BY <1>2, <1>3, FS_Surjection
<1> QED
  BY <1>1, <1>4 DEF Range

-----------------------------------------------------------------------------
(* Every pcb in one place.                                                 *)

\* The number of places a pcb is in.
SumaLugares(p) ==
    Veces(cola_new, p) + Veces(lista_pcbs, p)
        + Uno(largo = "list_add" /\ pcb_largo = p)
        + Uno(p \in Ejecutando) + Uno(p \in durmiendo)
        + Cardinality(EnEspera(p)) + Uno(p \in Terminados)

\* No pcb is anywhere before its console arrives.
LEMMA InitLugar == Init => LugarUnico
<1> SUFFICES ASSUME Init, NEW p \in Procesos
             PROVE  /\ SumaLugares(p) = Uno(consola[p] # "inicio")
                    /\ \A r \in Recursos : Veces(procesos_bloqueados[r], p) <= 1
                    /\ IsFiniteSet(EnEspera(p))
  BY DEF LugarUnico, CadaPcbEnUnLugar, SumaLugares
<1>1. Veces(<<>>, p) = 0
  <2>1. {i \in DOMAIN <<>> : <<>>[i] = p} = {}
    OBVIOUS
  <2> QED
    BY <2>1, FS_EmptySet DEF Veces
<1>2. cola_new = <<>> /\ lista_pcbs = <<>>
  BY DEF Init
<1>3. \A r \in Recursos : Veces(procesos_bloqueados[r], p) = 0
  BY <1>1 DEF Init
<1>4. IsFiniteSet(EnEspera(p)) /\ Cardinality(EnEspera(p)) = 0
  <2>1. EnEspera(p) = {}
    BY <1>3 DEF EnEspera
  <2> QED
    BY <2>1, FS_EmptySet
<1>5. /\ ~ (largo = "list_add") /\ p \notin Ejecutando /\ p \notin durmiendo
      /\ p \notin Terminados /\ consola[p] = "inicio"
  BY DEF Init, Ejecutando, Terminados, Semaforos
<1> QED
  BY <1>1, <1>2, <1>3, <1>4, <1>5 DEF SumaLugares, Uno

\* What LugarUnico says of one pcb, with the types of its terms.
LEMMA LugarDe ==
    ASSUME TypeOK, LugarUnico, NEW p \in Procesos
    PROVE  /\ Veces(cola_new, p) \in Nat
           /\ p \in Range(cola_new) <=> Veces(cola_new, p) # 0
           /\ Veces(lista_pcbs, p) \in Nat
           /\ p \in Range(lista_pcbs) <=> Veces(lista_pcbs, p) # 0
           /\ IsFiniteSet(EnEspera(p)) /\ Cardinality(EnEspera(p)) \in Nat
           /\ \A r \in Recursos :
                 /\ Veces(procesos_bloqueados[r], p) \in 0..1
                 /\ p \in Range(procesos_bloqueados[r]) <=> r \in EnEspera(p)
                 /\ r \in EnEspera(p) => Cardinality(EnEspera(p)) > 0
           /\ SumaLugares(p) = Uno(consola[p] # "inicio")
<1>1. /\ Veces(cola_new, p) \in Nat
      /\ p \in Range(cola_new) <=> Veces(cola_new, p) # 0
      /\ Veces(lista_pcbs, p) \in Nat
      /\ p \in Range(lista_pcbs) <=> Veces(lista_pcbs, p) # 0
  BY VecesTipo DEF TypeOK, TipoColas
<1>2. IsFiniteSet(EnEspera(p)) /\ Cardinality(EnEspera(p)) \in Nat
  BY FS_CardinalityType DEF LugarUnico
<1>3. ASSUME NEW r \in Recursos
      PROVE  /\ Veces(procesos_bloqueados[r], p) \in 0..1
             /\ p \in Range(procesos_bloqueados[r]) <=> r \in EnEspera(p)
             /\ r \in EnEspera(p) => Cardinality(EnEspera(p)) > 0
  <2>1. procesos_bloqueados[r] \in Seq(Procesos)
    BY DEF TypeOK, TipoRecursos
  <2>2. /\ Veces(procesos_bloqueados[r], p) \in Nat
        /\ p \in Range(procesos_bloqueados[r])
              <=> Veces(procesos_bloqueados[r], p) # 0
    BY <2>1, VecesTipo
  <2>3. Veces(procesos_bloqueados[r], p) <= 1
    BY DEF LugarUnico, CadaPcbEnUnLugar
  <2>4. r \in EnEspera(p) => Cardinality(EnEspera(p)) # 0
    BY <1>2, FS_EmptySet
  <2> QED
    BY <1>2, <2>2, <2>3, <2>4 DEF EnEspera
<1> QED
  BY <1>1, <1>2, <1>3 DEF LugarUnico, CadaPcbEnUnLugar, SumaLugares

\* A step that moves no pcb.
LEMMA MismoLugar ==
    ASSUME LugarUnico,
           UNCHANGED <<cola_new, lista_pcbs, Ejecutando, durmiendo,
                       procesos_bloqueados, notificado>>,
           \A p \in Procesos :
               (consola'[p] # "inicio") <=> (consola[p] # "inicio"),
           (largo' = "list_add") <=> (largo = "list_add"),
           largo = "list_add" => pcb_largo' = pcb_largo
    PROVE  LugarUnico'
<1>1. /\ \A p \in Procesos : EnEspera(p)' = EnEspera(p)
      /\ Terminados' = Terminados
  BY DEF EnEspera, Terminados
<1>2. ASSUME NEW p \in Procesos
      PROVE  /\ Uno(consola'[p] # "inicio") = Uno(consola[p] # "inicio")
             /\ Uno(largo' = "list_add" /\ pcb_largo' = p)
                   = Uno(largo = "list_add" /\ pcb_largo = p)
  BY DEF Uno
<1> QED
  BY <1>1, <1>2 DEF LugarUnico, CadaPcbEnUnLugar

\* While the CPU thread has a process the planner has not chosen another.
LEMMA CpuOcupada ==
    ASSUME TypeOK, FichaDeEjecucion, cpu # "proceso_running"
    PROVE  /\ sem["proceso_running"] = 0
           /\ corto \notin {"quitar", "proceso_running"}
           /\ Ejecutando = IF cpu = "yield" THEN {} ELSE {pcb_en_ejecucion}
<1>1. sem["proceso_running"] \in Nat /\ sem["tope_ejecucion"] \in Nat
      /\ sem["sem_replanificar"] \in Nat
  BY DEF TypeOK, TipoSemaforos, Semaforos
<1>2. /\ sem["proceso_running"] = 0
      /\ corto \notin {"quitar", "proceso_running"}
  BY <1>1 DEF FichaDeEjecucion, Uno
<1>3. cpu \in {"ejecuta", "signal", "yield"}
  BY DEF TypeOK, TipoHilos
<1> QED
  BY <1>2, <1>3 DEF Ejecutando

\* A console brings a pcb that was nowhere.
LEMMA LugarEncolar ==
    ASSUME Inv2, LugarUnico, NEW q \in Procesos, EncolarNuevo(q)
    PROVE  LugarUnico'
<1> TypeOK
  BY DEF Inv2, Inv1
<1>1. ASSUME NEW p \in Procesos
      PROVE  /\ SumaLugares(p)' = Uno(consola[p] # "inicio")'
             /\ \A r \in Recursos : Veces(procesos_bloqueados[r], p)' <= 1
             /\ IsFiniteSet(EnEspera(p))'
  <2>1. Veces(cola_new', p) = Veces(cola_new, p) + Uno(q = p)
    BY VecesAppend DEF EncolarNuevo, TypeOK, TipoColas
  <2>2. Uno(consola'[p] # "inicio") = Uno(consola[p] # "inicio") + Uno(q = p)
    BY DEF EncolarNuevo, Uno, TypeOK, TipoProcesos
  <2>3. /\ UNCHANGED <<lista_pcbs, largo, pcb_largo, durmiendo, Ejecutando,
                       EnEspera(p), Terminados, procesos_bloqueados>>
    BY DEF EncolarNuevo, Ejecutando, EnEspera, Terminados, recursos,
           bloqueadores, hilo_largo, hilo_cpu
  <2>4. SumaLugares(p) = Uno(consola[p] # "inicio")
    BY LugarDe
  <2>5. SumaLugares(p)' = SumaLugares(p) + Uno(q = p)
    BY <2>1, <2>3, LugarDe DEF SumaLugares, Uno
  <2>6. \A r \in Recursos : Veces(procesos_bloqueados[r], p)' <= 1
    BY <2>3, LugarDe
  <2>7. IsFiniteSet(EnEspera(p))'
    BY <2>3, LugarDe
  <2> QED
    BY <2>2, <2>4, <2>5, <2>6, <2>7
<1> QED
  BY <1>1 DEF LugarUnico, CadaPcbEnUnLugar, SumaLugares

\* The pcb popped from cola_new is in the hands of the planner.
LEMMA LugarQuitaNuevo ==
    ASSUME Inv2, LugarUnico, LargoQuitaNuevo
    PROVE  LugarUnico'
<1> TypeOK /\ FichaDeEjecucion /\ PcbUsado
  BY DEF Inv2, Inv1
<1>1. ASSUME NEW p \in Procesos
      PROVE  /\ SumaLugares(p)' = Uno(consola[p] # "inicio")'
             /\ \A r \in Recursos : Veces(procesos_bloqueados[r], p)' <= 1
             /\ IsFiniteSet(EnEspera(p))'
  <2>1. Veces(cola_new', p) = Veces(cola_new, p) - Uno(Head(cola_new) = p)
    BY VecesTail DEF LargoQuitaNuevo, TypeOK, TipoColas
  <2>2. /\ Uno(largo = "list_add" /\ pcb_largo = p) = 0
        /\ Uno(largo' = "list_add" /\ pcb_largo' = p) = Uno(Head(cola_new) = p)
    BY DEF LargoQuitaNuevo, Uno
  <2>3. UNCHANGED <<lista_pcbs, consola, durmiendo, Ejecutando, EnEspera(p),
                    Terminados, procesos_bloqueados>>
    BY DEF LargoQuitaNuevo, Ejecutando, EnEspera, Terminados, recursos,
           bloqueadores, hilo_cpu
  <2>4. SumaLugares(p) = Uno(consola[p] # "inicio")
    BY LugarDe
  <2>5. SumaLugares(p)' = SumaLugares(p)
    BY <2>1, <2>2, <2>3, LugarDe DEF SumaLugares, Uno
  <2> QED
    BY <2>3, <2>4, <2>5, LugarDe
<1> QED
  BY <1>1 DEF LugarUnico, CadaPcbEnUnLugar, SumaLugares

\* The planner adds it to lista_pcbs.
LEMMA LugarAgrega ==
    ASSUME Inv2, LugarUnico, LargoAgrega
    PROVE  LugarUnico'
<1> TypeOK /\ FichaDeEjecucion /\ PcbUsado
  BY DEF Inv2, Inv1
<1>1. ASSUME NEW p \in Procesos
      PROVE  /\ SumaLugares(p)' = Uno(consola[p] # "inicio")'
             /\ \A r \in Recursos : Veces(procesos_bloqueados[r], p)' <= 1
             /\ IsFiniteSet(EnEspera(p))'
  <2>1. Veces(lista_pcbs', p) = Veces(lista_pcbs, p) + Uno(pcb_largo = p)
    BY VecesAppend DEF LargoAgrega, Agrega, TypeOK, TipoColas, PcbUsado
  <2>2. /\ Uno(largo = "list_add" /\ pcb_largo = p) = Uno(pcb_largo = p)
        /\ Uno(largo' = "list_add" /\ pcb_largo' = p) = 0
    BY DEF LargoAgrega, Uno
  <2>3. UNCHANGED <<cola_new, consola, durmiendo, Ejecutando, EnEspera(p),
                    Terminados, procesos_bloqueados>>
    BY DEF LargoAgrega, Ejecutando, EnEspera, Terminados, recursos,
           bloqueadores, hilo_cpu
  <2>4. SumaLugares(p) = Uno(consola[p] # "inicio")
    BY LugarDe
  <2>5. SumaLugares(p)' = SumaLugares(p)
    BY <2>1, <2>2, <2>3, LugarDe DEF SumaLugares, Uno
  <2> QED
    BY <2>3, <2>4, <2>5, LugarDe
<1> QED
  BY <1>1 DEF LugarUnico, CadaPcbEnUnLugar, SumaLugares

\* What the short-term planner takes out is a pcb of the list, and the CPU had
\* none.
LEMMA QuitaElegido ==
    ASSUME Inv2, CortoQuita
    PROVE  /\ \E i \in 1..Len(lista_pcbs) :
                 /\ ALGORITMO_PLANIFICACION = "FIFO" => i = 1
                 /\ pcb_en_ejecucion' = lista_pcbs[i]
                 /\ lista_pcbs' = RemoveAt(lista_pcbs, i)
           /\ Ejecutando = {} /\ Ejecutando' = {pcb_en_ejecucion'}
<1> TypeOK /\ FichaDeEjecucion /\ CuentaDeListos
  BY DEF Inv2, Inv1
<1>1. lista_pcbs \in Seq(Procesos) /\ Len(lista_pcbs) \in Nat
  BY LenProperties DEF TypeOK, TipoColas
<1>2. /\ sem["proceso_running"] \in Nat /\ sem["tope_ejecucion"] \in Nat
      /\ sem["cantidad_procesos"] \in Nat /\ Len(pasando) \in Nat
  BY LenProperties DEF TypeOK, TipoSemaforos, Semaforos, TipoColas
<1>3. lista_pcbs # <<>>
  <2>1. Len(lista_pcbs) > 0
    BY <1>2 DEF CortoQuita, CuentaDeListos, Uno
  <2> QED
    BY <1>1, <2>1, EmptySeq
<1>4. \E i \in 1..Len(lista_pcbs) :
         /\ ALGORITMO_PLANIFICACION = "FIFO" => i = 1
         /\ pcb_en_ejecucion' = lista_pcbs[i]
         /\ lista_pcbs' = RemoveAt(lista_pcbs, i)
  <2>1. Len(lista_pcbs) \in Nat \ {0}
    BY <1>1, <1>3, EmptySeq
  <2>2. PICK e \in Elecciones : pcb_en_ejecucion' = e[1] /\ lista_pcbs' = e[2]
    BY DEF CortoQuita
  <2>3. PICK i \in IF ALGORITMO_PLANIFICACION = "FIFO" THEN {1}
                   ELSE 1..Len(lista_pcbs) :
           e = <<lista_pcbs[i], RemoveAt(lista_pcbs, i)>>
    BY <1>3, <2>2 DEF Elecciones
  <2>4. /\ i \in 1..Len(lista_pcbs)
        /\ ALGORITMO_PLANIFICACION = "FIFO" => i = 1
    BY <2>1, <2>3
  <2> QED
    BY <2>2, <2>3, <2>4
<1>5. sem["proceso_running"] = 0 /\ cpu = "proceso_running"
  BY <1>2 DEF CortoQuita, FichaDeEjecucion, Uno
<1>6. Ejecutando = {} /\ Ejecutando' = {pcb_en_ejecucion'}
  BY <1>5 DEF CortoQuita, Ejecutando, hilo_cpu
<1> QED
  BY <1>4, <1>6

\* The short-term planner moves it from the list to the CPU.
LEMMA LugarQuita ==
    ASSUME Inv2, LugarUnico, CortoQuita
    PROVE  LugarUnico'
<1> TypeOK /\ FichaDeEjecucion /\ PcbUsado
  BY DEF Inv2, Inv1
<1>2. PICK i \in 1..Len(lista_pcbs) :
              /\ pcb_en_ejecucion' = lista_pcbs[i]
              /\ lista_pcbs' = RemoveAt(lista_pcbs, i)
  BY QuitaElegido
<1>1. ASSUME NEW p \in Procesos
      PROVE  /\ SumaLugares(p)' = Uno(consola[p] # "inicio")'
             /\ \A r \in Recursos : Veces(procesos_bloqueados[r], p)' <= 1
             /\ IsFiniteSet(EnEspera(p))'
  <2>1. Veces(lista_pcbs', p) = Veces(lista_pcbs, p) - Uno(lista_pcbs[i] = p)
    BY <1>2, VecesQuitar DEF TypeOK, TipoColas
  <2>2. /\ Uno(p \in Ejecutando) = 0
        /\ Uno(p \in Ejecutando') = Uno(lista_pcbs[i] = p)
    BY <1>2, QuitaElegido DEF Uno
  <2>3. UNCHANGED <<cola_new, consola, durmiendo, largo, pcb_largo,
                    EnEspera(p), Terminados, procesos_bloqueados>>
    BY DEF CortoQuita, EnEspera, Terminados, recursos, bloqueadores,
           hilo_largo
  <2>4. SumaLugares(p) = Uno(consola[p] # "inicio")
    BY LugarDe
  <2>5. SumaLugares(p)' = SumaLugares(p)
    BY <2>1, <2>2, <2>3, LugarDe DEF SumaLugares, Uno
  <2> QED
    BY <2>3, <2>4, <2>5, LugarDe
<1> QED
  BY <1>1 DEF LugarUnico, CadaPcbEnUnLugar, SumaLugares

\* A step of the CPU thread that leaves the CPU without a process.
LEMMA DejaLaCpu ==
    ASSUME TypeOK, FichaDeEjecucion, cpu = "ejecuta",
           cpu' \in {"proceso_running", "yield"}, corto' = corto,
           sem'["proceso_running"] = sem["proceso_running"]
    PROVE  Ejecutando = {pcb_en_ejecucion} /\ Ejecutando' = {}
  BY CpuOcupada DEF Ejecutando

\* IO puts it to sleep.
LEMMA LugarIO ==
    ASSUME Inv2, LugarUnico, EjecutaIO
    PROVE  LugarUnico'
<1> TypeOK /\ FichaDeEjecucion /\ PcbUsado
  BY DEF Inv2, Inv1
<1>2. /\ cpu = "ejecuta" /\ pcb_en_ejecucion \in Procesos
      /\ Ejecutando = {pcb_en_ejecucion} /\ Ejecutando' = {}
  <2>1. /\ cpu = "ejecuta" /\ cpu' = "proceso_running" /\ corto' = corto
        /\ sem'["proceso_running"] = sem["proceso_running"]
    BY DevuelveConCpu DEF EjecutaIO, Post, Replanificar, Semaforos
  <2> QED
    BY <2>1, DejaLaCpu DEF PcbUsado
<1>1. ASSUME NEW p \in Procesos
      PROVE  /\ SumaLugares(p)' = Uno(consola[p] # "inicio")'
             /\ \A r \in Recursos : Veces(procesos_bloqueados[r], p)' <= 1
             /\ IsFiniteSet(EnEspera(p))'
  <2>1. /\ Uno(p \in Ejecutando) = Uno(p = pcb_en_ejecucion)
        /\ Uno(p \in Ejecutando') = 0
    BY <1>2 DEF Uno
  <2>2. UNCHANGED <<cola_new, lista_pcbs, consola, largo, pcb_largo,
                    EnEspera(p), Terminados, procesos_bloqueados>>
    BY DEF EjecutaIO, EnEspera, Terminados, recursos, colas, hilo_largo
  <2>3. SumaLugares(p) = Uno(consola[p] # "inicio")
    BY LugarDe
  <2>4. Uno(p \in durmiendo') = Uno(p \in durmiendo) + Uno(p = pcb_en_ejecucion)
    <3>1. p = pcb_en_ejecucion => p \notin durmiendo
      BY <2>1, <2>3, LugarDe DEF SumaLugares, Uno
    <3>2. durmiendo' = durmiendo \cup {pcb_en_ejecucion}
      BY DEF EjecutaIO
    <3> QED
      BY <3>1, <3>2 DEF Uno
  <2>5. SumaLugares(p)' = SumaLugares(p)
    BY <2>1, <2>2, <2>4, LugarDe DEF SumaLugares, Uno
  <2> QED
    BY <2>2, <2>3, <2>5, LugarDe
<1> QED
  BY <1>1 DEF LugarUnico, CadaPcbEnUnLugar, SumaLugares

\* YIELD adds it to lista_pcbs.
LEMMA LugarYield ==
    ASSUME Inv2, LugarUnico, EjecutaYield
    PROVE  LugarUnico'
<1> TypeOK /\ FichaDeEjecucion /\ PcbUsado
  BY DEF Inv2, Inv1
<1>2. /\ cpu = "ejecuta" /\ pcb_en_ejecucion \in Procesos
      /\ Ejecutando = {pcb_en_ejecucion} /\ Ejecutando' = {}
  <2>1. /\ cpu = "ejecuta" /\ cpu' = "yield" /\ corto' = corto
        /\ sem'["proceso_running"] = sem["proceso_running"]
    BY DevuelveConCpu DEF EjecutaYield
  <2> QED
    BY <2>1, DejaLaCpu DEF PcbUsado
<1>1. ASSUME NEW p \in Procesos
      PROVE  /\ SumaLugares(p)' = Uno(consola[p] # "inicio")'
             /\ \A r \in Recursos : Veces(procesos_bloqueados[r], p)' <= 1
             /\ IsFiniteSet(EnEspera(p))'
  <2>1. /\ Uno(p \in Ejecutando) = Uno(pcb_en_ejecucion = p)
        /\ Uno(p \in Ejecutando') = 0
    BY <1>2 DEF Uno
  <2>2. Veces(lista_pcbs', p) = Veces(lista_pcbs, p) + Uno(pcb_en_ejecucion = p)
    BY <1>2, VecesAppend DEF EjecutaYield, Agrega, TypeOK, TipoColas
  <2>3. UNCHANGED <<cola_new, consola, largo, pcb_largo, durmiendo,
                    EnEspera(p), Terminados, procesos_bloqueados>>
    BY DEF EjecutaYield, EnEspera, Terminados, recursos, bloqueadores,
           hilo_largo
  <2>4. SumaLugares(p) = Uno(consola[p] # "inicio")
    BY LugarDe
  <2>5. SumaLugares(p)' = SumaLugares(p)
    BY <2>1, <2>2, <2>3, LugarDe DEF SumaLugares, Uno
  <2> QED
    BY <2>3, <2>4, <2>5, LugarDe
<1> QED
  BY <1>1 DEF LugarUnico, CadaPcbEnUnLugar, SumaLugares

\* One that ends is in no queue.
LEMMA LugarTermina ==
    ASSUME Inv2, LugarUnico, NEW motivo \in Motivos,
           TerminarProcesoEnEjecucion(motivo)
    PROVE  LugarUnico'
<1> TypeOK /\ FichaDeEjecucion /\ PcbUsado
  BY DEF Inv2, Inv1
<1>2. /\ cpu = "ejecuta" /\ pcb_en_ejecucion \in Procesos
      /\ Ejecutando = {pcb_en_ejecucion} /\ Ejecutando' = {}
  <2>1. /\ cpu = "ejecuta" /\ cpu' = "proceso_running" /\ corto' = corto
        /\ sem'["proceso_running"] = sem["proceso_running"]
    BY DevuelveConCpu
    DEF TerminarProcesoEnEjecucion, Post, AlTerminar, Replanificar, Semaforos
  <2> QED
    BY <2>1, DejaLaCpu DEF PcbUsado
<1>3. Terminados' = Terminados \cup {pcb_en_ejecucion}
  <2>1. notificado' = [notificado EXCEPT ![pcb_en_ejecucion] = motivo]
    BY DEF TerminarProcesoEnEjecucion
  <2> QED
    BY <1>2, <2>1, MotivosAssumption DEF Terminados, TypeOK, TipoProcesos
<1>1. ASSUME NEW p \in Procesos
      PROVE  /\ SumaLugares(p)' = Uno(consola[p] # "inicio")'
             /\ \A r \in Recursos : Veces(procesos_bloqueados[r], p)' <= 1
             /\ IsFiniteSet(EnEspera(p))'
  <2>1. /\ Uno(p \in Ejecutando) = Uno(pcb_en_ejecucion = p)
        /\ Uno(p \in Ejecutando') = 0
    BY <1>2 DEF Uno
  <2>2. UNCHANGED <<cola_new, lista_pcbs, consola, largo, pcb_largo, durmiendo,
                    EnEspera(p), procesos_bloqueados>>
    BY DEF TerminarProcesoEnEjecucion, EnEspera, recursos, bloqueadores,
           hilo_largo
  <2>3. SumaLugares(p) = Uno(consola[p] # "inicio")
    BY LugarDe
  <2>4. Uno(p \in Terminados') = Uno(p \in Terminados) + Uno(pcb_en_ejecucion = p)
    <3>1. p = pcb_en_ejecucion => p \notin Terminados
      BY <2>1, <2>3, LugarDe DEF SumaLugares, Uno
    <3> QED
      BY <1>3, <3>1 DEF Uno
  <2>5. SumaLugares(p)' = SumaLugares(p)
    BY <2>1, <2>2, <2>4, LugarDe DEF SumaLugares, Uno
  <2> QED
    BY <2>2, <2>3, <2>5, LugarDe
<1> QED
  BY <1>1 DEF LugarUnico, CadaPcbEnUnLugar, SumaLugares

\* The sleep ends: from its thread to the list.
LEMMA LugarDespierta ==
    ASSUME Inv2, LugarUnico, NEW q \in Procesos,
           BloqueadorDespierta(q)
    PROVE  LugarUnico'
<1> TypeOK /\ FichaDeEjecucion /\ PcbUsado
  BY DEF Inv2, Inv1
<1>1. ASSUME NEW p \in Procesos
      PROVE  /\ SumaLugares(p)' = Uno(consola[p] # "inicio")'
             /\ \A r \in Recursos : Veces(procesos_bloqueados[r], p)' <= 1
             /\ IsFiniteSet(EnEspera(p))'
  <2>1. Uno(p \in durmiendo') = Uno(p \in durmiendo) - Uno(q = p)
    BY DEF BloqueadorDespierta, Uno
  <2>2. Veces(lista_pcbs', p) = Veces(lista_pcbs, p) + Uno(q = p)
    BY VecesAppend DEF BloqueadorDespierta, Agrega, TypeOK, TipoColas
  <2>3. UNCHANGED <<cola_new, consola, largo, pcb_largo, Ejecutando,
                    EnEspera(p), Terminados, procesos_bloqueados>>
    BY DEF BloqueadorDespierta, Ejecutando, EnEspera, Terminados, recursos,
           hilo_largo, hilo_cpu
  <2>4. SumaLugares(p) = Uno(consola[p] # "inicio")
    BY LugarDe
  <2>5. SumaLugares(p)' = SumaLugares(p)
    BY <2>1, <2>2, <2>3, LugarDe DEF SumaLugares, Uno
  <2> QED
    BY <2>3, <2>4, <2>5, LugarDe
<1> QED
  BY <1>1 DEF LugarUnico, CadaPcbEnUnLugar, SumaLugares

\* A WAIT with no instance left queues it.
LEMMA LugarBloquea ==
    ASSUME Inv2, LugarUnico, NEW r \in Recursos,
           EjecutaWaitBloquea(r)
    PROVE  LugarUnico'
<1> TypeOK /\ FichaDeEjecucion /\ PcbUsado
  BY DEF Inv2, Inv1
<1>2. /\ cpu = "ejecuta" /\ pcb_en_ejecucion \in Procesos
      /\ Ejecutando = {pcb_en_ejecucion} /\ Ejecutando' = {}
  <2>1. /\ cpu = "ejecuta" /\ cpu' = "proceso_running" /\ corto' = corto
        /\ sem'["proceso_running"] = sem["proceso_running"]
    BY DevuelveConCpu DEF EjecutaWaitBloquea, Post, Replanificar, Semaforos
  <2> QED
    BY <2>1, DejaLaCpu DEF PcbUsado
<1>3. /\ \A x \in Recursos \ {r} :
            procesos_bloqueados'[x] = procesos_bloqueados[x]
      /\ procesos_bloqueados'[r] =
            Append(procesos_bloqueados[r], pcb_en_ejecucion)
      /\ \A x \in Recursos : procesos_bloqueados[x] \in Seq(Procesos)
  BY DEF EjecutaWaitBloquea, TypeOK, TipoRecursos
<1>1. ASSUME NEW p \in Procesos
      PROVE  /\ SumaLugares(p)' = Uno(consola[p] # "inicio")'
             /\ \A x \in Recursos : Veces(procesos_bloqueados[x], p)' <= 1
             /\ IsFiniteSet(EnEspera(p))'
  <2>0. /\ \A x \in Recursos : Veces(procesos_bloqueados[x], p) \in 0..1
        /\ IsFiniteSet(EnEspera(p)) /\ Cardinality(EnEspera(p)) \in Nat
    BY LugarDe
  <2>1. /\ Uno(p \in Ejecutando) = Uno(pcb_en_ejecucion = p)
        /\ Uno(p \in Ejecutando') = 0
    BY <1>2 DEF Uno
  <2>2. Veces(procesos_bloqueados'[r], p) =
           Veces(procesos_bloqueados[r], p) + Uno(pcb_en_ejecucion = p)
    BY <1>2, <1>3, VecesAppend
  <2>3. UNCHANGED <<cola_new, lista_pcbs, consola, largo, pcb_largo, durmiendo,
                    Terminados>>
    BY DEF EjecutaWaitBloquea, Terminados, colas, bloqueadores, hilo_largo
  <2>4. SumaLugares(p) = Uno(consola[p] # "inicio")
    BY LugarDe
  <2>5. p = pcb_en_ejecucion => Cardinality(EnEspera(p)) = 0
    BY <2>1, <2>4, LugarDe DEF SumaLugares, Uno
  <2>6. p = pcb_en_ejecucion => EnEspera(p) = {}
    BY <2>5, LugarDe, FS_EmptySet
  <2>7. p = pcb_en_ejecucion => Veces(procesos_bloqueados[r], p) = 0
    BY <2>0, <2>6 DEF EnEspera
  <2>8. \A x \in Recursos : Veces(procesos_bloqueados'[x], p) <= 1
    <3>1. Veces(procesos_bloqueados'[r], p) <= 1
      BY <2>0, <2>2, <2>7 DEF Uno
    <3>2. ASSUME NEW x \in Recursos \ {r}
          PROVE  Veces(procesos_bloqueados'[x], p) <= 1
      BY <1>3, <2>0
    <3> QED
      BY <3>1, <3>2
  <2>9. EnEspera(p)' = IF p = pcb_en_ejecucion THEN {r} ELSE EnEspera(p)
    <3>1. CASE p = pcb_en_ejecucion
      <4>1. Veces(procesos_bloqueados'[r], p) = 1
        BY <2>2, <2>7, <3>1 DEF Uno
      <4>2. \A x \in Recursos \ {r} : Veces(procesos_bloqueados'[x], p) # 1
        BY <1>3, <2>6, <3>1 DEF EnEspera
      <4> QED
        BY <3>1, <4>1, <4>2 DEF EnEspera
    <3>2. CASE p # pcb_en_ejecucion
      <4>1. \A x \in Recursos : Veces(procesos_bloqueados'[x], p)
                                  = Veces(procesos_bloqueados[x], p)
        <5>1. Veces(procesos_bloqueados'[r], p)
                 = Veces(procesos_bloqueados[r], p)
          BY <2>0, <2>2, <3>2 DEF Uno
        <5> QED
          BY <1>3, <5>1
      <4> QED
        BY <3>2, <4>1 DEF EnEspera
    <3> QED
      BY <3>1, <3>2
  <2>10. /\ IsFiniteSet(EnEspera(p)')
         /\ Cardinality(EnEspera(p)') =
               Cardinality(EnEspera(p)) + Uno(pcb_en_ejecucion = p)
    <3>1. CASE p = pcb_en_ejecucion
      <4>1. IsFiniteSet({r}) /\ Cardinality({r}) = 1
        BY FS_Singleton
      <4> QED
        BY <2>5, <2>9, <3>1, <4>1 DEF Uno
    <3>2. CASE p # pcb_en_ejecucion
      BY <2>0, <2>9, <3>2 DEF Uno
    <3> QED
      BY <3>1, <3>2
  <2>11. SumaLugares(p)' = SumaLugares(p)
    BY <2>1, <2>3, <2>10, LugarDe DEF SumaLugares, Uno
  <2> QED
    BY <2>3, <2>4, <2>8, <2>10, <2>11
<1> QED
  BY <1>1 DEF LugarUnico, CadaPcbEnUnLugar, SumaLugares

\* A SIGNAL takes the first one of its queue to the list.
LEMMA LugarSignal ==
    ASSUME Inv2, LugarUnico, NEW r \in Recursos,
           EjecutaSignalDespierta(r)
    PROVE  LugarUnico'
<1> TypeOK /\ FichaDeEjecucion /\ PcbUsado
  BY DEF Inv2, Inv1
<1> DEFINE h == Head(procesos_bloqueados[r])
<1>2. /\ \A x \in Recursos \ {r} :
            procesos_bloqueados'[x] = procesos_bloqueados[x]
      /\ procesos_bloqueados'[r] = Tail(procesos_bloqueados[r])
      /\ \A x \in Recursos : procesos_bloqueados[x] \in Seq(Procesos)
      /\ procesos_bloqueados[r] # <<>>
  BY DEF EjecutaSignalDespierta, HayEnEspera, Desencola, TypeOK, TipoRecursos
<1>3. h \in Procesos
  BY <1>2, HeadTailProperties
<1>4. lista_pcbs \in Seq(Procesos) /\ lista_pcbs' = Append(lista_pcbs, h)
  BY DEF EjecutaSignalDespierta, Agrega, TypeOK, TipoColas
<1>5. Ejecutando' = Ejecutando
  <2>1. /\ cpu = "ejecuta" /\ cpu' = "signal"
        /\ UNCHANGED <<corto, sem, pcb_en_ejecucion>>
    BY DevuelveConCpu DEF EjecutaSignalDespierta
  <2> QED
    BY <2>1 DEF Ejecutando
<1> HIDE DEF h
<1>1. ASSUME NEW p \in Procesos
      PROVE  /\ SumaLugares(p)' = Uno(consola[p] # "inicio")'
             /\ \A x \in Recursos : Veces(procesos_bloqueados[x], p)' <= 1
             /\ IsFiniteSet(EnEspera(p))'
  <2>0. /\ \A x \in Recursos : Veces(procesos_bloqueados[x], p) \in 0..1
        /\ IsFiniteSet(EnEspera(p)) /\ Cardinality(EnEspera(p)) \in Nat
    BY LugarDe
  <2>1. Veces(lista_pcbs', p) = Veces(lista_pcbs, p) + Uno(h = p)
    BY <1>3, <1>4, VecesAppend
  <2>2. Veces(procesos_bloqueados'[r], p) =
           Veces(procesos_bloqueados[r], p) - Uno(h = p)
    BY <1>2, VecesTail DEF h
  <2>3. UNCHANGED <<cola_new, consola, largo, pcb_largo, durmiendo, Terminados>>
    BY DEF EjecutaSignalDespierta, Terminados, bloqueadores, hilo_largo
  <2>4. SumaLugares(p) = Uno(consola[p] # "inicio")
    BY LugarDe
  <2>5. Veces(procesos_bloqueados'[r], p) \in Nat
    <3>1. Tail(procesos_bloqueados[r]) \in Seq(Procesos)
      BY <1>2, HeadTailProperties
    <3> QED
      BY <1>2, <3>1, VecesTipo
  <2>6. \A x \in Recursos : Veces(procesos_bloqueados'[x], p) <= 1
    BY <1>2, <2>0, <2>2 DEF Uno
  <2>7. p = h => r \in EnEspera(p)
    BY <2>0, <2>2, <2>5 DEF EnEspera, Uno
  <2>8. EnEspera(p)' = IF p = h THEN EnEspera(p) \ {r} ELSE EnEspera(p)
    <3>1. CASE p = h
      <4>1. Veces(procesos_bloqueados'[r], p) # 1
        BY <2>0, <2>2, <3>1 DEF Uno
      <4> QED
        BY <1>2, <3>1, <4>1 DEF EnEspera
    <3>2. CASE p # h
      <4>1. \A x \in Recursos : Veces(procesos_bloqueados'[x], p)
                                  = Veces(procesos_bloqueados[x], p)
        BY <1>2, <2>0, <2>2, <3>2 DEF Uno
      <4> QED
        BY <3>2, <4>1 DEF EnEspera
    <3> QED
      BY <3>1, <3>2
  <2>9. /\ IsFiniteSet(EnEspera(p)')
        /\ Cardinality(EnEspera(p)') = Cardinality(EnEspera(p)) - Uno(h = p)
    BY <2>0, <2>7, <2>8, FS_RemoveElement DEF Uno
  <2>10. SumaLugares(p)' = SumaLugares(p)
    BY <1>5, <2>1, <2>3, <2>9, LugarDe DEF SumaLugares, Uno
  <2> QED
    BY <2>3, <2>4, <2>6, <2>9, <2>10
<1> QED
  BY <1>1 DEF LugarUnico, CadaPcbEnUnLugar, SumaLugares

(* The steps that move no pcb.                                             *)
PasoQuieto ==
    \/ \E p \in Procesos : AvisarNuevo(p)
    \/ LargoEsperaNuevo \/ LargoEsperaGrado
    \/ LargoAvisaListo \/ LargoBuscaUltimo \/ LargoRegistra
    \/ CortoArranca \/ CortoReplanifica \/ CortoTope \/ CortoCantidad
    \/ CortoDespacha
    \/ CpuToma \/ CpuTerminaSignal \/ CpuTerminaYield
    \/ \E r \in Recursos : EjecutaWait(r) \/ EjecutaSignal(r)
    \/ EjecutaSegmento
    \/ \E n \in 1..Len(pasando) : BloqueadorTermina(n)

PasoQueMueve ==
    \/ \E p \in Procesos : EncolarNuevo(p) \/ BloqueadorDespierta(p)
    \/ LargoQuitaNuevo \/ LargoAgrega \/ CortoQuita
    \/ EjecutaIO \/ EjecutaYield
    \/ \E r \in Recursos : EjecutaWaitBloquea(r) \/ EjecutaSignalDespierta(r)
    \/ \E motivo \in Motivos : TerminarProcesoEnEjecucion(motivo)

\* Every step is of one of the two kinds.
LEMMA PasosDeNext == Next <=> PasoQuieto \/ PasoQueMueve
  BY DEF Next, Consola, LargoPlazo, CortoPlazo, ComunicacionCPU, Bloqueador,
    PasoQuieto, PasoQueMueve

\* The process of the CPU stays the same, although the steps that hand it over
\* change every variable Ejecutando is read from.
LEMMA EjecutandoQuieto ==
    ASSUME Inv2, PasoQuieto PROVE Ejecutando' = Ejecutando
<1> TypeOK /\ FichaDeEjecucion
  BY DEF Inv2, Inv1
<1> USE DEF colas, recursos, bloqueadores, hilo_largo, hilo_cpu
<1>1. ASSUME NEW p \in Procesos, AvisarNuevo(p) PROVE Ejecutando' = Ejecutando
  BY <1>1 DEF AvisarNuevo, Post, Semaforos, Ejecutando
<1>2. ASSUME LargoEsperaNuevo PROVE Ejecutando' = Ejecutando
  BY <1>2 DEF LargoEsperaNuevo, LargoEspera, Wait, Semaforos, Ejecutando,
    TypeOK, TipoSemaforos
<1>3. ASSUME LargoEsperaGrado PROVE Ejecutando' = Ejecutando
  BY <1>3 DEF LargoEsperaGrado, LargoEspera, Wait, Semaforos, Ejecutando,
    TypeOK, TipoSemaforos
<1>4. ASSUME LargoAvisaListo PROVE Ejecutando' = Ejecutando
  BY <1>4 DEF LargoAvisaListo, AvisaListo, Post, Semaforos, Ejecutando
<1>5. ASSUME LargoBuscaUltimo PROVE Ejecutando' = Ejecutando
  BY <1>5 DEF LargoBuscaUltimo, Ejecutando
<1>6. ASSUME LargoRegistra PROVE Ejecutando' = Ejecutando
  BY <1>6 DEF LargoRegistra, Post, Semaforos, Ejecutando
<1>7. ASSUME CortoArranca \/ CortoReplanifica \/ CortoTope \/ CortoCantidad
      PROVE  Ejecutando' = Ejecutando
  BY <1>7 DEF CortoArranca, CortoReplanifica, CortoTope, CortoCantidad,
    CortoEspera, Wait, Semaforos, Ejecutando, TypeOK, TipoSemaforos
<1>8. ASSUME CortoDespacha PROVE Ejecutando' = Ejecutando
  <2>1. sem["proceso_running"] \in Nat
    BY DEF TypeOK, TipoSemaforos, Semaforos
  <2>2. corto = "proceso_running" /\ sem'["proceso_running"] > 0
    BY <1>8, <2>1 DEF CortoDespacha, Post, Semaforos
  <2> QED
    BY <1>8, <2>2 DEF CortoDespacha, Ejecutando
<1>9. ASSUME CpuToma PROVE Ejecutando' = Ejecutando
  BY <1>9 DEF CpuToma, Wait, Ejecutando
<1>10. ASSUME CpuTerminaSignal PROVE Ejecutando' = Ejecutando
  BY <1>10 DEF CpuTerminaSignal, Ejecutando
<1>11. ASSUME CpuTerminaYield PROVE Ejecutando' = Ejecutando
  <2>1. sem["proceso_running"] = 0 /\ corto # "proceso_running"
        /\ Ejecutando = {}
    BY <1>11, CpuOcupada DEF CpuTerminaYield
  <2>2. Ejecutando' = {}
    BY <1>11, <2>1 DEF CpuTerminaYield, AvisaListo, Post, Replanificar,
    Semaforos, Ejecutando
  <2> QED
    BY <2>1, <2>2
<1>12. ASSUME NEW n \in 1..Len(pasando), BloqueadorTermina(n)
       PROVE  Ejecutando' = Ejecutando
  BY <1>12 DEF BloqueadorTermina, AvisaListo, Post, Semaforos, Ejecutando
<1>13. ASSUME \/ \E r \in Recursos : EjecutaWait(r) \/ EjecutaSignal(r)
              \/ EjecutaSegmento
       PROVE  Ejecutando' = Ejecutando
  BY <1>13 DEF EjecutaWait, EjecutaSignal, EjecutaSegmento, Ejecutando
<1> QED
  BY <1>1, <1>2, <1>3, <1>4, <1>5, <1>6, <1>7, <1>8, <1>9, <1>10, <1>11,
    <1>12, <1>13 DEF PasoQuieto

\* Nor does a quiet step write a queue.
LEMMA QuietoIgual ==
    ASSUME Inv2, PasoQuieto
    PROVE  /\ UNCHANGED <<cola_new, lista_pcbs, durmiendo, procesos_bloqueados,
                          notificado>>
           /\ \A p \in Procesos :
                 (consola'[p] # "inicio") <=> (consola[p] # "inicio")
           /\ (largo' = "list_add") <=> (largo = "list_add")
           /\ largo = "list_add" => pcb_largo' = pcb_largo
<1> TypeOK
  BY DEF Inv2, Inv1
<1> USE DEF colas, recursos, bloqueadores, hilo_largo, hilo_cpu
<1>1. CASE \E p \in Procesos : AvisarNuevo(p)
  BY <1>1 DEF AvisarNuevo, TypeOK, TipoProcesos
<1>2. CASE LargoEsperaNuevo \/ LargoEsperaGrado \/ LargoAvisaListo
           \/ LargoBuscaUltimo \/ LargoRegistra
  BY <1>2 DEF LargoEspera, LargoEsperaNuevo, LargoEsperaGrado,
    LargoAvisaListo, LargoBuscaUltimo, LargoRegistra
<1>3. CASE CortoArranca \/ CortoReplanifica \/ CortoTope \/ CortoCantidad
           \/ CortoDespacha
  BY <1>3 DEF CortoEspera, CortoArranca, CortoReplanifica, CortoTope,
    CortoCantidad, CortoDespacha
<1>4. CASE CpuToma \/ CpuTerminaSignal \/ CpuTerminaYield \/ EjecutaSegmento
           \/ (\E r \in Recursos : EjecutaWait(r) \/ EjecutaSignal(r))
           \/ (\E n \in 1..Len(pasando) : BloqueadorTermina(n))
  BY <1>4 DEF CpuToma, CpuTerminaSignal, CpuTerminaYield, EjecutaSegmento,
    EjecutaWait, EjecutaSignal, BloqueadorTermina
<1> QED
  BY <1>1, <1>2, <1>3, <1>4 DEF PasoQuieto

\* Every pcb stays in one place.
LEMMA LugarUnicoInv ==
    ASSUME Inv2, LugarUnico, Next PROVE LugarUnico'
<1>1. CASE PasoQuieto
  BY <1>1, EjecutandoQuieto, QuietoIgual, MismoLugar
<1>2. CASE PasoQueMueve
  BY <1>2, LugarEncolar, LugarQuitaNuevo, LugarAgrega, LugarQuita, LugarIO,
    LugarBloquea, LugarSignal, LugarYield, LugarTermina, LugarDespierta
  DEF PasoQueMueve
<1> QED
  BY <1>1, <1>2, PasosDeNext

\* LugarUnico, read as: a pcb that is in one place is in no other.
LEMMA UnSoloLugar ==
    ASSUME TypeOK, LugarUnico, NEW p \in Procesos
    PROVE  /\ \/ p \in Range(cola_new) \/ p \in Range(lista_pcbs)
              \/ p \in Ejecutando \/ p \in durmiendo
              \/ \E r \in Recursos : p \in Range(procesos_bloqueados[r])
              \/ largo = "list_add" /\ pcb_largo = p
              \/ p \in Terminados
              => consola[p] # "inicio"
           /\ p \in Ejecutando =>
                 /\ p \notin Range(cola_new) /\ p \notin Range(lista_pcbs)
                 /\ p \notin durmiendo /\ p \notin Terminados
                 /\ ~ (largo = "list_add" /\ pcb_largo = p)
                 /\ \A r \in Recursos : p \notin Range(procesos_bloqueados[r])
           /\ p \in Range(lista_pcbs) =>
                 /\ p \notin Range(cola_new) /\ p \notin Terminados
                 /\ p \notin durmiendo
                 /\ \A r \in Recursos : p \notin Range(procesos_bloqueados[r])
           /\ p \in durmiendo =>
                 /\ p \notin Range(cola_new) /\ p \notin Terminados
                 /\ \A r \in Recursos : p \notin Range(procesos_bloqueados[r])
           /\ p \in Range(cola_new) =>
                 /\ p \notin Terminados /\ Veces(cola_new, p) = 1
                 /\ \A r \in Recursos : p \notin Range(procesos_bloqueados[r])
<1>1. /\ Veces(cola_new, p) \in Nat
      /\ p \in Range(cola_new) <=> Veces(cola_new, p) # 0
      /\ Veces(lista_pcbs, p) \in Nat
      /\ p \in Range(lista_pcbs) <=> Veces(lista_pcbs, p) # 0
      /\ Cardinality(EnEspera(p)) \in Nat
      /\ SumaLugares(p) = Uno(consola[p] # "inicio")
  BY LugarDe
<1>2. ASSUME NEW r \in Recursos
      PROVE  p \in Range(procesos_bloqueados[r]) => Cardinality(EnEspera(p)) > 0
  BY LugarDe
<1>3. (\E r \in Recursos : p \in Range(procesos_bloqueados[r]))
         => Cardinality(EnEspera(p)) > 0
  BY <1>2
<1>4. Veces(cola_new, p) + Veces(lista_pcbs, p)
        + Uno(largo = "list_add" /\ pcb_largo = p)
        + Uno(p \in Ejecutando) + Uno(p \in durmiendo)
        + Cardinality(EnEspera(p)) + Uno(p \in Terminados)
        = Uno(consola[p] # "inicio")
  BY <1>1 DEF SumaLugares
<1>5. Cardinality(EnEspera(p)) = 0 =>
         \A r \in Recursos : p \notin Range(procesos_bloqueados[r])
  BY <1>2
<1> HIDE DEF SumaLugares
<1>6. p \in Ejecutando =>
         /\ Veces(cola_new, p) = 0 /\ Veces(lista_pcbs, p) = 0
         /\ p \notin durmiendo /\ p \notin Terminados
         /\ ~ (largo = "list_add" /\ pcb_largo = p)
         /\ Cardinality(EnEspera(p)) = 0
  BY <1>1, <1>4 DEF Uno
<1>7. Veces(lista_pcbs, p) # 0 =>
         /\ Veces(cola_new, p) = 0 /\ p \notin durmiendo /\ p \notin Terminados
         /\ Cardinality(EnEspera(p)) = 0
  BY <1>1, <1>4 DEF Uno
<1>8. p \in durmiendo =>
         /\ Veces(cola_new, p) = 0 /\ p \notin Terminados
         /\ Cardinality(EnEspera(p)) = 0
  BY <1>1, <1>4 DEF Uno
<1>9. Veces(cola_new, p) # 0 =>
         /\ Veces(cola_new, p) = 1 /\ p \notin Terminados
         /\ Cardinality(EnEspera(p)) = 0
  BY <1>1, <1>4 DEF Uno
<1>10. \/ Veces(cola_new, p) # 0 \/ Veces(lista_pcbs, p) # 0
       \/ p \in Ejecutando \/ p \in durmiendo
       \/ Cardinality(EnEspera(p)) > 0
       \/ largo = "list_add" /\ pcb_largo = p
       \/ p \in Terminados
       => consola[p] # "inicio"
  BY <1>1, <1>4 DEF Uno
<1> QED
  BY <1>1, <1>3, <1>5, <1>6, <1>7, <1>8, <1>9, <1>10

-----------------------------------------------------------------------------
(* The pending instructions.                                               *)

\* At a pending instruction the program has one of the CPU's operations.
LEMMA PendienteTipo ==
    ASSUME TypeOK, NEW p \in Procesos, HayPendiente(p)
    PROVE  /\ program_counter[p] + 1 \in 1..Len(programa[p])
           /\ Pendiente(p) \in Instruccion
<1>1. program_counter[p] \in Nat /\ programa[p] \in Seq(Instruccion)
  BY ProgramasAssumption DEF TypeOK, TipoProcesos
<1>2. Len(programa[p]) \in Nat
  BY <1>1, LenProperties
<1>3. program_counter[p] + 1 \in 1..Len(programa[p])
  BY <1>1, <1>2 DEF HayPendiente
<1> QED
  BY <1>1, <1>3, ElementOfSeq DEF Pendiente

\* Where the program counter of a pcb is the same, so is what is pending.
LEMMA MismaPendiente ==
    ASSUME NEW p, programa' = programa,
           program_counter'[p] = program_counter[p]
    PROVE  /\ HayPendiente(p)' <=> HayPendiente(p)
           /\ Pendiente(p)' = Pendiente(p)
  BY DEF HayPendiente, Pendiente

\* What a step does to the program counters: it advances at most one, of a
\* pcb that does not sleep afterwards and is in no queue of a resource.
LEMMA QuienAvanza ==
    ASSUME Inv2, LugarUnico, OperacionPendiente, Next
    PROVE  /\ programa' = programa
           /\ \/ program_counter' = program_counter
              \/ \E q \in Procesos :
                    /\ program_counter' = [program_counter EXCEPT ![q] = @ + 1]
                    /\ HayPendiente(q)
                    /\ \/ q \in durmiendo
                       \/ q = pcb_en_ejecucion /\ (cpu = "ejecuta" \/ cpu' # cpu)
                    /\ q \notin durmiendo'
                    /\ \A r \in Recursos : q \notin Range(procesos_bloqueados'[r])
<1> TypeOK /\ FichaDeEjecucion /\ PcbUsado
  BY DEF Inv2, Inv1
<1> USE DEF colas, recursos, bloqueadores, hilo_largo, hilo_cpu
<1>1. ASSUME \/ \E r \in Recursos : EjecutaWait(r) \/ EjecutaSignal(r)
             \/ EjecutaSegmento
      PROVE  /\ cpu = "ejecuta" /\ HayPendiente(pcb_en_ejecucion) /\ Avanza
             /\ UNCHANGED <<durmiendo, procesos_bloqueados, programa>>
  BY <1>1, DevuelveConCpu DEF EjecutaWait, EjecutaSignal, EjecutaSegmento,
    DevuelveRecurso, Devuelve, HayPendiente
<1>2. ASSUME CpuTerminaSignal \/ CpuTerminaYield
      PROVE  /\ cpu \in {"signal", "yield"} /\ HayPendiente(pcb_en_ejecucion)
             /\ Avanza /\ cpu' # cpu
             /\ UNCHANGED <<durmiendo, procesos_bloqueados, programa>>
  BY <1>2 DEF CpuTerminaSignal, CpuTerminaYield, OperacionPendiente,
    SignalAMedias, YieldAMedias
<1>3. ASSUME cpu # "proceso_running"
      PROVE  /\ pcb_en_ejecucion \in Procesos
             /\ pcb_en_ejecucion \notin durmiendo
             /\ \A r \in Recursos :
                   pcb_en_ejecucion \notin Range(procesos_bloqueados[r])
  <2>1. pcb_en_ejecucion \in Procesos
    BY <1>3 DEF PcbUsado
  <2>2. pcb_en_ejecucion \in Ejecutando \/ pcb_en_ejecucion \in Range(lista_pcbs)
    BY <1>3, CpuOcupada DEF OperacionPendiente, YieldAMedias
  <2> QED
    BY <2>1, <2>2, UnSoloLugar
<1>4. CASE \/ \E r \in Recursos : EjecutaWait(r) \/ EjecutaSignal(r)
           \/ EjecutaSegmento
  BY <1>1, <1>3, <1>4 DEF Avanza
<1>5. CASE CpuTerminaSignal \/ CpuTerminaYield
  BY <1>2, <1>3, <1>5 DEF Avanza
<1>6. ASSUME NEW q \in Procesos, BloqueadorDespierta(q)
      PROVE  /\ programa' = programa /\ HayPendiente(q)
             /\ q \in durmiendo /\ q \notin durmiendo'
             /\ program_counter' = [program_counter EXCEPT ![q] = @ + 1]
             /\ \A r \in Recursos : q \notin Range(procesos_bloqueados'[r])
  <2>1. q \in durmiendo
    BY <1>6 DEF BloqueadorDespierta
  <2>2. \A r \in Recursos : q \notin Range(procesos_bloqueados[r])
    BY <2>1, UnSoloLugar
  <2>3. HayPendiente(q)
    BY <2>1 DEF OperacionPendiente, DormidosEnIO
  <2> QED
    BY <1>6, <2>1, <2>2, <2>3 DEF BloqueadorDespierta
<1>7. CASE \E q \in Procesos : BloqueadorDespierta(q)
  BY <1>6, <1>7
<1>8. CASE UNCHANGED <<programa, program_counter>>
  BY <1>8
<1> QED
  BY <1>4, <1>5, <1>7, <1>8
  DEF Next, Consola, LargoPlazo, CortoPlazo, ComunicacionCPU, Bloqueador,
      LargoEspera, CortoEspera, EncolarNuevo, AvisarNuevo, LargoEsperaNuevo,
      LargoEsperaGrado, LargoQuitaNuevo, LargoAgrega, LargoAvisaListo,
      LargoBuscaUltimo, LargoRegistra, CortoArranca, CortoReplanifica,
      CortoTope, CortoCantidad, CortoQuita, CortoDespacha, CpuToma, EjecutaIO,
      EjecutaWaitBloquea, EjecutaSignalDespierta, EjecutaYield,
      TerminarProcesoEnEjecucion, BloqueadorTermina

\* Only IO puts a pcb to sleep, and only WAIT queues one for a resource.
LEMMA QuienDuerme ==
    ASSUME Next PROVE durmiendo' \subseteq durmiendo \/ EjecutaIO
<1> USE DEF bloqueadores
<1>1. CASE \E q \in Procesos : BloqueadorDespierta(q)
  BY <1>1 DEF BloqueadorDespierta
<1>2. CASE UNCHANGED durmiendo
  BY <1>2
<1> QED
  BY <1>1, <1>2
  DEF Next, Consola, LargoPlazo, CortoPlazo, ComunicacionCPU, Bloqueador,
      LargoEspera, CortoEspera, EncolarNuevo, AvisarNuevo,
      LargoEsperaNuevo, LargoEsperaGrado, LargoQuitaNuevo, LargoAgrega,
      LargoAvisaListo, LargoBuscaUltimo, LargoRegistra, CortoArranca,
      CortoReplanifica, CortoTope, CortoCantidad, CortoQuita,
      CortoDespacha, CpuToma, EjecutaWait, EjecutaWaitBloquea,
      EjecutaSignal, EjecutaSignalDespierta, CpuTerminaSignal,
      EjecutaYield, CpuTerminaYield, EjecutaSegmento,
      TerminarProcesoEnEjecucion, BloqueadorTermina

\* Only a WAIT that blocks puts a pcb in the queue of a resource.
LEMMA QuienSeEncola ==
    ASSUME TypeOK, Next, NEW r \in Recursos
    PROVE  \/ Range(procesos_bloqueados'[r]) \subseteq
                 Range(procesos_bloqueados[r])
           \/ EjecutaWaitBloquea(r)
<1> USE DEF recursos
<1>1. \A x \in Recursos : procesos_bloqueados[x] \in Seq(Procesos)
  BY DEF TypeOK, TipoRecursos
<1>2. ASSUME NEW x \in Recursos, EjecutaWaitBloquea(x), x # r
      PROVE  procesos_bloqueados'[r] = procesos_bloqueados[r]
  BY <1>2 DEF EjecutaWaitBloquea, TypeOK, TipoRecursos
<1>3. ASSUME NEW x \in Recursos, EjecutaSignalDespierta(x)
      PROVE  Range(procesos_bloqueados'[r]) \subseteq
                Range(procesos_bloqueados[r])
  <2>1. CASE x = r
    <3>1. /\ procesos_bloqueados'[r] = Tail(procesos_bloqueados[r])
          /\ procesos_bloqueados[r] # <<>>
      BY <1>3, <2>1
      DEF EjecutaSignalDespierta, HayEnEspera, Desencola, TypeOK, TipoRecursos
    <3>2. Range(procesos_bloqueados[r]) = Range(Tail(procesos_bloqueados[r]))
              \cup {Head(procesos_bloqueados[r])}
      BY <1>1, <3>1, RangoTail
    <3> QED
      BY <3>1, <3>2
  <2>2. CASE x # r
    BY <1>3, <2>2 DEF EjecutaSignalDespierta, Desencola, TypeOK, TipoRecursos
  <2> QED
    BY <2>1, <2>2
<1>4. CASE UNCHANGED procesos_bloqueados
  BY <1>4
<1> QED
  BY <1>2, <1>3, <1>4
  DEF Next, Consola, LargoPlazo, CortoPlazo, ComunicacionCPU, Bloqueador,
      LargoEspera, CortoEspera, EncolarNuevo, AvisarNuevo,
      LargoEsperaNuevo, LargoEsperaGrado, LargoQuitaNuevo, LargoAgrega,
      LargoAvisaListo, LargoBuscaUltimo, LargoRegistra, CortoArranca,
      CortoReplanifica, CortoTope, CortoCantidad, CortoQuita,
      CortoDespacha, CpuToma, EjecutaIO, EjecutaWait, EjecutaSignal,
      CpuTerminaSignal, EjecutaYield, CpuTerminaYield, EjecutaSegmento,
      TerminarProcesoEnEjecucion, BloqueadorDespierta, BloqueadorTermina

\* Only the short-term planner takes a pcb out of lista_pcbs.
LEMMA CrecenListos ==
    ASSUME Inv2, Next, ~ CortoQuita
    PROVE  Range(lista_pcbs) \subseteq Range(lista_pcbs')
<1> TypeOK /\ FichaDeEjecucion /\ PcbUsado
  BY DEF Inv2, Inv1
<1> USE DEF colas
<1>2. ASSUME NEW p \in Procesos, Agrega(p)
      PROVE  Range(lista_pcbs) \subseteq Range(lista_pcbs')
  BY <1>2, RangoAppend DEF Agrega, TypeOK, TipoColas
<1>3. CASE LargoAgrega
  BY <1>2, <1>3 DEF LargoAgrega, PcbUsado
<1>4. CASE EjecutaYield
  BY <1>2, <1>4, DevuelveConCpu DEF EjecutaYield, PcbUsado
<1>5. ASSUME NEW r \in Recursos, EjecutaSignalDespierta(r)
      PROVE  Range(lista_pcbs) \subseteq Range(lista_pcbs')
  <2>1. Head(procesos_bloqueados[r]) \in Procesos
    BY <1>5, HeadTailProperties
    DEF EjecutaSignalDespierta, HayEnEspera, TypeOK, TipoRecursos
  <2> QED
    BY <1>2, <1>5, <2>1 DEF EjecutaSignalDespierta
<1>6. CASE \E p \in Procesos : BloqueadorDespierta(p)
  BY <1>2, <1>6 DEF BloqueadorDespierta
<1>7. CASE UNCHANGED lista_pcbs
  BY <1>7
<1> QED
  BY <1>3, <1>4, <1>5, <1>6, <1>7
  DEF Next, Consola, LargoPlazo, CortoPlazo, ComunicacionCPU, Bloqueador,
      LargoEspera, CortoEspera, EncolarNuevo, AvisarNuevo,
      LargoEsperaNuevo, LargoEsperaGrado, LargoQuitaNuevo,
      LargoAvisaListo, LargoBuscaUltimo, LargoRegistra, CortoArranca,
      CortoReplanifica, CortoTope, CortoCantidad, CortoDespacha,
      CpuToma, EjecutaIO, EjecutaWait, EjecutaWaitBloquea,
      EjecutaSignal, CpuTerminaSignal, CpuTerminaYield, EjecutaSegmento,
      TerminarProcesoEnEjecucion, BloqueadorTermina

\* The instruction pending in each place is the one that took the pcb there.
LEMMA DormidosInv ==
    ASSUME Inv2, LugarUnico, OperacionPendiente, Next PROVE DormidosEnIO'
<1> TypeOK /\ PcbUsado
  BY DEF Inv2, Inv1
<1>1. ASSUME NEW p \in durmiendo'
      PROVE  HayPendiente(p)' /\ Pendiente(p)'.nombre = "IO"
  <2>1. CASE p \in durmiendo
    <3>1. HayPendiente(p) /\ Pendiente(p).nombre = "IO" /\ p \in Procesos
      BY <2>1 DEF OperacionPendiente, DormidosEnIO, TypeOK, TipoColas
    <3>2. programa' = programa /\ program_counter'[p] = program_counter[p]
      BY <1>1, <3>1, QuienAvanza DEF TypeOK, TipoProcesos
    <3> QED
      BY <3>1, <3>2, MismaPendiente
  <2>2. CASE p \notin durmiendo
    <3>1. EjecutaIO
      BY <1>1, <2>2, QuienDuerme
    <3>2. /\ p = pcb_en_ejecucion /\ Devuelve({"IO"})
          /\ UNCHANGED <<programa, program_counter>>
      BY <1>1, <2>2, <3>1 DEF EjecutaIO
    <3>3. HayPendiente(p) /\ Pendiente(p).nombre = "IO"
      BY <3>2 DEF Devuelve, HayPendiente
    <3> QED
      BY <3>2, <3>3, MismaPendiente
  <2> QED
    BY <2>1, <2>2
<1> QED
  BY <1>1 DEF DormidosEnIO

\* Who is queued is at its WAIT, after any step.
LEMMA EncoladosInv ==
    ASSUME Inv2, LugarUnico, OperacionPendiente, Next PROVE EncoladosEnWait'
<1> TypeOK /\ PcbUsado
  BY DEF Inv2, Inv1
<1>1. ASSUME NEW r \in Recursos, NEW p \in Range(procesos_bloqueados'[r])
      PROVE  /\ HayPendiente(p)'
             /\ Pendiente(p)' = [nombre |-> "WAIT", parametro1 |-> r]
  <2>1. CASE p \in Range(procesos_bloqueados[r])
    <3>1. p \in Procesos
      BY <2>1, RangeOfSeq DEF TypeOK, TipoRecursos
    <3>2. /\ HayPendiente(p)
          /\ Pendiente(p) = [nombre |-> "WAIT", parametro1 |-> r]
      BY <2>1 DEF OperacionPendiente, EncoladosEnWait
    <3>3. programa' = programa /\ program_counter'[p] = program_counter[p]
      BY <1>1, <3>1, QuienAvanza DEF TypeOK, TipoProcesos
    <3> QED
      BY <3>2, <3>3, MismaPendiente
  <2>2. CASE p \notin Range(procesos_bloqueados[r])
    <3>1. EjecutaWaitBloquea(r)
      BY <1>1, <2>2, QuienSeEncola
    <3>2. /\ procesos_bloqueados'[r] =
                Append(procesos_bloqueados[r], pcb_en_ejecucion)
          /\ pcb_en_ejecucion \in Procesos
          /\ procesos_bloqueados[r] \in Seq(Procesos)
      BY <3>1, DevuelveConCpu
      DEF EjecutaWaitBloquea, PcbUsado, TypeOK, TipoRecursos
    <3>3. p = pcb_en_ejecucion
      BY <1>1, <2>2, <3>2, RangoAppend
    <3>4. /\ HayPendiente(p) /\ Pendiente(p).nombre = "WAIT"
          /\ Pendiente(p).parametro1 = r
          /\ UNCHANGED <<programa, program_counter>>
      BY <3>1, <3>3
      DEF EjecutaWaitBloquea, DevuelveRecurso, Devuelve, HayPendiente
    <3>5. Pendiente(p) = [nombre |-> "WAIT", parametro1 |-> r]
      BY <3>2, <3>3, <3>4, PendienteTipo DEF Instruccion
    <3> QED
      BY <3>4, <3>5, MismaPendiente
  <2> QED
    BY <2>1, <2>2
<1> QED
  BY <1>1 DEF EncoladosEnWait

\* The CPU thread is halfway through the SIGNAL or the YIELD it began,
\* after any step.
LEMMA AMediasInv ==
    ASSUME Inv2, LugarUnico, OperacionPendiente, Next
    PROVE  SignalAMedias' /\ YieldAMedias'
<1> TypeOK /\ FichaDeEjecucion /\ PcbUsado
  BY DEF Inv2, Inv1
<1>1. CASE cpu' = cpu /\ cpu \in {"signal", "yield"}
  <2>1. /\ pcb_en_ejecucion' = pcb_en_ejecucion
        /\ pcb_en_ejecucion \in Procesos
    BY <1>1, PcbEstable DEF Inv2, PcbUsado
  <2>2. pcb_en_ejecucion \notin durmiendo
    <3>1. \/ pcb_en_ejecucion \in Ejecutando
          \/ pcb_en_ejecucion \in Range(lista_pcbs)
      BY <1>1, CpuOcupada DEF OperacionPendiente, YieldAMedias
    <3> QED
      BY <2>1, <3>1, UnSoloLugar
  <2>3. /\ programa' = programa
        /\ program_counter'[pcb_en_ejecucion] = program_counter[pcb_en_ejecucion]
    BY <1>1, <2>1, <2>2, QuienAvanza DEF TypeOK, TipoProcesos
  <2>4. /\ HayPendiente(pcb_en_ejecucion)' = HayPendiente(pcb_en_ejecucion)
        /\ Pendiente(pcb_en_ejecucion)' = Pendiente(pcb_en_ejecucion)
    BY <2>1, <2>3 DEF HayPendiente, Pendiente
  <2>5. Range(lista_pcbs) \subseteq Range(lista_pcbs')
    BY <1>1, CrecenListos, CpuOcupada DEF CortoQuita
  <2> QED
    BY <1>1, <2>1, <2>4, <2>5 DEF OperacionPendiente, SignalAMedias, YieldAMedias
<1>2. CASE \E r \in Recursos : EjecutaSignalDespierta(r)
  <2>1. PICK r \in Recursos : EjecutaSignalDespierta(r)
    BY <1>2
  <2>2. /\ HayPendiente(pcb_en_ejecucion) /\ cpu' = "signal"
        /\ Pendiente(pcb_en_ejecucion).nombre = "SIGNAL"
        /\ UNCHANGED <<programa, program_counter, pcb_en_ejecucion>>
    BY <2>1 DEF EjecutaSignalDespierta, DevuelveRecurso, Devuelve, HayPendiente
  <2> QED
    BY <2>2 DEF SignalAMedias, YieldAMedias, HayPendiente, Pendiente
<1>3. CASE EjecutaYield
  <2>1. /\ HayPendiente(pcb_en_ejecucion) /\ cpu' = "yield"
        /\ Pendiente(pcb_en_ejecucion).nombre = "YIELD"
        /\ UNCHANGED <<programa, program_counter, pcb_en_ejecucion>>
    BY <1>3 DEF EjecutaYield, Devuelve, HayPendiente
  <2>2. pcb_en_ejecucion \in Range(lista_pcbs')
    <3>1. pcb_en_ejecucion \in Procesos
      BY <1>3, DevuelveConCpu DEF EjecutaYield, PcbUsado
    <3> QED
      BY <1>3, <3>1, RangoAppend DEF EjecutaYield, Agrega, TypeOK, TipoColas
  <2> QED
    BY <2>1, <2>2 DEF SignalAMedias, YieldAMedias, HayPendiente, Pendiente
<1>4. CASE cpu' \notin {"signal", "yield"}
  BY <1>4 DEF SignalAMedias, YieldAMedias
<1> QED
  BY <1>1, <1>2, <1>3, <1>4
  DEF hilo_cpu, Next, Consola, LargoPlazo, CortoPlazo, ComunicacionCPU, Bloqueador,
      LargoEspera, CortoEspera, EncolarNuevo, AvisarNuevo,
      LargoEsperaNuevo, LargoEsperaGrado, LargoQuitaNuevo, LargoAgrega,
      LargoAvisaListo, LargoBuscaUltimo, LargoRegistra, CortoArranca,
      CortoReplanifica, CortoTope, CortoCantidad, CortoQuita,
      CortoDespacha, CpuToma, EjecutaIO, EjecutaWait,
      EjecutaWaitBloquea, EjecutaSignal, CpuTerminaSignal,
      CpuTerminaYield, EjecutaSegmento, TerminarProcesoEnEjecucion,
      BloqueadorDespierta, BloqueadorTermina

-----------------------------------------------------------------------------
\* Inv3 holds at the start and every step keeps it.
LEMMA InitInv3 == Init => Inv3
<1> SUFFICES ASSUME Init PROVE Inv3
  OBVIOUS
<1>1. OperacionPendiente
  <2>1. \A r \in Recursos : Range(procesos_bloqueados[r]) = {}
    BY DEF Init, Range
  <2> QED
    BY <2>1 DEF Init, OperacionPendiente, DormidosEnIO, EncoladosEnWait,
      SignalAMedias, YieldAMedias
<1> QED
  BY <1>1, InitInv2, InitLugar DEF Inv3

\* Every step keeps the places.
LEMMA Inv3Invariante == Inv3 /\ [Next]_vars => Inv3'
<1> SUFFICES ASSUME Inv3, [Next]_vars PROVE Inv3'
  OBVIOUS
<1>1. Inv2'
  BY Inv2Invariante DEF Inv3
<1>2. CASE Next
  BY <1>1, <1>2, LugarUnicoInv, DormidosInv, EncoladosInv, AMediasInv
  DEF Inv3, OperacionPendiente
<1>3. CASE UNCHANGED vars
  <2> USE <1>3 DEF vars, colas, recursos, bloqueadores, hilo_largo, hilo_cpu
  <2>1. Ejecutando' = Ejecutando
    BY DEF Ejecutando
  <2>2. LugarUnico'
    BY <2>1, MismoLugar DEF Inv3
  <2>3. OperacionPendiente'
    BY DEF Inv3, OperacionPendiente, DormidosEnIO, EncoladosEnWait,
      SignalAMedias, YieldAMedias, HayPendiente, Pendiente
  <2> QED
    BY <1>1, <2>2, <2>3 DEF Inv3
<1> QED
  BY <1>2, <1>3

(* The places and the pending instructions, with Inv2, hold of every state. *)
THEOREM SpecInv3 == Spec => []Inv3
  BY InitInv3, Inv3Invariante, PTL DEF Spec

(* No pcb is lost and none is in two places, for every interleaving of the *)
(* consoles, the planners, the CPU thread and the sleeping threads: each   *)
(* queue_pop, list_remove and list_add of planificador.c and               *)
(* comunicacion_cpu.c moves a pcb and never copies or drops it.            *)
THEOREM CadaPcbUnico == Spec => []CadaPcbEnUnLugar
<1>1. Inv3 => CadaPcbEnUnLugar
  BY DEF Inv3, LugarUnico
<1> QED
  BY <1>1, SpecInv3, PTL

-----------------------------------------------------------------------------
(* The degree of multiprogramming.                                         *)

\* A step that neither admits nor ends a process.
LEMMA GradoIgual ==
    ASSUME GradoExacto, Admitidos' = Admitidos,
           sem'["grado_multiprogramacion_disponible"]
              = sem["grado_multiprogramacion_disponible"],
           (largo' = "cola_new") <=> (largo = "cola_new")
    PROVE  GradoExacto'
<1>1. Uno(largo' = "cola_new") = Uno(largo = "cola_new")
  BY DEF Uno
<1> QED
  BY <1>1 DEF GradoExacto, GradoRespetado

\* The three steps that move the count: the wait on the degree, the pop of
\* cola_new and the end of a process.
LEMMA GradoInv ==
    ASSUME Inv3, GradoExacto, Next PROVE GradoExacto'
<1> TypeOK /\ FichaDeEjecucion /\ PcbUsado /\ LugarUnico /\ Inv2
  BY DEF Inv3, Inv2, Inv1
<1> USE DEF colas, recursos, bloqueadores, hilo_largo, hilo_cpu
<1>a. /\ Cardinality(Admitidos) \in Nat /\ IsFiniteSet(Admitidos)
      /\ sem["grado_multiprogramacion_disponible"] \in Nat
      /\ GRADO_MAX_MULTIPROGRAMACION \in Nat
      /\ sem["grado_multiprogramacion_disponible"] + Cardinality(Admitidos)
            + Uno(largo = "cola_new") = GRADO_MAX_MULTIPROGRAMACION
  BY FS_CardinalityType, GradoAssumption
  DEF GradoExacto, GradoRespetado, TypeOK, TipoSemaforos, Semaforos
<1>1. ASSUME NEW q \in Procesos, EncolarNuevo(q) PROVE GradoExacto'
  <2>1. Range(cola_new') = Range(cola_new) \cup {q}
    BY <1>1, RangoAppend DEF EncolarNuevo, TypeOK, TipoColas
  <2>2. Admitidos' = Admitidos
    BY <1>1, <2>1 DEF EncolarNuevo, Admitidos, Terminados, TypeOK, TipoProcesos
  <2> QED
    BY <1>1, <2>2, GradoIgual DEF EncolarNuevo
<1>2. ASSUME NEW q \in Procesos, AvisarNuevo(q) PROVE GradoExacto'
  <2>1. Admitidos' = Admitidos
    BY <1>2 DEF AvisarNuevo, Admitidos, Terminados, TypeOK, TipoProcesos
  <2> QED
    BY <1>2, <2>1, GradoIgual DEF AvisarNuevo, Post, Semaforos
<1>3. ASSUME LargoEsperaGrado PROVE GradoExacto'
  <2>1. Admitidos' = Admitidos
    BY <1>3 DEF LargoEsperaGrado, LargoEspera, Admitidos, Terminados
  <2>2. /\ sem'["grado_multiprogramacion_disponible"]
             = sem["grado_multiprogramacion_disponible"] - 1
        /\ Uno(largo = "cola_new") = 0 /\ Uno(largo' = "cola_new") = 1
    BY <1>3 DEF LargoEsperaGrado, LargoEspera, Wait, Uno, TypeOK,
      TipoSemaforos, Semaforos
  <2> QED
    BY <1>a, <2>1, <2>2 DEF GradoExacto, GradoRespetado
<1>4. ASSUME LargoQuitaNuevo PROVE GradoExacto'
  <2> DEFINE h == Head(cola_new)
  <2>1. cola_new \in Seq(Procesos) /\ cola_new # <<>> /\ cola_new' = Tail(cola_new)
    BY <1>4 DEF LargoQuitaNuevo, TypeOK, TipoColas
  <2>2. h \in Procesos /\ Range(cola_new) = Range(cola_new') \cup {h}
    BY <2>1, HeadTailProperties, RangoTail
  <2>3. Veces(cola_new, h) = 1 /\ h \notin Terminados /\ consola[h] # "inicio"
    BY <2>2, UnSoloLugar
  <2>4. h \notin Range(cola_new')
    <3>1. Veces(Tail(cola_new), h) = Veces(cola_new, h) - Uno(h = h)
      BY <2>1, VecesTail
    <3>2. Tail(cola_new) \in Seq(Procesos)
      BY <2>1, HeadTailProperties
    <3>3. Veces(Tail(cola_new), h) = 0
      BY <2>3, <3>1 DEF Uno
    <3> QED
      BY <2>1, <3>2, <3>3, VecesTipo
  <2> HIDE DEF h
  <2>5. h \notin Admitidos /\ Admitidos' = Admitidos \cup {h}
    BY <1>4, <2>2, <2>3, <2>4 DEF LargoQuitaNuevo, Admitidos, Terminados
  <2>6. /\ IsFiniteSet(Admitidos')
        /\ Cardinality(Admitidos') = Cardinality(Admitidos) + 1
    BY <1>a, <2>5, FS_AddElement
  <2>7. /\ sem' = sem /\ Uno(largo = "cola_new") = 1
        /\ Uno(largo' = "cola_new") = 0
    BY <1>4 DEF LargoQuitaNuevo, Uno
  <2> QED
    BY <1>a, <2>6, <2>7 DEF GradoExacto, GradoRespetado
<1>5. ASSUME NEW motivo \in Motivos, TerminarProcesoEnEjecucion(motivo)
      PROVE  GradoExacto'
  <2>1. cpu = "ejecuta" /\ pcb_en_ejecucion \in Procesos
    BY <1>5, DevuelveConCpu DEF TerminarProcesoEnEjecucion, PcbUsado
  <2>2. pcb_en_ejecucion \in Ejecutando
    BY <2>1 DEF Ejecutando
  <2>3. pcb_en_ejecucion \in Admitidos
    BY <2>1, <2>2, UnSoloLugar DEF Admitidos
  <2>4. Admitidos' = Admitidos \ {pcb_en_ejecucion}
    <3>1. /\ notificado' = [notificado EXCEPT ![pcb_en_ejecucion] = motivo]
          /\ UNCHANGED <<consola, cola_new>>
      BY <1>5 DEF TerminarProcesoEnEjecucion
    <3>2. Terminados' = Terminados \cup {pcb_en_ejecucion}
      BY <2>1, <3>1, MotivosAssumption DEF Terminados, TypeOK, TipoProcesos
    <3> QED
      BY <3>1, <3>2 DEF Admitidos
  <2>5. /\ IsFiniteSet(Admitidos')
        /\ Cardinality(Admitidos') = Cardinality(Admitidos) - 1
    BY <1>a, <2>3, <2>4, FS_RemoveElement
  <2>6. /\ sem'["grado_multiprogramacion_disponible"]
             = sem["grado_multiprogramacion_disponible"] + 1
        /\ largo' = largo
    BY <1>5 DEF TerminarProcesoEnEjecucion, Post, AlTerminar, Semaforos
  <2>7. Uno(largo' = "cola_new") = Uno(largo = "cola_new")
        /\ Uno(largo = "cola_new") \in Nat
    BY <2>6 DEF Uno
  <2> QED
    BY <1>a, <2>5, <2>6, <2>7 DEF GradoExacto, GradoRespetado
<1>6. CASE /\ UNCHANGED <<consola, cola_new, notificado>>
           /\ sem'["grado_multiprogramacion_disponible"]
                = sem["grado_multiprogramacion_disponible"]
           /\ (largo' = "cola_new") <=> (largo = "cola_new")
  <2>1. Admitidos' = Admitidos
    BY <1>6 DEF Admitidos, Terminados
  <2> QED
    BY <1>6, <2>1, GradoIgual
<1>7. CASE LargoEsperaNuevo \/ LargoAgrega \/ LargoAvisaListo
           \/ LargoBuscaUltimo \/ LargoRegistra
  BY <1>6, <1>7
  DEF LargoEspera, LargoEsperaNuevo, LargoAgrega, LargoAvisaListo,
      LargoBuscaUltimo, LargoRegistra, Wait, Post, AvisaListo, Semaforos,
      TypeOK, TipoSemaforos
<1>8. CASE CortoPlazo
  BY <1>6, <1>8
  DEF CortoPlazo, CortoEspera, CortoArranca, CortoReplanifica, CortoTope,
      CortoCantidad, CortoQuita, CortoDespacha, Wait, Post, Semaforos,
      TypeOK, TipoSemaforos
<1>9. CASE CpuToma \/ CpuTerminaSignal \/ CpuTerminaYield \/ EjecutaYield
           \/ EjecutaIO \/ EjecutaSegmento
  BY <1>6, <1>9
  DEF CpuToma, CpuTerminaSignal, CpuTerminaYield, EjecutaYield, EjecutaIO,
      EjecutaSegmento, Wait, Post, AvisaListo, Replanificar, Semaforos,
      TypeOK, TipoSemaforos
<1>10. CASE \E r \in Recursos : \/ EjecutaWait(r) \/ EjecutaWaitBloquea(r)
                               \/ EjecutaSignal(r) \/ EjecutaSignalDespierta(r)
  BY <1>6, <1>10
  DEF EjecutaWait, EjecutaWaitBloquea, EjecutaSignal, EjecutaSignalDespierta,
      Post, Replanificar, Semaforos
<1>11. CASE Bloqueador
  BY <1>6, <1>11
  DEF Bloqueador, BloqueadorDespierta, BloqueadorTermina, Post, AvisaListo,
      Semaforos
<1> QED
  BY <1>1, <1>2, <1>3, <1>4, <1>5, <1>7, <1>8, <1>9, <1>10, <1>11
  DEF Next, Consola, LargoPlazo, ComunicacionCPU

\* Every step keeps the degree.
LEMMA Inv4Invariante == Inv4 /\ [Next]_vars => Inv4'
<1> SUFFICES ASSUME Inv4, [Next]_vars PROVE Inv4'
  OBVIOUS
<1>1. Inv3'
  BY Inv3Invariante DEF Inv4
<1>2. CASE Next
  BY <1>1, <1>2, GradoInv DEF Inv4
<1>3. CASE UNCHANGED vars
  <2>1. Admitidos' = Admitidos
    BY <1>3 DEF vars, colas, Admitidos, Terminados
  <2> QED
    BY <1>1, <1>3, <2>1, GradoIgual DEF vars, hilo_largo, Inv4
<1> QED
  BY <1>2, <1>3

(* The degree, with Inv3, holds of every state.                            *)
THEOREM SpecInv4 == Spec => []Inv4
<1>1. Init => Inv4
  <2> SUFFICES ASSUME Init PROVE Inv4
    OBVIOUS
  <2>1. Admitidos = {}
    BY DEF Init, Admitidos
  <2>2. IsFiniteSet(Admitidos) /\ Cardinality(Admitidos) = 0
    BY <2>1, FS_EmptySet
  <2>3. /\ sem["grado_multiprogramacion_disponible"]
             = GRADO_MAX_MULTIPROGRAMACION
        /\ Uno(largo = "cola_new") = 0
    BY DEF Init, Semaforos, Uno
  <2> QED
    BY <2>2, <2>3, InitInv3, GradoAssumption DEF Inv4, GradoExacto, GradoRespetado
<1> QED
  BY <1>1, Inv4Invariante, PTL DEF Spec

(* grado_multiprogramacion_disponible is exact: its value and the admitted *)
(* processes that have not ended add up to the configured degree, so it is *)
(* never exceeded and no place is leaked by a process that ends.           *)
THEOREM GradoNuncaExcedido == Spec => []GradoRespetado
<1>1. Inv4 => GradoRespetado
  BY DEF Inv4, GradoExacto
<1> QED
  BY <1>1, SpecInv4, PTL

-----------------------------------------------------------------------------
(* The instances of the resources.                                         *)

\* What advancing one program counter adds to the instructions executed.
LEMMA EjecutadasAvanza ==
    ASSUME TypeOK, NEW q \in Procesos, HayPendiente(q), NEW op, NEW r,
           programa' = programa,
           program_counter' = [program_counter EXCEPT ![q] = @ + 1],
           IsFiniteSet(Ejecutadas(op, r))
    PROVE  /\ IsFiniteSet(Ejecutadas(op, r)')
           /\ Cardinality(Ejecutadas(op, r)') = Cardinality(Ejecutadas(op, r))
                + Uno(Pendiente(q) = [nombre |-> op, parametro1 |-> r])
<1> DEFINE n == program_counter[q] + 1
           i == [nombre |-> op, parametro1 |-> r]
<1>1. /\ program_counter \in [Procesos -> Nat]
      /\ program_counter[q] \in Nat /\ program_counter'[q] = n
      /\ \A p \in Procesos \ {q} : program_counter'[p] = program_counter[p]
  BY DEF TypeOK, TipoProcesos
<1>2. \A p \in Procesos \ {q} : HechasPor(p, op, r)' = HechasPor(p, op, r)
  BY <1>1 DEF HechasPor
<1>3. Pendiente(q) = programa[q][n]
  BY DEF Pendiente
<1>4. n \notin HechasPor(q, op, r)
  BY <1>1 DEF HechasPor
<1>5. <<q, n>> \notin Ejecutadas(op, r)
  BY <1>4 DEF Ejecutadas
<1>6. CASE Pendiente(q) = i
  <2>1. HechasPor(q, op, r)' = HechasPor(q, op, r) \cup {n}
    <3>1. \A k : k \in 1..n <=> k \in 1..program_counter[q] \/ k = n
      BY <1>1
    <3>2. programa[q][n] = i
      BY <1>3, <1>6
    <3> HIDE DEF n, i
    <3>3. \A k : k \in HechasPor(q, op, r)' <=> k \in 1..n /\ programa[q][k] = i
      BY <1>1 DEF HechasPor, i
    <3>4. \A k : k \in HechasPor(q, op, r) <=>
                   k \in 1..program_counter[q] /\ programa[q][k] = i
      BY DEF HechasPor, i
    <3> QED
      BY <3>1, <3>2, <3>3, <3>4
  <2> HIDE DEF n
  <2>2. Ejecutadas(op, r)' = Ejecutadas(op, r) \cup {<<q, n>>}
    BY <1>2, <2>1 DEF Ejecutadas
  <2> QED
    BY <1>5, <1>6, <2>2, FS_AddElement DEF Uno
<1>7. CASE Pendiente(q) # i
  <2>1. HechasPor(q, op, r)' = HechasPor(q, op, r)
    BY <1>1, <1>3, <1>7 DEF HechasPor
  <2>2. Ejecutadas(op, r)' = Ejecutadas(op, r)
    BY <1>2, <2>1 DEF Ejecutadas
  <2>3. Cardinality(Ejecutadas(op, r)) \in Nat
    BY FS_CardinalityType
  <2> QED
    BY <1>7, <2>2, <2>3 DEF Uno
<1> QED
  BY <1>6, <1>7

\* The SIGNAL on r that the CPU thread is halfway through, if any.
SignalEnCurso(r) ==
    Uno(cpu = "signal" /\ Pendiente(pcb_en_ejecucion).parametro1 = r)

\* What the account says of one resource, with the types of its terms.
LEMMA CuentaDe ==
    ASSUME TypeOK, CuentaDeInstancias, NEW r \in Recursos
    PROVE  /\ instancias[r] \in Nat /\ InstanciasRecursos[r] \in Nat
           /\ SignalEnCurso(r) \in 0..1
           /\ \A op \in {"WAIT", "SIGNAL"} :
                 /\ IsFiniteSet(Ejecutadas(op, r))
                 /\ Cardinality(Ejecutadas(op, r)) \in Nat
           /\ instancias[r] + Cardinality(Ejecutadas("WAIT", r)) =
                 InstanciasRecursos[r] + Cardinality(Ejecutadas("SIGNAL", r))
                 + SignalEnCurso(r)
<1>1. \A op \in {"WAIT", "SIGNAL"} : IsFiniteSet(Ejecutadas(op, r))
  BY DEF CuentaDeInstancias
<1>2. \A op \in {"WAIT", "SIGNAL"} : Cardinality(Ejecutadas(op, r)) \in Nat
  BY <1>1, FS_CardinalityType
<1> QED
  BY <1>1, <1>2, RecursosAssumption
  DEF CuentaDeInstancias, RecursosConservados, Total, SignalEnCurso, Uno,
      TypeOK, TipoRecursos

\* The SIGNAL under way stays the same while the CPU thread does.
LEMMA MismoSignal ==
    ASSUME Inv3, Next, cpu' = cpu, NEW r
    PROVE  SignalEnCurso(r)' = SignalEnCurso(r)
<1> TypeOK /\ Inv2 /\ Inv1 /\ FichaDeEjecucion /\ PcbUsado /\ LugarUnico
  BY DEF Inv3, Inv2, Inv1
<1>1. CASE cpu = "signal"
  <2>1. /\ pcb_en_ejecucion' = pcb_en_ejecucion
        /\ pcb_en_ejecucion \in Procesos
    BY <1>1, PcbEstable DEF PcbUsado
  <2>2. pcb_en_ejecucion \notin durmiendo
    BY <1>1, <2>1, CpuOcupada, UnSoloLugar
  <2>3. /\ programa' = programa
        /\ program_counter'[pcb_en_ejecucion] = program_counter[pcb_en_ejecucion]
    BY <1>1, <2>1, <2>2, QuienAvanza DEF Inv3, TypeOK, TipoProcesos
  <2>4. Pendiente(pcb_en_ejecucion)' = Pendiente(pcb_en_ejecucion)
    BY <2>1, <2>3 DEF Pendiente
  <2> QED
    BY <2>4 DEF SignalEnCurso
<1>2. CASE cpu # "signal"
  BY <1>2 DEF SignalEnCurso, Uno
<1> QED
  BY <1>1, <1>2

\* The account moves with the WAITs and the SIGNALs executed, and with nothing
\* else: a program counter passes over another operation, or none moves.
LEMMA CuentaInv ==
    ASSUME Inv3, CuentaDeInstancias, Next PROVE CuentaDeInstancias'
<1> TypeOK /\ Inv2 /\ Inv1 /\ PcbUsado /\ LugarUnico /\ OperacionPendiente
  BY DEF Inv3, Inv2, Inv1
<1> USE DEF colas, recursos, bloqueadores, hilo_largo, hilo_cpu
<1> DEFINE CuentaDeUno(r) ==
             /\ \A op \in {"WAIT", "SIGNAL"} : IsFiniteSet(Ejecutadas(op, r)')
             /\ instancias'[r] + Cardinality(Ejecutadas("WAIT", r)') =
                   InstanciasRecursos[r]
                   + Cardinality(Ejecutadas("SIGNAL", r)') + SignalEnCurso(r)'
<1>1. SUFFICES ASSUME NEW r \in Recursos PROVE CuentaDeUno(r)
  BY DEF CuentaDeInstancias, RecursosConservados, Total, SignalEnCurso
<1>2. ASSUME NEW q \in Procesos, HayPendiente(q), programa' = programa,
             program_counter' = [program_counter EXCEPT ![q] = @ + 1]
      PROVE  \A op \in {"WAIT", "SIGNAL"} :
                /\ IsFiniteSet(Ejecutadas(op, r)')
                /\ Cardinality(Ejecutadas(op, r)') =
                     Cardinality(Ejecutadas(op, r))
                     + Uno(Pendiente(q) = [nombre |-> op, parametro1 |-> r])
  <2> SUFFICES ASSUME NEW op \in {"WAIT", "SIGNAL"}
               PROVE  /\ IsFiniteSet(Ejecutadas(op, r)')
                      /\ Cardinality(Ejecutadas(op, r)') =
                           Cardinality(Ejecutadas(op, r))
                           + Uno(Pendiente(q) = [nombre |-> op, parametro1 |-> r])
    OBVIOUS
  <2>1. IsFiniteSet(Ejecutadas(op, r))
    BY CuentaDe
  <2> QED
    BY <1>2, <2>1, EjecutadasAvanza DEF Uno
<1>3. ASSUME NEW q \in Procesos, HayPendiente(q), NEW op
      PROVE  (Pendiente(q) = [nombre |-> op, parametro1 |-> r]) <=>
                (Pendiente(q).nombre = op /\ Pendiente(q).parametro1 = r)
  BY <1>3, PendienteTipo DEF Instruccion
<1> HIDE DEF CuentaDeUno
<1>4. ASSUME NEW x \in Recursos, EjecutaWait(x) PROVE CuentaDeUno(r)
  <2>1. /\ pcb_en_ejecucion \in Procesos /\ HayPendiente(pcb_en_ejecucion)
        /\ Pendiente(pcb_en_ejecucion).nombre = "WAIT"
        /\ Pendiente(pcb_en_ejecucion).parametro1 = x
        /\ programa' = programa /\ Avanza /\ cpu' = cpu
    BY <1>4, DevuelveConCpu
    DEF EjecutaWait, DevuelveRecurso, Devuelve, HayPendiente, PcbUsado
  <2>2. instancias'[r] = instancias[r] - Uno(x = r)
    BY <1>4, CuentaDe DEF EjecutaWait, Uno, TypeOK, TipoRecursos
  <2>3. SignalEnCurso(r)' = SignalEnCurso(r)
    BY <2>1, MismoSignal
  <2>4. /\ \A op \in {"WAIT", "SIGNAL"} : IsFiniteSet(Ejecutadas(op, r)')
        /\ Cardinality(Ejecutadas("WAIT", r)') =
              Cardinality(Ejecutadas("WAIT", r)) + Uno(x = r)
        /\ Cardinality(Ejecutadas("SIGNAL", r)') =
              Cardinality(Ejecutadas("SIGNAL", r)) + Uno(FALSE)
    BY <1>2, <1>3, <2>1 DEF Avanza, Uno
  <2>5. /\ instancias[r] \in Nat /\ InstanciasRecursos[r] \in Nat
        /\ SignalEnCurso(r) \in 0..1
        /\ Cardinality(Ejecutadas("WAIT", r)) \in Nat
        /\ Cardinality(Ejecutadas("SIGNAL", r)) \in Nat
        /\ instancias[r] + Cardinality(Ejecutadas("WAIT", r)) =
              InstanciasRecursos[r] + Cardinality(Ejecutadas("SIGNAL", r))
              + SignalEnCurso(r)
    BY CuentaDe
  <2>7. instancias'[r] + Cardinality(Ejecutadas("WAIT", r)') =
           InstanciasRecursos[r]
           + Cardinality(Ejecutadas("SIGNAL", r)') + SignalEnCurso(r)'
    BY <2>2, <2>3, <2>4, <2>5 DEF Uno
  <2> QED
    BY <2>4, <2>7 DEF CuentaDeUno
<1>5. ASSUME NEW x \in Recursos, EjecutaSignal(x) PROVE CuentaDeUno(r)
  <2>1. /\ pcb_en_ejecucion \in Procesos /\ HayPendiente(pcb_en_ejecucion)
        /\ Pendiente(pcb_en_ejecucion).nombre = "SIGNAL"
        /\ Pendiente(pcb_en_ejecucion).parametro1 = x
        /\ programa' = programa /\ Avanza /\ cpu' = cpu
    BY <1>5, DevuelveConCpu
    DEF EjecutaSignal, DevuelveRecurso, Devuelve, HayPendiente, PcbUsado
  <2>2. instancias'[r] = instancias[r] + Uno(x = r)
    BY <1>5, CuentaDe DEF EjecutaSignal, SumaInstancia, Uno, TypeOK, TipoRecursos
  <2>3. SignalEnCurso(r)' = SignalEnCurso(r)
    BY <2>1, MismoSignal
  <2>4. /\ \A op \in {"WAIT", "SIGNAL"} : IsFiniteSet(Ejecutadas(op, r)')
        /\ Cardinality(Ejecutadas("SIGNAL", r)') =
              Cardinality(Ejecutadas("SIGNAL", r)) + Uno(x = r)
        /\ Cardinality(Ejecutadas("WAIT", r)') =
              Cardinality(Ejecutadas("WAIT", r)) + Uno(FALSE)
    BY <1>2, <1>3, <2>1 DEF Avanza, Uno
  <2> QED
    BY <2>2, <2>3, <2>4, CuentaDe DEF CuentaDeUno, Uno
<1>6. ASSUME NEW x \in Recursos, EjecutaSignalDespierta(x) PROVE CuentaDeUno(r)
  <2>1. /\ Pendiente(pcb_en_ejecucion).parametro1 = x
        /\ cpu = "ejecuta" /\ cpu' = "signal"
        /\ UNCHANGED <<programa, program_counter, pcb_en_ejecucion>>
    BY <1>6, DevuelveConCpu DEF EjecutaSignalDespierta, DevuelveRecurso
  <2>2. instancias'[r] = instancias[r] + Uno(x = r)
    BY <1>6, CuentaDe
    DEF EjecutaSignalDespierta, SumaInstancia, Uno, TypeOK, TipoRecursos
  <2>3. SignalEnCurso(r) = 0 /\ SignalEnCurso(r)' = Uno(x = r)
    BY <2>1 DEF SignalEnCurso, Pendiente, Uno
  <2>4. \A op : Ejecutadas(op, r)' = Ejecutadas(op, r)
    BY <2>1 DEF Ejecutadas, HechasPor
  <2> QED
    BY <2>2, <2>3, <2>4, CuentaDe DEF CuentaDeUno, Uno
<1>7. ASSUME CpuTerminaSignal PROVE CuentaDeUno(r)
  <2>1. /\ pcb_en_ejecucion \in Procesos /\ HayPendiente(pcb_en_ejecucion)
        /\ Pendiente(pcb_en_ejecucion).nombre = "SIGNAL"
        /\ programa' = programa /\ Avanza
        /\ cpu = "signal" /\ cpu' # "signal" /\ instancias' = instancias
    BY <1>7 DEF CpuTerminaSignal, PcbUsado, OperacionPendiente, SignalAMedias
  <2>2. SignalEnCurso(r) = Uno(Pendiente(pcb_en_ejecucion).parametro1 = r)
        /\ SignalEnCurso(r)' = 0
    BY <2>1 DEF SignalEnCurso, Uno
  <2>3. /\ \A op \in {"WAIT", "SIGNAL"} : IsFiniteSet(Ejecutadas(op, r)')
        /\ Cardinality(Ejecutadas("SIGNAL", r)') =
              Cardinality(Ejecutadas("SIGNAL", r))
              + Uno(Pendiente(pcb_en_ejecucion).parametro1 = r)
        /\ Cardinality(Ejecutadas("WAIT", r)') =
              Cardinality(Ejecutadas("WAIT", r)) + Uno(FALSE)
    BY <1>2, <1>3, <2>1 DEF Avanza, Uno
  <2> QED
    BY <2>1, <2>2, <2>3, CuentaDe DEF CuentaDeUno, Uno
<1>8. ASSUME NEW q \in Procesos, HayPendiente(q), programa' = programa,
             program_counter' = [program_counter EXCEPT ![q] = @ + 1],
             Pendiente(q).nombre \notin {"WAIT", "SIGNAL"},
             SignalEnCurso(r)' = SignalEnCurso(r), instancias' = instancias
      PROVE  CuentaDeUno(r)
  <2>1. \A op \in {"WAIT", "SIGNAL"} :
           /\ IsFiniteSet(Ejecutadas(op, r)')
           /\ Cardinality(Ejecutadas(op, r)') =
                Cardinality(Ejecutadas(op, r)) + Uno(FALSE)
    BY <1>2, <1>3, <1>8 DEF Uno
  <2> QED
    BY <1>8, <2>1, CuentaDe DEF CuentaDeUno, Uno
<1>9. ASSUME EjecutaSegmento PROVE CuentaDeUno(r)
  <2>1. /\ pcb_en_ejecucion \in Procesos /\ HayPendiente(pcb_en_ejecucion)
        /\ Pendiente(pcb_en_ejecucion).nombre \notin {"WAIT", "SIGNAL"}
        /\ programa' = programa /\ Avanza /\ cpu' = cpu
        /\ instancias' = instancias
    BY <1>9, DevuelveConCpu DEF EjecutaSegmento, Devuelve, HayPendiente, PcbUsado
  <2> QED
    BY <1>8, <2>1, MismoSignal DEF Avanza
<1>10. ASSUME CpuTerminaYield PROVE CuentaDeUno(r)
  <2>1. /\ pcb_en_ejecucion \in Procesos /\ HayPendiente(pcb_en_ejecucion)
        /\ Pendiente(pcb_en_ejecucion).nombre = "YIELD"
        /\ programa' = programa /\ Avanza /\ instancias' = instancias
        /\ cpu = "yield" /\ cpu' = "proceso_running"
    BY <1>10 DEF CpuTerminaYield, PcbUsado, OperacionPendiente, YieldAMedias
  <2>2. SignalEnCurso(r)' = SignalEnCurso(r)
    BY <2>1 DEF SignalEnCurso, Uno
  <2> QED
    BY <1>8, <2>1, <2>2 DEF Avanza
<1>11. ASSUME NEW q \in Procesos, BloqueadorDespierta(q) PROVE CuentaDeUno(r)
  <2>1. /\ HayPendiente(q) /\ Pendiente(q).nombre = "IO"
        /\ program_counter' = [program_counter EXCEPT ![q] = @ + 1]
        /\ programa' = programa /\ instancias' = instancias /\ cpu' = cpu
    BY <1>11 DEF BloqueadorDespierta, OperacionPendiente, DormidosEnIO
  <2> QED
    BY <1>8, <2>1, MismoSignal
<1>12. ASSUME UNCHANGED <<programa, program_counter, instancias>>,
              SignalEnCurso(r)' = SignalEnCurso(r)
       PROVE  CuentaDeUno(r)
  <2>1. \A op : Ejecutadas(op, r)' = Ejecutadas(op, r)
    BY <1>12 DEF Ejecutadas, HechasPor
  <2> QED
    BY <1>12, <2>1, CuentaDe DEF CuentaDeUno
<1>13. CASE \/ CpuToma \/ EjecutaIO \/ EjecutaYield
            \/ \E x \in Recursos : EjecutaWaitBloquea(x)
            \/ \E motivo \in Motivos : TerminarProcesoEnEjecucion(motivo)
  <2>1. /\ cpu # "signal" /\ cpu' # "signal"
        /\ UNCHANGED <<programa, program_counter, instancias>>
    BY <1>13, DevuelveConCpu DEF CpuToma, EjecutaIO, EjecutaYield,
      EjecutaWaitBloquea, TerminarProcesoEnEjecucion
  <2>2. SignalEnCurso(r)' = SignalEnCurso(r)
    BY <2>1 DEF SignalEnCurso, Uno
  <2> QED
    BY <1>12, <2>1, <2>2
<1>14. CASE \/ \E p \in Procesos : Consola(p)
            \/ LargoPlazo \/ CortoPlazo
            \/ \E n \in 1..Len(pasando) : BloqueadorTermina(n)
  <2>1. UNCHANGED <<cpu, programa, program_counter, instancias>>
    BY <1>14 DEF Consola, LargoPlazo, CortoPlazo,
      LargoEspera, CortoEspera, EncolarNuevo, AvisarNuevo, LargoEsperaNuevo,
      LargoEsperaGrado, LargoQuitaNuevo, LargoAgrega, LargoAvisaListo,
      LargoBuscaUltimo, LargoRegistra, CortoArranca, CortoReplanifica,
      CortoTope, CortoCantidad, CortoQuita, CortoDespacha, BloqueadorTermina
  <2> QED
    BY <1>12, <2>1, MismoSignal
<1> QED
  BY <1>4, <1>5, <1>6, <1>7, <1>9, <1>10, <1>11, <1>13, <1>14
  DEF Next, ComunicacionCPU, Bloqueador
-----------------------------------------------------------------------------
(* The wake-ups.                                                           *)

\* The processes about to retry a WAIT are few, and are pcbs.
LEMMA ReintentanTipo ==
    ASSUME Inv2, NEW r
    PROVE  /\ Ejecutando \subseteq Procesos
           /\ Reintentan(r) \subseteq Procesos
           /\ IsFiniteSet(Reintentan(r))
           /\ Cardinality(Reintentan(r)) \in Nat
<1> TypeOK /\ PcbUsado /\ PcbElegido
  BY DEF Inv2, Inv1
<1>1. Range(lista_pcbs) \subseteq Procesos /\ IsFiniteSet(Range(lista_pcbs))
  BY RangoFinito DEF TypeOK, TipoColas
<1>2. Ejecutando \subseteq Procesos
  BY DEF PcbUsado, PcbElegido, Ejecutando
<1>3. IsFiniteSet(Ejecutando)
  BY FS_Singleton, FS_EmptySet DEF Ejecutando
<1>4. IsFiniteSet(Range(lista_pcbs) \cup Ejecutando)
  BY <1>1, <1>3, FS_Union
<1>5. Reintentan(r) \subseteq Range(lista_pcbs) \cup Ejecutando
  BY DEF Reintentan
<1>6. IsFiniteSet(Reintentan(r))
  BY <1>4, <1>5, FS_Subset
<1> QED
  BY <1>1, <1>2, <1>5, <1>6, FS_CardinalityType

\* Its program counter passes the WAIT only if the WAIT takes an instance.
LEMMA AvanzaPorWait ==
    ASSUME Inv3, Next, NEW r \in Recursos, NEW p \in Reintentan(r)
    PROVE  \/ /\ programa' = programa
              /\ program_counter'[p] = program_counter[p]
           \/ EjecutaWait(r) /\ p = pcb_en_ejecucion
<1> TypeOK /\ Inv2 /\ Inv1 /\ LugarUnico /\ OperacionPendiente
  BY DEF Inv3, Inv2, Inv1
<1>1. /\ p \in Procesos
      /\ Pendiente(p) = [nombre |-> "WAIT", parametro1 |-> r]
      /\ p \in Range(lista_pcbs) \cup Ejecutando
  BY ReintentanTipo DEF Reintentan
<1>2. p \notin durmiendo
  BY <1>1, UnSoloLugar
<1>3. /\ programa' = programa
      /\ program_counter \in [Procesos -> Nat]
  BY QuienAvanza DEF TypeOK, TipoProcesos
<1>4. ASSUME NEW x \in Recursos, EjecutaWait(x), p = pcb_en_ejecucion
      PROVE  EjecutaWait(r)
  <2>1. x = r
    BY <1>1, <1>4 DEF EjecutaWait, DevuelveRecurso
  <2> QED
    BY <1>4, <2>1
<1>5. ASSUME NEW x \in Recursos, EjecutaWait(x), p # pcb_en_ejecucion
      PROVE  program_counter'[p] = program_counter[p]
  BY <1>1, <1>3, <1>5 DEF EjecutaWait, Avanza
<1>6. ASSUME Pendiente(pcb_en_ejecucion).nombre # "WAIT", Avanza
      PROVE  program_counter'[p] = program_counter[p]
  BY <1>1, <1>3, <1>6 DEF Avanza
<1>7. ASSUME \/ \E x \in Recursos : EjecutaSignal(x)
             \/ EjecutaSegmento
      PROVE  Pendiente(pcb_en_ejecucion).nombre # "WAIT" /\ Avanza
  BY <1>7 DEF EjecutaSignal, EjecutaSegmento, DevuelveRecurso, Devuelve
<1>8. ASSUME CpuTerminaSignal \/ CpuTerminaYield
      PROVE  Pendiente(pcb_en_ejecucion).nombre # "WAIT" /\ Avanza
  BY <1>8 DEF CpuTerminaSignal, CpuTerminaYield, OperacionPendiente,
    SignalAMedias, YieldAMedias
<1>9. ASSUME NEW q \in Procesos, BloqueadorDespierta(q)
      PROVE  program_counter'[p] = program_counter[p]
  BY <1>1, <1>2, <1>3, <1>9 DEF BloqueadorDespierta
<1>10. CASE UNCHANGED program_counter
  BY <1>3, <1>10
<1> QED
  BY <1>3, <1>4, <1>5, <1>6, <1>7, <1>8, <1>9, <1>10
  DEF Next, Consola, LargoPlazo, CortoPlazo, ComunicacionCPU, Bloqueador,
      LargoEspera, CortoEspera, EncolarNuevo, AvisarNuevo, LargoEsperaNuevo,
      LargoEsperaGrado, LargoQuitaNuevo, LargoAgrega, LargoAvisaListo,
      LargoBuscaUltimo, LargoRegistra, CortoArranca, CortoReplanifica,
      CortoTope, CortoCantidad, CortoQuita, CortoDespacha, CpuToma, EjecutaIO,
      EjecutaWaitBloquea, EjecutaSignalDespierta, EjecutaYield,
      TerminarProcesoEnEjecucion, BloqueadorTermina

\* A process about to retry stays ready or running until its WAIT is executed.
LEMMA SigueReintentando ==
    ASSUME Inv3, Next, NEW r \in Recursos, NEW p \in Reintentan(r),
           ~ (EjecutaWait(r) /\ p = pcb_en_ejecucion),
           ~ EjecutaWaitBloquea(r)
    PROVE  p \in Reintentan(r)'
<1> TypeOK /\ Inv2 /\ Inv1 /\ FichaDeEjecucion /\ LugarUnico
  BY DEF Inv3, Inv2, Inv1
<1>1. /\ p \in Procesos /\ HayPendiente(p)
      /\ Pendiente(p) = [nombre |-> "WAIT", parametro1 |-> r]
      /\ p \in Range(lista_pcbs) \/ p \in Ejecutando
  BY ReintentanTipo DEF Reintentan, HayPendiente
<1>2. /\ HayPendiente(p)'
      /\ Pendiente(p)' = [nombre |-> "WAIT", parametro1 |-> r]
  BY <1>1, AvanzaPorWait, MismaPendiente
<1>3. CASE PasoQuieto
  <2>1. p \in Range(lista_pcbs') \/ p \in Ejecutando'
    BY <1>1, <1>3, QuietoIgual, EjecutandoQuieto
  <2> QED
    BY <1>2, <2>1 DEF Reintentan, HayPendiente
<1>4. CASE CortoQuita
  <2>1. PICK i \in 1..Len(lista_pcbs) :
              /\ pcb_en_ejecucion' = lista_pcbs[i]
              /\ lista_pcbs' = RemoveAt(lista_pcbs, i)
    BY <1>4, QuitaElegido
  <2>2. Ejecutando = {} /\ Ejecutando' = {lista_pcbs[i]}
    BY <1>4, <2>1, QuitaElegido
  <2>3. Range(lista_pcbs) = Range(lista_pcbs') \cup {lista_pcbs[i]}
    BY <2>1, RangoQuitar DEF TypeOK, TipoColas
  <2>4. p \in Range(lista_pcbs') \/ p \in Ejecutando'
    BY <1>1, <2>2, <2>3
  <2> QED
    BY <1>2, <2>4 DEF Reintentan, HayPendiente
<1>5. ASSUME PasoQueMueve, ~ CortoQuita, p \in Ejecutando
      PROVE  p \in Ejecutando'
  <2> USE DEF colas, recursos, bloqueadores, hilo_largo, hilo_cpu
  <2>1. CASE \/ \E q \in Procesos : EncolarNuevo(q) \/ BloqueadorDespierta(q)
             \/ LargoQuitaNuevo \/ LargoAgrega
    BY <1>5, <2>1 DEF EncolarNuevo, BloqueadorDespierta, LargoQuitaNuevo,
      LargoAgrega, Ejecutando
  <2>2. cpu = "ejecuta" => Ejecutando = {pcb_en_ejecucion}
    BY CpuOcupada
  <2>3. cpu = "ejecuta" =>
           Pendiente(pcb_en_ejecucion) = [nombre |-> "WAIT", parametro1 |-> r]
    BY <1>1, <1>5, <2>2
  <2>4. ~ EjecutaIO /\ ~ EjecutaYield
        /\ (\A x \in Recursos : ~ EjecutaSignalDespierta(x))
    BY <2>3 DEF EjecutaIO, EjecutaYield, EjecutaSignalDespierta,
      DevuelveRecurso, Devuelve
  <2>5. \A x \in Recursos : ~ EjecutaWaitBloquea(x)
    BY <2>3 DEF EjecutaWaitBloquea, DevuelveRecurso, Devuelve
  <2>6. \A motivo \in Motivos : ~ TerminarProcesoEnEjecucion(motivo)
    BY <2>3 DEF TerminarProcesoEnEjecucion, Devuelve, MotivosDeFin
  <2> QED
    BY <1>5, <2>1, <2>4, <2>5, <2>6 DEF PasoQueMueve
<1>6. CASE PasoQueMueve /\ ~ CortoQuita
  <2>1. p \in Range(lista_pcbs') \/ p \in Ejecutando'
    BY <1>1, <1>5, <1>6, CrecenListos
  <2> QED
    BY <1>2, <2>1 DEF Reintentan, HayPendiente
<1> QED
  BY <1>3, <1>4, <1>6, PasosDeNext

\* A step after which more pcbs retry than before.
LEMMA MasReintentan ==
    ASSUME Inv2, Next, NEW r, NEW S \in SUBSET Reintentan(r)',
           NEW n \in Nat, n <= Cardinality(S)
    PROVE  n <= Cardinality(Reintentan(r)')
<1>1. TypeOK'
  BY Inv1Invariante DEF Inv2, Inv1
<1>2. IsFiniteSet(Range(lista_pcbs'))
  BY <1>1, RangoFinito DEF TypeOK, TipoColas
<1>3. IsFiniteSet(Ejecutando')
  BY FS_Singleton, FS_EmptySet DEF Ejecutando
<1>4. IsFiniteSet(Range(lista_pcbs') \cup Ejecutando')
  BY <1>2, <1>3, FS_Union
<1>5. Reintentan(r)' \subseteq Range(lista_pcbs') \cup Ejecutando'
  BY DEF Reintentan
<1>6. IsFiniteSet(Reintentan(r)')
  BY <1>4, <1>5, FS_Subset
<1>7. /\ Cardinality(S) <= Cardinality(Reintentan(r)')
      /\ Cardinality(S) \in Nat /\ Cardinality(Reintentan(r)') \in Nat
  BY <1>6, FS_Subset, FS_CardinalityType
<1> QED
  BY <1>7

\* Only these steps change what SinDespertarPerdido says of a resource.
LEMMA MismoRecurso ==
    ASSUME TypeOK, Next, NEW r \in Recursos,
           ~ EjecutaWait(r), ~ EjecutaWaitBloquea(r), ~ EjecutaSignal(r),
           ~ EjecutaSignalDespierta(r)
    PROVE  /\ instancias'[r] = instancias[r]
           /\ procesos_bloqueados'[r] = procesos_bloqueados[r]
<1> USE DEF recursos
<1>1. /\ instancias \in [Recursos -> Nat]
      /\ procesos_bloqueados \in [Recursos -> Seq(Procesos)]
  BY DEF TypeOK, TipoRecursos
<1>2. ASSUME NEW x \in Recursos, x # r,
             \/ EjecutaWait(x) \/ EjecutaWaitBloquea(x) \/ EjecutaSignal(x)
             \/ EjecutaSignalDespierta(x)
      PROVE  /\ instancias'[r] = instancias[r]
             /\ procesos_bloqueados'[r] = procesos_bloqueados[r]
  BY <1>1, <1>2 DEF EjecutaWait, EjecutaWaitBloquea, EjecutaSignal,
    EjecutaSignalDespierta, SumaInstancia, Desencola
<1>3. CASE UNCHANGED recursos
  BY <1>3
<1> QED
  BY <1>2, <1>3
  DEF Next, Consola, LargoPlazo, CortoPlazo, ComunicacionCPU, Bloqueador,
      LargoEspera, CortoEspera, EncolarNuevo, AvisarNuevo,
      LargoEsperaNuevo, LargoEsperaGrado, LargoQuitaNuevo, LargoAgrega,
      LargoAvisaListo, LargoBuscaUltimo, LargoRegistra, CortoArranca,
      CortoReplanifica, CortoTope, CortoCantidad, CortoQuita,
      CortoDespacha, CpuToma, EjecutaIO, CpuTerminaSignal, EjecutaYield,
      CpuTerminaYield, EjecutaSegmento, TerminarProcesoEnEjecucion,
      BloqueadorDespierta, BloqueadorTermina

\* A WAIT takes an instance and a retrying process with it; a SIGNAL that gives
\* one back wakes the process that will retry.
LEMMA SinDespertarInv ==
    ASSUME Inv3, SinDespertarPerdido, Next PROVE SinDespertarPerdido'
<1> TypeOK /\ Inv2 /\ Inv1 /\ LugarUnico /\ OperacionPendiente
  BY DEF Inv3, Inv2, Inv1
<1> USE DEF colas, recursos, bloqueadores, hilo_largo, hilo_cpu
<1> SUFFICES ASSUME NEW r \in Recursos, procesos_bloqueados'[r] # <<>>
             PROVE  instancias'[r] <= Cardinality(Reintentan(r)')
  BY DEF SinDespertarPerdido
<1> DEFINE R == Reintentan(r)
<1>1. /\ procesos_bloqueados \in [Recursos -> Seq(Procesos)]
      /\ instancias \in [Recursos -> Nat] /\ instancias[r] \in Nat
      /\ IsFiniteSet(R) /\ Cardinality(R) \in Nat
  BY ReintentanTipo DEF TypeOK, TipoRecursos
<1>2. procesos_bloqueados[r] # <<>> => instancias[r] <= Cardinality(R)
  BY DEF SinDespertarPerdido
<1>3. CASE EjecutaWait(r)
  <2>1. /\ instancias'[r] = instancias[r] - 1 /\ instancias[r] > 0
        /\ procesos_bloqueados'[r] = procesos_bloqueados[r]
    BY <1>1, <1>3 DEF EjecutaWait, HayInstancias
  <2>2. ~ EjecutaWaitBloquea(r)
    BY <1>3 DEF EjecutaWait, EjecutaWaitBloquea
  <2>3. R \ {pcb_en_ejecucion} \subseteq Reintentan(r)'
    BY <2>2, SigueReintentando
  <2>4. Cardinality(R) - 1 <= Cardinality(R \ {pcb_en_ejecucion})
        /\ Cardinality(R \ {pcb_en_ejecucion}) \in Nat
    <3> HIDE DEF R
    <3>1. /\ IsFiniteSet(R \ {pcb_en_ejecucion})
          /\ Cardinality(R \ {pcb_en_ejecucion}) =
               IF pcb_en_ejecucion \in R THEN Cardinality(R) - 1
               ELSE Cardinality(R)
      BY <1>1, FS_RemoveElement
    <3>2. Cardinality(R \ {pcb_en_ejecucion}) \in Nat
      BY <3>1, FS_CardinalityType
    <3> QED
      BY <1>1, <3>1, <3>2
  <2>5. /\ instancias'[r] \in Nat
        /\ instancias'[r] <= Cardinality(R \ {pcb_en_ejecucion})
    <3> HIDE DEF R
    <3> QED
      BY <1>1, <1>2, <2>1, <2>4
  <2> QED
    BY <2>3, <2>5, MasReintentan
<1>4. CASE EjecutaWaitBloquea(r)
  <2>1. instancias'[r] = 0
    BY <1>1, <1>4 DEF EjecutaWaitBloquea, HayInstancias
  <2>2. {} \in SUBSET Reintentan(r)' /\ Cardinality({}) = 0
    BY FS_EmptySet
  <2>3. 0 <= Cardinality(Reintentan(r)')
    BY <2>2, MasReintentan
  <2> QED
    BY <2>1, <2>3
<1>5. CASE EjecutaSignalDespierta(r)
  <2> DEFINE h == Head(procesos_bloqueados[r])
  <2>1. /\ instancias'[r] = instancias[r] + 1
        /\ procesos_bloqueados[r] # <<>>
        /\ lista_pcbs' = Append(lista_pcbs, h)
        /\ programa' = programa /\ program_counter' = program_counter
    BY <1>1, <1>5
    DEF EjecutaSignalDespierta, HayEnEspera, SumaInstancia, Agrega
  <2>2. h \in Procesos /\ h \in Range(procesos_bloqueados[r])
    BY <1>1, <2>1, HeadTailProperties, RangoTail
  <2>3. h \notin R
    BY <2>2, UnSoloLugar DEF Reintentan
  <2>4. h \in Range(lista_pcbs')
    BY <2>1, <2>2, RangoAppend DEF TypeOK, TipoColas
  <2>5. /\ HayPendiente(h)
        /\ Pendiente(h) = [nombre |-> "WAIT", parametro1 |-> r]
    BY <2>2 DEF OperacionPendiente, EncoladosEnWait
  <2>6. h \in Reintentan(r)'
    BY <2>1, <2>4, <2>5 DEF Reintentan, HayPendiente, Pendiente
  <2>7. ~ EjecutaWaitBloquea(r) /\ ~ EjecutaWait(r)
    BY <1>5 DEF EjecutaWait, EjecutaWaitBloquea, EjecutaSignalDespierta,
      DevuelveRecurso, Devuelve
  <2>8. R \cup {h} \subseteq Reintentan(r)'
    BY <2>6, <2>7, SigueReintentando
  <2>9. Cardinality(R \cup {h}) = Cardinality(R) + 1
    BY <1>1, <2>3, FS_AddElement
  <2>10. /\ instancias'[r] \in Nat
         /\ instancias'[r] <= Cardinality(R \cup {h})
    <3> HIDE DEF R, h
    <3> QED
      BY <1>1, <1>2, <2>1, <2>9
  <2> QED
    BY <2>8, <2>10, MasReintentan
<1>6. CASE EjecutaSignal(r)
  BY <1>6 DEF EjecutaSignal, HayEnEspera
<1>7. CASE /\ ~ EjecutaWait(r) /\ ~ EjecutaWaitBloquea(r)
           /\ ~ EjecutaSignal(r) /\ ~ EjecutaSignalDespierta(r)
  <2>1. /\ instancias'[r] = instancias[r]
        /\ procesos_bloqueados'[r] = procesos_bloqueados[r]
    BY <1>7, MismoRecurso
  <2>2. R \subseteq Reintentan(r)'
    BY <1>7, SigueReintentando
  <2> QED
    BY <1>1, <1>2, <2>1, <2>2, MasReintentan
<1> QED
  BY <1>3, <1>4, <1>5, <1>6, <1>7

\* Nobody is queued, and nothing was executed, when the kernel starts.
LEMMA InitInv5 == Init => Inv5
<1> SUFFICES ASSUME Init PROVE Inv5
  OBVIOUS
<1>1. Inv3
  BY InitInv3
<1>2. SinDespertarPerdido
  BY DEF Init, SinDespertarPerdido
<1>3. CuentaDeInstancias
  <2>1. ASSUME NEW op, NEW r PROVE Ejecutadas(op, r) = {}
    BY DEF Init, Ejecutadas, HechasPor
  <2>2. IsFiniteSet({}) /\ Cardinality({}) = 0
    BY FS_EmptySet
  <2>3. cpu # "signal" /\ instancias = InstanciasRecursos
    BY DEF Init
  <2> QED
    BY <2>1, <2>2, <2>3, RecursosAssumption
    DEF CuentaDeInstancias, RecursosConservados, Total, Uno
<1> QED
  BY <1>1, <1>2, <1>3 DEF Inv5

\* Every step keeps the resources.
LEMMA Inv5Invariante == Inv5 /\ [Next]_vars => Inv5'
<1>1. ASSUME Inv5, Next PROVE Inv5'
  BY <1>1, Inv3Invariante, SinDespertarInv, CuentaInv DEF Inv5
<1>2. ASSUME Inv5, UNCHANGED vars PROVE Inv5'
  <2>1. Inv3'
    BY <1>2, Inv3Invariante DEF Inv5
  <2>2. UNCHANGED <<sem, programa, program_counter, lista_pcbs, corto, cpu,
                    pcb_en_ejecucion, instancias, procesos_bloqueados>>
    BY <1>2 DEF vars, colas, recursos, hilo_cpu
  <2>3. \A r : Reintentan(r)' = Reintentan(r)
    BY <2>2 DEF Reintentan, Ejecutando, Pendiente
  <2>4. \A op, r : Ejecutadas(op, r)' = Ejecutadas(op, r)
    BY <2>2 DEF Ejecutadas, HechasPor
  <2>5. SinDespertarPerdido'
    BY <1>2, <2>2, <2>3 DEF Inv5, SinDespertarPerdido
  <2>6. CuentaDeInstancias'
    BY <1>2, <2>2, <2>4
    DEF Inv5, CuentaDeInstancias, RecursosConservados, Total, Pendiente
  <2> QED
    BY <2>1, <2>5, <2>6 DEF Inv5
<1> QED
  BY <1>1, <1>2

\* The strengthened invariant of the resources.
THEOREM SpecInv5 == Spec => []Inv5
  BY InitInv5, Inv5Invariante, PTL DEF Spec

\* No wake-up is lost: while processes are queued for a resource, each free
\* instance of it has a process that will retry its WAIT (what EjecutaSignal
\* and EjecutaSignalDespierta do for it, comunicacion_cpu.c).
THEOREM SiempreDespiertan == Spec => []SinDespertarPerdido
<1>1. Inv5 => SinDespertarPerdido
  BY DEF Inv5
<1> QED
  BY <1>1, SpecInv5, PTL

\* The instances left are those of the configuration, less those the WAITs
\* executed took, plus those the SIGNALs executed gave.
THEOREM InstanciasConservadas == Spec => []RecursosConservados
<1>1. Inv5 => RecursosConservados
  BY DEF Inv5, CuentaDeInstancias
<1> QED
  BY <1>1, SpecInv5, PTL
-----------------------------------------------------------------------------
(* Why the kernel stops.                                                   *)

(* Until the first process was announced in sem_corto_plazo, the CPU was   *)
(* given nothing and, but for the pcb the long-term planner is admitting,  *)
(* no process is ready.                                                    *)
SinArrancar ==
    corto = "sem_corto_plazo" =>
        /\ cpu = "proceso_running" /\ sem["proceso_running"] = 0
        /\ durmiendo = {} /\ pasando = <<>>
        /\ \/ lista_pcbs = <<>>
           \/ sem["sem_corto_plazo"] > 0
           \/ largo \in {"cantidad_procesos", "lista_global", "enlaza"}

Inv6 == Inv5 /\ SinArrancar

\* Before the short-term planner started only the consoles and the long-term
\* planner have run.
LEMMA PasosSinArrancar ==
    ASSUME TypeOK, SinArrancar, Next, corto' = "sem_corto_plazo"
    PROVE  /\ corto = "sem_corto_plazo"
           /\ (\E p \in Procesos : Consola(p)) \/ LargoPlazo
<1>1. corto = "sem_corto_plazo"
  <2>1. CASE CortoPlazo
    BY <2>1 DEF CortoPlazo, CortoArranca, CortoReplanifica, CortoTope,
      CortoCantidad, CortoQuita, CortoDespacha, CortoEspera
  <2>2. CASE corto' = corto
    BY <2>2
  <2> QED
    BY <2>1, <2>2 DEF Next, Consola, LargoPlazo, ComunicacionCPU, Bloqueador,
      LargoEspera, EncolarNuevo, AvisarNuevo, LargoEsperaNuevo,
      LargoEsperaGrado, LargoQuitaNuevo, LargoAgrega, LargoAvisaListo,
      LargoBuscaUltimo, LargoRegistra, CpuToma, EjecutaIO, EjecutaWait,
      EjecutaWaitBloquea, EjecutaSignal, EjecutaSignalDespierta,
      CpuTerminaSignal, EjecutaYield, CpuTerminaYield, EjecutaSegmento,
      TerminarProcesoEnEjecucion, BloqueadorDespierta, BloqueadorTermina
<1>2. /\ cpu = "proceso_running" /\ sem["proceso_running"] = 0
      /\ durmiendo = {} /\ pasando = <<>>
  BY <1>1 DEF SinArrancar
<1>3. ~ CortoPlazo
  BY <1>1 DEF CortoPlazo, CortoArranca, CortoReplanifica, CortoTope,
    CortoCantidad, CortoQuita, CortoDespacha, CortoEspera
<1>4. ~ ComunicacionCPU
  BY <1>2, DevuelveConCpu DEF ComunicacionCPU, CpuToma, Wait, EjecutaIO,
    EjecutaWait, EjecutaWaitBloquea, EjecutaSignal, EjecutaSignalDespierta,
    CpuTerminaSignal, EjecutaYield, CpuTerminaYield, EjecutaSegmento,
    TerminarProcesoEnEjecucion
<1>5. ~ Bloqueador
  BY <1>2, EmptySeq DEF Bloqueador, BloqueadorDespierta, BloqueadorTermina
<1> QED
  BY <1>1, <1>3, <1>4, <1>5 DEF Next

\* The pcb that makes lista_pcbs non-empty is announced before the long-term
\* planner waits again.
LEMMA SinArrancarInv ==
    ASSUME TypeOK, SinArrancar, Next PROVE SinArrancar'
<1> SUFFICES ASSUME corto' = "sem_corto_plazo"
             PROVE  SinArrancar'
  BY DEF SinArrancar
<1>1. corto = "sem_corto_plazo"
  BY PasosSinArrancar
<1>2. SinArrancar /\ sem["sem_corto_plazo"] \in Nat
  BY DEF TypeOK, TipoSemaforos, Semaforos
<1> USE DEF SinArrancar, bloqueadores, colas, hilo_cpu, hilo_largo
<1>3. ASSUME NEW p \in Procesos, Consola(p) PROVE SinArrancar'
  BY <1>1, <1>2, <1>3
  DEF Consola, EncolarNuevo, AvisarNuevo, Post, Semaforos
<1>4. ASSUME LargoEsperaNuevo \/ LargoEsperaGrado PROVE SinArrancar'
  <2>1. /\ largo \in {"proceso_nuevo", "grado_multiprogramacion_disponible"}
        /\ UNCHANGED <<lista_pcbs, bloqueadores, corto, cpu>>
        /\ sem'["proceso_running"] = sem["proceso_running"]
        /\ sem'["sem_corto_plazo"] = sem["sem_corto_plazo"]
    BY <1>4 DEF LargoEsperaNuevo, LargoEsperaGrado, LargoEspera, Wait, TypeOK,
      TipoSemaforos, Semaforos
  <2> QED
    BY <1>1, <1>2, <2>1
<1>5. ASSUME LargoQuitaNuevo \/ LargoAgrega \/ LargoBuscaUltimo
      PROVE  SinArrancar'
  BY <1>1, <1>2, <1>5 DEF LargoQuitaNuevo, LargoAgrega, LargoBuscaUltimo
<1>6. ASSUME LargoAvisaListo \/ LargoRegistra PROVE SinArrancar'
  BY <1>1, <1>2, <1>6
  DEF LargoAvisaListo, LargoRegistra, AvisaListo, Post, Semaforos
<1> QED
  BY <1>3, <1>4, <1>5, <1>6, PasosSinArrancar DEF LargoPlazo

\* Inv6 is inductive.
LEMMA Inv6Invariante == Inv6 /\ [Next]_vars => Inv6'
<1> SUFFICES ASSUME Inv6, [Next]_vars PROVE Inv6'
  OBVIOUS
<1>1. Inv5' /\ TypeOK
  BY Inv5Invariante DEF Inv6, Inv5, Inv3, Inv2, Inv1
<1>2. CASE Next
  BY <1>1, <1>2, SinArrancarInv DEF Inv6
<1>3. CASE UNCHANGED vars
  BY <1>1, <1>3 DEF Inv6, SinArrancar, vars, colas, bloqueadores, hilo_largo,
    hilo_cpu
<1> QED
  BY <1>2, <1>3

\* No thread takes a step there.
LEMMA DetenidoSinPaso ==
    ASSUME Inv1, Detenido PROVE ~ Next
<1>1. /\ \A p \in Procesos : consola[p] = "espera_fin"
      /\ largo \in {"proceso_nuevo", "grado_multiprogramacion_disponible"}
      /\ corto \in {"sem_corto_plazo", "sem_replanificar", "tope_ejecucion",
                    "cantidad_procesos"}
      /\ sem[largo] = 0 /\ sem[corto] = 0
      /\ durmiendo = {} /\ pasando = <<>>
  BY DEF Detenido
<1>2. \A p \in Procesos : ~ Consola(p)
  BY <1>1 DEF Consola, EncolarNuevo, AvisarNuevo
<1>3. ~ LargoPlazo
  BY <1>1 DEF LargoPlazo, LargoEsperaNuevo, LargoEsperaGrado, LargoEspera,
    Wait, LargoQuitaNuevo, LargoAgrega, LargoAvisaListo, LargoBuscaUltimo,
    LargoRegistra
<1>4. ~ CortoPlazo
  BY <1>1 DEF CortoPlazo, CortoArranca, CortoReplanifica, CortoTope,
    CortoCantidad, CortoEspera, Wait, CortoQuita, CortoDespacha
<1>5. \A S : ~ Devuelve(S)
  <2>1. CASE SinRetorno
    <3>1. /\ pcb_en_ejecucion \in Procesos
          /\ program_counter[pcb_en_ejecucion] \in Nat
          /\ programa[pcb_en_ejecucion] \in Seq(Instruccion)
      BY <2>1, ProgramasAssumption
      DEF Inv1, PcbUsado, SinRetorno, TypeOK, TipoProcesos
    <3>2. Len(programa[pcb_en_ejecucion]) \in Nat
      BY <3>1, LenProperties
    <3> QED
      BY <2>1, <3>1, <3>2 DEF SinRetorno, Devuelve
  <2>2. CASE ~ SinRetorno
    BY <2>2 DEF Detenido, Devuelve
  <2> QED
    BY <2>1, <2>2
<1>6. ~ ComunicacionCPU
  <2>1. ~ CpuToma /\ cpu \notin {"signal", "yield"}
    BY DEF Detenido, SinRetorno, CpuToma, Wait
  <2> QED
    BY <1>5, <2>1 DEF ComunicacionCPU, EjecutaIO, EjecutaWait,
      EjecutaWaitBloquea, EjecutaSignal, EjecutaSignalDespierta,
      CpuTerminaSignal, EjecutaYield, CpuTerminaYield, EjecutaSegmento,
      TerminarProcesoEnEjecucion, DevuelveRecurso
<1>7. ~ Bloqueador
  BY <1>1, EmptySeq DEF Bloqueador, BloqueadorDespierta, BloqueadorTermina
<1> QED
  BY <1>2, <1>3, <1>4, <1>6, <1>7 DEF Next

(* Once stopped, the kernel stays so: no thread leaves a state in which    *)
(* DetencionJustificada gives the reason.                                  *)
THEOREM DetenidoEsFinal == Spec => [][~ Detenido]_vars
<1>1. Inv1 /\ [Next]_vars => [~ Detenido]_vars
  BY DetenidoSinPaso
<1> QED
  BY <1>1, SpecInv1, PTL DEF Spec

\* When no thread can take a step the token says that the short-term planner
\* waits for a ready process, and there is none; nobody runs.
LEMMA DetenidoSinListos ==
    ASSUME Inv6, Detenido, ~ SinRetorno
    PROVE  lista_pcbs = <<>> /\ Ejecutando = {}
<1>1. /\ TypeOK /\ FichaDeEjecucion /\ CuentaDeListos /\ SinArrancar
  BY DEF Inv6, Inv5, Inv3, Inv2, Inv1
<1>2. /\ cpu = "proceso_running" /\ sem["proceso_running"] = 0
      /\ pasando = <<>> /\ sem[corto] = 0
      /\ corto \in {"sem_corto_plazo", "sem_replanificar", "tope_ejecucion",
                    "cantidad_procesos"}
      /\ largo \in {"proceso_nuevo", "grado_multiprogramacion_disponible"}
  BY DEF Detenido
<1>3. corto \in {"sem_corto_plazo", "cantidad_procesos"}
  BY <1>1, <1>2 DEF FichaDeEjecucion, Uno
<1>4. corto = "sem_corto_plazo" => lista_pcbs = <<>>
  BY <1>1, <1>2 DEF SinArrancar
<1>5. ASSUME corto = "cantidad_procesos" PROVE lista_pcbs = <<>>
  <2>1. Len(lista_pcbs) = 0
    BY <1>1, <1>2, <1>5, EmptySeq DEF CuentaDeListos, Uno
  <2> QED
    BY <1>1, <2>1, EmptySeq DEF TypeOK, TipoColas
<1>6. Ejecutando = {}
  BY <1>2 DEF Ejecutando
<1> QED
  BY <1>3, <1>4, <1>5, <1>6

\* No NEW process is left unannounced: the long-term planner took it over and
\* waits for a place.
LEMMA DetenidoConNuevos ==
    ASSUME Inv6, Detenido, cola_new # <<>>
    PROVE  sem["grado_multiprogramacion_disponible"] = 0
<1>1. TypeOK /\ CuentaDeNuevos
  BY DEF Inv6, Inv5, Inv3, Inv2, Inv1
<1>2. Encolados = {}
  BY DEF Detenido, Encolados
<1>3. Cardinality(Encolados) = 0
  BY <1>2, FS_EmptySet
<1>4. Len(cola_new) \in Nat /\ Len(cola_new) # 0
  BY <1>1, EmptySeq, LenProperties DEF TypeOK, TipoColas
<1>5. largo # "proceso_nuevo"
  BY <1>1, <1>3, <1>4 DEF Detenido, CuentaDeNuevos, Espera, Uno
<1> QED
  BY <1>5 DEF Detenido

\* No instance is free of a resource that processes are queued for: one that
\* was would have a process about to retry its WAIT, ready or running.
LEMMA DetenidoSinInstancias ==
    ASSUME Inv6, Detenido, ~ SinRetorno, NEW r \in Recursos,
           procesos_bloqueados[r] # <<>>
    PROVE  instancias[r] = 0
<1>1. lista_pcbs = <<>> /\ Ejecutando = {}
  BY DetenidoSinListos
<1>2. Range(<<>>) = {}
  BY DEF Range
<1>3. Reintentan(r) = {}
  BY <1>1, <1>2 DEF Reintentan
<1>4. Cardinality(Reintentan(r)) = 0
  BY <1>3, FS_EmptySet
<1>5. instancias[r] \in Nat /\ instancias[r] <= Cardinality(Reintentan(r))
  BY DEF Inv6, Inv5, Inv3, Inv2, Inv1, TypeOK, TipoRecursos,
    SinDespertarPerdido
<1> QED
  BY <1>4, <1>5

\* Every pcb has a place, and those left are NEW, BLOCKED on a resource, and
\* EXIT.
LEMMA DondeQuedan ==
    ASSUME Inv6, Detenido, ~ SinRetorno, NEW p \in Procesos
    PROVE  \/ p \in Terminados
           \/ \E r \in Recursos : p \in Range(procesos_bloqueados[r])
           \/ p \in Range(cola_new)
<1>1. TypeOK /\ LugarUnico
  BY DEF Inv6, Inv5, Inv3, Inv2, Inv1
<1>2. lista_pcbs = <<>> /\ Ejecutando = {}
  BY DetenidoSinListos
<1>3. consola[p] # "inicio" /\ durmiendo = {} /\ largo # "list_add"
  BY DEF Detenido
<1>4. Range(lista_pcbs) = {}
  BY <1>2 DEF Range
<1>5. /\ Veces(cola_new, p) \in Nat /\ Veces(lista_pcbs, p) = 0
      /\ p \in Range(cola_new) <=> Veces(cola_new, p) # 0
      /\ IsFiniteSet(EnEspera(p)) /\ Cardinality(EnEspera(p)) \in Nat
      /\ \A r \in EnEspera(p) : p \in Range(procesos_bloqueados[r])
      /\ SumaLugares(p) = 1
  BY <1>1, <1>3, <1>4, LugarDe DEF Uno, EnEspera
<1>6. \/ Veces(cola_new, p) # 0 \/ Cardinality(EnEspera(p)) # 0
      \/ p \in Terminados
  BY <1>2, <1>3, <1>5 DEF SumaLugares, Uno
<1>7. Cardinality(EnEspera(p)) # 0 => \E r \in Recursos : r \in EnEspera(p)
  <2>1. EnEspera(p) = {} => Cardinality(EnEspera(p)) = 0
    BY FS_EmptySet
  <2> QED
    BY <2>1 DEF EnEspera
<1> QED
  BY <1>5, <1>6, <1>7

(* The kernel stops only for a reason: when no thread can take a step, the *)
(* running program never returns, or each process finished, waits for an   *)
(* instance that nobody ready or running will use, or waits for a place in *)
(* the degree of multiprogramming.                                         *)
THEOREM DetencionConMotivo == Spec => []DetencionJustificada
<1>1. Init => Inv6
  BY InitInv5 DEF Inv6, SinArrancar, Init, Semaforos
<1>2. ASSUME Inv6 PROVE DetencionJustificada
  <2> SUFFICES ASSUME Detenido, ~ SinRetorno, NEW p \in Procesos
               PROVE  \/ p \in Terminados
                      \/ \E r \in Recursos :
                            /\ p \in Range(procesos_bloqueados[r])
                            /\ instancias[r] = 0
                      \/ /\ p \in Range(cola_new)
                         /\ sem["grado_multiprogramacion_disponible"] = 0
    BY DEF DetencionJustificada
  <2>1. Range(<<>>) = {}
    BY DEF Range
  <2>2. CASE p \in Range(cola_new)
    BY <1>2, <2>1, <2>2, DetenidoConNuevos
  <2>3. ASSUME NEW r \in Recursos, p \in Range(procesos_bloqueados[r])
        PROVE  instancias[r] = 0
    BY <1>2, <2>1, <2>3, DetenidoSinInstancias
  <2> QED
    BY <1>2, <2>2, <2>3, DondeQuedan
<1> QED
  BY <1>1, <1>2, Inv6Invariante, PTL DEF Spec
-----------------------------------------------------------------------------
(***************************************************************************)
(* Planificador implements CicloDeVida: every step of a thread is a step of*)
(* the life cycle or changes nothing the life cycle sees.  The proof goes  *)
(* by the steps of Next, over the places of the pcbs (Inv3) and the degree *)
(* of multiprogramming (Inv4), which is what enables Admite.               *)
(***************************************************************************)
\* What Ciclo puts in the place of nuevos and of bloqueados.
Nuevos == IF largo = "list_add" THEN <<pcb_largo>> \o cola_new ELSE cola_new
Bloqueados ==
    durmiendo \cup UNION {Range(procesos_bloqueados[r]) : r \in Recursos}

-----------------------------------------------------------------------------
(* Lemmas about sequences.                                                 *)

\* An element put before a sequence.
LEMMA Antepuesto ==
    ASSUME NEW S, NEW s \in Seq(S), NEW x \in S
    PROVE  /\ <<x>> \o s \in Seq(S) /\ <<x>> \o s # <<>>
           /\ Head(<<x>> \o s) = x /\ Tail(<<x>> \o s) = s
           /\ Range(<<x>> \o s) = {x} \cup Range(s)
           /\ \A y \in S : Append(<<x>> \o s, y) = <<x>> \o Append(s, y)
<1> DEFINE t == <<x>> \o s
<1>1. <<x>> \in Seq(S) /\ Len(<<x>>) = 1 /\ Len(s) \in Nat
  BY LenProperties
<1>2. /\ t \in Seq(S) /\ Len(t) = 1 + Len(s) /\ t[1] = x
      /\ \A i \in 1..Len(s) : t[i + 1] = s[i]
  <2>1. /\ t \in Seq(S) /\ Len(t) = Len(<<x>>) + Len(s)
        /\ \A i \in 1..Len(<<x>>) + Len(s) :
              t[i] = IF i <= Len(<<x>>) THEN <<x>>[i] ELSE s[i - Len(<<x>>)]
    BY <1>1, ConcatProperties
  <2>2. \A i \in 1..1 + Len(s) : t[i] = IF i <= 1 THEN <<x>>[i] ELSE s[i - 1]
    BY <1>1, <2>1
  <2>3. t[1] = x
    BY <1>1, <2>2
  <2>4. ASSUME NEW i \in 1..Len(s) PROVE t[i + 1] = s[i]
    <3>1. i + 1 \in 1..1 + Len(s) /\ ~ (i + 1 <= 1) /\ (i + 1) - 1 = i
      BY <1>1
    <3> HIDE DEF t
    <3> QED
      BY <2>2, <3>1
  <2> HIDE DEF t
  <2> QED
    BY <1>1, <2>1, <2>3, <2>4
<1> HIDE DEF t
<1>3. t # <<>>
  BY <1>1, <1>2, EmptySeq
<1>4. Head(t) = x
  BY <1>2
<1>5. Tail(t) = s
  <2>1. /\ Tail(t) \in Seq(S) /\ Len(Tail(t)) = Len(s)
        /\ \A i \in 1..Len(s) : Tail(t)[i] = t[i + 1]
    BY <1>1, <1>2, <1>3, HeadTailProperties
  <2> QED
    BY <1>2, <2>1, SeqEqual
<1>6. Range(t) = {x} \cup Range(s)
  BY <1>2, <1>3, <1>4, <1>5, RangoTail
<1>7. ASSUME NEW y \in S PROVE Append(t, y) = <<x>> \o Append(s, y)
  <2>1. Append(t, y) = t \o <<y>> /\ Append(s, y) = s \o <<y>>
    BY <1>2, AppendIsConcat
  <2>2. <<y>> \in Seq(S)
    OBVIOUS
  <2> QED
    BY <1>1, <2>1, <2>2, ConcatAssociative DEF t
<1> QED
  BY <1>2, <1>3, <1>4, <1>5, <1>6, <1>7 DEF t

\* A sequence is its head and then its tail.
LEMMA CabezaYCola ==
    ASSUME NEW S, NEW s \in Seq(S), s # <<>>
    PROVE  <<Head(s)>> \o Tail(s) = s
<1>1. Len(s) \in Nat \ {0}
  BY EmptySeq
<1>2. SubSeq(s, 1, Len(s)) = <<s[1]>> \o SubSeq(s, 1 + 1, Len(s))
  BY <1>1, SubSeqRecursiveFirst
<1>3. SubSeq(s, 1, Len(s)) = s /\ Tail(s) = SubSeq(s, 2, Len(s))
  BY SubSeqFull, TailIsSubSeq
<1>4. 1 + 1 = 2 /\ Head(s) = s[1]
  BY <1>1
<1> QED
  BY <1>2, <1>3, <1>4

\* The operators CicloDeVida takes from the library are those of Planificador.
LEMMA MismosOperadores ==
    /\ \A f : Ciclo!Range(f) = Range(f)
    /\ \A s, i : Ciclo!RemoveAt(s, i) = RemoveAt(s, i)
    /\ \A S : Ciclo!Cardinality(S) = Cardinality(S)
<1>1. \A f : Ciclo!Range(f) = Range(f)
  BY DEF Ciclo!Range, Range
<1>2. \A s, i : Ciclo!RemoveAt(s, i) = RemoveAt(s, i)
  BY DEF Ciclo!RemoveAt, RemoveAt
<1>3. \A S : Ciclo!Cardinality(S) = Cardinality(S)
  BY DEF Ciclo!Cardinality, Cardinality
<1> QED
  BY <1>1, <1>2, <1>3

-----------------------------------------------------------------------------
(* The places, seen from the life cycle.                                   *)

\* The new pcbs are those in cola_new, and the one being admitted.
LEMMA NuevosDe ==
    ASSUME Inv3
    PROVE  /\ Nuevos \in Seq(Procesos)
           /\ \A p \in Procesos :
                 p \in Range(Nuevos) <=> \/ p \in Range(cola_new)
                                         \/ largo = "list_add" /\ pcb_largo = p
<1>1. /\ cola_new \in Seq(Procesos)
      /\ largo = "list_add" => pcb_largo \in Procesos
  BY DEF Inv3, Inv2, Inv1, TypeOK, TipoColas, PcbUsado
<1>2. CASE largo = "list_add"
  <2>1. /\ Nuevos = <<pcb_largo>> \o cola_new
        /\ Nuevos \in Seq(Procesos)
        /\ Range(Nuevos) = {pcb_largo} \cup Range(cola_new)
    BY <1>1, <1>2, Antepuesto DEF Nuevos
  <2> QED
    BY <1>2, <2>1
<1>3. CASE largo # "list_add"
  BY <1>1, <1>3 DEF Nuevos
<1> QED
  BY <1>2, <1>3

\* A pcb waits for one thing.
LEMMA UnaSolaEspera ==
    ASSUME Inv3, NEW p \in Procesos, NEW r \in Recursos,
           p \in Range(procesos_bloqueados[r])
    PROVE  /\ p \notin durmiendo
           /\ Veces(procesos_bloqueados[r], p) = 1
           /\ \A x \in Recursos \ {r} : p \notin Range(procesos_bloqueados[x])
<1> TypeOK /\ LugarUnico
  BY DEF Inv3, Inv2, Inv1
<1>1. r \in EnEspera(p) /\ Veces(procesos_bloqueados[r], p) = 1
  BY LugarDe DEF EnEspera
<1>2. IsFiniteSet(EnEspera(p)) /\ Cardinality(EnEspera(p)) \in Nat
  BY LugarDe
<1>3. Cardinality(EnEspera(p)) = 1
  <2>1. Cardinality(EnEspera(p)) > 0
    BY <1>1, LugarDe
  <2>2. /\ SumaLugares(p) = Uno(consola[p] # "inicio")
        /\ Veces(cola_new, p) \in Nat /\ Veces(lista_pcbs, p) \in Nat
    BY LugarDe
  <2> QED
    BY <1>2, <2>1, <2>2 DEF SumaLugares, Uno
<1>4. EnEspera(p) \ {r} = {}
  <2>1. /\ IsFiniteSet(EnEspera(p) \ {r})
        /\ Cardinality(EnEspera(p) \ {r}) = Cardinality(EnEspera(p)) - 1
    BY <1>1, <1>2, FS_RemoveElement
  <2>2. Cardinality(EnEspera(p) \ {r}) = 0
    BY <1>3, <2>1
  <2> QED
    BY <2>1, <2>2, FS_EmptySet
<1>5. \A x \in Recursos : p \in Range(procesos_bloqueados[x]) => x \in EnEspera(p)
  BY LugarDe
<1>6. p \notin durmiendo
  BY UnSoloLugar
<1> QED
  BY <1>1, <1>4, <1>5, <1>6

\* Who waits for a resource has not ended.
LEMMA EsperaSinTerminar ==
    ASSUME Inv3, NEW p \in Procesos, NEW r \in Recursos,
           p \in Range(procesos_bloqueados[r])
    PROVE  p \notin Terminados
<1> TypeOK /\ LugarUnico
  BY DEF Inv3, Inv2, Inv1
<1>1. Cardinality(EnEspera(p)) \in Nat /\ Cardinality(EnEspera(p)) > 0
  BY LugarDe
<1>2. /\ SumaLugares(p) = Uno(consola[p] # "inicio")
      /\ Veces(cola_new, p) \in Nat /\ Veces(lista_pcbs, p) \in Nat
  BY LugarDe
<1> QED
  BY <1>1, <1>2 DEF SumaLugares, Uno

\* The process the long-term planner holds is nowhere else.
LEMMA PcbLargoSolo ==
    ASSUME Inv3, largo = "list_add"
    PROVE  /\ pcb_largo \in Procesos /\ consola[pcb_largo] # "inicio"
           /\ pcb_largo \notin Range(cola_new)
           /\ pcb_largo \notin Range(lista_pcbs)
           /\ pcb_largo \notin Ejecutando
           /\ pcb_largo \notin durmiendo /\ pcb_largo \notin Terminados
           /\ \A r \in Recursos : pcb_largo \notin Range(procesos_bloqueados[r])
<1> TypeOK /\ LugarUnico
  BY DEF Inv3, Inv2, Inv1
<1> DEFINE p == pcb_largo
<1>1. p \in Procesos
  BY DEF Inv3, Inv2, Inv1, PcbUsado
<1>2. /\ Veces(cola_new, p) \in Nat /\ Veces(lista_pcbs, p) \in Nat
      /\ p \in Range(cola_new) <=> Veces(cola_new, p) # 0
      /\ p \in Range(lista_pcbs) <=> Veces(lista_pcbs, p) # 0
      /\ Cardinality(EnEspera(p)) \in Nat
      /\ SumaLugares(p) = Uno(consola[p] # "inicio")
  BY <1>1, LugarDe
<1>3. /\ Veces(cola_new, p) = 0 /\ Veces(lista_pcbs, p) = 0
      /\ p \notin Ejecutando /\ p \notin durmiendo
      /\ Cardinality(EnEspera(p)) = 0 /\ p \notin Terminados
      /\ consola[p] # "inicio"
  <2> HIDE DEF p
  <2>1. largo = "list_add" /\ pcb_largo = p
    BY DEF p
  <2> QED
    BY <1>2, <2>1 DEF SumaLugares, Uno
<1>4. \A r \in Recursos :
         p \in Range(procesos_bloqueados[r]) => Cardinality(EnEspera(p)) > 0
  BY <1>1, LugarDe
<1> QED
  BY <1>1, <1>2, <1>3, <1>4

\* Every pcb in memory was admitted.
LEMMA EnMemoriaAdmitidos ==
    ASSUME Inv3, NEW p \in Range(lista_pcbs) \cup Ejecutando \cup Bloqueados
    PROVE  p \in Admitidos
<1> TypeOK /\ LugarUnico /\ Inv2
  BY DEF Inv3, Inv2, Inv1
<1>1. p \in Procesos
  <2>1. Range(lista_pcbs) \subseteq Procesos /\ durmiendo \subseteq Procesos
    BY RangoFinito DEF TypeOK, TipoColas
  <2>2. \A r \in Recursos : Range(procesos_bloqueados[r]) \subseteq Procesos
    BY RangoFinito DEF TypeOK, TipoRecursos
  <2>3. Ejecutando \subseteq Procesos
    BY ReintentanTipo
  <2> QED
    BY <2>1, <2>2, <2>3 DEF Bloqueados
<1>2. \/ p \in Range(lista_pcbs) \/ p \in Ejecutando \/ p \in durmiendo
      \/ \E r \in Recursos : p \in Range(procesos_bloqueados[r])
  BY DEF Bloqueados
<1>3. consola[p] # "inicio"
  BY <1>1, <1>2, UnSoloLugar
<1>4. p \notin Range(cola_new)
  BY <1>1, <1>2, UnSoloLugar
<1>5. p \notin Terminados
  BY <1>1, <1>2, EsperaSinTerminar, UnSoloLugar
<1> QED
  BY <1>1, <1>3, <1>4, <1>5 DEF Admitidos

-----------------------------------------------------------------------------
(* The steps of the life cycle.                                            *)

\* A console brings a process that nobody knew.
LEMMA RefinaLlega ==
    ASSUME Inv4, NEW p \in Procesos, EncolarNuevo(p)
    PROVE  Ciclo!Llega(p)
<1> TypeOK /\ LugarUnico /\ Inv3 /\ Inv2
  BY DEF Inv4, Inv3, Inv2, Inv1
<1> USE DEF colas, recursos, bloqueadores, hilo_largo, hilo_cpu
<1>1. consola[p] = "inicio"
  BY DEF EncolarNuevo
<1>2. /\ p \notin Range(cola_new) /\ ~ (largo = "list_add" /\ pcb_largo = p)
      /\ p \notin Range(lista_pcbs) /\ p \notin Ejecutando
      /\ p \notin Bloqueados /\ p \notin Terminados
  BY <1>1, UnSoloLugar DEF Bloqueados
<1>3. p \notin Range(Nuevos)
  BY <1>2, NuevosDe
<1>4. Nuevos' = Append(Nuevos, p)
  <2>1. /\ cola_new \in Seq(Procesos) /\ cola_new' = Append(cola_new, p)
        /\ largo' = largo /\ pcb_largo' = pcb_largo
        /\ largo = "list_add" => pcb_largo \in Procesos
    BY DEF EncolarNuevo, TypeOK, TipoColas, PcbUsado, Inv2, Inv1
  <2>2. CASE largo = "list_add"
    <3>1. Append(<<pcb_largo>> \o cola_new, p)
             = <<pcb_largo>> \o Append(cola_new, p)
      BY <2>1, <2>2, Antepuesto
    <3> QED
      BY <2>1, <2>2, <3>1 DEF Nuevos
  <2>3. CASE largo # "list_add"
    BY <2>1, <2>3 DEF Nuevos
  <2> QED
    BY <2>2, <2>3
<1>5. UNCHANGED <<lista_pcbs, Ejecutando, Bloqueados, Terminados>>
  BY DEF EncolarNuevo, Ejecutando, Bloqueados, Terminados
<1> QED
  BY <1>2, <1>3, <1>4, <1>5, MismosOperadores
  DEF Ciclo!Llega, Ciclo!Conocidos, Ciclo!EnMemoria, Nuevos, Bloqueados

\* The long-term planner adds to lista_pcbs within the degree: the process it
\* holds is one of Admitidos, and those in memory are others.
LEMMA RefinaAdmite ==
    ASSUME Inv4, LargoAgrega PROVE Ciclo!Admite
<1> TypeOK /\ LugarUnico /\ Inv3 /\ Inv2 /\ Inv1 /\ PcbUsado /\ GradoExacto
  BY DEF Inv4, Inv3, Inv2, Inv1
<1> USE DEF colas, recursos, bloqueadores, hilo_largo, hilo_cpu
<1>1. /\ largo = "list_add" /\ largo' = "cantidad_procesos"
      /\ pcb_largo \in Procesos /\ cola_new \in Seq(Procesos)
      /\ cola_new' = cola_new /\ lista_pcbs' = Append(lista_pcbs, pcb_largo)
  BY DEF LargoAgrega, Agrega, PcbUsado, TypeOK, TipoColas
<1>2. /\ Nuevos # <<>> /\ Head(Nuevos) = pcb_largo /\ Nuevos' = Tail(Nuevos)
  BY <1>1, Antepuesto DEF Nuevos
<1>3. UNCHANGED <<Ejecutando, Bloqueados, Terminados>>
  BY DEF LargoAgrega, Ejecutando, Bloqueados, Terminados
<1> DEFINE M == Range(lista_pcbs) \cup Ejecutando \cup Bloqueados
<1>4. Cardinality(M) < GRADO_MAX_MULTIPROGRAMACION
  <2>1. /\ consola[pcb_largo] # "inicio" /\ pcb_largo \notin Range(cola_new)
        /\ pcb_largo \notin Terminados /\ pcb_largo \notin M
    BY <1>1, PcbLargoSolo DEF Bloqueados
  <2>2. pcb_largo \in Admitidos
    BY <1>1, <2>1 DEF Admitidos
  <2>3. M \subseteq Admitidos \ {pcb_largo}
    BY <2>1, EnMemoriaAdmitidos
  <2>4. /\ IsFiniteSet(Admitidos) /\ Cardinality(Admitidos) \in Nat
        /\ IsFiniteSet(Admitidos \ {pcb_largo})
        /\ Cardinality(Admitidos \ {pcb_largo}) = Cardinality(Admitidos) - 1
    BY <2>2, FS_RemoveElement, FS_CardinalityType DEF GradoExacto
  <2>5. Cardinality(M) <= Cardinality(Admitidos \ {pcb_largo})
        /\ Cardinality(M) \in Nat
    BY <2>3, <2>4, FS_Subset, FS_CardinalityType
  <2>6. Cardinality(Admitidos) <= GRADO_MAX_MULTIPROGRAMACION
    BY <2>4, GradoAssumption
    DEF GradoExacto, GradoRespetado, Uno, TypeOK, TipoSemaforos, Semaforos
  <2> HIDE DEF M
  <2> QED
    BY <2>4, <2>5, <2>6, GradoAssumption
<1> QED
  BY <1>1, <1>2, <1>3, <1>4, MismosOperadores
  DEF Ciclo!Admite, Ciclo!HayLugar, Ciclo!EnMemoria, Nuevos, Bloqueados

\* The short-term planner dispatches on an idle CPU, in order if FIFO.
LEMMA RefinaDespacha ==
    ASSUME Inv4, CortoQuita PROVE Ciclo!Despacha
<1> TypeOK /\ Inv2
  BY DEF Inv4, Inv3, Inv2, Inv1
<1> USE DEF colas, recursos, bloqueadores, hilo_largo, hilo_cpu
<1>1. /\ \E i \in 1..Len(lista_pcbs) :
            /\ ALGORITMO_PLANIFICACION = "FIFO" => i = 1
            /\ pcb_en_ejecucion' = lista_pcbs[i]
            /\ lista_pcbs' = RemoveAt(lista_pcbs, i)
      /\ Ejecutando = {} /\ Ejecutando' = {pcb_en_ejecucion'}
  BY QuitaElegido
<1>2. UNCHANGED <<Nuevos, Bloqueados, Terminados>>
  BY DEF CortoQuita, Nuevos, Bloqueados, Terminados
<1> QED
  BY <1>1, <1>2, MismosOperadores
  DEF Ciclo!Despacha, Ciclo!CpuLibre, Nuevos, Bloqueados

\* A step that takes the process of the CPU off it.
LEMMA DejaAlEjecutado ==
    ASSUME Inv4,
           \/ EjecutaIO \/ EjecutaYield
           \/ \E r \in Recursos : EjecutaWaitBloquea(r)
           \/ \E motivo \in Motivos : TerminarProcesoEnEjecucion(motivo)
    PROVE  /\ pcb_en_ejecucion \in Procesos
           /\ Ejecutando = {pcb_en_ejecucion} /\ Ejecutando' = {}
<1> TypeOK /\ FichaDeEjecucion /\ PcbUsado
  BY DEF Inv4, Inv3, Inv2, Inv1
<1>1. cpu = "ejecuta"
  BY DevuelveConCpu DEF EjecutaIO, EjecutaYield, EjecutaWaitBloquea,
    TerminarProcesoEnEjecucion
<1>2. cpu' \in {"proceso_running", "yield"} /\ corto' = corto
  BY DEF EjecutaIO, EjecutaYield, EjecutaWaitBloquea,
    TerminarProcesoEnEjecucion
<1>3. sem'["proceso_running"] = sem["proceso_running"]
  BY DEF EjecutaIO, EjecutaYield, EjecutaWaitBloquea,
    TerminarProcesoEnEjecucion, Post, Replanificar, AlTerminar, Semaforos
<1> QED
  BY <1>1, <1>2, <1>3, DejaLaCpu DEF PcbUsado

\* A YIELD puts the running process last.
LEMMA RefinaCede ==
    ASSUME Inv4, EjecutaYield PROVE Ciclo!Cede
<1> USE DEF colas, recursos, bloqueadores, hilo_largo, hilo_cpu
<1>1. Ejecutando = {pcb_en_ejecucion} /\ Ejecutando' = {}
  BY DejaAlEjecutado
<1>2. lista_pcbs' = Append(lista_pcbs, pcb_en_ejecucion)
  BY DEF EjecutaYield, Agrega
<1>3. UNCHANGED <<Nuevos, Bloqueados, Terminados>>
  BY DEF EjecutaYield, Nuevos, Bloqueados, Terminados
<1> QED
  BY <1>1, <1>2, <1>3 DEF Ciclo!Cede, Nuevos, Bloqueados

\* An IO, or a WAIT with no instance left, blocks it.
LEMMA RefinaBloquea ==
    ASSUME Inv4,
           EjecutaIO \/ \E r \in Recursos : EjecutaWaitBloquea(r)
    PROVE  Ciclo!Bloquea
<1> TypeOK
  BY DEF Inv4, Inv3, Inv2, Inv1
<1> USE DEF colas, recursos, bloqueadores, hilo_largo, hilo_cpu
<1>1. /\ Ejecutando = {pcb_en_ejecucion} /\ Ejecutando' = {}
      /\ pcb_en_ejecucion \in Procesos
  BY DejaAlEjecutado
<1>2. UNCHANGED <<Nuevos, lista_pcbs, Terminados>>
  BY DEF EjecutaIO, EjecutaWaitBloquea, Nuevos, Terminados
<1>3. CASE EjecutaIO
  <2>1. Bloqueados' = Bloqueados \cup {pcb_en_ejecucion}
    BY <1>3 DEF EjecutaIO, Bloqueados
  <2> QED
    BY <1>1, <1>2, <2>1 DEF Ciclo!Bloquea, Nuevos, Bloqueados
<1>4. ASSUME NEW r \in Recursos, EjecutaWaitBloquea(r)
      PROVE  Ciclo!Bloquea
  <2>1. /\ Range(procesos_bloqueados'[r]) =
              Range(procesos_bloqueados[r]) \cup {pcb_en_ejecucion}
        /\ \A x \in Recursos \ {r} :
              procesos_bloqueados'[x] = procesos_bloqueados[x]
        /\ durmiendo' = durmiendo
    <3>1. /\ procesos_bloqueados'[r] =
                Append(procesos_bloqueados[r], pcb_en_ejecucion)
          /\ procesos_bloqueados[r] \in Seq(Procesos)
          /\ \A x \in Recursos \ {r} :
                procesos_bloqueados'[x] = procesos_bloqueados[x]
          /\ durmiendo' = durmiendo
      BY <1>4 DEF EjecutaWaitBloquea, TypeOK, TipoRecursos
    <3> QED
      BY <1>1, <3>1, RangoAppend
  <2>2. \A p : p \in Bloqueados' <=> p \in Bloqueados \/ p = pcb_en_ejecucion
    BY <2>1 DEF Bloqueados
  <2>3. Bloqueados' = Bloqueados \cup {pcb_en_ejecucion}
    BY <2>2
  <2> QED
    BY <1>1, <1>2, <2>3 DEF Ciclo!Bloquea, Nuevos, Bloqueados
<1> QED
  BY <1>3, <1>4

\* The end of an I/O burst makes the process ready.
LEMMA RefinaDespierta ==
    ASSUME Inv4, NEW p \in Procesos, BloqueadorDespierta(p)
    PROVE  Ciclo!Despierta(p)
<1> TypeOK /\ LugarUnico
  BY DEF Inv4, Inv3, Inv2, Inv1
<1> USE DEF colas, recursos, bloqueadores, hilo_largo, hilo_cpu
<1>1. /\ p \in durmiendo /\ durmiendo' = durmiendo \ {p}
      /\ lista_pcbs' = Append(lista_pcbs, p)
      /\ UNCHANGED <<Nuevos, Ejecutando, Terminados, procesos_bloqueados>>
  BY DEF BloqueadorDespierta, Agrega, Nuevos, Ejecutando, Terminados
<1>2. \A r \in Recursos : p \notin Range(procesos_bloqueados[r])
  BY <1>1, UnSoloLugar
<1>3. p \in Bloqueados /\ Bloqueados' = Bloqueados \ {p}
  BY <1>1, <1>2 DEF Bloqueados
<1> QED
  BY <1>1, <1>3 DEF Ciclo!Despierta, Ciclo!Desbloquea, Nuevos, Bloqueados

\* So does a SIGNAL with the first process of the queue, and no other.
LEMMA RefinaSignal ==
    ASSUME Inv4, NEW r \in Recursos, EjecutaSignalDespierta(r)
    PROVE  \E p \in Procesos : Ciclo!Despierta(p)
<1> TypeOK /\ LugarUnico /\ Inv3 /\ FichaDeEjecucion
  BY DEF Inv4, Inv3, Inv2, Inv1
<1> USE DEF colas, recursos, bloqueadores, hilo_largo, hilo_cpu
<1> DEFINE s == procesos_bloqueados[r]
           h == Head(s)
<1>1. /\ s \in Seq(Procesos) /\ s # <<>>
      /\ procesos_bloqueados'[r] = Tail(s)
      /\ \A x \in Recursos \ {r} :
            procesos_bloqueados'[x] = procesos_bloqueados[x]
      /\ durmiendo' = durmiendo /\ lista_pcbs' = Append(lista_pcbs, h)
      /\ UNCHANGED <<Nuevos, Terminados>>
  BY DEF EjecutaSignalDespierta, HayEnEspera, Desencola, Agrega, TypeOK,
    TipoRecursos, Nuevos, Terminados
<1>2. Ejecutando' = Ejecutando
  BY DevuelveConCpu DEF EjecutaSignalDespierta, Ejecutando
<1>3. h \in Procesos /\ Range(s) = Range(Tail(s)) \cup {h}
  BY <1>1, HeadTailProperties, RangoTail
<1>4. /\ h \notin durmiendo /\ Veces(s, h) = 1
      /\ \A x \in Recursos \ {r} : h \notin Range(procesos_bloqueados[x])
  BY <1>3, UnaSolaEspera
<1>5. h \notin Range(Tail(s))
  <2>1. Tail(s) \in Seq(Procesos) /\ Veces(Tail(s), h) = Veces(s, h) - Uno(h = h)
    BY <1>1, VecesTail, HeadTailProperties
  <2>2. Veces(Tail(s), h) = 0
    BY <1>4, <2>1 DEF Uno
  <2> QED
    BY <2>1, <2>2, VecesTipo
<1>6. h \in Bloqueados
  BY <1>3 DEF Bloqueados
<1>7. \A p : p \in Bloqueados' <=> p \in Bloqueados /\ p # h
  <2> HIDE DEF h
  <2>1. Range(procesos_bloqueados'[r]) = Range(procesos_bloqueados[r]) \ {h}
    BY <1>1, <1>3, <1>5
  <2> QED
    BY <1>1, <1>4, <2>1 DEF Bloqueados
<1>8. Bloqueados' = Bloqueados \ {h}
  BY <1>7
<1>9. Ciclo!Despierta(h)
  BY <1>1, <1>2, <1>6, <1>8
  DEF Ciclo!Despierta, Ciclo!Desbloquea, Nuevos, Bloqueados
<1> QED
  BY <1>3, <1>9

\* The process the kernel ends is the one of the CPU.
LEMMA RefinaTermina ==
    ASSUME Inv4, NEW motivo \in Motivos, TerminarProcesoEnEjecucion(motivo)
    PROVE  Ciclo!Termina
<1> TypeOK
  BY DEF Inv4, Inv3, Inv2, Inv1
<1> USE DEF colas, recursos, bloqueadores, hilo_largo, hilo_cpu
<1>1. /\ Ejecutando = {pcb_en_ejecucion} /\ Ejecutando' = {}
      /\ pcb_en_ejecucion \in Procesos
  BY DejaAlEjecutado
<1>2. UNCHANGED <<Nuevos, lista_pcbs, Bloqueados>>
  BY DEF TerminarProcesoEnEjecucion, Nuevos, Bloqueados
<1>3. Terminados' = Terminados \cup {pcb_en_ejecucion}
  BY <1>1, MotivosAssumption
  DEF TerminarProcesoEnEjecucion, Terminados, TypeOK, TipoProcesos
<1> QED
  BY <1>1, <1>2, <1>3 DEF Ciclo!Termina, Nuevos, Bloqueados

\* The rest changes nothing the life cycle sees; the long-term planner pops
\* the process that is still the first of nuevos.
LEMMA RefinaQuieto ==
    ASSUME Inv4, PasoQuieto \/ LargoQuitaNuevo
    PROVE  UNCHANGED Ciclo!vars
<1> TypeOK /\ Inv2
  BY DEF Inv4, Inv3, Inv2, Inv1
<1> USE DEF colas, recursos, bloqueadores, hilo_largo, hilo_cpu
<1>1. CASE PasoQuieto
  <2>1. /\ UNCHANGED <<cola_new, lista_pcbs, durmiendo, procesos_bloqueados,
                       notificado, Ejecutando>>
        /\ (largo' = "list_add") <=> (largo = "list_add")
        /\ largo = "list_add" => pcb_largo' = pcb_largo
    BY <1>1, QuietoIgual, EjecutandoQuieto
  <2>2. UNCHANGED <<Nuevos, Bloqueados, Terminados>>
    BY <2>1 DEF Nuevos, Bloqueados, Terminados
  <2> QED
    BY <2>1, <2>2 DEF Ciclo!vars, Nuevos, Bloqueados
<1>2. CASE LargoQuitaNuevo
  <2>1. /\ largo = "cola_new" /\ largo' = "list_add"
        /\ cola_new # <<>> /\ cola_new \in Seq(Procesos)
        /\ pcb_largo' = Head(cola_new) /\ cola_new' = Tail(cola_new)
    BY <1>2 DEF LargoQuitaNuevo, TypeOK, TipoColas
  <2>2. Nuevos' = Nuevos
    BY <2>1, CabezaYCola DEF Nuevos
  <2>3. UNCHANGED <<lista_pcbs, Ejecutando, Bloqueados, Terminados>>
    BY <1>2 DEF LargoQuitaNuevo, Ejecutando, Bloqueados, Terminados
  <2> QED
    BY <2>2, <2>3 DEF Ciclo!vars, Nuevos, Bloqueados
<1> QED
  BY <1>1, <1>2

-----------------------------------------------------------------------------
\* Nothing has arrived in either.
LEMMA RefinaInit == Init => Ciclo!Init
<1> SUFFICES ASSUME Init PROVE Ciclo!Init
  OBVIOUS
<1>1. cola_new = <<>> /\ lista_pcbs = <<>> /\ largo # "list_add"
  BY DEF Init
<1>2. Ejecutando = {} /\ Terminados = {}
  BY DEF Init, Ejecutando, Terminados, Semaforos
<1>3. Bloqueados = {}
  <2>1. Range(<<>>) = {}
    BY DEF Range
  <2>2. durmiendo = {} /\ \A r \in Recursos : procesos_bloqueados[r] = <<>>
    BY DEF Init
  <2> QED
    BY <2>1, <2>2 DEF Bloqueados
<1> QED
  BY <1>1, <1>2, <1>3 DEF Ciclo!Init, Bloqueados

\* Every step of Planificador is one of CicloDeVida or a stutter.
LEMMA RefinaNext == Inv4 /\ [Next]_vars => [Ciclo!Next]_(Ciclo!vars)
<1>1. ASSUME Inv4, PasoQueMueve PROVE Ciclo!Next \/ UNCHANGED Ciclo!vars
  BY <1>1, RefinaLlega, RefinaAdmite, RefinaDespacha, RefinaCede,
    RefinaBloquea, RefinaDespierta, RefinaSignal, RefinaTermina, RefinaQuieto
  DEF PasoQueMueve, Ciclo!Next
<1>2. ASSUME Inv4, PasoQuieto PROVE UNCHANGED Ciclo!vars
  BY <1>2, RefinaQuieto
<1>3. ASSUME UNCHANGED vars PROVE UNCHANGED Ciclo!vars
  <2>1. UNCHANGED <<sem, cola_new, lista_pcbs, pcb_en_ejecucion,
                    procesos_bloqueados, durmiendo, notificado, largo,
                    pcb_largo, corto, cpu>>
    BY <1>3 DEF vars, colas, recursos, bloqueadores, hilo_largo, hilo_cpu
  <2>2. UNCHANGED <<Nuevos, Ejecutando, Bloqueados, Terminados>>
    BY <2>1 DEF Nuevos, Ejecutando, Bloqueados, Terminados
  <2> QED
    BY <2>1, <2>2 DEF Ciclo!vars, Nuevos, Bloqueados
<1> QED
  BY <1>1, <1>2, <1>3, PasosDeNext

(* Seen through where each pcb is, the threads of the kernel follow the    *)
(* life cycle: every process is admitted in its order and within the       *)
(* degree, one process runs at a time, FIFO dispatches in order, and a     *)
(* pcb changes state only along the five-state diagram.                    *)
THEOREM CicloImplementado == Spec => ImplementaCicloDeVida
  BY RefinaInit, RefinaNext, SpecInv4, PTL
  DEF Spec, ImplementaCicloDeVida, Ciclo!Spec
=============================================================================
