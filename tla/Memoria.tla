------------------------------- MODULE Memoria -------------------------------
(***************************************************************************)
(* The memory module: the segments of all processes, the list of holes it  *)
(* keeps beside them, and the requests of the kernel, one at a time:       *)
(* create and end a process, create and delete a segment, compact.         *)
(*                                                                         *)
(* Both lists are sets here: the code sorts each by base where the order   *)
(* matters.  The table of a process holds pointers into the global list of *)
(* segments, so it is a view of that list.  Compaction moves one segment   *)
(* per step, as its loop does.                                             *)
(***************************************************************************)
EXTENDS Integers, FiniteSets, FiniteSetsExt

CONSTANTS
    Pids,                   \* the processes the kernel may create
    Ids,                    \* segment ids a process may ask for
    Tamanios,               \* sizes a process may ask for
    INT_MAX,                \* the largest int, 2^31 - 1 in the code
    TAM_MEMORIA,
    TAM_SEGMENTO_0,
    CANT_SEGMENTOS,
    Algoritmos,             \* values of ALGORITMO_ASIGNACION to consider
    Compartido              \* the pid of segment 0, -1 in the code

ASSUME TamaniosAssumption ==
    /\ TAM_MEMORIA \in Nat /\ TAM_SEGMENTO_0 \in Nat
    /\ 0 < TAM_SEGMENTO_0 /\ TAM_SEGMENTO_0 <= TAM_MEMORIA
    /\ INT_MAX \in Nat /\ TAM_MEMORIA <= INT_MAX
    \* What a request carries: a uint32_t.
    /\ Tamanios \subseteq 1..2 * INT_MAX + 1
\* Best fit starts from this size and would find no hole above it.
ASSUME BestAssumption == TAM_MEMORIA < 10000000
ASSUME IdsAssumption ==
    /\ Compartido \notin Pids /\ Compartido \in Int /\ Pids \subseteq Int
    /\ Ids \subseteq Nat
\* A table has room for segment 0 at least.
ASSUME TablaAssumption == CANT_SEGMENTOS \in Nat \ {0}
ASSUME AlgoritmoAssumption == Algoritmos \subseteq {"FIRST", "BEST", "WORST"}

VARIABLES
    algoritmo,    \* ALGORITMO_ASIGNACION of the configuration
    procesos,     \* tablaProcesosGlobal
    segmentos,    \* listaSegmentosGlobal
    huecos,       \* huecosVacios
    fase,         \* "atiende", "espera_kernel" or "compacta"
    pendientes,   \* segments the compaction has not visited
    frontera      \* where the compacted segments end: baseIdeal

vars == <<algoritmo, procesos, segmentos, huecos, fase, pendientes, frontera>>
compactacion == <<pendientes, frontera>>

Segmento == [pid : Pids \cup {Compartido}, idSegmento : Ids \cup {0},
             base : Nat, tamanio : Nat]
Hueco == [base : Nat, tamanio : Nat]
Fin(x) == x.base + x.tamanio

\* The holes between the segments of S: from 0 or the end of a segment to the
\* base of another or the end of the memory, with no segment between.
HuecosEntre(S) ==
    {h \in [base : {0} \cup {Fin(s) : s \in S}, tamanio : 1..TAM_MEMORIA] :
        /\ Fin(h) \in {TAM_MEMORIA} \cup {s.base : s \in S}
        /\ \A s \in S : Fin(s) <= h.base \/ Fin(h) <= s.base}

SegmentoCero == [pid |-> Compartido, idSegmento |-> 0, base |-> 0,
                 tamanio |-> TAM_SEGMENTO_0]

\* inicializarMemoria and crearSegmentoCero.
Init ==
    /\ algoritmo \in Algoritmos
    /\ procesos = {}
    /\ segmentos = {SegmentoCero}
    /\ huecos = HuecosEntre({SegmentoCero})
    /\ fase = "atiende"
    /\ pendientes = {}
    /\ frontera = 0

-----------------------------------------------------------------------------
(* Processes.                                                              *)

CrearProceso(p) ==
    /\ fase = "atiende"
    /\ p \notin procesos
    /\ procesos' = procesos \cup {p}
    /\ UNCHANGED <<segmentos, huecos, fase, compactacion>>

\* (mutant) the holes are not recomputed.
ActualizarHuecos_Nunca(S) == UNCHANGED huecos
\* actualizarHuecosVacios
ActualizarHuecos(S) == huecos' = HuecosEntre(S)

EliminarProceso(p) ==
    /\ fase = "atiende"
    /\ p \in procesos
    /\ procesos' = procesos \ {p}
    /\ segmentos' = {s \in segmentos : s.pid # p}
    /\ ActualizarHuecos(segmentos')
    /\ UNCHANGED <<fase, compactacion>>

-----------------------------------------------------------------------------
(* Segments.  Segment 0 is in the table of every process.                  *)

Tabla(p) == {s \in segmentos : s.pid \in {p, Compartido}}

EspacioLibre == MapThenSumSet(LAMBDA h : h.tamanio, huecos)
Entran(t) == {h \in huecos : h.tamanio >= t}

\* The size of a request, a uint32_t, passed as int tamanio.
ComoInt(t) == IF t <= INT_MAX THEN t ELSE t - 2 * (INT_MAX + 1)

\* (mutant) a free space in several holes is not counted.
HayEspacioPeroNoContiguo_Nunca(t) == FALSE
\* Two ints: a size above INT_MAX is negative and always fits.  The sizes of
\* the holes are unsigned, so in Entran the size asked for is unsigned too.
HayEspacioPeroNoContiguo(t) == EspacioLibre >= ComoInt(t)

TablaLlena(p) == Cardinality(Tabla(p)) >= CANT_SEGMENTOS

\* puedoCrearSegmento
PuedoCrearSegmento(p, id, t) ==
    IF TablaLlena(p) THEN "LIMITE_TABLA_SEGMENTOS"
    ELSE IF \E s \in Tabla(p) : s.idSegmento = id THEN "ID_YA_CREADA"
    ELSE IF Entran(t) # {} THEN "OK"
    ELSE IF HayEspacioPeroNoContiguo(t) THEN "NECESITA_COMPACTACION"
    ELSE "OUT_OF_MEMORY"

\* (mutant) first fit takes the first hole, whatever its size.
Elegibles_SinMirarTamanio(t) ==
    {h \in huecos : \A k \in huecos : h.base <= k.base}
\* The holes asignarSegmentoFirst, Best and Worst may choose.  Among equal
\* sizes the choice depends on the order of a list this model forgets.
Elegibles(t) ==
    {h \in Entran(t) :
        CASE algoritmo = "FIRST" ->
                 \A k \in Entran(t) : h.base <= k.base
          [] algoritmo = "BEST" ->
                 \A k \in Entran(t) : h.tamanio <= k.tamanio
          [] OTHER -> \A k \in huecos : h.tamanio >= k.tamanio}

\* What is left of hole h once a segment of size t is placed at its base.
Resto(h, t) ==
    IF h.tamanio > t THEN {[base |-> h.base + t, tamanio |-> h.tamanio - t]}
    ELSE {}

CrearSegmento(p, id, t) ==
    /\ PuedoCrearSegmento(p, id, t) = "OK"
    /\ \E h \in Elegibles(t) :
          /\ segmentos' = segmentos \cup
                {[pid |-> p, idSegmento |-> id, base |-> h.base,
                  tamanio |-> t]}
          /\ huecos' = (huecos \ {h}) \cup Resto(h, t)
    /\ UNCHANGED fase

\* Every other reply changes nothing, except that the request for the
\* kernel's leave to compact waits for its answer.
NoCrearSegmento(p, id, t) ==
    /\ IF PuedoCrearSegmento(p, id, t) = "NECESITA_COMPACTACION"
       THEN fase' = "espera_kernel" ELSE UNCHANGED fase
    /\ UNCHANGED <<segmentos, huecos>>

PedidoCrearSegmento(p, id, t) ==
    /\ fase = "atiende"
    /\ p \in procesos
    /\ \/ CrearSegmento(p, id, t)
       \/ PuedoCrearSegmento(p, id, t) # "OK" /\ NoCrearSegmento(p, id, t)
    /\ UNCHANGED <<procesos, compactacion>>

\* eliminarSegmento looks the segment up by id and pid, so that a process
\* never removes segment 0; an unknown id changes nothing.
EliminarSegmento(p, id) ==
    /\ fase = "atiende"
    /\ p \in procesos
    /\ \E s \in segmentos :
          /\ s.pid = p /\ s.idSegmento = id
          /\ segmentos' = segmentos \ {s}
    /\ ActualizarHuecos(segmentos')
    /\ UNCHANGED <<procesos, fase, compactacion>>

-----------------------------------------------------------------------------
(* Compaction: the kernel answers COMPACTAR, and the loop visits the       *)
(* segments by base, moving each to the end of the one before it.          *)

\* (mutant) the segments are visited in any order.
Siguientes_SinOrdenar == pendientes
Siguientes == {s \in pendientes : \A r \in pendientes : s.base <= r.base}

RecibirCompactar ==
    /\ fase = "espera_kernel"
    /\ fase' = "compacta"
    /\ \E s \in segmentos :
          /\ \A r \in segmentos : s.base <= r.base
          /\ frontera' = Fin(s)
          /\ pendientes' = segmentos \ {s}
    /\ UNCHANGED <<procesos, segmentos, huecos>>

CompactarUno ==
    /\ fase = "compacta"
    /\ \E s \in Siguientes :
          /\ segmentos' = (segmentos \ {s}) \cup
                          {[s EXCEPT !.base = frontera]}
          /\ pendientes' = pendientes \ {s}
          /\ frontera' = frontera + s.tamanio
    /\ UNCHANGED <<procesos, huecos, fase>>

\* (mutant) the size is the end of the segments less the memory.
GranHueco_AlReves ==
    {[base |-> frontera, tamanio |-> frontera - TAM_MEMORIA]}
\* One hole is left, of size 0 when the memory is full.
GranHueco == {[base |-> frontera, tamanio |-> TAM_MEMORIA - frontera]}

TerminarCompactacion ==
    /\ fase = "compacta"
    /\ pendientes = {}
    /\ huecos' = GranHueco
    /\ fase' = "atiende"
    /\ frontera' = 0
    /\ UNCHANGED <<procesos, segmentos, pendientes>>

-----------------------------------------------------------------------------
\* One request of the kernel, or one step of the compaction.
Atiende ==
    \/ \E p \in Pids :
          \/ CrearProceso(p)
          \/ EliminarProceso(p)
          \/ \E id \in Ids :
                \/ \E t \in Tamanios : PedidoCrearSegmento(p, id, t)
                \/ EliminarSegmento(p, id)
    \/ RecibirCompactar
    \/ CompactarUno
    \/ TerminarCompactacion

\* The configuration does not change while the memory runs.
Next == Atiende /\ UNCHANGED algoritmo

Spec == Init /\ [][Next]_vars

-----------------------------------------------------------------------------
(* The type of every variable.                                             *)
TypeOK ==
    /\ algoritmo \in Algoritmos
    /\ procesos \in SUBSET Pids
    /\ segmentos \in SUBSET Segmento
    /\ huecos \in SUBSET Hueco
    /\ fase \in {"atiende", "espera_kernel", "compacta"}
    /\ pendientes \in SUBSET segmentos
    /\ frontera \in Nat

(* No two segments share an address, at any step of a compaction either,   *)
(* and none leaves the memory.                                             *)
SegmentosDisjuntos ==
    /\ \A s \in segmentos : Fin(s) <= TAM_MEMORIA
    /\ \A s, r \in segmentos : s = r \/ Fin(s) <= r.base \/ Fin(r) <= s.base

(* The list of holes, which creating a segment updates in place, is the    *)
(* one that actualizarHuecosVacios would compute from the segments: no     *)
(* free byte is forgotten and none is counted twice.  (A compaction of a   *)
(* full memory leaves one hole of size 0.)                                 *)
HuecosAlDia ==
    fase = "atiende" =>
        {h \in huecos : h.tamanio > 0} = HuecosEntre(segmentos)

\* The addresses in no segment.
Libres == {a \in 0..TAM_MEMORIA - 1 :
              \A s \in segmentos : a < s.base \/ Fin(s) <= a}
HayTramoLibre(t) ==
    \E b \in 0..TAM_MEMORIA - t : b..(b + t - 1) \subseteq Libres

(* The reply to a request for a segment is right of the addresses that are *)
(* really free: a compaction is asked for only if it can help, and the     *)
(* process is refused for lack of memory only if no compaction could.  No  *)
(* table outgrows CANT_SEGMENTOS, of which the shared segment 0 is one.    *)
(* The exception is a size that is negative as an int: a compaction is     *)
(* asked for, however often it is tried again.                             *)
RespuestaSegunMemoria ==
    fase = "atiende" =>
        \A p \in procesos, id \in Ids, t \in Tamanios :
            LET respuesta == PuedoCrearSegmento(p, id, t)
            IN  CASE respuesta = "OK" ->
                         HayTramoLibre(t) /\ Cardinality(Tabla(p)) < CANT_SEGMENTOS
                  [] respuesta = "NECESITA_COMPACTACION" ->
                         /\ Cardinality(Libres) >= t \/ t > INT_MAX
                         /\ ~HayTramoLibre(t)
                  [] respuesta = "OUT_OF_MEMORY" -> Cardinality(Libres) < t
                  [] respuesta = "LIMITE_TABLA_SEGMENTOS" ->
                         Cardinality(Tabla(p)) = CANT_SEGMENTOS
                  [] OTHER -> TRUE
=============================================================================
