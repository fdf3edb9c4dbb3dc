---------------------------- MODULE SocketMemoria ----------------------------
(***************************************************************************)
(* The kernel and the memory around the one socket between them.  Two      *)
(* threads of the kernel write requests there and read replies with no     *)
(* mutex: the long-term planner, for the first table of a process, and the *)
(* CPU thread, for the segments of the running one.  Each pcb keeps a copy *)
(* of its table, and the CPU writes in the user space where that copy says.*)
(*                                                                         *)
(* The memory's side of each request is the action of Memoria.  A reply    *)
(* carries `para`, the thread it answers, which the code does not have:    *)
(* what follows once a thread has read something else than its reply, or   *)
(* the tables of other processes than the registered ones, is mostly       *)
(* undefined, and the model stops there (`sano`).                          *)
(***************************************************************************)
EXTENDS Memoria, Sequences, SequencesExt

CONSTANTS
    Programas,       \* the programs a process may have
    Grado            \* GRADO_MAX_MULTIPROGRAMACION

ASSUME GradoAssumption == Grado \in Nat \ {0}
\* Pids are given in order of arrival, from 1.
ASSUME PidsAssumption == IsFiniteSet(Pids) /\ Pids = 1..Cardinality(Pids)
\* The operands that an instruction has, by its code.
Instrucciones ==
    [op : {"CREATE_SEGMENT"}, id : Ids, tamanio : Tamanios]
    \cup [op : {"DELETE_SEGMENT", "MOV_OUT"}, id : Ids]
    \cup [op : {"YIELD", "EXIT"}]
ASSUME ProgramasAssumption == Programas \subseteq Seq(Instrucciones)

VARIABLES
    programa,     \* the instructions of each pcb
    pedidos,      \* the socket, from the kernel
    respuestas,   \* the socket, from the memory
    orden,        \* tablaProcesosGlobal, in its order
    proximo,      \* the head of cola_new, or the pcb of the long-term planner
    grado,        \* grado_multiprogramacion_disponible
    largo,        \* the long-term planner: "libre", "recibe", "publica",
                  \* "registra"
    listos,       \* lista_pcbs
    globales,     \* lista_global_de_pcbs
    cpu,          \* the CPU thread: "libre", "ejecuta", "crea", "compacta",
                  \* "tablas", "elimina"
    actual,       \* pcb_en_ejecucion, 0 if none
    pc,           \* program_counter of each pcb
    tabla,        \* tabla_de_segmentos of each pcb
    terminados,   \* the processes that ended
    espacio,      \* the user space: who wrote each address last, and where
    escritos,     \* the segments of each process that hold what it wrote
    sano          \* every reply so far was read by the thread it is for

canal == <<pedidos, respuestas>>
lados == <<programa, proximo, grado, largo, listos, globales, cpu, actual, pc, tabla,
           terminados, sano>>
contenido == <<espacio, escritos>>
varsSocket == <<vars, canal, orden, lados, contenido>>

Direcciones == 0..TAM_MEMORIA - 1
Nada == <<0, 0, 0>>

InitSocket ==
    /\ Init
    /\ programa \in [Pids -> Programas]
    /\ pedidos = <<>> /\ respuestas = <<>>
    /\ orden = <<>>
    /\ proximo = 1 /\ grado = Grado /\ largo = "libre"
    /\ listos = <<>> /\ globales = {}
    /\ cpu = "libre" /\ actual = 0
    /\ pc = [p \in Pids |-> 1]
    /\ tabla = [p \in Pids |-> {}]
    /\ terminados = {}
    /\ espacio = [a \in Direcciones |-> Nada]
    /\ escritos = [p \in Pids |-> {}]
    /\ sano = TRUE

-----------------------------------------------------------------------------
(* Requests and replies.                                                   *)

\* enviar_pid_a_memoria
PidAMemoria(op, p) == [op |-> op, pid |-> p]
SolicitudDeCreacion(p, i) ==
    [op |-> "CREAR_SEGMENTO", pid |-> p, id |-> i.id, tamanio |-> i.tamanio]
SolicitudDeEliminacion(p, i) ==
    [op |-> "ELIMINAR_SEGMENTO", pid |-> p, id |-> i.id]
\* crear_segmento sends the bare code, with no packet around it.
Compactar == [op |-> "COMPACTAR"]

Enviar(m) == pedidos' = Append(pedidos, m)
Responder(m) == respuestas' = Append(respuestas, m)

\* serializar_lista_segmentos keeps the pid, id, base and size of each.
RespuestaTabla(T, hilo) ==
    [op |-> "TABLA_SEGMENTOS", tabla |-> T, para |-> hilo]
\* pedido_compactar: pid, number of segments and segments of every process.
RespuestaTablas(S) ==
    [op |-> "OK", para |-> "cpu",
     tablas |-> [i \in DOMAIN orden |->
                    [pid |-> orden[i],
                     tabla |-> {s \in S : s.pid \in {orden[i], Compartido}}]]]

-----------------------------------------------------------------------------
(* The memory: procesar_conexion takes one request at a time.              *)

AtenderCrearProceso(m) ==
    /\ m.op = "CREAR_PROCESO"
    /\ CrearProceso(m.pid)
    /\ orden' = Append(orden, m.pid)
    /\ Responder(RespuestaTabla(Tabla(m.pid), "largo"))
    /\ UNCHANGED contenido

\* (mutant) the memory confirms, and nobody waits for that.
AtenderEliminarProceso_Responde(m) ==
    /\ m.op = "ELIMINAR_PROCESO"
    /\ EliminarProceso(m.pid)
    /\ \E i \in DOMAIN orden :
          orden[i] = m.pid /\ orden' = RemoveAt(orden, i)
    /\ Responder([op |-> "OK", base |-> 0, para |-> "largo"])
    /\ UNCHANGED contenido
\* The segments of the process go; there is no reply.
AtenderEliminarProceso(m) ==
    /\ m.op = "ELIMINAR_PROCESO"
    /\ EliminarProceso(m.pid)
    /\ \E i \in DOMAIN orden :
          orden[i] = m.pid /\ orden' = RemoveAt(orden, i)
    /\ UNCHANGED <<respuestas, contenido>>

AtenderCrearSegmento(m) ==
    LET r == PuedoCrearSegmento(m.pid, m.id, m.tamanio)
    IN  /\ m.op = "CREAR_SEGMENTO"
        /\ PedidoCrearSegmento(m.pid, m.id, m.tamanio)
        /\ IF r = "OK"
           THEN \E s \in segmentos' \ segmentos :
                   Responder([op |-> "OK", base |-> s.base, para |-> "cpu"])
           ELSE Responder([op |-> r, para |-> "cpu"])
        /\ UNCHANGED <<orden, contenido>>

AtenderEliminarSegmento(m) ==
    /\ m.op = "ELIMINAR_SEGMENTO"
    /\ \/ EliminarSegmento(m.pid, m.id)
       \/ /\ \A s \in segmentos : ~(s.pid = m.pid /\ s.idSegmento = m.id)
          /\ UNCHANGED <<procesos, segmentos, huecos, fase, compactacion>>
    /\ Responder(RespuestaTabla(
          {s \in segmentos' : s.pid \in {m.pid, Compartido}}, "cpu"))
    /\ UNCHANGED <<orden, contenido>>

AtenderPedido ==
    /\ fase = "atiende"
    /\ pedidos # <<>>
    /\ pedidos' = Tail(pedidos)
    /\ \/ AtenderCrearProceso(Head(pedidos))
       \/ AtenderEliminarProceso(Head(pedidos))
       \/ AtenderCrearSegmento(Head(pedidos))
       \/ AtenderEliminarSegmento(Head(pedidos))
    /\ UNCHANGED lados

\* pedido_crear_segmento reads the kernel's answer as four bytes, whoever
\* sent them: a request of the other thread loses its first bytes.
AtenderCompactar ==
    /\ fase = "espera_kernel"
    /\ pedidos # <<>>
    /\ pedidos' = Tail(pedidos)
    /\ IF Head(pedidos) = Compactar
       THEN RecibirCompactar /\ UNCHANGED <<lados, contenido>>
       ELSE /\ sano' = FALSE
            /\ UNCHANGED <<vars, programa, proximo, grado, largo, listos,
                           globales, cpu, actual, pc, tabla, terminados,
                           contenido>>
    /\ UNCHANGED <<respuestas, orden>>

-----------------------------------------------------------------------------
(* The user space.                                                         *)

Solapa(s, b) == b + s.tamanio > s.base
\* Where memcpy takes byte k of segment s from, going up or going down: down,
\* a byte of the source may already be one that was copied.
Origen(s, b, k, sube) ==
    IF sube THEN k
    ELSE LET salto == s.base - b
         IN  k + salto * ((s.tamanio - 1 - k) \div salto)
\* memcpy of segment s down to base b.  The order of the bytes is undefined
\* when the ranges overlap; what the segment then holds is not claimed.
Mudar(s, b) ==
    \/ /\ b # s.base
       /\ \E sube \in (IF Solapa(s, b) THEN BOOLEAN ELSE {TRUE}) :
             espacio' = [a \in Direcciones |->
                IF a \in b..(b + s.tamanio - 1)
                THEN espacio[s.base + Origen(s, b, a - b, sube)]
                ELSE espacio[a]]
       /\ escritos' = IF Solapa(s, b)
                      THEN [escritos EXCEPT ![s.pid] = @ \ {s.idSegmento}]
                      ELSE escritos
    \/ b = s.base /\ UNCHANGED contenido

MoverUno ==
    /\ CompactarUno
    /\ \E s \in Siguientes : Mudar(s, frontera)
    /\ UNCHANGED <<canal, orden, lados>>

\* (mutant) nothing tells the kernel that the compaction is over.
ResponderTablas_Nunca == TerminarCompactacion /\ UNCHANGED respuestas
ResponderTablas ==
    TerminarCompactacion /\ Responder(RespuestaTablas(segmentos))

TerminarPedidoCompactar ==
    /\ ResponderTablas
    /\ UNCHANGED <<pedidos, orden, lados, contenido>>

-----------------------------------------------------------------------------
(* The long-term planner.                                                  *)

\* (mutant) a new process does not wait for its place.
LargoPide_SinGrado ==
    /\ largo = "libre"
    /\ proximo \in Pids
    /\ grado' = grado - 1
    /\ Enviar(PidAMemoria("CREAR_PROCESO", proximo))
    /\ largo' = "recibe"
    /\ UNCHANGED <<respuestas, proximo, listos, globales, cpu, actual, pc,
                   tabla, terminados, sano>>
LargoPide ==
    /\ largo = "libre"
    /\ proximo \in Pids
    /\ grado > 0
    /\ grado' = grado - 1
    /\ Enviar(PidAMemoria("CREAR_PROCESO", proximo))
    /\ largo' = "recibe"
    /\ UNCHANGED <<respuestas, proximo, listos, globales, cpu, actual, pc,
                   tabla, terminados, sano>>

\* recibir_tabla_segmentos: whatever comes, if it is not a table, is NULL.
TablaRecibida(m) == IF m.op = "TABLA_SEGMENTOS" THEN m.tabla ELSE {}

LargoRecibe ==
    /\ largo = "recibe"
    /\ respuestas # <<>>
    /\ respuestas' = Tail(respuestas)
    /\ tabla' = [tabla EXCEPT ![proximo] = TablaRecibida(Head(respuestas))]
    /\ sano' = (Head(respuestas).para = "largo")
    /\ largo' = "publica"
    /\ UNCHANGED <<pedidos, proximo, grado, listos, globales, cpu, actual, pc,
                   terminados>>

\* pasar_a_ready: the process may run from here on.
LargoPublica ==
    /\ largo = "publica"
    /\ listos' = Append(listos, proximo)
    /\ largo' = "registra"
    /\ UNCHANGED <<canal, proximo, grado, globales, cpu, actual, pc, tabla,
                   terminados, sano>>

\* list_add(lista_global_de_pcbs, pcb), even of a process that has ended.
LargoRegistra ==
    /\ largo = "registra"
    /\ globales' = globales \cup {proximo}
    /\ proximo' = proximo + 1
    /\ largo' = "libre"
    /\ UNCHANGED <<canal, grado, listos, cpu, actual, pc, tabla, terminados,
                   sano>>

-----------------------------------------------------------------------------
(* The CPU thread and the process it runs.                                 *)

Instruccion == programa[actual][pc[actual]]
Avanza == pc' = [pc EXCEPT ![actual] = @ + 1]

\* The short-term planner waits for the first process to be registered.
CpuToma ==
    /\ cpu = "libre"
    /\ listos # <<>>
    /\ globales \cup terminados # {}
    /\ actual' = Head(listos)
    /\ listos' = Tail(listos)
    /\ cpu' = "ejecuta"
    /\ UNCHANGED <<canal, proximo, grado, largo, globales, pc, tabla,
                   terminados, sano>>

\* terminar_proceso_en_ejecucion; taking a pcb that is not in the global list
\* out of it does nothing.
Terminar ==
    /\ Enviar(PidAMemoria("ELIMINAR_PROCESO", actual))
    /\ globales' = globales \ {actual}
    /\ terminados' = terminados \cup {actual}
    /\ grado' = grado + 1
    /\ actual' = 0
    /\ cpu' = "libre"
    /\ UNCHANGED <<pc, tabla>>

PedirCreacion ==
    /\ Instruccion.op = "CREATE_SEGMENT"
    /\ Enviar(SolicitudDeCreacion(actual, Instruccion))
    /\ cpu' = "crea"
    /\ UNCHANGED <<grado, listos, globales, actual, pc, tabla, terminados,
                   contenido>>

PedirEliminacion ==
    /\ Instruccion.op = "DELETE_SEGMENT"
    /\ Enviar(SolicitudDeEliminacion(actual, Instruccion))
    /\ escritos' = [escritos EXCEPT ![actual] = @ \ {Instruccion.id}]
    /\ cpu' = "elimina"
    /\ UNCHANGED <<grado, listos, globales, actual, pc, tabla, terminados,
                   espacio>>

\* The CPU writes at the base that the table of its context gives, and the
\* memory stores it there without looking whose address it is.
Escribir ==
    /\ Instruccion.op = "MOV_OUT"
    /\ \E s \in tabla[actual] :
          /\ s.idSegmento = Instruccion.id
          /\ espacio' = [a \in Direcciones |->
                IF a \in s.base..(Fin(s) - 1)
                THEN <<actual, s.idSegmento, a - s.base>> ELSE espacio[a]]
    /\ escritos' = [escritos EXCEPT ![actual] = @ \cup {Instruccion.id}]
    /\ Avanza
    /\ UNCHANGED <<pedidos, grado, listos, globales, cpu, actual, tabla,
                   terminados>>

Ceder ==
    /\ Instruccion.op = "YIELD"
    /\ listos' = Append(listos, actual)
    /\ Avanza
    /\ actual' = 0 /\ cpu' = "libre"
    /\ UNCHANGED <<pedidos, grado, globales, tabla, terminados, contenido>>

\* EXIT, or a segmentation fault of the CPU.
Salir ==
    /\ \/ Instruccion.op = "EXIT"
       \/ /\ Instruccion.op = "MOV_OUT"
          /\ \A s \in tabla[actual] : s.idSegmento # Instruccion.id
    /\ Terminar
    /\ UNCHANGED <<listos, contenido>>

\* Past its last instruction the CPU answers nothing.
CpuEjecuta ==
    /\ cpu = "ejecuta"
    /\ pc[actual] \in DOMAIN programa[actual]
    /\ PedirCreacion \/ PedirEliminacion \/ Escribir \/ Ceder \/ Salir
    /\ UNCHANGED <<respuestas, proximo, largo, sano>>

\* crear_segmento: the reply to the request.
SegmentoCreado(m) ==
    /\ m.op = "OK"
    /\ tabla' = [tabla EXCEPT ![actual] = @ \cup
          {[pid |-> actual, idSegmento |-> Instruccion.id,
            base |-> m.base, tamanio |-> Instruccion.tamanio]}]
    /\ Avanza
    /\ cpu' = "ejecuta"
    /\ UNCHANGED <<pedidos, grado, globales, actual, terminados>>

FaltaCompactar(m) ==
    /\ m.op = "NECESITA_COMPACTACION"
    /\ cpu' = "compacta"
    /\ UNCHANGED <<pedidos, grado, globales, actual, pc, tabla, terminados>>

\* Every other code ends the process; op_code_a_motivo_desalojo makes one that
\* is no answer to this request MOTIVO_DESCONOCIDO.
CreacionRechazada(m) ==
    /\ m.op \notin {"OK", "NECESITA_COMPACTACION"}
    /\ Terminar

CpuRecibeCreacion ==
    /\ cpu = "crea"
    /\ respuestas # <<>>
    /\ respuestas' = Tail(respuestas)
    /\ LET m == Head(respuestas)
       IN  /\ SegmentoCreado(m) \/ FaltaCompactar(m) \/ CreacionRechazada(m)
           /\ sano' = (m.para = "cpu")
    /\ UNCHANGED <<proximo, largo, listos>>

\* (mutant) eliminar_segmento keeps the table it had.
CpuRecibeTabla_Vieja ==
    /\ cpu = "elimina"
    /\ respuestas # <<>>
    /\ respuestas' = Tail(respuestas)
    /\ Avanza
    /\ sano' = (Head(respuestas).para = "cpu")
    /\ cpu' = "ejecuta"
    /\ UNCHANGED <<pedidos, proximo, grado, largo, listos, globales, actual,
                   tabla, terminados>>
\* eliminar_segmento: the reply replaces the table, whoever's it is.
CpuRecibeTabla ==
    /\ cpu = "elimina"
    /\ respuestas # <<>>
    /\ respuestas' = Tail(respuestas)
    /\ tabla' = [tabla EXCEPT ![actual] = TablaRecibida(Head(respuestas))]
    /\ Avanza
    /\ sano' = (Head(respuestas).para = "cpu")
    /\ cpu' = "ejecuta"
    /\ UNCHANGED <<pedidos, proximo, grado, largo, listos, globales, actual,
                   terminados>>

CpuPideCompactar ==
    /\ cpu = "compacta"
    /\ Enviar(Compactar)
    /\ cpu' = "tablas"
    /\ UNCHANGED <<respuestas, proximo, grado, largo, listos, globales, actual,
                   pc, tabla, terminados, sano>>

\* recibir_tablas_de_segmentos reads as many tables as there are registered
\* pcbs.  It is only right when the memory has sent one for each of them.
Leidas(m) == {m.tablas[i] : i \in DOMAIN m.tablas \cap 1..Cardinality(globales)}
RegistroExacto(m) == globales = {e.pid : e \in Range(m.tablas)}

CpuRecibeTablas ==
    /\ cpu = "tablas"
    /\ respuestas # <<>>
    /\ respuestas' = Tail(respuestas)
    /\ LET m == Head(respuestas)
           esperada == m.op = "OK" /\ m.para = "cpu"
       IN  /\ sano' = (esperada /\ RegistroExacto(m))
           /\ tabla' = [p \in Pids |->
                 IF esperada /\ \E e \in Leidas(m) : e.pid = p
                 THEN (CHOOSE e \in Leidas(m) : e.pid = p).tabla
                 ELSE tabla[p]]
    /\ cpu' = "ejecuta"
    /\ UNCHANGED <<pedidos, proximo, grado, largo, listos, globales, actual,
                   pc, terminados>>

-----------------------------------------------------------------------------
Memoria == AtenderPedido \/ AtenderCompactar \/ MoverUno
           \/ TerminarPedidoCompactar
Largo == LargoPide \/ LargoRecibe \/ LargoPublica \/ LargoRegistra
Cpu == CpuToma \/ CpuRecibeCreacion \/ CpuRecibeTabla \/ CpuPideCompactar
       \/ CpuRecibeTablas
HiloCpu == (Cpu /\ UNCHANGED contenido) \/ CpuEjecuta
HiloLargo == Largo /\ UNCHANGED contenido

NextSocket ==
    /\ sano
    /\ \/ Memoria /\ UNCHANGED algoritmo
       \/ (HiloLargo \/ HiloCpu) /\ UNCHANGED <<vars, programa, orden>>

\* Each thread, and the memory, is scheduled.
SpecSocket ==
    /\ InitSocket /\ [][NextSocket]_varsSocket
    /\ WF_varsSocket(sano /\ Memoria /\ UNCHANGED algoritmo)
    /\ WF_varsSocket(sano /\ HiloLargo /\ UNCHANGED <<vars, programa, orden>>)
    /\ WF_varsSocket(sano /\ HiloCpu /\ UNCHANGED <<vars, programa, orden>>)

-----------------------------------------------------------------------------
Mensajes == {"CREAR_PROCESO", "ELIMINAR_PROCESO", "CREAR_SEGMENTO",
             "ELIMINAR_SEGMENTO", "COMPACTAR"}

(* The type of every variable added to those of Memoria.                   *)
TypeOKSocket ==
    /\ TypeOK
    /\ programa \in [Pids -> Programas]
    /\ \A i \in DOMAIN pedidos : pedidos[i].op \in Mensajes
    /\ \A i \in DOMAIN respuestas : respuestas[i].para \in {"largo", "cpu"}
    /\ Range(orden) = procesos
    /\ proximo \in 1..(Cardinality(Pids) + 1) /\ grado \in 0..Grado
    /\ largo \in {"libre", "recibe", "publica", "registra"}
    /\ cpu \in {"libre", "ejecuta", "crea", "compacta", "tablas", "elimina"}
    /\ listos \in Seq(Pids) /\ actual \in Pids \cup {0}
    /\ globales \in SUBSET Pids /\ terminados \in SUBSET Pids
    /\ pc \in [Pids -> Nat \ {0}]
    /\ tabla \in [Pids -> SUBSET Segmento]
    /\ escritos \in [Pids -> SUBSET Ids]
    /\ DOMAIN espacio = Direcciones /\ sano \in BOOLEAN

\* Nothing is under way on the socket, and no reply is being taken.
EnCalma ==
    /\ pedidos = <<>> /\ respuestas = <<>> /\ fase = "atiende"
    /\ cpu \in {"libre", "ejecuta"}
\* The processes that have been given their first table.
Admitidos == {p \in Pids \ terminados :
                 p < proximo \/ (p = proximo /\ largo \in {"publica", "registra"})}

(* The table of each pcb, which the kernel keeps up to date by itself from *)
(* three kinds of replies, is the memory's table of that process.          *)
TablaFiel ==
    EnCalma /\ sano => \A p \in Admitidos : tabla[p] = Tabla(p)

(* The same when the compaction that just ended found a list of pcbs that  *)
(* was not that of the memory: the kernel is to update the tables "en los  *)
(* PCB de cada proceso" (docs, PDF page 15).  A process that already runs  *)
(* and is not registered yet does not get its own.                         *)
TablasAlDia == EnCalma => \A p \in Admitidos : tabla[p] = Tabla(p)

(* What a process wrote in a segment of its own is still there, at the     *)
(* address that its pcb gives, whatever was created, deleted or moved      *)
(* since.  (Segment 0 is of all of them.)                                  *)
LecturaDeLoEscrito ==
    cpu = "ejecuta" /\ sano =>
        \A p \in Admitidos : \A id \in escritos[p] \ {0} :
            \E s \in tabla[p] :
                /\ s.idSegmento = id
                /\ \A k \in 0..s.tamanio - 1 :
                      espacio[s.base + k] = <<p, id, k>>

(* The threads only read each other's replies, or lose their place on the  *)
(* socket, while a process is between the request of its first table and   *)
(* its place in the global list, or if one was listed after its end.       *)
SeCruzanAlIngresar ==
    ~sano => largo # "libre" \/ globales \cap terminados # {}

(* Every process ends, those that had to wait for a compaction too, unless *)
(* the threads have crossed on the socket.                                 *)
TodosTerminan == <>(terminados = Pids \/ ~sano)
=============================================================================
