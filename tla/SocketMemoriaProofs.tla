------------------------- MODULE SocketMemoriaProofs -------------------------
(***************************************************************************)
(* The socket that two threads of the kernel share: for any programs, pids *)
(* and degree, the memory behind it is the one of Memoria, the table of    *)
(* each pcb is the memory's, the threads only cross while a process is     *)
(* being admitted, and until then what a process wrote stays where its     *)
(* table says.                                                             *)
(*                                                                         *)
(* Every message under way is tied to the thread that waits for its answer *)
(* (PedidosEnOrden, RespuestasEnOrden): no thread has two.  The pcbs are   *)
(* counted by place (Lugares) and the memory's processes by what it has    *)
(* still to read (ProcesosDeLaMemoria).  A table that is not the memory's  *)
(* is being compacted, or its new value is in a reply (TablasEnCamino).    *)
(***************************************************************************)
EXTENDS SocketMemoria, MemoriaProofs, SequenceTheorems, FiniteSetTheorems

Uno(condicion) == IF condicion THEN 1 ELSE 0
Distintos(s) == \A i, j \in DOMAIN s : s[i] = s[j] => i = j

-----------------------------------------------------------------------------
(* Types.                                                                  *)

Pedido ==
    [op : {"CREAR_PROCESO", "ELIMINAR_PROCESO"}, pid : Pids]
    \cup [op : {"CREAR_SEGMENTO"}, pid : Pids, id : Ids, tamanio : Tamanios]
    \cup [op : {"ELIMINAR_SEGMENTO"}, pid : Pids, id : Ids]
    \cup {Compactar}
Rechazos == {"LIMITE_TABLA_SEGMENTOS", "ID_YA_CREADA", "OUT_OF_MEMORY",
             "NECESITA_COMPACTACION"}
TablaDeUno == [pid : Pids, tabla : SUBSET Segmento]
Tablas == [op : {"OK"}, para : {"cpu"}, tablas : Seq(TablaDeUno)]
Respuesta ==
    [op : {"TABLA_SEGMENTOS"}, tabla : SUBSET Segmento, para : {"largo", "cpu"}]
    \cup [op : {"OK"}, base : Nat, para : {"cpu"}]
    \cup [op : Rechazos, para : {"cpu"}]
    \cup Tablas

TiposCanal ==
    /\ pedidos \in Seq(Pedido) /\ Distintos(pedidos)
    /\ respuestas \in Seq(Respuesta) /\ Distintos(respuestas)
    /\ orden \in Seq(Pids) /\ Distintos(orden) /\ Range(orden) = procesos
TiposHilos ==
    /\ proximo \in 1..(Cardinality(Pids) + 1) /\ grado \in Nat
    /\ largo \in {"libre", "recibe", "publica", "registra"}
    /\ largo # "libre" => proximo \in Pids
    /\ cpu \in {"libre", "ejecuta", "crea", "compacta", "tablas", "elimina"}
    /\ listos \in Seq(Pids) /\ Distintos(listos)
    /\ actual \in Pids \cup {0} /\ (actual = 0 <=> cpu = "libre")
    /\ globales \in SUBSET Pids /\ terminados \in SUBSET Pids
    /\ sano \in BOOLEAN
TiposProcesos ==
    /\ programa \in [Pids -> Programas]
    /\ pc \in [Pids -> Nat \ {0}]
    /\ cpu \notin {"libre", "ejecuta"} => pc[actual] \in DOMAIN programa[actual]
    /\ cpu \in {"crea", "compacta", "tablas"} => Instruccion.op = "CREATE_SEGMENT"
    /\ cpu = "elimina" => Instruccion.op = "DELETE_SEGMENT"
    /\ tabla \in [Pids -> SUBSET Segmento]
TiposDeDatos ==
    escritos \in [Pids -> SUBSET Ids] /\ DOMAIN espacio = Direcciones

-----------------------------------------------------------------------------
(* Where the processes are.                                                *)

\* The processes that may have run.
Publicados ==
    {p \in Pids : p < proximo \/ (p = proximo /\ largo = "registra")}
Lugares ==
    /\ actual \notin Range(listos) /\ actual \notin terminados
    /\ Range(listos) \cap terminados = {}
    /\ Range(listos) \cup terminados \subseteq Publicados
    /\ actual # 0 => actual \in Publicados
    /\ \A p \in globales : p < proximo
    /\ \A p \in Pids \ terminados : p < proximo => p \in globales
GradoExacto ==
    grado + (proximo - 1) + Uno(largo # "libre") = Grado + Cardinality(terminados)

\* The processes the memory has are those that it was told to create and not
\* yet to end.
CreacionPendiente == \E m \in Range(pedidos) : m.op = "CREAR_PROCESO"
EliminacionPendiente(p) == PidAMemoria("ELIMINAR_PROCESO", p) \in Range(pedidos)
Creado(p) ==
    \/ p < proximo
    \/ /\ p = proximo
       /\ \/ largo \in {"publica", "registra"}
          \/ largo = "recibe" /\ ~ CreacionPendiente
ProcesosDeLaMemoria ==
    \A p \in Pids :
        p \in procesos <=> Creado(p) /\ (p \in terminados => EliminacionPendiente(p))
SegmentosConDueno ==
    \A s \in segmentos :
        IF s.pid = Compartido THEN s = SegmentoCero ELSE s.pid \in Publicados

-----------------------------------------------------------------------------
(* What is under way.                                                      *)

EsDeCpu(m) == m.op \in {"CREAR_SEGMENTO", "ELIMINAR_SEGMENTO", "COMPACTAR"}
CpuPide == \E m \in Range(pedidos) : EsDeCpu(m)
CpuEspera == cpu \notin {"libre", "ejecuta"}

\* What each request tells of the thread that sent it.
Pedida(m) ==
    /\ m.op = "CREAR_PROCESO" => largo = "recibe" /\ m.pid = proximo
    /\ m.op = "ELIMINAR_PROCESO" => m.pid \in terminados
    /\ m.op = "CREAR_SEGMENTO" =>
          /\ cpu = "crea" /\ fase = "atiende"
          /\ m = SolicitudDeCreacion(actual, Instruccion)
    /\ m.op = "ELIMINAR_SEGMENTO" =>
          /\ cpu = "elimina" /\ fase = "atiende"
          /\ m = SolicitudDeEliminacion(actual, Instruccion)
    /\ m.op = "COMPACTAR" => cpu = "tablas" /\ fase = "espera_kernel"
\* The CPU thread asks for nothing between its request and the reply, so that
\* the ends of processes it reported are read before.
EliminarAntes(s) ==
    \A i, j \in DOMAIN s :
        EsDeCpu(s[i]) /\ s[j].op = "ELIMINAR_PROCESO" =>
            j < i /\ s[i].op # "COMPACTAR"
PedidosEnOrden ==
    /\ \A m \in Range(pedidos) : Pedida(m)
    /\ EliminarAntes(pedidos)
    /\ CpuEspera /\ ~ CpuPide =>
          \A m \in Range(pedidos) : m.op # "ELIMINAR_PROCESO"

Nuevo(b) == [pid |-> actual, idSegmento |-> Instruccion.id, base |-> b,
             tamanio |-> Instruccion.tamanio]
\* The tables sent after a compaction are those of every process but one that
\* was created later, whose own reply is behind them.
TablasFieles(m) ==
    /\ \A k, l \in DOMAIN m.tablas :
          m.tablas[k].pid = m.tablas[l].pid => k = l
    /\ \A k \in DOMAIN m.tablas :
          /\ m.tablas[k].pid \in procesos
          /\ m.tablas[k].tabla = Tabla(m.tablas[k].pid)
    /\ \A p \in procesos : (\A k \in DOMAIN m.tablas : m.tablas[k].pid # p) =>
          p = proximo /\ largo = "recibe" /\ Head(respuestas) = m
ParaLargo(m) ==
    /\ largo = "recibe" /\ ~ CreacionPendiente
    /\ m.op = "TABLA_SEGMENTOS" /\ m.tabla = {SegmentoCero}
RespuestaACrear(m) ==
    /\ cpu = "crea" /\ m.op \in {"OK"} \cup Rechazos
    /\ fase = IF m.op = "NECESITA_COMPACTACION" THEN "espera_kernel" ELSE "atiende"
    /\ m.op = "OK" => /\ m.base \in Nat
                      /\ Tabla(actual) = tabla[actual] \cup {Nuevo(m.base)}
RespuestaAEliminar(m) ==
    /\ cpu = "elimina" /\ fase = "atiende"
    /\ m.op = "TABLA_SEGMENTOS" /\ m.tabla = Tabla(actual)
RespuestaACompactar(m) ==
    /\ cpu = "tablas" /\ fase = "atiende"
    /\ m \in Tablas /\ TablasFieles(m)
ParaCpu(m) ==
    ~ CpuPide /\ (RespuestaACrear(m) \/ RespuestaAEliminar(m) \/ RespuestaACompactar(m))
RespuestasEnOrden ==
    /\ \A m, n \in Range(respuestas) : m.para = n.para => m = n
    /\ \A m \in Range(respuestas) :
          IF m.para = "largo" THEN ParaLargo(m) ELSE ParaCpu(m)

HayParaCpu == \E m \in Range(respuestas) : m.para = "cpu"
FaseEnOrden ==
    /\ fase = "espera_kernel" =>
          \/ cpu = "crea" /\ HayParaCpu
          \/ cpu = "compacta"
          \/ cpu = "tablas" /\ CpuPide
    /\ fase = "compacta" => cpu = "tablas" /\ ~ CpuPide
    /\ cpu = "compacta" => fase = "espera_kernel"

\* The reply m, which the CPU thread will read, brings the table of p.
Trae(p, m) ==
    /\ m.para = "cpu"
    /\ \/ cpu = "crea" /\ p = actual /\ m.op = "OK"
       \/ cpu = "elimina" /\ p = actual
       \/ cpu = "tablas" /\ \E k \in DOMAIN m.tablas : m.tablas[k].pid = p
TablasEnCamino ==
    \A p \in Admitidos :
        \/ tabla[p] = Tabla(p)
        \/ fase = "compacta"
        \/ \E m \in Range(respuestas) : Trae(p, m)

Tipos == TiposCanal /\ TiposHilos /\ TiposProcesos /\ TiposDeDatos
EnOrden ==
    /\ ProcesosDeLaMemoria /\ SegmentosConDueno
    /\ PedidosEnOrden /\ RespuestasEnOrden /\ FaseEnOrden
    /\ TablasEnCamino
InvHilos ==
    /\ Tipos /\ Lugares /\ GradoExacto
    /\ sano => EnOrden
    /\ SeCruzanAlIngresar
\* The inductive invariant.
InvSocket == Inv /\ InvHilos

-----------------------------------------------------------------------------
(* Lemmas about sequences.                                                 *)

\* What a sequence holds once something is put at its end.
LEMMA AlAgregar ==
    ASSUME NEW S, NEW s \in Seq(S), NEW e \in S
    PROVE  /\ Append(s, e) \in Seq(S)
           /\ Range(Append(s, e)) = Range(s) \cup {e}
           /\ Distintos(s) /\ e \notin Range(s) => Distintos(Append(s, e))
<1>1. /\ Append(s, e) \in Seq(S) /\ DOMAIN Append(s, e) = 1..(Len(s) + 1)
      /\ Append(s, e)[Len(s) + 1] = e /\ DOMAIN s = 1..Len(s) /\ Len(s) \in Nat
      /\ \A i \in 1..Len(s) : Append(s, e)[i] = s[i]
  OBVIOUS
<1>2. Range(Append(s, e)) = Range(s) \cup {e}
  <2>1. ASSUME NEW x \in Range(Append(s, e)) PROVE x \in Range(s) \cup {e}
    <3>1. PICK i \in 1..(Len(s) + 1) : x = Append(s, e)[i]
      BY <1>1 DEF Range
    <3> QED
      BY <3>1, <1>1 DEF Range
  <2>2. ASSUME NEW x \in Range(s) PROVE x \in Range(Append(s, e))
    <3>1. PICK i \in 1..Len(s) : x = s[i]
      BY <1>1 DEF Range
    <3> QED
      BY <3>1, <1>1 DEF Range
  <2>3. e \in Range(Append(s, e))
    BY <1>1 DEF Range
  <2> QED
    BY <2>1, <2>2, <2>3
<1>3. ASSUME Distintos(s), e \notin Range(s) PROVE Distintos(Append(s, e))
  <2> SUFFICES ASSUME NEW i \in 1..(Len(s) + 1), NEW j \in 1..(Len(s) + 1),
                      Append(s, e)[i] = Append(s, e)[j]
               PROVE  i = j
    BY <1>1 DEF Distintos
  <2>1. \A k \in 1..Len(s) : s[k] # e
    BY <1>1, <1>3 DEF Range
  <2>2. \A k, l \in 1..Len(s) : s[k] = s[l] => k = l
    BY <1>1, <1>3 DEF Distintos
  <2> QED
    BY <2>1, <2>2, <1>1
<1> QED
  BY <1>1, <1>2, <1>3

\* What a sequence holds once its first element is taken.
LEMMA AlSacar ==
    ASSUME NEW S, NEW s \in Seq(S), s # <<>>
    PROVE  /\ Head(s) \in S /\ Head(s) = s[1] /\ Head(s) \in Range(s)
           /\ Tail(s) \in Seq(S) /\ Range(Tail(s)) \subseteq Range(s)
           /\ Distintos(s) => /\ Distintos(Tail(s))
                              /\ Range(Tail(s)) = Range(s) \ {Head(s)}
<1>1. /\ Tail(s) \in Seq(S) /\ DOMAIN Tail(s) = 1..(Len(s) - 1)
      /\ Head(s) = s[1] /\ DOMAIN s = 1..Len(s) /\ Len(s) \in Nat \ {0}
      /\ \A i \in 1..(Len(s) - 1) : Tail(s)[i] = s[i + 1]
      /\ Head(s) \in S
  BY HeadTailProperties, EmptySeq, LenProperties
<1>2. Head(s) \in Range(s)
  BY <1>1 DEF Range
<1>3. Range(Tail(s)) \subseteq Range(s)
  <2> SUFFICES ASSUME NEW x \in Range(Tail(s)) PROVE x \in Range(s)
    OBVIOUS
  <2>1. PICK i \in 1..(Len(s) - 1) : x = Tail(s)[i]
    BY <1>1 DEF Range
  <2>2. x = s[i + 1] /\ i + 1 \in 1..Len(s)
    BY <2>1, <1>1
  <2> QED
    BY <2>2, <1>1 DEF Range
<1>4. ASSUME Distintos(s)
      PROVE  Distintos(Tail(s)) /\ Range(Tail(s)) = Range(s) \ {Head(s)}
  <2>d. \A k, l \in 1..Len(s) : s[k] = s[l] => k = l
    BY <1>1, <1>4 DEF Distintos
  <2>1. Distintos(Tail(s))
    <3> SUFFICES ASSUME NEW i \in 1..(Len(s) - 1), NEW j \in 1..(Len(s) - 1),
                        Tail(s)[i] = Tail(s)[j]
                 PROVE  i = j
      BY <1>1 DEF Distintos
    <3>1. i + 1 \in 1..Len(s) /\ j + 1 \in 1..Len(s) /\ s[i + 1] = s[j + 1]
      BY <1>1
    <3> QED
      BY <3>1, <2>d
  <2>2. Head(s) \notin Range(Tail(s))
    <3> SUFFICES ASSUME Head(s) \in Range(Tail(s)) PROVE FALSE
      OBVIOUS
    <3>1. PICK i \in 1..(Len(s) - 1) : Head(s) = Tail(s)[i]
      BY <1>1 DEF Range
    <3>2. s[1] = s[i + 1] /\ i + 1 \in 1..Len(s) /\ 1 \in 1..Len(s) /\ i + 1 # 1
      BY <3>1, <1>1
    <3> QED
      BY <3>2, <2>d
  <2>3. ASSUME NEW x \in Range(s), x # Head(s) PROVE x \in Range(Tail(s))
    <3>1. PICK i \in 1..Len(s) : x = s[i]
      BY <1>1 DEF Range
    <3>2. i # 1
      BY <3>1, <2>3, <1>1
    <3>3. i - 1 \in 1..(Len(s) - 1) /\ Tail(s)[i - 1] = x
      BY <3>1, <3>2, <1>1
    <3> QED
      BY <3>3, <1>1 DEF Range
  <2> QED
    BY <2>1, <2>2, <2>3, <1>3
<1> QED
  BY <1>1, <1>2, <1>3, <1>4

\* What a sequence holds once an element is taken out of the middle.
LEMMA AlQuitar ==
    ASSUME NEW S, NEW s \in Seq(S), NEW i \in DOMAIN s, Distintos(s)
    PROVE  /\ RemoveAt(s, i) \in Seq(S) /\ Distintos(RemoveAt(s, i))
           /\ Range(RemoveAt(s, i)) = Range(s) \ {s[i]}
<1>0. Len(s) \in Nat /\ DOMAIN s = 1..Len(s) /\ i \in 1..Len(s) /\ i \in Nat
      /\ \A j \in 1..Len(s) : s[j] \in S
  BY LenProperties, ElementOfSeq
<1> DEFINE a == SubSeq(s, 1, i - 1)
           b == SubSeq(s, i + 1, Len(s))
           r == a \o b
<1>1. /\ a \in Seq(S) /\ Len(a) = i - 1
      /\ \A j \in 1..(i - 1) : a[j] = s[j]
  <2>1. \A j \in 1..(i - 1) : s[j] \in S
    BY <1>0
  <2>2. /\ a \in Seq(S) /\ Len(a) = IF 1 <= i - 1 THEN (i - 1) - 1 + 1 ELSE 0
        /\ \A j \in 1..((i - 1) - 1 + 1) : a[j] = s[1 + j - 1]
    BY <1>0, <2>1, SubSeqProperties
  <2> HIDE DEF a
  <2> QED
    BY <2>2, <1>0
<1>2. /\ b \in Seq(S) /\ Len(b) = Len(s) - i
      /\ \A j \in 1..(Len(s) - i) : b[j] = s[i + j]
  <2>1. \A j \in (i + 1)..Len(s) : s[j] \in S
    BY <1>0
  <2>2. /\ b \in Seq(S) /\ Len(b) = IF i + 1 <= Len(s) THEN Len(s) - (i + 1) + 1 ELSE 0
        /\ \A j \in 1..(Len(s) - (i + 1) + 1) : b[j] = s[(i + 1) + j - 1]
    BY <1>0, <2>1, SubSeqProperties
  <2> HIDE DEF b
  <2> QED
    BY <2>2, <1>0
<1> HIDE DEF a, b
<1>3. /\ r \in Seq(S) /\ Len(r) = Len(s) - 1
      /\ \A j \in 1..(Len(s) - 1) : r[j] = IF j < i THEN s[j] ELSE s[j + 1]
  <2>1. /\ r \in Seq(S) /\ Len(r) = Len(a) + Len(b)
        /\ \A j \in 1..(Len(a) + Len(b)) :
              r[j] = IF j <= Len(a) THEN a[j] ELSE b[j - Len(a)]
    BY <1>1, <1>2, ConcatProperties
  <2> HIDE DEF r
  <2>2. Len(r) = Len(s) - 1
    BY <2>1, <1>0, <1>1, <1>2
  <2>3. ASSUME NEW j \in 1..(Len(s) - 1)
        PROVE  r[j] = IF j < i THEN s[j] ELSE s[j + 1]
    <3>0. j \in 1..(Len(a) + Len(b))
      BY <1>0, <1>1, <1>2
    <3>1. CASE j < i
      <4>1. r[j] = a[j] /\ j \in 1..(i - 1)
        BY <3>0, <3>1, <2>1, <1>0, <1>1
      <4> QED
        BY <4>1, <3>1, <1>1
    <3>2. CASE ~ (j < i)
      <4>1. r[j] = b[j - (i - 1)] /\ j - (i - 1) \in 1..(Len(s) - i)
        BY <3>0, <3>2, <2>1, <1>0, <1>1
      <4>2. i + (j - (i - 1)) = j + 1
        BY <1>0
      <4> QED
        BY <4>1, <4>2, <3>2, <1>2
    <3> QED
      BY <3>1, <3>2
  <2> QED
    BY <2>1, <2>2, <2>3
<1>4. RemoveAt(s, i) = r
  BY DEF RemoveAt, r, a, b
<1> HIDE DEF r
<1>5. DOMAIN r = 1..(Len(s) - 1)
  BY <1>3, LenProperties
<1>d. \A k, l \in 1..Len(s) : s[k] = s[l] => k = l
  BY <1>0 DEF Distintos
<1>6. Distintos(r)
  <2> SUFFICES ASSUME NEW k \in 1..(Len(s) - 1), NEW l \in 1..(Len(s) - 1),
                      r[k] = r[l]
               PROVE  k = l
    BY <1>5 DEF Distintos
  <2> DEFINE k1 == IF k < i THEN k ELSE k + 1
             l1 == IF l < i THEN l ELSE l + 1
  <2>1. k1 \in 1..Len(s) /\ l1 \in 1..Len(s)
    BY <1>0
  <2>2. s[k1] = s[l1]
    BY <1>3
  <2>3. k1 = l1
    <3> HIDE DEF k1, l1
    <3> QED
      BY <2>1, <2>2, <1>d
  <2> QED
    BY <2>3, <1>0
<1>7. Range(r) = Range(s) \ {s[i]}
  <2>1. ASSUME NEW x \in Range(r) PROVE x \in Range(s) /\ x # s[i]
    <3>1. PICK j \in 1..(Len(s) - 1) : x = r[j]
      BY <1>5 DEF Range
    <3>2. PICK k \in 1..Len(s) : x = s[k] /\ k # i
      BY <3>1, <1>3, <1>0
    <3> QED
      BY <3>2, <1>0, <1>d DEF Range
  <2>2. ASSUME NEW x \in Range(s), x # s[i] PROVE x \in Range(r)
    <3>1. PICK k \in 1..Len(s) : x = s[k]
      BY <1>0 DEF Range
    <3>2. k # i
      BY <3>1, <2>2
    <3>3. CASE k < i
      <4>1. k \in 1..(Len(s) - 1) /\ r[k] = x
        BY <3>1, <3>3, <1>3, <1>0
      <4> QED
        BY <4>1, <1>5 DEF Range
    <3>4. CASE ~ (k < i)
      <4>1. k - 1 \in 1..(Len(s) - 1) /\ ~ (k - 1 < i) /\ (k - 1) + 1 = k
        BY <3>2, <3>4, <1>0
      <4>2. r[k - 1] = x
        BY <4>1, <3>1, <1>3
      <4> QED
        BY <4>1, <4>2, <1>5 DEF Range
    <3> QED
      BY <3>3, <3>4
  <2> QED
    BY <2>1, <2>2
<1> QED
  BY <1>3, <1>4, <1>6, <1>7

\* The order of the requests, once one is taken or put.
LEMMA EliminarAntesAlSacar ==
    ASSUME NEW s \in Seq(Pedido), s # <<>>, EliminarAntes(s)
    PROVE  /\ EliminarAntes(Tail(s))
           /\ EsDeCpu(Head(s)) =>
                 \A m \in Range(s) : m.op # "ELIMINAR_PROCESO"
<1>1. /\ DOMAIN Tail(s) = 1..(Len(s) - 1)
      /\ Head(s) = s[1] /\ DOMAIN s = 1..Len(s) /\ Len(s) \in Nat \ {0}
      /\ \A i \in 1..(Len(s) - 1) : Tail(s)[i] = s[i + 1]
  BY HeadTailProperties, EmptySeq, LenProperties
<1>2. \A i, j \in 1..Len(s) :
         EsDeCpu(s[i]) /\ s[j].op = "ELIMINAR_PROCESO" =>
             j < i /\ s[i].op # "COMPACTAR"
  BY <1>1 DEF EliminarAntes
<1>3. EliminarAntes(Tail(s))
  <2> SUFFICES ASSUME NEW i \in 1..(Len(s) - 1), NEW j \in 1..(Len(s) - 1),
                      EsDeCpu(Tail(s)[i]), Tail(s)[j].op = "ELIMINAR_PROCESO"
               PROVE  j < i /\ Tail(s)[i].op # "COMPACTAR"
    BY <1>1 DEF EliminarAntes
  <2>1. /\ Tail(s)[i] = s[i + 1] /\ Tail(s)[j] = s[j + 1]
        /\ i + 1 \in 1..Len(s) /\ j + 1 \in 1..Len(s)
    BY <1>1
  <2>2. j + 1 < i + 1 /\ s[i + 1].op # "COMPACTAR"
    BY <2>1, <1>2
  <2> QED
    BY <2>1, <2>2
<1>4. ASSUME EsDeCpu(Head(s)), NEW m \in Range(s), m.op = "ELIMINAR_PROCESO"
      PROVE  FALSE
  <2>1. PICK j \in 1..Len(s) : m = s[j]
    BY <1>1 DEF Range
  <2>2. 1 \in 1..Len(s) /\ j < 1
    BY <2>1, <1>4, <1>1, <1>2
  <2> QED
    BY <2>2
<1> QED
  BY <1>3, <1>4
LEMMA EliminarAntesAlAgregar ==
    ASSUME NEW s \in Seq(Pedido), NEW m \in Pedido, EliminarAntes(s),
           m.op = "ELIMINAR_PROCESO" => \A n \in Range(s) : ~ EsDeCpu(n),
           m.op = "COMPACTAR" => \A n \in Range(s) : n.op # "ELIMINAR_PROCESO"
    PROVE  EliminarAntes(Append(s, m))
<1>1. /\ DOMAIN Append(s, m) = 1..(Len(s) + 1)
      /\ Append(s, m)[Len(s) + 1] = m /\ DOMAIN s = 1..Len(s) /\ Len(s) \in Nat
      /\ \A i \in 1..Len(s) : Append(s, m)[i] = s[i]
  OBVIOUS
<1> SUFFICES ASSUME NEW i \in 1..(Len(s) + 1), NEW j \in 1..(Len(s) + 1),
                    EsDeCpu(Append(s, m)[i]),
                    Append(s, m)[j].op = "ELIMINAR_PROCESO"
             PROVE  j < i /\ Append(s, m)[i].op # "COMPACTAR"
  BY <1>1 DEF EliminarAntes
<1>2. CASE j = Len(s) + 1
  <2>1. i # j
    BY <1>2, <1>1 DEF EsDeCpu
  <2>2. i \in 1..Len(s) /\ s[i] \in Range(s) /\ EsDeCpu(s[i])
    BY <2>1, <1>1, <1>2 DEF Range
  <2> QED
    BY <2>2, <1>1, <1>2
<1>3. CASE j # Len(s) + 1
  <2>1. j \in 1..Len(s) /\ s[j].op = "ELIMINAR_PROCESO" /\ s[j] \in Range(s)
    BY <1>1, <1>3 DEF Range
  <2>2. CASE i = Len(s) + 1
    BY <2>1, <2>2, <1>1
  <2>3. CASE i # Len(s) + 1
    BY <2>1, <2>3, <1>1 DEF EliminarAntes
  <2> QED
    BY <2>2, <2>3
<1> QED
  BY <1>2, <1>3

-----------------------------------------------------------------------------
(* Lemmas about the messages.                                              *)

\* What each request carries.
LEMMA TipoDePedido ==
    ASSUME NEW m \in Pedido
    PROVE  /\ m.op \in Mensajes
           /\ m.op \in {"CREAR_PROCESO", "ELIMINAR_PROCESO"} =>
                 m.pid \in Pids /\ m = PidAMemoria(m.op, m.pid)
           /\ m.op = "CREAR_SEGMENTO" =>
                 m.pid \in Pids /\ m.id \in Ids /\ m.tamanio \in Tamanios
           /\ m.op = "ELIMINAR_SEGMENTO" => m.pid \in Pids /\ m.id \in Ids
           /\ m.op = "COMPACTAR" <=> m = Compactar
  BY DEF Pedido, Mensajes, PidAMemoria, Compactar

\* What each reply carries.
LEMMA TipoDeRespuesta ==
    ASSUME NEW m \in Respuesta
    PROVE  /\ m.para \in {"largo", "cpu"}
           /\ m.op = "TABLA_SEGMENTOS" => m.tabla \in SUBSET Segmento
           /\ TablaRecibida(m) \in SUBSET Segmento
           /\ m \in Tablas => m.op = "OK" /\ m.para = "cpu"
           /\ m \in Tablas => m.tablas \in Seq(TablaDeUno)
  BY DEF Respuesta, Rechazos, TablaRecibida, Tablas

\* The operands of an instruction.
LEMMA TipoDeInstruccion ==
    ASSUME TiposProcesos, actual \in Pids, pc[actual] \in DOMAIN programa[actual]
    PROVE  /\ Instruccion \in Instrucciones
           /\ Instruccion.op = "CREATE_SEGMENT" =>
                 Instruccion.id \in Ids /\ Instruccion.tamanio \in Tamanios
           /\ Instruccion.op \in {"DELETE_SEGMENT", "MOV_OUT"} =>
                 Instruccion.id \in Ids
<1>1. programa[actual] \in Seq(Instrucciones)
  BY ProgramasAssumption DEF TiposProcesos
<1>2. Instruccion \in Instrucciones
  BY <1>1 DEF Instruccion
<1> QED
  BY <1>2 DEF Instrucciones

\* Nothing is under way for a CPU thread that waits for nothing.
LEMMA SinPedidoDeCpu ==
    ASSUME PedidosEnOrden, pedidos \in Seq(Pedido),
           cpu \in {"libre", "ejecuta", "compacta"}
    PROVE  ~ CpuPide
  BY DEF PedidosEnOrden, Pedida, CpuPide, EsDeCpu
LEMMA SinRespuestaParaCpu ==
    ASSUME RespuestasEnOrden, TiposCanal,
           CpuPide \/ cpu \in {"libre", "ejecuta", "compacta"} \/ fase = "compacta"
    PROVE  \A m \in Range(respuestas) : m.para = "largo" /\ ParaLargo(m)
  BY TipoDeRespuesta DEF RespuestasEnOrden, ParaCpu, RespuestaACrear,
     RespuestaAEliminar, RespuestaACompactar

-----------------------------------------------------------------------------
(* The beginning.                                                          *)

LEMMA PidsEnNat ==
    /\ Pids \subseteq Nat \ {0} /\ Cardinality(Pids) \in Nat
    /\ \A p \in Nat : p \in Pids <=> 1 <= p /\ p <= Cardinality(Pids)
<1>1. Cardinality(Pids) \in Nat
  BY PidsAssumption, FS_CardinalityType
<1> QED
  BY <1>1, PidsAssumption

LEMMA RangoVacio == Range(<<>>) = {}
  BY DEF Range

LEMMA InvSocketInit == InitSocket => InvSocket
<1> SUFFICES ASSUME InitSocket
             PROVE  InvSocket
  OBVIOUS
<1>1. Inv
  BY InvInit DEF InitSocket
<1>2. TiposCanal
  BY RangoVacio DEF InitSocket, Init, TiposCanal, Distintos
<1>3. TiposHilos
  BY PidsEnNat, GradoAssumption DEF InitSocket, TiposHilos, Distintos
<1>4. TiposProcesos /\ TiposDeDatos
  <2>1. \A p \in Pids : (tabla[p] \in SUBSET Segmento) /\ (pc[p] \in Nat \ {0})
                        /\ (escritos[p] \in SUBSET Ids)
    BY DEF InitSocket
  <2> QED
    BY <2>1 DEF InitSocket, TiposProcesos, TiposDeDatos
<1>5. Lugares
  BY PidsEnNat, RangoVacio DEF InitSocket, Lugares, Publicados
<1>6. GradoExacto
  BY FS_EmptySet, GradoAssumption DEF InitSocket, GradoExacto, Uno
<1>7. EnOrden
  <2>1. ProcesosDeLaMemoria /\ SegmentosConDueno
    BY PidsEnNat DEF InitSocket, Init, ProcesosDeLaMemoria, SegmentosConDueno, Creado,
       SegmentoCero
  <2>2. PedidosEnOrden /\ RespuestasEnOrden
    BY RangoVacio DEF InitSocket, PedidosEnOrden, RespuestasEnOrden, EliminarAntes
  <2>3. FaseEnOrden
    BY DEF InitSocket, Init, FaseEnOrden
  <2>4. TablasEnCamino
    BY PidsEnNat DEF InitSocket, TablasEnCamino, Admitidos
  <2> QED
    BY <2>1, <2>2, <2>3, <2>4 DEF EnOrden
<1> QED
  BY <1>1, <1>2, <1>3, <1>4, <1>5, <1>6, <1>7
     DEF InvSocket, InvHilos, Tipos, SeCruzanAlIngresar, InitSocket

-----------------------------------------------------------------------------
(* The memory behind the socket is the one of Memoria.                     *)

\* A step of the system is a step of the memory, or changes nothing of it.
LEMMA PasoDeMemoria ==
    ASSUME TiposCanal, NextSocket
    PROVE  [Next]_vars
<1>1. CASE (HiloLargo \/ HiloCpu) /\ UNCHANGED <<vars, programa, orden>>
  BY <1>1
<1>2. CASE Memoria /\ UNCHANGED algoritmo
  <2>1. CASE AtenderPedido
    <3> DEFINE m == Head(pedidos)
    <3>1. m \in Pedido
      BY <2>1, AlSacar DEF AtenderPedido, TiposCanal
    <3> HIDE DEF m
    <3>2. CASE AtenderCrearProceso(m)
      <4>1. m.pid \in Pids /\ CrearProceso(m.pid)
        BY <3>1, <3>2, TipoDePedido DEF AtenderCrearProceso
      <4> QED
        BY <4>1, <1>2 DEF Next, Atiende
    <3>3. CASE AtenderEliminarProceso(m)
      <4>1. m.pid \in Pids /\ EliminarProceso(m.pid)
        BY <3>1, <3>3, TipoDePedido DEF AtenderEliminarProceso
      <4> QED
        BY <4>1, <1>2 DEF Next, Atiende
    <3>4. CASE AtenderCrearSegmento(m)
      <4>1. /\ m.pid \in Pids /\ m.id \in Ids /\ m.tamanio \in Tamanios
            /\ PedidoCrearSegmento(m.pid, m.id, m.tamanio)
        BY <3>1, <3>4, TipoDePedido DEF AtenderCrearSegmento
      <4> QED
        BY <4>1, <1>2 DEF Next, Atiende
    <3>5. CASE AtenderEliminarSegmento(m)
      <4>1. m.pid \in Pids /\ m.id \in Ids
        BY <3>1, <3>5, TipoDePedido DEF AtenderEliminarSegmento
      <4>2. CASE EliminarSegmento(m.pid, m.id)
        BY <4>1, <4>2, <1>2 DEF Next, Atiende
      <4>3. CASE UNCHANGED <<procesos, segmentos, huecos, fase, compactacion>>
        BY <4>3, <1>2 DEF vars, compactacion
      <4> QED
        BY <4>2, <4>3, <3>5 DEF AtenderEliminarSegmento
    <3> QED
      BY <2>1, <3>2, <3>3, <3>4, <3>5 DEF AtenderPedido, m
  <2>2. CASE AtenderCompactar
    <3>1. CASE RecibirCompactar
      BY <3>1, <1>2 DEF Next, Atiende
    <3>2. CASE UNCHANGED vars
      BY <3>2
    <3> QED
      BY <2>2, <3>1, <3>2 DEF AtenderCompactar
  <2>3. CASE MoverUno
    BY <2>3, <1>2 DEF MoverUno, Next, Atiende
  <2>4. CASE TerminarPedidoCompactar
    BY <2>4, <1>2 DEF TerminarPedidoCompactar, ResponderTablas, Next, Atiende
  <2> QED
    BY <1>2, <2>1, <2>2, <2>3, <2>4 DEF Memoria
<1> QED
  BY <1>1, <1>2 DEF NextSocket

-----------------------------------------------------------------------------
(* The long-term planner.                                                  *)

LEMMA TerminadosFinito ==
    ASSUME TiposHilos
    PROVE  IsFiniteSet(terminados) /\ Cardinality(terminados) \in Nat
<1>1. IsFiniteSet(terminados)
  BY PidsAssumption, FS_Subset DEF TiposHilos
<1> QED
  BY <1>1, FS_CardinalityType

\* A reply for the CPU thread stays what it was while the other thread moves on.
LEMMA ParaCpuSigue ==
    ASSUME NEW m, ParaCpu(m), ~ CpuPide',
           UNCHANGED <<procesos, segmentos, fase, programa, cpu, actual, pc>>,
           cpu = "crea" => tabla'[actual] = tabla[actual],
           largo # "recibe" \/ Head(respuestas) # m
    PROVE  ParaCpu(m)'
<1>1. \A p : Tabla(p)' = Tabla(p)
  BY DEF Tabla
<1>2. CASE RespuestaACrear(m)
  <2>1. \A b : Nuevo(b)' = Nuevo(b)
    BY DEF Nuevo, Instruccion
  <2>2. RespuestaACrear(m)'
    BY <1>1, <1>2, <2>1 DEF RespuestaACrear
  <2> QED
    BY <2>2 DEF ParaCpu
<1>3. CASE RespuestaAEliminar(m)
  <2>1. RespuestaAEliminar(m)'
    BY <1>1, <1>3 DEF RespuestaAEliminar
  <2> QED
    BY <2>1 DEF ParaCpu
<1>4. CASE RespuestaACompactar(m)
  <2>1. TablasFieles(m)'
    BY <1>1, <1>4 DEF RespuestaACompactar, TablasFieles
  <2>2. RespuestaACompactar(m)'
    BY <1>4, <2>1 DEF RespuestaACompactar
  <2> QED
    BY <2>2 DEF ParaCpu
<1> QED
  BY <1>2, <1>3, <1>4 DEF ParaCpu

\* The state that a thread of the kernel leaves to the memory.
LEMMA InvLargoPide ==
    ASSUME InvSocket, sano, LargoPide,
           UNCHANGED <<vars, programa, orden, contenido>>
    PROVE  InvHilos'
<1> DEFINE pide == PidAMemoria("CREAR_PROCESO", proximo)
<1>a. /\ largo = "libre" /\ proximo \in Pids /\ grado > 0
      /\ grado' = grado - 1 /\ largo' = "recibe" /\ pedidos' = Append(pedidos, pide)
      /\ UNCHANGED <<respuestas, proximo, listos, globales, cpu, actual, pc, tabla,
                     terminados, sano>>
      /\ UNCHANGED <<procesos, segmentos, fase, programa, orden, escritos, espacio>>
  BY DEF LargoPide, Enviar, vars, contenido
<1>i. /\ TiposCanal /\ TiposHilos /\ TiposProcesos /\ TiposDeDatos
      /\ Lugares /\ GradoExacto /\ EnOrden
  BY DEF InvSocket, InvHilos, Tipos
<1>b. pide \in Pedido /\ pide.op = "CREAR_PROCESO" /\ pide.pid = proximo
  BY <1>a DEF PidAMemoria, Pedido
<1> HIDE DEF pide
<1>c. \A m \in Range(pedidos) : m.op # "CREAR_PROCESO"
  BY <1>a, <1>i DEF EnOrden, PedidosEnOrden, Pedida
<1>d. /\ pedidos' \in Seq(Pedido) /\ Range(pedidos') = Range(pedidos) \cup {pide}
      /\ Distintos(pedidos')
  BY <1>a, <1>b, <1>c, <1>i, AlAgregar DEF TiposCanal
<1>e. CpuPide' <=> CpuPide
  BY <1>b, <1>d DEF CpuPide, EsDeCpu
<1>1. TiposCanal'
  BY <1>a, <1>d, <1>i DEF TiposCanal
<1>2. TiposHilos'
  BY <1>a, <1>i DEF TiposHilos
<1>3. TiposProcesos' /\ TiposDeDatos'
  BY <1>a, <1>i DEF TiposProcesos, TiposDeDatos, Instruccion, Direcciones
<1>4. Lugares'
  BY <1>a, <1>i DEF Lugares, Publicados
<1>5. GradoExacto'
  BY <1>a, <1>i, TerminadosFinito, GradoAssumption, PidsEnNat
     DEF GradoExacto, TiposHilos, Uno
<1>6. ProcesosDeLaMemoria'
  <2>1. CreacionPendiente'
    BY <1>b, <1>d DEF CreacionPendiente
  <2>2. \A p \in Pids : Creado(p)' <=> Creado(p)
    BY <1>a, <2>1 DEF Creado
  <2>3. \A p \in Pids : EliminacionPendiente(p)' <=> EliminacionPendiente(p)
    BY <1>b, <1>d DEF EliminacionPendiente, PidAMemoria
  <2> QED
    BY <1>a, <1>i, <2>2, <2>3 DEF EnOrden, ProcesosDeLaMemoria
<1>7. SegmentosConDueno'
  BY <1>a, <1>i DEF EnOrden, SegmentosConDueno, Publicados
<1>8. PedidosEnOrden'
  <2>1. \A m \in Range(pedidos') : Pedida(m)'
    BY <1>a, <1>b, <1>c, <1>d, <1>i DEF EnOrden, PedidosEnOrden, Pedida, Instruccion
  <2>2. EliminarAntes(pedidos')
    BY <1>a, <1>b, <1>i, EliminarAntesAlAgregar DEF EnOrden, PedidosEnOrden, TiposCanal
  <2> QED
    BY <1>a, <1>b, <1>d, <1>e, <1>i, <2>1, <2>2 DEF EnOrden, PedidosEnOrden, CpuEspera
<1>9. RespuestasEnOrden'
  <2>1. ASSUME NEW m \in Range(respuestas) PROVE m.para # "largo" /\ ParaCpu(m)'
    <3>1. m.para # "largo" /\ ParaCpu(m)
      BY <1>a, <1>i DEF EnOrden, RespuestasEnOrden, ParaLargo
    <3> QED
      BY <1>a, <1>e, <3>1, ParaCpuSigue DEF ParaCpu
  <2> QED
    BY <1>a, <1>i, <2>1 DEF EnOrden, RespuestasEnOrden
<1>10. FaseEnOrden'
  BY <1>a, <1>e, <1>i DEF EnOrden, FaseEnOrden, HayParaCpu
<1>11. TablasEnCamino'
  BY <1>a, <1>i DEF EnOrden, TablasEnCamino, Admitidos, Trae, Tabla
<1>12. SeCruzanAlIngresar'
  BY <1>a DEF SeCruzanAlIngresar
<1> QED
  BY <1>1, <1>2, <1>3, <1>4, <1>5, <1>6, <1>7, <1>8, <1>9, <1>10, <1>11, <1>12
     DEF InvHilos, Tipos, EnOrden

LEMMA InvLargoRecibe ==
    ASSUME InvSocket, sano, LargoRecibe,
           UNCHANGED <<vars, programa, orden, contenido>>
    PROVE  InvHilos'
<1> DEFINE r == Head(respuestas)
<1>a. /\ largo = "recibe" /\ respuestas # <<>> /\ respuestas' = Tail(respuestas)
      /\ tabla' = [tabla EXCEPT ![proximo] = TablaRecibida(r)]
      /\ sano' = (r.para = "largo") /\ largo' = "publica"
      /\ UNCHANGED <<pedidos, proximo, grado, listos, globales, cpu, actual, pc,
                     terminados>>
      /\ UNCHANGED <<procesos, segmentos, fase, programa, orden, escritos, espacio>>
  BY DEF LargoRecibe, vars, contenido
<1>i. /\ TiposCanal /\ TiposHilos /\ TiposProcesos /\ TiposDeDatos
      /\ Lugares /\ GradoExacto /\ EnOrden
  BY DEF InvSocket, InvHilos, Tipos
<1>b. /\ r \in Respuesta /\ r \in Range(respuestas)
      /\ respuestas' \in Seq(Respuesta) /\ Distintos(respuestas')
      /\ Range(respuestas') = Range(respuestas) \ {r}
  BY <1>a, <1>i, AlSacar DEF TiposCanal
<1> HIDE DEF r
<1>p. proximo \in Pids
  BY <1>a, <1>i DEF TiposHilos
<1>1. TiposCanal'
  BY <1>a, <1>b, <1>i DEF TiposCanal
<1>2. TiposHilos'
  <2>1. sano' \in BOOLEAN
    BY <1>a
  <2> QED
    BY <1>a, <1>i, <2>1 DEF TiposHilos
<1>3. TiposProcesos' /\ TiposDeDatos'
  <2>1. tabla' \in [Pids -> SUBSET Segmento]
    BY <1>a, <1>b, <1>i, TipoDeRespuesta DEF TiposProcesos
  <2> QED
    BY <1>a, <1>i, <2>1 DEF TiposProcesos, TiposDeDatos, Instruccion, Direcciones
<1>4. Lugares'
  BY <1>a, <1>i DEF Lugares, Publicados
<1>5. GradoExacto'
  BY <1>a, <1>i DEF GradoExacto, Uno
<1>6. SeCruzanAlIngresar'
  BY <1>a DEF SeCruzanAlIngresar
<1>7. ASSUME sano' PROVE EnOrden'
  <2>r. r.para = "largo" /\ ParaLargo(r) /\ ~ CreacionPendiente
    BY <1>7, <1>a, <1>b, <1>i DEF EnOrden, RespuestasEnOrden, ParaLargo
  <2>t. TablaRecibida(r) = {SegmentoCero}
    BY <2>r DEF ParaLargo, TablaRecibida
  <2>d. ~ CreacionPendiente' /\ (CpuPide' <=> CpuPide)
    BY <1>a, <2>r DEF CreacionPendiente, CpuPide
  <2>1. ProcesosDeLaMemoria'
    <3>1. \A p \in Pids : Creado(p)' <=> Creado(p)
      BY <1>a, <2>r DEF Creado
    <3> QED
      BY <1>a, <1>i, <3>1 DEF EnOrden, ProcesosDeLaMemoria, EliminacionPendiente
  <2>2. SegmentosConDueno'
    BY <1>a, <1>i DEF EnOrden, SegmentosConDueno, Publicados
  <2>3. PedidosEnOrden'
    <3>1. \A m \in Range(pedidos) : Pedida(m)'
      BY <1>a, <1>i, <2>r DEF EnOrden, PedidosEnOrden, Pedida, Instruccion,
         CreacionPendiente
    <3> QED
      BY <1>a, <1>i, <2>d, <3>1 DEF EnOrden, PedidosEnOrden, CpuEspera
  <2>4. RespuestasEnOrden'
    <3>1. ASSUME NEW m \in Range(respuestas') PROVE m.para # "largo" /\ ParaCpu(m)'
      <4>1. m.para # "largo" /\ ParaCpu(m) /\ m # r
        BY <1>b, <1>i, <2>r DEF EnOrden, RespuestasEnOrden
      <4>2. cpu = "crea" => tabla'[actual] = tabla[actual]
        BY <1>a, <1>i DEF TiposProcesos, TiposHilos, Lugares, Publicados
      <4> QED
        BY <1>a, <2>d, <4>1, <4>2, ParaCpuSigue DEF ParaCpu, r
    <3> QED
      BY <1>b, <1>i, <3>1 DEF EnOrden, RespuestasEnOrden
  <2>5. FaseEnOrden'
    <3>1. HayParaCpu => HayParaCpu'
      BY <1>b, <2>r DEF HayParaCpu
    <3> QED
      BY <1>a, <1>i, <2>d, <3>1 DEF EnOrden, FaseEnOrden
  <2>6. TablasEnCamino'
    <3> SUFFICES ASSUME NEW p \in Admitidos'
                 PROVE  \/ tabla'[p] = Tabla(p)'
                        \/ fase' = "compacta"
                        \/ \E m \in Range(respuestas') : Trae(p, m)'
      BY DEF TablasEnCamino
    <3>1. CASE p = proximo
      <4>1. Tabla(p)' = {SegmentoCero}
        <5>1. proximo \notin Publicados /\ proximo # Compartido
          BY <1>a, <1>p, PidsEnNat, IdsAssumption DEF Publicados
        <5>2. SegmentoCero \in segmentos /\ SegmentoCero.pid = Compartido
          BY DEF InvSocket, Inv, SegmentoCero
        <5> QED
          BY <1>a, <1>i, <3>1, <5>1, <5>2 DEF EnOrden, SegmentosConDueno, Tabla
      <4>2. tabla'[p] = {SegmentoCero}
        BY <1>a, <1>i, <1>p, <2>t, <3>1 DEF TiposProcesos
      <4> QED
        BY <4>1, <4>2
    <3>2. CASE p # proximo
      <4>1. p \in Admitidos /\ p \in Pids
        BY <1>a, <3>2 DEF Admitidos
      <4>2. tabla'[p] = tabla[p] /\ Tabla(p)' = Tabla(p)
        BY <1>a, <1>i, <3>2, <4>1 DEF TiposProcesos, Tabla
      <4>3. ASSUME NEW m \in Range(respuestas), Trae(p, m)
            PROVE  m \in Range(respuestas') /\ Trae(p, m)'
        BY <1>a, <1>b, <2>r, <4>3 DEF Trae
      <4> QED
        BY <1>a, <1>i, <4>1, <4>2, <4>3 DEF EnOrden, TablasEnCamino
    <3> QED
      BY <3>1, <3>2
  <2> QED
    BY <2>1, <2>2, <2>3, <2>4, <2>5, <2>6 DEF EnOrden
<1> QED
  BY <1>1, <1>2, <1>3, <1>4, <1>5, <1>6, <1>7 DEF InvHilos, Tipos

LEMMA InvLargoPublica ==
    ASSUME InvSocket, sano, LargoPublica,
           UNCHANGED <<vars, programa, orden, contenido>>
    PROVE  InvHilos'
<1>a. /\ largo = "publica" /\ listos' = Append(listos, proximo)
      /\ largo' = "registra"
      /\ UNCHANGED <<pedidos, respuestas, proximo, grado, globales, cpu, actual, pc,
                     tabla, terminados, sano>>
      /\ UNCHANGED <<procesos, segmentos, fase, programa, orden, escritos, espacio>>
  BY DEF LargoPublica, vars, contenido, canal
<1>i. /\ TiposCanal /\ TiposHilos /\ TiposProcesos /\ TiposDeDatos
      /\ Lugares /\ GradoExacto /\ EnOrden
  BY DEF InvSocket, InvHilos, Tipos
<1>p. proximo \in Pids /\ proximo \in Nat \ {0}
  BY <1>a, <1>i, PidsEnNat DEF TiposHilos
<1>n. proximo \notin Publicados /\ Publicados' = Publicados \cup {proximo}
  BY <1>a, <1>p, PidsEnNat DEF Publicados
<1>b. /\ listos' \in Seq(Pids) /\ Distintos(listos')
      /\ Range(listos') = Range(listos) \cup {proximo}
  BY <1>a, <1>i, <1>p, <1>n, AlAgregar DEF TiposHilos, Lugares
<1>1. TiposCanal'
  BY <1>a, <1>i DEF TiposCanal
<1>2. TiposHilos'
  BY <1>a, <1>b, <1>i, <1>p DEF TiposHilos
<1>3. TiposProcesos' /\ TiposDeDatos'
  BY <1>a, <1>i DEF TiposProcesos, TiposDeDatos, Instruccion, Direcciones
<1>4. Lugares'
  <2>1. proximo # actual /\ proximo \notin terminados
    BY <1>i, <1>n, <1>p DEF Lugares, TiposHilos
  <2> QED
    BY <1>a, <1>b, <1>i, <1>n, <2>1 DEF Lugares
<1>5. GradoExacto'
  BY <1>a, <1>i DEF GradoExacto, Uno
<1>6. SeCruzanAlIngresar'
  BY <1>a DEF SeCruzanAlIngresar
<1>7. EnOrden'
  <2>d. /\ CreacionPendiente' <=> CreacionPendiente
        /\ CpuPide' <=> CpuPide
    BY <1>a DEF CreacionPendiente, CpuPide
  <2>1. ProcesosDeLaMemoria'
    <3>1. \A p \in Pids : Creado(p)' <=> Creado(p)
      BY <1>a DEF Creado
    <3> QED
      BY <1>a, <1>i, <3>1 DEF EnOrden, ProcesosDeLaMemoria, EliminacionPendiente
  <2>2. SegmentosConDueno'
    BY <1>a, <1>i, <1>n DEF EnOrden, SegmentosConDueno
  <2>3. PedidosEnOrden'
    <3>1. \A m \in Range(pedidos) : Pedida(m)'
      BY <1>a, <1>i DEF EnOrden, PedidosEnOrden, Pedida, Instruccion
    <3> QED
      BY <1>a, <1>i, <2>d, <3>1 DEF EnOrden, PedidosEnOrden, CpuEspera
  <2>4. RespuestasEnOrden'
    <3>1. ASSUME NEW m \in Range(respuestas) PROVE m.para # "largo" /\ ParaCpu(m)'
      <4>1. m.para # "largo" /\ ParaCpu(m)
        BY <1>a, <1>i DEF EnOrden, RespuestasEnOrden, ParaLargo
      <4> QED
        BY <1>a, <2>d, <4>1, ParaCpuSigue DEF ParaCpu
    <3> QED
      BY <1>a, <1>i, <3>1 DEF EnOrden, RespuestasEnOrden
  <2>5. FaseEnOrden'
    BY <1>a, <1>i, <2>d DEF EnOrden, FaseEnOrden, HayParaCpu
  <2>6. TablasEnCamino'
    BY <1>a, <1>i DEF EnOrden, TablasEnCamino, Admitidos, Trae, Tabla
  <2> QED
    BY <2>1, <2>2, <2>3, <2>4, <2>5, <2>6 DEF EnOrden
<1> QED
  BY <1>1, <1>2, <1>3, <1>4, <1>5, <1>6, <1>7 DEF InvHilos, Tipos

LEMMA InvLargoRegistra ==
    ASSUME InvSocket, sano, LargoRegistra,
           UNCHANGED <<vars, programa, orden, contenido>>
    PROVE  InvHilos'
<1>a. /\ largo = "registra" /\ globales' = globales \cup {proximo}
      /\ proximo' = proximo + 1 /\ largo' = "libre"
      /\ UNCHANGED <<pedidos, respuestas, grado, listos, cpu, actual, pc, tabla,
                     terminados, sano>>
      /\ UNCHANGED <<procesos, segmentos, fase, programa, orden, escritos, espacio>>
  BY DEF LargoRegistra, vars, contenido, canal
<1>i. /\ TiposCanal /\ TiposHilos /\ TiposProcesos /\ TiposDeDatos
      /\ Lugares /\ GradoExacto /\ EnOrden
  BY DEF InvSocket, InvHilos, Tipos
<1>p. /\ proximo \in Pids /\ proximo \in Nat \ {0}
      /\ proximo <= Cardinality(Pids) /\ Cardinality(Pids) \in Nat
  BY <1>a, <1>i, PidsEnNat DEF TiposHilos
<1>m. \A p \in Pids : p < proximo + 1 <=> p < proximo \/ p = proximo
  BY <1>p, PidsEnNat
<1>n. Publicados' = Publicados
  BY <1>a, <1>m DEF Publicados
<1>1. TiposCanal'
  BY <1>a, <1>i DEF TiposCanal
<1>2. TiposHilos'
  <2>1. proximo' \in 1..(Cardinality(Pids) + 1)
    BY <1>a, <1>p
  <2> QED
    BY <1>a, <1>i, <1>p, <2>1 DEF TiposHilos
<1>3. TiposProcesos' /\ TiposDeDatos'
  BY <1>a, <1>i DEF TiposProcesos, TiposDeDatos, Instruccion, Direcciones
<1>4. Lugares'
  <2>1. \A p \in globales' : p < proximo'
    BY <1>a, <1>i, <1>m, <1>p DEF Lugares, TiposHilos
  <2>2. \A p \in Pids \ terminados' : p < proximo' => p \in globales'
    BY <1>a, <1>i, <1>m DEF Lugares
  <2> QED
    BY <1>a, <1>i, <1>n, <2>1, <2>2 DEF Lugares
<1>5. GradoExacto'
  BY <1>a, <1>i, <1>p, TerminadosFinito, GradoAssumption
     DEF GradoExacto, Uno, TiposHilos
<1>6. SeCruzanAlIngresar'
  BY <1>a DEF SeCruzanAlIngresar
<1>7. EnOrden'
  <2>d. CpuPide' <=> CpuPide
    BY <1>a DEF CpuPide
  <2>1. ProcesosDeLaMemoria'
    <3>1. \A p \in Pids : Creado(p)' <=> Creado(p)
      <4>1. \A p \in Pids : Creado(p)' <=> p < proximo + 1
        BY <1>a DEF Creado
      <4>2. \A p \in Pids : Creado(p) <=> p < proximo \/ p = proximo
        BY <1>a DEF Creado
      <4> QED
        BY <4>1, <4>2, <1>m
    <3> QED
      BY <1>a, <1>i, <3>1 DEF EnOrden, ProcesosDeLaMemoria, EliminacionPendiente
  <2>2. SegmentosConDueno'
    BY <1>a, <1>i, <1>n DEF EnOrden, SegmentosConDueno
  <2>3. PedidosEnOrden'
    <3>1. \A m \in Range(pedidos) : Pedida(m)'
      BY <1>a, <1>i DEF EnOrden, PedidosEnOrden, Pedida, Instruccion
    <3> QED
      BY <1>a, <1>i, <2>d, <3>1 DEF EnOrden, PedidosEnOrden, CpuEspera
  <2>4. RespuestasEnOrden'
    <3>1. ASSUME NEW m \in Range(respuestas) PROVE m.para # "largo" /\ ParaCpu(m)'
      <4>1. m.para # "largo" /\ ParaCpu(m)
        BY <1>a, <1>i DEF EnOrden, RespuestasEnOrden, ParaLargo
      <4> QED
        BY <1>a, <2>d, <4>1, ParaCpuSigue DEF ParaCpu
    <3> QED
      BY <1>a, <1>i, <3>1 DEF EnOrden, RespuestasEnOrden
  <2>5. FaseEnOrden'
    BY <1>a, <1>i, <2>d DEF EnOrden, FaseEnOrden, HayParaCpu
  <2>6. TablasEnCamino'
    <3>1. Admitidos' = Admitidos
      BY <1>a, <1>m DEF Admitidos
    <3> QED
      BY <1>a, <1>i, <3>1 DEF EnOrden, TablasEnCamino, Trae, Tabla
  <2> QED
    BY <2>1, <2>2, <2>3, <2>4, <2>5, <2>6 DEF EnOrden
<1> QED
  BY <1>1, <1>2, <1>3, <1>4, <1>5, <1>6, <1>7 DEF InvHilos, Tipos

-----------------------------------------------------------------------------
(* The CPU thread, with nothing of its own under way.                      *)

\* While the CPU thread waits for nothing, every table is the memory's.
LEMMA SinMensajesDeCpu ==
    ASSUME InvSocket, sano, cpu \in {"libre", "ejecuta"}
    PROVE  /\ ~ CpuPide /\ fase = "atiende"
           /\ \A m \in Range(respuestas) : m.para = "largo"
           /\ \A p \in Admitidos : tabla[p] = Tabla(p)
<1>i. TiposCanal /\ EnOrden /\ fase \in {"atiende", "espera_kernel", "compacta"}
  BY DEF InvSocket, InvHilos, Tipos, Inv, TypeOK
<1>1. ~ CpuPide
  BY <1>i, SinPedidoDeCpu DEF EnOrden, TiposCanal
<1>2. fase = "atiende"
  BY <1>i, <1>1 DEF EnOrden, FaseEnOrden
<1>3. \A m \in Range(respuestas) : m.para = "largo"
  BY <1>i, SinRespuestaParaCpu DEF EnOrden
<1>4. \A p \in Admitidos : tabla[p] = Tabla(p)
  BY <1>i, <1>2, <1>3 DEF EnOrden, TablasEnCamino, Trae
<1> QED
  BY <1>1, <1>2, <1>3, <1>4

\* A step after which the CPU thread waits for nothing.
LEMMA EnOrdenEnCalma ==
    ASSUME EnOrden, fase = "atiende", ~ CpuPide,
           UNCHANGED <<procesos, segmentos, fase, pedidos, proximo, largo,
                       terminados>>,
           cpu' \in {"libre", "ejecuta"},
           Range(respuestas') \subseteq {m \in Range(respuestas) : m.para = "largo"},
           \A p \in Admitidos : tabla'[p] = Tabla(p)
    PROVE  EnOrden'
<1>d. /\ CreacionPendiente' <=> CreacionPendiente
      /\ ~ CpuPide'
  BY DEF CreacionPendiente, CpuPide
<1>1. ProcesosDeLaMemoria' /\ SegmentosConDueno'
  <2>1. \A p \in Pids : Creado(p)' <=> Creado(p)
    BY <1>d DEF Creado
  <2> QED
    BY <2>1 DEF EnOrden, ProcesosDeLaMemoria, SegmentosConDueno, EliminacionPendiente,
       Publicados
<1>2. PedidosEnOrden'
  <2>1. \A m \in Range(pedidos) : ~ EsDeCpu(m)
    BY DEF CpuPide
  <2>2. \A m \in Range(pedidos) : Pedida(m)'
    BY <2>1 DEF EnOrden, PedidosEnOrden, Pedida, EsDeCpu
  <2> QED
    BY <2>2 DEF EnOrden, PedidosEnOrden, CpuEspera
<1>3. RespuestasEnOrden'
  <2>1. \A m \in Range(respuestas') : m.para = "largo" /\ ParaLargo(m)'
    BY <1>d DEF EnOrden, RespuestasEnOrden, ParaLargo
  <2> QED
    BY <2>1 DEF EnOrden, RespuestasEnOrden
<1>4. FaseEnOrden'
  BY DEF FaseEnOrden
<1>5. TablasEnCamino'
  BY DEF TablasEnCamino, Admitidos, Tabla
<1> QED
  BY <1>1, <1>2, <1>3, <1>4, <1>5 DEF EnOrden

LEMMA InvCpuToma ==
    ASSUME InvSocket, sano, CpuToma,
           UNCHANGED <<vars, programa, orden, contenido>>
    PROVE  InvHilos'
<1>a. /\ cpu = "libre" /\ listos # <<>> /\ actual' = Head(listos)
      /\ listos' = Tail(listos) /\ cpu' = "ejecuta"
      /\ UNCHANGED <<pedidos, respuestas, proximo, grado, largo, globales, pc, tabla,
                     terminados, sano>>
      /\ UNCHANGED <<procesos, segmentos, fase, programa, orden, escritos, espacio>>
  BY DEF CpuToma, vars, contenido, canal
<1>i. /\ TiposCanal /\ TiposHilos /\ TiposProcesos /\ TiposDeDatos
      /\ Lugares /\ GradoExacto /\ EnOrden
  BY DEF InvSocket, InvHilos, Tipos
<1>b. /\ actual' \in Pids /\ actual' \in Range(listos)
      /\ listos' \in Seq(Pids) /\ Distintos(listos')
      /\ Range(listos') = Range(listos) \ {actual'}
  BY <1>a, <1>i, AlSacar DEF TiposHilos
<1>1. TiposCanal' /\ TiposDeDatos'
  BY <1>a, <1>i DEF TiposCanal, TiposDeDatos, Direcciones
<1>2. TiposHilos'
  <2>1. actual' # 0
    BY <1>b, PidsEnNat
  <2> QED
    BY <1>a, <1>b, <1>i, <2>1 DEF TiposHilos
<1>3. TiposProcesos'
  BY <1>a, <1>i DEF TiposProcesos
<1>4. Lugares'
  BY <1>a, <1>b, <1>i DEF Lugares, Publicados
<1>5. GradoExacto' /\ SeCruzanAlIngresar'
  BY <1>a, <1>i DEF GradoExacto, SeCruzanAlIngresar
<1>6. EnOrden'
  BY <1>a, <1>i, SinMensajesDeCpu, EnOrdenEnCalma
<1> QED
  BY <1>1, <1>2, <1>3, <1>4, <1>5, <1>6 DEF InvHilos, Tipos

LEMMA InvEscribir ==
    ASSUME InvSocket, sano, cpu = "ejecuta", Escribir,
           pc[actual] \in DOMAIN programa[actual],
           UNCHANGED <<vars, programa, orden, respuestas, proximo, largo, sano>>
    PROVE  InvHilos'
<1>a. /\ pc' = [pc EXCEPT ![actual] = @ + 1]
      /\ UNCHANGED <<pedidos, grado, listos, globales, cpu, actual, tabla, terminados>>
      /\ UNCHANGED <<procesos, segmentos, fase>>
      /\ escritos' = [escritos EXCEPT ![actual] = @ \cup {Instruccion.id}]
      /\ Instruccion.op = "MOV_OUT" /\ DOMAIN espacio' = Direcciones
  BY DEF Escribir, Avanza, vars
<1>i. /\ TiposCanal /\ TiposHilos /\ TiposProcesos /\ TiposDeDatos
      /\ Lugares /\ GradoExacto /\ EnOrden
  BY DEF InvSocket, InvHilos, Tipos
<1>b. actual \in Pids
  BY <1>i DEF TiposHilos
<1>1. TiposCanal' /\ TiposHilos'
  BY <1>a, <1>i DEF TiposCanal, TiposHilos
<1>2. TiposDeDatos'
  <2>1. Instruccion.id \in Ids
    BY <1>a, <1>b, <1>i, TipoDeInstruccion
  <2> QED
    BY <1>a, <1>b, <1>i, <2>1 DEF TiposDeDatos, Direcciones
<1>3. TiposProcesos'
  <2>1. pc' \in [Pids -> Nat \ {0}]
    BY <1>a, <1>b, <1>i DEF TiposProcesos
  <2> QED
    BY <1>a, <1>i, <2>1 DEF TiposProcesos
<1>4. Lugares' /\ GradoExacto' /\ SeCruzanAlIngresar'
  BY <1>a, <1>i DEF Lugares, Publicados, GradoExacto, SeCruzanAlIngresar
<1>5. EnOrden'
  BY <1>a, <1>i, SinMensajesDeCpu, EnOrdenEnCalma
<1> QED
  BY <1>1, <1>2, <1>3, <1>4, <1>5 DEF InvHilos, Tipos

LEMMA InvCeder ==
    ASSUME InvSocket, sano, cpu = "ejecuta", Ceder,
           UNCHANGED <<vars, programa, orden, respuestas, proximo, largo, sano>>
    PROVE  InvHilos'
<1>a. /\ pc' = [pc EXCEPT ![actual] = @ + 1]
      /\ listos' = Append(listos, actual) /\ actual' = 0 /\ cpu' = "libre"
      /\ UNCHANGED <<pedidos, grado, globales, tabla, terminados>>
      /\ UNCHANGED <<procesos, segmentos, fase, escritos, espacio>>
  BY DEF Ceder, Avanza, vars, contenido
<1>i. /\ TiposCanal /\ TiposHilos /\ TiposProcesos /\ TiposDeDatos
      /\ Lugares /\ GradoExacto /\ EnOrden
  BY DEF InvSocket, InvHilos, Tipos
<1>b. actual \in Pids
  BY <1>i DEF TiposHilos
<1>c. /\ listos' \in Seq(Pids) /\ Distintos(listos')
      /\ Range(listos') = Range(listos) \cup {actual}
  BY <1>a, <1>b, <1>i, AlAgregar DEF TiposHilos, Lugares
<1>1. TiposCanal' /\ TiposDeDatos'
  BY <1>a, <1>i DEF TiposCanal, TiposDeDatos, Direcciones
<1>2. TiposHilos'
  BY <1>a, <1>c, <1>i DEF TiposHilos
<1>3. TiposProcesos'
  <2>1. pc' \in [Pids -> Nat \ {0}]
    BY <1>a, <1>b, <1>i DEF TiposProcesos
  <2> QED
    BY <1>a, <1>i, <2>1 DEF TiposProcesos
<1>4. Lugares'
  <2>1. 0 \notin Pids
    BY PidsEnNat
  <2>2. 0 \notin Range(listos') /\ 0 \notin terminados
    BY <1>b, <1>c, <1>i, <2>1 DEF Lugares, Publicados
  <2> QED
    BY <1>a, <1>b, <1>c, <1>i, <2>1, <2>2 DEF Lugares, Publicados
<1>5. GradoExacto' /\ SeCruzanAlIngresar'
  BY <1>a, <1>i DEF GradoExacto, SeCruzanAlIngresar
<1>6. EnOrden'
  BY <1>a, <1>i, SinMensajesDeCpu, EnOrdenEnCalma
<1> QED
  BY <1>1, <1>2, <1>3, <1>4, <1>5, <1>6 DEF InvHilos, Tipos

\* CREATE_SEGMENT and DELETE_SEGMENT: the request is the only one of the thread.
LEMMA InvPedirSegmento ==
    ASSUME InvSocket, sano, cpu = "ejecuta", PedirCreacion \/ PedirEliminacion,
           pc[actual] \in DOMAIN programa[actual],
           UNCHANGED <<vars, programa, orden, respuestas, proximo, largo, sano>>
    PROVE  InvHilos'
<1>0. PICK m : m = IF PedirCreacion THEN SolicitudDeCreacion(actual, Instruccion)
                   ELSE SolicitudDeEliminacion(actual, Instruccion)
  OBVIOUS
<1>i. /\ TiposCanal /\ TiposHilos /\ TiposProcesos /\ TiposDeDatos
      /\ Lugares /\ GradoExacto /\ EnOrden
  BY DEF InvSocket, InvHilos, Tipos
<1>b. actual \in Pids
  BY <1>i DEF TiposHilos
<1>o. /\ Instruccion.op = "CREATE_SEGMENT" =>
            Instruccion.id \in Ids /\ Instruccion.tamanio \in Tamanios
      /\ Instruccion.op = "DELETE_SEGMENT" => Instruccion.id \in Ids
  BY <1>b, <1>i, TipoDeInstruccion
<1>s. /\ ~ CpuPide /\ fase = "atiende"
      /\ \A n \in Range(respuestas) : n.para = "largo"
      /\ \A p \in Admitidos : tabla[p] = Tabla(p)
  BY SinMensajesDeCpu
<1>a. /\ pedidos' = Append(pedidos, m)
      /\ UNCHANGED <<grado, listos, globales, actual, pc, tabla, terminados>>
      /\ UNCHANGED <<procesos, segmentos, fase, espacio>>
      /\ \/ /\ cpu' = "crea" /\ Instruccion.op = "CREATE_SEGMENT"
            /\ m = SolicitudDeCreacion(actual, Instruccion)
            /\ m.op = "CREAR_SEGMENTO"
         \/ /\ cpu' = "elimina" /\ Instruccion.op = "DELETE_SEGMENT"
            /\ m = SolicitudDeEliminacion(actual, Instruccion)
            /\ m.op = "ELIMINAR_SEGMENTO"
  <2>1. CASE PedirCreacion
    BY <1>0, <2>1 DEF PedirCreacion, Enviar, vars, contenido, SolicitudDeCreacion
  <2>2. CASE ~ PedirCreacion
    BY <1>0, <2>2 DEF PedirEliminacion, Enviar, vars, contenido, SolicitudDeEliminacion
  <2> QED
    BY <2>1, <2>2
<1>e. escritos' \in [Pids -> SUBSET Ids]
  <2>1. CASE PedirCreacion
    BY <2>1, <1>i DEF PedirCreacion, contenido, TiposDeDatos
  <2>2. CASE PedirEliminacion
    BY <2>2, <1>i DEF PedirEliminacion, TiposDeDatos
  <2> QED
    BY <2>1, <2>2
<1>m. m \in Pedido
  BY <1>a, <1>b, <1>o DEF Pedido, SolicitudDeCreacion, SolicitudDeEliminacion
<1>c. m \notin Range(pedidos)
  BY <1>a, <1>s DEF CpuPide, EsDeCpu
<1>d. /\ pedidos' \in Seq(Pedido) /\ Range(pedidos') = Range(pedidos) \cup {m}
      /\ Distintos(pedidos')
  BY <1>a, <1>c, <1>i, <1>m, AlAgregar DEF TiposCanal
<1>f. /\ CreacionPendiente' <=> CreacionPendiente
      /\ CpuPide'
  BY <1>a, <1>d DEF CreacionPendiente, CpuPide, EsDeCpu
<1>1. TiposCanal'
  BY <1>a, <1>d, <1>i DEF TiposCanal
<1>2. TiposHilos' /\ TiposDeDatos'
  BY <1>a, <1>e, <1>i DEF TiposHilos, TiposDeDatos, Direcciones
<1>3. TiposProcesos'
  BY <1>a, <1>i DEF TiposProcesos, Instruccion
<1>4. Lugares' /\ GradoExacto' /\ SeCruzanAlIngresar'
  BY <1>a, <1>i DEF Lugares, Publicados, GradoExacto, SeCruzanAlIngresar
<1>5. ProcesosDeLaMemoria' /\ SegmentosConDueno'
  <2>1. \A p \in Pids : Creado(p)' <=> Creado(p)
    BY <1>a, <1>f DEF Creado
  <2>2. \A p \in Pids : EliminacionPendiente(p)' <=> EliminacionPendiente(p)
    BY <1>a, <1>d DEF EliminacionPendiente, PidAMemoria
  <2> QED
    BY <1>a, <1>i, <2>1, <2>2
       DEF EnOrden, ProcesosDeLaMemoria, SegmentosConDueno, Publicados
<1>6. PedidosEnOrden'
  <2>1. \A n \in Range(pedidos) : Pedida(n)'
    <3>1. \A n \in Range(pedidos) : ~ EsDeCpu(n) /\ Pedida(n)
      BY <1>i, <1>s DEF CpuPide, EnOrden, PedidosEnOrden
    <3> QED
      BY <1>a, <3>1 DEF Pedida, EsDeCpu
  <2>2. Pedida(m)'
    BY <1>a, <1>s DEF Pedida, Instruccion
  <2>3. EliminarAntes(pedidos')
    BY <1>a, <1>i, <1>m, EliminarAntesAlAgregar DEF EnOrden, PedidosEnOrden, TiposCanal
  <2> QED
    BY <1>d, <1>f, <2>1, <2>2, <2>3 DEF PedidosEnOrden
<1>7. RespuestasEnOrden'
  <2>1. \A n \in Range(respuestas) : n.para = "largo" /\ ParaLargo(n)'
    BY <1>a, <1>f, <1>i, <1>s DEF EnOrden, RespuestasEnOrden, ParaLargo
  <2> QED
    BY <1>i, <2>1 DEF EnOrden, RespuestasEnOrden
<1>8. FaseEnOrden'
  BY <1>a, <1>s DEF FaseEnOrden
<1>9. TablasEnCamino'
  BY <1>a, <1>s DEF TablasEnCamino, Admitidos, Tabla
<1> QED
  BY <1>1, <1>2, <1>3, <1>4, <1>5, <1>6, <1>7, <1>8, <1>9 DEF InvHilos, Tipos, EnOrden

\* terminar_proceso_en_ejecucion, in the order that the memory will read it.
LEMMA InvTerminar ==
    ASSUME TiposCanal, TiposHilos, TiposProcesos, TiposDeDatos, Lugares, GradoExacto,
           EnOrden, Terminar, actual # 0,
           UNCHANGED <<procesos, segmentos, fase, programa, orden, proximo, largo,
                       listos, escritos, espacio>>,
           respuestas' \in Seq(Respuesta), Distintos(respuestas'), sano' \in BOOLEAN,
           sano' => /\ ~ CpuPide /\ fase = "atiende"
                    /\ Range(respuestas') \subseteq
                          {m \in Range(respuestas) : m.para = "largo"}
                    /\ \A p \in Admitidos : p # actual => tabla[p] = Tabla(p)
    PROVE  Tipos' /\ Lugares' /\ GradoExacto' /\ (sano' => EnOrden')
<1> DEFINE fin == PidAMemoria("ELIMINAR_PROCESO", actual)
<1>a. /\ pedidos' = Append(pedidos, fin) /\ globales' = globales \ {actual}
      /\ terminados' = terminados \cup {actual} /\ grado' = grado + 1
      /\ actual' = 0 /\ cpu' = "libre" /\ UNCHANGED <<pc, tabla>>
  BY DEF Terminar, Enviar
<1>b. /\ actual \in Pids /\ actual \notin terminados /\ actual \in Publicados
      /\ 0 \notin Pids
  BY PidsEnNat DEF TiposHilos, Lugares
<1>m. fin \in Pedido /\ fin.op = "ELIMINAR_PROCESO" /\ fin.pid = actual
  BY <1>b DEF Pedido, PidAMemoria
<1> HIDE DEF fin
<1>c. fin \notin Range(pedidos)
  BY <1>b, <1>m DEF EnOrden, PedidosEnOrden, Pedida
<1>d. /\ pedidos' \in Seq(Pedido) /\ Range(pedidos') = Range(pedidos) \cup {fin}
      /\ Distintos(pedidos')
  BY <1>a, <1>c, <1>m, AlAgregar DEF TiposCanal
<1>f. CreacionPendiente' <=> CreacionPendiente
  BY <1>d, <1>m DEF CreacionPendiente
<1>1. TiposCanal' /\ TiposDeDatos'
  BY <1>d DEF TiposCanal, TiposDeDatos, Direcciones
<1>2. TiposHilos'
  BY <1>a, <1>b DEF TiposHilos
<1>3. TiposProcesos'
  BY <1>a DEF TiposProcesos
<1>4. Lugares'
  <2>1. Publicados' = Publicados
    BY DEF Publicados
  <2>2. 0 \notin Range(listos) /\ 0 \notin terminados'
    BY <1>a, <1>b DEF Lugares, Publicados
  <2> QED
    BY <1>a, <1>b, <2>1, <2>2 DEF Lugares
<1>5. GradoExacto'
  <2>1. /\ Cardinality(terminados') = Cardinality(terminados) + 1
        /\ Cardinality(terminados) \in Nat
    BY <1>a, <1>b, TerminadosFinito, FS_AddElement
  <2>2. proximo \in Int /\ grado \in Int /\ Grado \in Int
    BY GradoAssumption, PidsEnNat DEF TiposHilos
  <2> QED
    BY <1>a, <2>1, <2>2 DEF GradoExacto, Uno
<1>6. ASSUME sano' PROVE EnOrden'
  <2>1. ProcesosDeLaMemoria'
    <3>1. \A p \in Pids : Creado(p)' <=> Creado(p)
      BY <1>f DEF Creado
    <3>2. \A p \in Pids : EliminacionPendiente(p)' <=>
                             EliminacionPendiente(p) \/ p = actual
      BY <1>d, <1>m DEF EliminacionPendiente, PidAMemoria, fin
    <3> QED
      BY <1>a, <1>b, <3>1, <3>2 DEF EnOrden, ProcesosDeLaMemoria
  <2>2. SegmentosConDueno'
    BY DEF EnOrden, SegmentosConDueno, Publicados
  <2>3. PedidosEnOrden'
    <3>1. \A n \in Range(pedidos) : ~ EsDeCpu(n) /\ Pedida(n)
      BY <1>6 DEF CpuPide, EnOrden, PedidosEnOrden
    <3>2. \A n \in Range(pedidos') : Pedida(n)'
      BY <1>a, <1>d, <1>m, <3>1 DEF Pedida, EsDeCpu
    <3>3. EliminarAntes(pedidos')
      BY <1>a, <1>m, <3>1, EliminarAntesAlAgregar DEF EnOrden, PedidosEnOrden,
         TiposCanal
    <3> QED
      BY <1>a, <3>2, <3>3 DEF PedidosEnOrden, CpuEspera
  <2>4. RespuestasEnOrden'
    <3>1. \A n \in Range(respuestas') : n.para = "largo" /\ ParaLargo(n)'
      BY <1>6, <1>f DEF EnOrden, RespuestasEnOrden, ParaLargo
    <3> QED
      BY <1>6, <3>1 DEF EnOrden, RespuestasEnOrden
  <2>5. FaseEnOrden'
    BY <1>a, <1>6 DEF FaseEnOrden
  <2>6. TablasEnCamino'
    BY <1>a, <1>6 DEF TablasEnCamino, Admitidos, Tabla
  <2> QED
    BY <2>1, <2>2, <2>3, <2>4, <2>5, <2>6 DEF EnOrden
<1> QED
  BY <1>1, <1>2, <1>3, <1>4, <1>5, <1>6 DEF Tipos

LEMMA InvSalir ==
    ASSUME InvSocket, sano, cpu = "ejecuta", Salir,
           UNCHANGED <<vars, programa, orden, respuestas, proximo, largo, sano>>
    PROVE  InvHilos'
<1>i. /\ TiposCanal /\ TiposHilos /\ TiposProcesos /\ TiposDeDatos
      /\ Lugares /\ GradoExacto /\ EnOrden
  BY DEF InvSocket, InvHilos, Tipos
<1>a. /\ Terminar /\ actual # 0
      /\ UNCHANGED <<procesos, segmentos, fase, listos, escritos, espacio>>
      /\ respuestas' \in Seq(Respuesta) /\ Distintos(respuestas') /\ sano' \in BOOLEAN
  BY <1>i DEF Salir, vars, contenido, TiposCanal, TiposHilos
<1>s. /\ ~ CpuPide /\ fase = "atiende"
      /\ Range(respuestas') \subseteq {m \in Range(respuestas) : m.para = "largo"}
      /\ \A p \in Admitidos : tabla[p] = Tabla(p)
  BY SinMensajesDeCpu
<1>1. Tipos' /\ Lugares' /\ GradoExacto' /\ (sano' => EnOrden')
  BY <1>a, <1>i, <1>s, InvTerminar
<1> QED
  BY <1>1 DEF InvHilos, SeCruzanAlIngresar

-----------------------------------------------------------------------------
(* The CPU thread reads a reply.                                           *)

\* What is left on the socket once the CPU thread has read a reply, and what
\* reading the other thread's means.
LEMMA AlLeerRespuesta ==
    ASSUME TiposCanal, EnOrden, respuestas # <<>>, respuestas' = Tail(respuestas)
    PROVE  /\ Head(respuestas) \in Respuesta /\ Head(respuestas) \in Range(respuestas)
           /\ respuestas' \in Seq(Respuesta) /\ Distintos(respuestas')
           /\ Head(respuestas).para # "cpu" =>
                 largo = "recibe" /\ Head(respuestas).op = "TABLA_SEGMENTOS"
           /\ Head(respuestas).para = "cpu" =>
                 /\ ParaCpu(Head(respuestas)) /\ ~ CpuPide
                 /\ Range(respuestas') \subseteq
                       {m \in Range(respuestas) : m.para = "largo"}
                 /\ \A p \in Pids, m \in Range(respuestas) :
                       Trae(p, m) => m = Head(respuestas)
<1> DEFINE r == Head(respuestas)
<1>1. /\ r \in Respuesta /\ r \in Range(respuestas)
      /\ respuestas' \in Seq(Respuesta) /\ Distintos(respuestas')
      /\ Range(respuestas') = Range(respuestas) \ {r}
  BY AlSacar DEF TiposCanal
<1> HIDE DEF r
<1>2. \A m \in Range(respuestas) : m.para \in {"largo", "cpu"}
  <2>1. Range(respuestas) \subseteq Respuesta
    BY LenProperties, ElementOfSeq DEF TiposCanal, Range
  <2> QED
    BY <2>1, TipoDeRespuesta
<1>3. r.para # "cpu" => largo = "recibe" /\ r.op = "TABLA_SEGMENTOS"
  BY <1>1, <1>2 DEF EnOrden, RespuestasEnOrden, ParaLargo
<1>4. ASSUME r.para = "cpu"
      PROVE  /\ ParaCpu(r) /\ ~ CpuPide
             /\ Range(respuestas') \subseteq
                   {m \in Range(respuestas) : m.para = "largo"}
             /\ \A p \in Pids, m \in Range(respuestas) : Trae(p, m) => m = r
  <2>1. ParaCpu(r) /\ ~ CpuPide
    BY <1>1, <1>4 DEF EnOrden, RespuestasEnOrden, ParaCpu
  <2>2. \A m \in Range(respuestas) : m.para = "cpu" => m = r
    BY <1>1, <1>4 DEF EnOrden, RespuestasEnOrden
  <2> QED
    BY <1>1, <1>2, <2>1, <2>2 DEF Trae
<1> QED
  BY <1>1, <1>3, <1>4 DEF r

\* crear_segmento
LEMMA InvCpuRecibeCreacion ==
    ASSUME InvSocket, sano, CpuRecibeCreacion,
           UNCHANGED <<vars, programa, orden, contenido>>
    PROVE  InvHilos'
<1>0. PICK r : r = Head(respuestas)
  OBVIOUS
<1>i. /\ TiposCanal /\ TiposHilos /\ TiposProcesos /\ TiposDeDatos
      /\ Lugares /\ GradoExacto /\ EnOrden
  BY DEF InvSocket, InvHilos, Tipos
<1>a. /\ cpu = "crea" /\ respuestas # <<>> /\ respuestas' = Tail(respuestas)
      /\ UNCHANGED <<proximo, largo, listos>> /\ sano' = (r.para = "cpu")
      /\ UNCHANGED <<procesos, segmentos, fase, programa, orden, escritos, espacio>>
      /\ SegmentoCreado(r) \/ FaltaCompactar(r) \/ CreacionRechazada(r)
  BY <1>0 DEF CpuRecibeCreacion, vars, contenido
<1>b. actual \in Pids /\ actual # 0 /\ actual \in Publicados /\ actual \notin terminados
  BY <1>a, <1>i DEF TiposHilos, Lugares
<1>r. /\ r \in Respuesta /\ r \in Range(respuestas)
      /\ respuestas' \in Seq(Respuesta) /\ Distintos(respuestas')
      /\ r.para # "cpu" => largo = "recibe" /\ r.op = "TABLA_SEGMENTOS"
      /\ r.para = "cpu" =>
            /\ RespuestaACrear(r) /\ ~ CpuPide
            /\ Range(respuestas') \subseteq
                  {m \in Range(respuestas) : m.para = "largo"}
            /\ \A p \in Pids, m \in Range(respuestas) : Trae(p, m) => m = r
  BY <1>0, <1>a, <1>i, AlLeerRespuesta
     DEF ParaCpu, RespuestaAEliminar, RespuestaACompactar
<1>s. SeCruzanAlIngresar'
  BY <1>a, <1>r DEF SeCruzanAlIngresar
<1>t. sano' \in BOOLEAN
  BY <1>a
<1>c. r.para = "cpu" /\ r.op # "OK" =>
         \A p \in Admitidos : tabla[p] = Tabla(p) \/ fase = "compacta"
  BY <1>a, <1>i, <1>r DEF EnOrden, TablasEnCamino, Trae, Admitidos
<1>1. CASE SegmentoCreado(r)
  <2>a. /\ r.op = "OK" /\ r.para = "cpu"
        /\ tabla' = [tabla EXCEPT ![actual] = @ \cup {Nuevo(r.base)}]
        /\ pc' = [pc EXCEPT ![actual] = @ + 1] /\ cpu' = "ejecuta"
        /\ UNCHANGED <<pedidos, grado, globales, actual, terminados>>
    BY <1>1, <1>r DEF SegmentoCreado, Avanza, Nuevo
  <2>b. /\ fase = "atiende" /\ r.base \in Nat
        /\ Tabla(actual) = tabla[actual] \cup {Nuevo(r.base)}
    BY <1>r, <2>a DEF RespuestaACrear
  <2>1. TiposCanal' /\ TiposHilos' /\ TiposDeDatos'
    BY <1>a, <1>i, <1>r, <1>t, <2>a DEF TiposCanal, TiposHilos, TiposDeDatos,
       Direcciones
  <2>2. TiposProcesos'
    <3>1. Tabla(actual) \in SUBSET Segmento
      BY DEF InvSocket, Inv, TypeOK, Tabla
    <3>2. tabla' \in [Pids -> SUBSET Segmento]
      BY <1>b, <1>i, <2>a, <2>b, <3>1 DEF TiposProcesos
    <3>3. pc' \in [Pids -> Nat \ {0}]
      BY <1>b, <1>i, <2>a DEF TiposProcesos
    <3> QED
      BY <1>a, <1>i, <2>a, <3>2, <3>3 DEF TiposProcesos
  <2>3. Lugares' /\ GradoExacto'
    BY <1>a, <1>i, <2>a DEF Lugares, Publicados, GradoExacto
  <2>4. EnOrden'
    <3>1. \A p \in Admitidos : tabla'[p] = Tabla(p)
      <4> SUFFICES ASSUME NEW p \in Admitidos PROVE tabla'[p] = Tabla(p)
        OBVIOUS
      <4>0. p \in Pids
        BY DEF Admitidos
      <4>1. CASE p = actual
        BY <1>b, <1>i, <2>a, <2>b, <4>1 DEF TiposProcesos
      <4>2. CASE p # actual
        <5>1. tabla[p] = Tabla(p)
          BY <1>a, <1>i, <1>r, <2>a, <2>b, <4>0, <4>2
             DEF EnOrden, TablasEnCamino, Trae
        <5> QED
          BY <1>i, <2>a, <4>0, <4>2, <5>1 DEF TiposProcesos
      <4> QED
        BY <4>1, <4>2
    <3> QED
      BY <1>a, <1>i, <1>r, <2>a, <2>b, <3>1, EnOrdenEnCalma
  <2> QED
    BY <1>s, <2>1, <2>2, <2>3, <2>4 DEF InvHilos, Tipos
<1>2. CASE FaltaCompactar(r)
  <2>a. /\ r.op = "NECESITA_COMPACTACION" /\ r.para = "cpu" /\ cpu' = "compacta"
        /\ UNCHANGED <<pedidos, grado, globales, actual, pc, tabla, terminados>>
    BY <1>2, <1>r DEF FaltaCompactar
  <2>b. fase = "espera_kernel"
    BY <1>r, <2>a DEF RespuestaACrear
  <2>d. /\ CreacionPendiente' <=> CreacionPendiente
        /\ ~ CpuPide'
    BY <1>r, <2>a DEF CreacionPendiente, CpuPide
  <2>1. TiposCanal' /\ TiposHilos' /\ TiposDeDatos'
    BY <1>a, <1>i, <1>r, <1>t, <2>a DEF TiposCanal, TiposHilos, TiposDeDatos,
       Direcciones
  <2>2. TiposProcesos'
    BY <1>a, <1>i, <2>a DEF TiposProcesos, Instruccion
  <2>3. Lugares' /\ GradoExacto'
    BY <1>a, <1>i, <2>a DEF Lugares, Publicados, GradoExacto
  <2>4. ProcesosDeLaMemoria' /\ SegmentosConDueno'
    <3>1. \A p \in Pids : Creado(p)' <=> Creado(p)
      BY <1>a, <2>d DEF Creado
    <3> QED
      BY <1>a, <1>i, <2>a, <3>1 DEF EnOrden, ProcesosDeLaMemoria, SegmentosConDueno,
         EliminacionPendiente, Publicados
  <2>5. PedidosEnOrden'
    <3>1. \A m \in Range(pedidos) : Pedida(m) /\ ~ EsDeCpu(m)
      BY <1>i, <1>r, <2>a DEF EnOrden, PedidosEnOrden, CpuPide
    <3>2. \A m \in Range(pedidos) : Pedida(m)'
      BY <1>a, <2>a, <3>1 DEF Pedida, EsDeCpu
    <3> QED
      BY <1>a, <1>i, <1>r, <2>a, <2>d, <3>2 DEF EnOrden, PedidosEnOrden, CpuEspera
  <2>6. RespuestasEnOrden'
    <3>1. \A m \in Range(respuestas') : m.para = "largo" /\ ParaLargo(m)'
      BY <1>a, <1>i, <1>r, <2>a, <2>d DEF EnOrden, RespuestasEnOrden, ParaLargo
    <3> QED
      BY <1>i, <1>r, <2>a, <3>1 DEF EnOrden, RespuestasEnOrden
  <2>7. FaseEnOrden'
    BY <1>a, <2>a, <2>b DEF FaseEnOrden
  <2>8. TablasEnCamino'
    BY <1>a, <1>c, <2>a, <2>b DEF TablasEnCamino, Admitidos, Tabla
  <2> QED
    BY <1>s, <2>1, <2>2, <2>3, <2>4, <2>5, <2>6, <2>7, <2>8
       DEF InvHilos, Tipos, EnOrden
<1>3. CASE CreacionRechazada(r)
  <2>a. Terminar /\ r.op \notin {"OK", "NECESITA_COMPACTACION"}
    BY <1>3 DEF CreacionRechazada
  <2>b. sano' => /\ ~ CpuPide /\ fase = "atiende"
                 /\ Range(respuestas') \subseteq
                       {m \in Range(respuestas) : m.para = "largo"}
                 /\ \A p \in Admitidos : p # actual => tabla[p] = Tabla(p)
    BY <1>a, <1>c, <1>r, <2>a DEF RespuestaACrear
  <2>1. Tipos' /\ Lugares' /\ GradoExacto' /\ (sano' => EnOrden')
    BY <1>a, <1>b, <1>i, <1>r, <1>t, <2>a, <2>b, InvTerminar
  <2> QED
    BY <1>s, <2>1 DEF InvHilos
<1> QED
  BY <1>a, <1>1, <1>2, <1>3

\* eliminar_segmento
LEMMA InvCpuRecibeTabla ==
    ASSUME InvSocket, sano, CpuRecibeTabla,
           UNCHANGED <<vars, programa, orden, contenido>>
    PROVE  InvHilos'
<1>0. PICK r : r = Head(respuestas)
  OBVIOUS
<1>i. /\ TiposCanal /\ TiposHilos /\ TiposProcesos /\ TiposDeDatos
      /\ Lugares /\ GradoExacto /\ EnOrden
  BY DEF InvSocket, InvHilos, Tipos
<1>a. /\ cpu = "elimina" /\ respuestas # <<>> /\ respuestas' = Tail(respuestas)
      /\ tabla' = [tabla EXCEPT ![actual] = TablaRecibida(r)]
      /\ pc' = [pc EXCEPT ![actual] = @ + 1]
      /\ sano' = (r.para = "cpu") /\ cpu' = "ejecuta"
      /\ UNCHANGED <<pedidos, proximo, grado, largo, listos, globales, actual,
                     terminados>>
      /\ UNCHANGED <<procesos, segmentos, fase, programa, orden, escritos, espacio>>
  BY <1>0 DEF CpuRecibeTabla, Avanza, vars, contenido
<1>b. actual \in Pids
  BY <1>a, <1>i DEF TiposHilos
<1>r. /\ r \in Respuesta
      /\ respuestas' \in Seq(Respuesta) /\ Distintos(respuestas')
      /\ r.para # "cpu" => largo = "recibe"
      /\ r.para = "cpu" =>
            /\ RespuestaAEliminar(r) /\ ~ CpuPide
            /\ Range(respuestas') \subseteq
                  {m \in Range(respuestas) : m.para = "largo"}
            /\ \A p \in Pids, m \in Range(respuestas) : Trae(p, m) => m = r
  BY <1>0, <1>a, <1>i, AlLeerRespuesta DEF ParaCpu, RespuestaACrear, RespuestaACompactar
<1>1. TiposCanal' /\ TiposDeDatos'
  BY <1>a, <1>i, <1>r DEF TiposCanal, TiposDeDatos, Direcciones
<1>2. TiposHilos'
  <2>1. sano' \in BOOLEAN
    BY <1>a
  <2> QED
    BY <1>a, <1>i, <2>1 DEF TiposHilos
<1>3. TiposProcesos'
  <2>1. tabla' \in [Pids -> SUBSET Segmento]
    BY <1>a, <1>b, <1>i, <1>r, TipoDeRespuesta DEF TiposProcesos
  <2>2. pc' \in [Pids -> Nat \ {0}]
    BY <1>a, <1>b, <1>i DEF TiposProcesos
  <2> QED
    BY <1>a, <1>i, <2>1, <2>2 DEF TiposProcesos
<1>4. Lugares' /\ GradoExacto'
  BY <1>a, <1>i DEF Lugares, Publicados, GradoExacto
<1>5. SeCruzanAlIngresar'
  BY <1>a, <1>r DEF SeCruzanAlIngresar
<1>6. ASSUME sano' PROVE EnOrden'
  <2>1. /\ fase = "atiende" /\ ~ CpuPide /\ r.para = "cpu"
        /\ TablaRecibida(r) = Tabla(actual)
    BY <1>6, <1>a, <1>r DEF RespuestaAEliminar, TablaRecibida
  <2>2. \A p \in Admitidos : tabla'[p] = Tabla(p)
    <3> SUFFICES ASSUME NEW p \in Admitidos PROVE tabla'[p] = Tabla(p)
      OBVIOUS
    <3>0. p \in Pids
      BY DEF Admitidos
    <3>1. CASE p = actual
      BY <1>a, <1>b, <1>i, <2>1, <3>1 DEF TiposProcesos
    <3>2. CASE p # actual
      <4>1. tabla[p] = Tabla(p)
        BY <1>a, <1>i, <1>r, <2>1, <3>0, <3>2 DEF EnOrden, TablasEnCamino, Trae
      <4> QED
        BY <1>a, <1>i, <3>0, <3>2, <4>1 DEF TiposProcesos
    <3> QED
      BY <3>1, <3>2
  <2> QED
    BY <1>a, <1>i, <1>r, <2>1, <2>2, EnOrdenEnCalma
<1> QED
  BY <1>1, <1>2, <1>3, <1>4, <1>5, <1>6 DEF InvHilos, Tipos

LEMMA InvCpuPideCompactar ==
    ASSUME InvSocket, sano, CpuPideCompactar,
           UNCHANGED <<vars, programa, orden, contenido>>
    PROVE  InvHilos'
<1>a. /\ cpu = "compacta" /\ pedidos' = Append(pedidos, Compactar) /\ cpu' = "tablas"
      /\ UNCHANGED <<respuestas, proximo, grado, largo, listos, globales, actual, pc,
                     tabla, terminados, sano>>
      /\ UNCHANGED <<procesos, segmentos, fase, programa, orden, escritos, espacio>>
  BY DEF CpuPideCompactar, Enviar, vars, contenido
<1>i. /\ TiposCanal /\ TiposHilos /\ TiposProcesos /\ TiposDeDatos
      /\ Lugares /\ GradoExacto /\ EnOrden
  BY DEF InvSocket, InvHilos, Tipos
<1>m. Compactar \in Pedido /\ Compactar.op = "COMPACTAR"
  BY DEF Compactar, Pedido
<1>s. ~ CpuPide /\ fase = "espera_kernel"
  BY <1>a, <1>i, SinPedidoDeCpu DEF EnOrden, TiposCanal, FaseEnOrden
<1>r. \A m \in Range(respuestas) : m.para = "largo" /\ ParaLargo(m)
  BY <1>a, <1>i, SinRespuestaParaCpu DEF EnOrden
<1>c. Compactar \notin Range(pedidos)
  BY <1>m, <1>s DEF CpuPide, EsDeCpu
<1>d. /\ pedidos' \in Seq(Pedido) /\ Range(pedidos') = Range(pedidos) \cup {Compactar}
      /\ Distintos(pedidos')
  BY <1>a, <1>c, <1>i, <1>m, AlAgregar DEF TiposCanal
<1>f. /\ CreacionPendiente' <=> CreacionPendiente
      /\ CpuPide'
  BY <1>d, <1>m DEF CreacionPendiente, CpuPide, EsDeCpu
<1>1. TiposCanal' /\ TiposHilos' /\ TiposDeDatos'
  BY <1>a, <1>d, <1>i DEF TiposCanal, TiposHilos, TiposDeDatos, Direcciones
<1>2. TiposProcesos'
  BY <1>a, <1>i DEF TiposProcesos, Instruccion
<1>3. Lugares' /\ GradoExacto' /\ SeCruzanAlIngresar'
  BY <1>a, <1>i DEF Lugares, Publicados, GradoExacto, SeCruzanAlIngresar
<1>4. ProcesosDeLaMemoria' /\ SegmentosConDueno'
  <2>1. \A p \in Pids : Creado(p)' <=> Creado(p)
    BY <1>a, <1>f DEF Creado
  <2>2. \A p \in Pids : EliminacionPendiente(p)' <=> EliminacionPendiente(p)
    BY <1>d, <1>m DEF EliminacionPendiente, PidAMemoria
  <2> QED
    BY <1>a, <1>i, <2>1, <2>2
       DEF EnOrden, ProcesosDeLaMemoria, SegmentosConDueno, Publicados
<1>5. PedidosEnOrden'
  <2>1. /\ \A m \in Range(pedidos) : Pedida(m) /\ ~ EsDeCpu(m)
        /\ \A m \in Range(pedidos) : m.op # "ELIMINAR_PROCESO"
    BY <1>a, <1>i, <1>s DEF EnOrden, PedidosEnOrden, CpuPide, CpuEspera
  <2>2. \A m \in Range(pedidos') : Pedida(m)'
    BY <1>a, <1>d, <1>m, <1>s, <2>1 DEF Pedida, EsDeCpu
  <2>3. EliminarAntes(pedidos')
    BY <1>a, <1>i, <1>m, <2>1, EliminarAntesAlAgregar
       DEF EnOrden, PedidosEnOrden, TiposCanal
  <2> QED
    BY <1>f, <2>2, <2>3 DEF PedidosEnOrden
<1>6. RespuestasEnOrden'
  <2>1. \A m \in Range(respuestas) : m.para = "largo" /\ ParaLargo(m)'
    BY <1>a, <1>f, <1>r DEF ParaLargo
  <2> QED
    BY <1>a, <1>i, <2>1 DEF EnOrden, RespuestasEnOrden
<1>7. FaseEnOrden'
  BY <1>a, <1>f, <1>s DEF FaseEnOrden
<1>8. TablasEnCamino'
  <2>1. \A p \in Admitidos : tabla[p] = Tabla(p)
    BY <1>a, <1>i, <1>r, <1>s DEF EnOrden, TablasEnCamino, Trae
  <2> QED
    BY <1>a, <2>1 DEF TablasEnCamino, Admitidos, Tabla
<1> QED
  BY <1>1, <1>2, <1>3, <1>4, <1>5, <1>6, <1>7, <1>8 DEF InvHilos, Tipos, EnOrden

\* recibir_tablas_de_segmentos counts the registered pcbs, and reads a table for
\* each: all of them, if there is one for each.
LEMMA TodasLeidas ==
    ASSUME NEW m, m.tablas \in Seq(TablaDeUno), RegistroExacto(m),
           \A k, l \in DOMAIN m.tablas : m.tablas[k].pid = m.tablas[l].pid => k = l
    PROVE  Leidas(m) = Range(m.tablas)
<1> DEFINE n == Len(m.tablas)
           f == [k \in 1..n |-> m.tablas[k].pid]
<1>1. n \in Nat /\ DOMAIN m.tablas = 1..n
  BY LenProperties
<1>2. globales = {f[k] : k \in 1..n}
  <2>1. globales = {e.pid : e \in Range(m.tablas)}
    BY DEF RegistroExacto
  <2>2. Range(m.tablas) = {m.tablas[k] : k \in 1..n}
    BY <1>1 DEF Range
  <2> QED
    BY <2>1, <2>2
<1>3. f \in Bijection(1..n, globales)
  <2>1. f \in [1..n -> globales]
    BY <1>2
  <2>2. \A k, l \in 1..n : f[k] = f[l] => k = l
    BY <1>1
  <2>3. \A g \in globales : \E k \in 1..n : f[k] = g
    BY <1>2
  <2> HIDE DEF f
  <2> QED
    BY <2>1, <2>2, <2>3 DEF Bijection, Injection, IsInjective, Surjection
<1>4. Cardinality(globales) = n
  BY <1>1, <1>3, FS_CountingElements DEF ExistsBijection
<1> QED
  BY <1>1, <1>4 DEF Leidas, Range

LEMMA InvCpuRecibeTablas ==
    ASSUME InvSocket, sano, CpuRecibeTablas,
           UNCHANGED <<vars, programa, orden, contenido>>
    PROVE  InvHilos'
<1>0. PICK r : r = Head(respuestas)
  OBVIOUS
<1> DEFINE esperada == r.op = "OK" /\ r.para = "cpu"
<1>i. /\ TiposCanal /\ TiposHilos /\ TiposProcesos /\ TiposDeDatos
      /\ Lugares /\ GradoExacto /\ EnOrden
  BY DEF InvSocket, InvHilos, Tipos
<1>a. /\ cpu = "tablas" /\ respuestas # <<>> /\ respuestas' = Tail(respuestas)
      /\ sano' = (esperada /\ RegistroExacto(r))
      /\ tabla' = [p \in Pids |->
             IF esperada /\ \E e \in Leidas(r) : e.pid = p
             THEN (CHOOSE e \in Leidas(r) : e.pid = p).tabla
             ELSE tabla[p]]
      /\ cpu' = "ejecuta"
      /\ UNCHANGED <<pedidos, proximo, grado, largo, listos, globales, actual, pc,
                     terminados>>
      /\ UNCHANGED <<procesos, segmentos, fase, programa, orden, escritos, espacio>>
  BY <1>0 DEF CpuRecibeTablas, vars, contenido
<1>r. /\ r \in Respuesta
      /\ respuestas' \in Seq(Respuesta) /\ Distintos(respuestas')
      /\ r.para # "cpu" => largo = "recibe"
      /\ r.para = "cpu" =>
            /\ RespuestaACompactar(r) /\ ~ CpuPide
            /\ Range(respuestas') \subseteq
                  {m \in Range(respuestas) : m.para = "largo"}
            /\ \A p \in Pids, m \in Range(respuestas) : Trae(p, m) => m = r
  BY <1>0, <1>a, <1>i, AlLeerRespuesta DEF ParaCpu, RespuestaACrear, RespuestaAEliminar
<1>e. r.para = "cpu" =>
         /\ esperada /\ r.tablas \in Seq(TablaDeUno)
         /\ TablasFieles(r) /\ fase = "atiende"
         /\ \A k \in DOMAIN r.tablas :
               r.tablas[k].pid \in Pids /\ r.tablas[k].tabla \in SUBSET Segmento
  <2> SUFFICES ASSUME r.para = "cpu"
               PROVE  /\ esperada /\ r.tablas \in Seq(TablaDeUno)
                      /\ TablasFieles(r) /\ fase = "atiende"
                      /\ \A k \in DOMAIN r.tablas :
                            /\ r.tablas[k].pid \in Pids
                            /\ r.tablas[k].tabla \in SUBSET Segmento
    OBVIOUS
  <2>1. /\ r \in Tablas /\ r.tablas \in Seq(TablaDeUno)
        /\ TablasFieles(r) /\ fase = "atiende" /\ esperada
    BY <1>r, TipoDeRespuesta DEF RespuestaACompactar
  <2>2. \A k \in DOMAIN r.tablas : r.tablas[k] \in TablaDeUno
    BY <2>1, LenProperties, ElementOfSeq
  <2> QED
    BY <2>1, <2>2 DEF TablaDeUno
<1>1. TiposCanal' /\ TiposDeDatos'
  BY <1>a, <1>i, <1>r DEF TiposCanal, TiposDeDatos, Direcciones
<1>2. TiposHilos'
  <2>1. sano' \in BOOLEAN
    BY <1>a
  <2> QED
    BY <1>a, <1>i, <2>1 DEF TiposHilos
<1>3. TiposProcesos'
  <2>1. ASSUME NEW p \in Pids, esperada, \E e \in Leidas(r) : e.pid = p
        PROVE  (CHOOSE e \in Leidas(r) : e.pid = p).tabla \in SUBSET Segmento
    <3>1. (CHOOSE e \in Leidas(r) : e.pid = p) \in Leidas(r)
      BY <2>1
    <3> QED
      BY <1>e, <2>1, <3>1 DEF Leidas
  <2>2. tabla' \in [Pids -> SUBSET Segmento]
    BY <1>a, <1>i, <2>1 DEF TiposProcesos
  <2> QED
    BY <1>a, <1>i, <2>2 DEF TiposProcesos
<1>4. Lugares' /\ GradoExacto'
  BY <1>a, <1>i DEF Lugares, Publicados, GradoExacto
<1>5. SeCruzanAlIngresar'
  <2> SUFFICES ASSUME ~ sano', largo = "libre", globales \cap terminados = {}
               PROVE  FALSE
    BY <1>a DEF SeCruzanAlIngresar
  <2>1. r.para = "cpu"
    BY <1>r
  <2>2. /\ \A k \in DOMAIN r.tablas : r.tablas[k].pid \in procesos
        /\ \A p \in procesos : \E k \in DOMAIN r.tablas : r.tablas[k].pid = p
    BY <1>e, <2>1 DEF TablasFieles
  <2>3. \A p \in Pids : p \in procesos <=> p < proximo /\ p \notin terminados
    <3>1. \A p \in Pids : ~ EliminacionPendiente(p)
      BY <1>a, <1>i, <1>r, <2>1 DEF EnOrden, PedidosEnOrden, CpuEspera,
         EliminacionPendiente, PidAMemoria
    <3>2. \A p \in Pids : Creado(p) <=> p < proximo
      BY DEF Creado
    <3> QED
      BY <1>i, <3>1, <3>2 DEF EnOrden, ProcesosDeLaMemoria
  <2>4. procesos \subseteq Pids
    BY DEF InvSocket, Inv, TypeOK
  <2>5. globales = procesos
    BY <1>i, <2>3, <2>4 DEF Lugares, TiposHilos
  <2>6. RegistroExacto(r)
    BY <2>2, <2>5 DEF RegistroExacto, Range
  <2> QED
    BY <1>a, <1>e, <2>1, <2>6
<1>6. ASSUME sano' PROVE EnOrden'
  <2>1. /\ r.para = "cpu" /\ esperada /\ RegistroExacto(r) /\ ~ CpuPide
        /\ fase = "atiende" /\ TablasFieles(r)
    BY <1>6, <1>a, <1>e, <1>r
  <2>2. Leidas(r) = {r.tablas[k] : k \in DOMAIN r.tablas}
    BY <1>e, <2>1, TodasLeidas DEF TablasFieles, Range
  <2>3. \A p \in Admitidos : tabla'[p] = Tabla(p)
    <3> SUFFICES ASSUME NEW p \in Admitidos PROVE tabla'[p] = Tabla(p)
      OBVIOUS
    <3>0. p \in Pids
      BY DEF Admitidos
    <3>1. CASE \E k \in DOMAIN r.tablas : r.tablas[k].pid = p
      <4> DEFINE e == CHOOSE x \in Leidas(r) : x.pid = p
      <4>1. e \in Leidas(r) /\ e.pid = p
        BY <2>2, <3>1
      <4>2. tabla'[p] = e.tabla
        BY <1>a, <2>1, <3>0, <4>1
      <4> HIDE DEF e
      <4> QED
        BY <2>1, <2>2, <4>1, <4>2 DEF TablasFieles
    <3>2. CASE ~ \E k \in DOMAIN r.tablas : r.tablas[k].pid = p
      <4>1. tabla'[p] = tabla[p]
        BY <1>a, <2>2, <3>0, <3>2
      <4>2. tabla[p] = Tabla(p)
        BY <1>a, <1>i, <1>r, <2>1, <3>0, <3>2 DEF EnOrden, TablasEnCamino, Trae
      <4> QED
        BY <4>1, <4>2
    <3> QED
      BY <3>1, <3>2
  <2> QED
    BY <1>a, <1>i, <1>r, <2>1, <2>3, EnOrdenEnCalma
<1> QED
  BY <1>1, <1>2, <1>3, <1>4, <1>5, <1>6 DEF InvHilos, Tipos

-----------------------------------------------------------------------------
(* The memory takes a request.                                             *)

LEMMA LadosIguales ==
    ASSUME InvSocket, sano, UNCHANGED lados
    PROVE  TiposHilos' /\ TiposProcesos' /\ Lugares' /\ GradoExacto' /\
           SeCruzanAlIngresar' /\ sano'
<1>a. /\ TiposHilos /\ TiposProcesos /\ Lugares /\ GradoExacto
      /\ UNCHANGED <<programa, proximo, grado, largo, listos, globales, cpu, actual,
                     pc, tabla, terminados, sano>>
  BY DEF InvSocket, InvHilos, Tipos, lados
<1>1. TiposHilos'
  BY <1>a DEF TiposHilos
<1>2. TiposProcesos'
  BY <1>a DEF TiposProcesos, Instruccion
<1>3. Lugares' /\ GradoExacto'
  BY <1>a DEF Lugares, Publicados, GradoExacto
<1> QED
  BY <1>a, <1>1, <1>2, <1>3 DEF SeCruzanAlIngresar

\* What is left on the socket once the memory has taken a request.
LEMMA AlTomarPedido ==
    ASSUME TiposCanal, EnOrden, pedidos # <<>>, pedidos' = Tail(pedidos)
    PROVE  /\ Head(pedidos) \in Pedido /\ Head(pedidos) \in Range(pedidos)
           /\ pedidos' \in Seq(Pedido) /\ Distintos(pedidos')
           /\ Range(pedidos') = Range(pedidos) \ {Head(pedidos)}
           /\ EliminarAntes(pedidos') /\ Pedida(Head(pedidos))
           /\ EsDeCpu(Head(pedidos)) =>
                 /\ CpuPide
                 /\ Range(pedidos') = {n \in Range(pedidos) : ~ EsDeCpu(n)}
                 /\ \A n \in Range(pedidos) : n.op # "ELIMINAR_PROCESO"
<1> DEFINE m == Head(pedidos)
<1>1. /\ m \in Pedido /\ m \in Range(pedidos)
      /\ pedidos' \in Seq(Pedido) /\ Distintos(pedidos')
      /\ Range(pedidos') = Range(pedidos) \ {m}
  BY AlSacar DEF TiposCanal
<1>2. /\ EliminarAntes(pedidos')
      /\ EsDeCpu(m) => \A n \in Range(pedidos) : n.op # "ELIMINAR_PROCESO"
  BY EliminarAntesAlSacar DEF TiposCanal, EnOrden, PedidosEnOrden
<1> HIDE DEF m
<1>3. Pedida(m)
  BY <1>1 DEF EnOrden, PedidosEnOrden
<1>4. ASSUME EsDeCpu(m)
      PROVE  /\ CpuPide
             /\ Range(pedidos') = {n \in Range(pedidos) : ~ EsDeCpu(n)}
  <2>1. ASSUME NEW n \in Range(pedidos), EsDeCpu(n) PROVE n = m
    <3>1. Pedida(n) /\ n \in Pedido
      BY <2>1, LenProperties, ElementOfSeq DEF EnOrden, PedidosEnOrden, TiposCanal, Range
    <3>2. n.op = m.op
      BY <1>3, <1>4, <2>1, <3>1 DEF Pedida, EsDeCpu
    <3>3. CASE m.op = "COMPACTAR"
      BY <1>1, <3>1, <3>2, <3>3, TipoDePedido
    <3>4. CASE m.op # "COMPACTAR"
      BY <1>3, <1>4, <3>1, <3>2, <3>4 DEF Pedida, EsDeCpu
    <3> QED
      BY <3>3, <3>4
  <2> QED
    BY <1>1, <1>4, <2>1 DEF CpuPide
<1> QED
  BY <1>1, <1>2, <1>3, <1>4 DEF m

\* The first table of a process is segment 0.
LEMMA TablaInicial ==
    ASSUME Inv, SegmentosConDueno, NEW p \in Pids, p \notin Publicados
    PROVE  Tabla(p) = {SegmentoCero}
<1>1. p # Compartido /\ SegmentoCero \in segmentos /\ SegmentoCero.pid = Compartido
  BY IdsAssumption DEF Inv, SegmentoCero
<1> QED
  BY <1>1 DEF SegmentosConDueno, Tabla

LEMMA InvAtenderCrearProceso ==
    ASSUME InvSocket, sano, fase = "atiende", pedidos # <<>>,
           pedidos' = Tail(pedidos), AtenderCrearProceso(Head(pedidos)),
           UNCHANGED <<lados, algoritmo>>
    PROVE  InvHilos'
<1>0. PICK m : m = Head(pedidos)
  OBVIOUS
<1>c. PICK r : r = RespuestaTabla({SegmentoCero}, "largo")
  OBVIOUS
<1>i. /\ TiposCanal /\ TiposHilos /\ TiposProcesos /\ TiposDeDatos
      /\ Lugares /\ GradoExacto /\ EnOrden /\ Inv
  BY DEF InvSocket, InvHilos, Tipos
<1>m. /\ m \in Pedido /\ m \in Range(pedidos)
      /\ pedidos' \in Seq(Pedido) /\ Distintos(pedidos')
      /\ Range(pedidos') = Range(pedidos) \ {m}
      /\ EliminarAntes(pedidos') /\ Pedida(m)
  BY <1>0, <1>i, AlTomarPedido
<1>p. /\ m.op = "CREAR_PROCESO" /\ largo = "recibe" /\ m.pid = proximo
      /\ proximo \in Pids /\ m = PidAMemoria("CREAR_PROCESO", proximo)
  BY <1>0, <1>m, TipoDePedido DEF AtenderCrearProceso, Pedida
<1>n. proximo \notin Publicados /\ proximo \notin terminados
  BY <1>i, <1>p, PidsEnNat DEF Publicados, Lugares
<1>a. /\ proximo \notin procesos /\ procesos' = procesos \cup {proximo}
      /\ orden' = Append(orden, proximo)
      /\ respuestas' = Append(respuestas, RespuestaTabla(Tabla(proximo), "largo"))
      /\ UNCHANGED <<segmentos, fase>>
      /\ UNCHANGED <<programa, proximo, grado, largo, listos, globales, cpu, actual,
                     pc, tabla, terminados, sano, escritos, espacio>>
  BY <1>0, <1>p DEF AtenderCrearProceso, CrearProceso, Responder, lados, contenido
<1>b. Tabla(proximo) = {SegmentoCero}
  BY <1>i, <1>n, <1>p, TablaInicial DEF EnOrden
<1>r. /\ respuestas' = Append(respuestas, r) /\ r \in Respuesta
      /\ r.para = "largo" /\ r.op = "TABLA_SEGMENTOS" /\ r.tabla = {SegmentoCero}
  <2>1. SegmentoCero \in Segmento
    BY <1>i DEF Inv, TypeOK
  <2> QED
    BY <1>a, <1>b, <1>c, <2>1 DEF RespuestaTabla, Respuesta
<1>s. \A n \in Range(respuestas) : n.para # "largo" /\ ParaCpu(n)
  BY <1>i, <1>m, <1>p DEF EnOrden, RespuestasEnOrden, ParaLargo, CreacionPendiente
<1>q. /\ respuestas' \in Seq(Respuesta) /\ Distintos(respuestas')
      /\ Range(respuestas') = Range(respuestas) \cup {r}
  BY <1>i, <1>r, <1>s, AlAgregar DEF TiposCanal
<1>d. ~ CreacionPendiente' /\ (CpuPide' <=> CpuPide)
  <2>1. \A n \in Range(pedidos) : n.op = "CREAR_PROCESO" => n = m
    <3>1. \A n \in Range(pedidos) : n \in Pedido /\ Pedida(n)
      BY <1>i, LenProperties, ElementOfSeq DEF EnOrden, PedidosEnOrden, TiposCanal, Range
    <3> QED
      BY <1>p, <3>1, TipoDePedido DEF Pedida
  <2> QED
    BY <1>m, <1>p, <2>1 DEF CreacionPendiente, CpuPide, EsDeCpu
<1>1. TiposCanal'
  <2>1. /\ orden' \in Seq(Pids) /\ Distintos(orden')
        /\ Range(orden') = Range(orden) \cup {proximo}
    BY <1>a, <1>i, <1>p, AlAgregar DEF TiposCanal
  <2> QED
    BY <1>a, <1>i, <1>m, <1>q, <2>1 DEF TiposCanal
<1>2. TiposDeDatos'
  BY <1>a, <1>i DEF TiposDeDatos, Direcciones
<1>3. ProcesosDeLaMemoria'
  <2>1. \A p \in Pids : Creado(p)' <=> Creado(p) \/ p = proximo
    BY <1>a, <1>d, <1>p DEF Creado
  <2>2. \A p \in Pids : EliminacionPendiente(p)' <=> EliminacionPendiente(p)
    BY <1>m, <1>p DEF EliminacionPendiente, PidAMemoria
  <2> QED
    BY <1>a, <1>i, <1>n, <2>1, <2>2 DEF EnOrden, ProcesosDeLaMemoria
<1>4. SegmentosConDueno'
  BY <1>a, <1>i DEF EnOrden, SegmentosConDueno, Publicados
<1>5. PedidosEnOrden'
  <2>1. \A n \in Range(pedidos') : Pedida(n)'
    BY <1>a, <1>i, <1>m DEF EnOrden, PedidosEnOrden, Pedida, Instruccion
  <2> QED
    BY <1>a, <1>d, <1>i, <1>m, <2>1 DEF EnOrden, PedidosEnOrden, CpuEspera
<1>6. RespuestasEnOrden'
  <2>1. ParaLargo(r)'
    BY <1>a, <1>d, <1>p, <1>r DEF ParaLargo
  <2>2. ASSUME NEW n \in Range(respuestas) PROVE ParaCpu(n)'
    <3>0. ParaCpu(n) /\ ~ CpuPide' /\ \A p : Tabla(p)' = Tabla(p)
      BY <1>a, <1>d, <1>s DEF ParaCpu, Tabla
    <3>1. CASE RespuestaACrear(n)
      <4>1. \A b : Nuevo(b)' = Nuevo(b)
        BY <1>a DEF Nuevo, Instruccion
      <4>2. RespuestaACrear(n)'
        BY <1>a, <3>0, <3>1, <4>1 DEF RespuestaACrear
      <4> QED
        BY <3>0, <4>2 DEF ParaCpu
    <3>2. CASE RespuestaAEliminar(n)
      <4>1. RespuestaAEliminar(n)'
        BY <1>a, <3>0, <3>2 DEF RespuestaAEliminar
      <4> QED
        BY <3>0, <4>1 DEF ParaCpu
    <3>3. CASE RespuestaACompactar(n)
      <4>0. TablasFieles(n)
        BY <3>3 DEF RespuestaACompactar
      <4>1. Head(respuestas') = n
        <5>1. /\ DOMAIN respuestas = 1..Len(respuestas) /\ Len(respuestas) \in Nat
              /\ Range(respuestas) = {respuestas[i] : i \in 1..Len(respuestas)}
          BY <1>i, LenProperties DEF TiposCanal, Range
        <5>2. Len(respuestas) >= 1 /\ respuestas[1] \in Range(respuestas)
          BY <5>1
        <5>3. \A x, y \in Range(respuestas) : x = y
          <6>1. \A x \in Range(respuestas) : x.para = "cpu"
            <7>1. Range(respuestas) \subseteq Respuesta
              BY <1>i, LenProperties, ElementOfSeq DEF TiposCanal, Range
            <7> QED
              BY <1>s, <7>1, TipoDeRespuesta
          <6> QED
            BY <1>i, <6>1 DEF EnOrden, RespuestasEnOrden
        <5>4. Head(respuestas') = respuestas[1]
          BY <1>i, <1>r, <5>1, <5>2 DEF TiposCanal
        <5> QED
          BY <5>2, <5>3, <5>4
      <4>2. \A p \in procesos' : (\A k \in DOMAIN n.tablas : n.tablas[k].pid # p) =>
               p = proximo
        BY <1>a, <4>0 DEF TablasFieles
      <4>3. TablasFieles(n)'
        BY <1>a, <1>p, <3>0, <4>0, <4>1, <4>2 DEF TablasFieles
      <4>4. RespuestaACompactar(n)'
        BY <1>a, <3>3, <4>3 DEF RespuestaACompactar
      <4> QED
        BY <3>0, <4>4 DEF ParaCpu
    <3> QED
      BY <3>0, <3>1, <3>2, <3>3 DEF ParaCpu
  <2> QED
    BY <1>i, <1>q, <1>r, <1>s, <2>1, <2>2 DEF EnOrden, RespuestasEnOrden
<1>7. FaseEnOrden'
  BY <1>a, <1>d, <1>i, <1>q DEF EnOrden, FaseEnOrden, HayParaCpu
<1>8. TablasEnCamino'
  BY <1>a, <1>i, <1>q DEF EnOrden, TablasEnCamino, Admitidos, Trae, Tabla
<1> QED
  BY <1>1, <1>2, <1>3, <1>4, <1>5, <1>6, <1>7, <1>8, LadosIguales
     DEF InvHilos, Tipos, EnOrden

LEMMA InvAtenderEliminarProceso ==
    ASSUME InvSocket, sano, fase = "atiende", pedidos # <<>>,
           pedidos' = Tail(pedidos), AtenderEliminarProceso(Head(pedidos)),
           UNCHANGED <<lados, algoritmo>>
    PROVE  InvHilos'
<1>0. PICK m : m = Head(pedidos)
  OBVIOUS
<1>i. /\ TiposCanal /\ TiposHilos /\ TiposProcesos /\ TiposDeDatos
      /\ Lugares /\ GradoExacto /\ EnOrden
  BY DEF InvSocket, InvHilos, Tipos
<1>m. /\ m \in Pedido /\ m \in Range(pedidos)
      /\ pedidos' \in Seq(Pedido) /\ Distintos(pedidos')
      /\ Range(pedidos') = Range(pedidos) \ {m}
      /\ EliminarAntes(pedidos') /\ Pedida(m)
  BY <1>0, <1>i, AlTomarPedido
<1>1. PICK p \in Pids : p = m.pid /\ m = PidAMemoria("ELIMINAR_PROCESO", p)
                        /\ m.op = "ELIMINAR_PROCESO"
  BY <1>0, <1>m, TipoDePedido DEF AtenderEliminarProceso
<1>2. PICK i \in DOMAIN orden : orden[i] = p /\ orden' = RemoveAt(orden, i)
  BY <1>0, <1>1 DEF AtenderEliminarProceso
<1>a. /\ procesos' = procesos \ {p} /\ segmentos' = {s \in segmentos : s.pid # p}
      /\ UNCHANGED <<fase, respuestas>>
      /\ UNCHANGED <<programa, proximo, grado, largo, listos, globales, cpu, actual,
                     pc, tabla, terminados, sano, escritos, espacio>>
  BY <1>0, <1>1 DEF AtenderEliminarProceso, EliminarProceso, lados, contenido
<1>p. p \in terminados /\ p # Compartido
  BY <1>1, <1>m, IdsAssumption DEF Pedida
<1>s. \A n \in Range(respuestas) : n.para = "largo" /\ ParaLargo(n)
  <2>1. ~ (~ CpuPide /\ CpuEspera)
    BY <1>1, <1>i, <1>m DEF EnOrden, PedidosEnOrden
  <2>2. CpuPide \/ cpu \in {"libre", "ejecuta", "compacta"}
    BY <2>1 DEF CpuEspera
  <2> QED
    BY <1>i, <2>2, SinRespuestaParaCpu DEF EnOrden
<1>d. (CreacionPendiente' <=> CreacionPendiente) /\ (CpuPide' <=> CpuPide)
  BY <1>1, <1>m DEF CreacionPendiente, CpuPide, EsDeCpu
<1>3. TiposCanal'
  <2>1. /\ orden' \in Seq(Pids) /\ Distintos(orden')
        /\ Range(orden') = Range(orden) \ {p}
    BY <1>2, <1>i, AlQuitar DEF TiposCanal
  <2> QED
    BY <1>a, <1>i, <1>m, <2>1 DEF TiposCanal
<1>4. TiposDeDatos'
  BY <1>a, <1>i DEF TiposDeDatos, Direcciones
<1>5. ProcesosDeLaMemoria'
  <2>1. \A q \in Pids : Creado(q)' <=> Creado(q)
    BY <1>a, <1>d DEF Creado
  <2>2. \A q \in Pids : EliminacionPendiente(q)' <=> EliminacionPendiente(q) /\ q # p
    BY <1>1, <1>m DEF EliminacionPendiente, PidAMemoria
  <2> QED
    BY <1>a, <1>i, <1>p, <2>1, <2>2 DEF EnOrden, ProcesosDeLaMemoria
<1>6. SegmentosConDueno'
  BY <1>a, <1>i DEF EnOrden, SegmentosConDueno, Publicados
<1>7. PedidosEnOrden'
  <2>1. \A n \in Range(pedidos') : Pedida(n)'
    BY <1>a, <1>i, <1>m DEF EnOrden, PedidosEnOrden, Pedida, Instruccion
  <2> QED
    BY <1>a, <1>d, <1>i, <1>m, <2>1 DEF EnOrden, PedidosEnOrden, CpuEspera
<1>8. RespuestasEnOrden'
  <2>1. \A n \in Range(respuestas) : ParaLargo(n)'
    BY <1>a, <1>d, <1>s DEF ParaLargo
  <2> QED
    BY <1>a, <1>i, <1>s, <2>1 DEF EnOrden, RespuestasEnOrden
<1>9. FaseEnOrden'
  BY <1>a, <1>d, <1>i DEF EnOrden, FaseEnOrden, HayParaCpu
<1>10. TablasEnCamino'
  <2>1. ASSUME NEW q \in Admitidos PROVE tabla[q] = Tabla(q) /\ q # p
    BY <1>i, <1>p, <1>s DEF EnOrden, TablasEnCamino, Trae, Admitidos
  <2>2. \A q \in Admitidos : Tabla(q)' = Tabla(q)
    BY <1>a, <1>p, <2>1 DEF Tabla
  <2> QED
    BY <1>a, <2>1, <2>2 DEF TablasEnCamino, Admitidos
<1> QED
  BY <1>3, <1>4, <1>5, <1>6, <1>7, <1>8, <1>9, <1>10, LadosIguales
     DEF InvHilos, Tipos, EnOrden

\* The memory answers the CPU thread.
LEMMA InvResponderCpu ==
    ASSUME InvSocket, sano, UNCHANGED <<lados, procesos, orden, contenido>>,
           \A n \in Range(respuestas) : n.para = "largo",
           NEW r \in Respuesta, r.para = "cpu", respuestas' = Append(respuestas, r),
           pedidos' \in Seq(Pedido), Distintos(pedidos'), EliminarAntes(pedidos'),
           Range(pedidos') = {n \in Range(pedidos) : ~ EsDeCpu(n)},
           \A n \in Range(pedidos') : n.op # "ELIMINAR_PROCESO",
           \/ RespuestaACrear(r)' \/ RespuestaAEliminar(r)'
           \/ RespuestaACompactar(r)',
           SegmentosConDueno',
           fase' = "espera_kernel" => cpu = "crea",
           fase' # "compacta", cpu # "compacta",
           \A p \in Admitidos : tabla[p] = Tabla(p)' \/ Trae(p, r)
    PROVE  InvHilos'
<1>i. /\ TiposCanal /\ TiposHilos /\ TiposProcesos /\ TiposDeDatos
      /\ Lugares /\ GradoExacto /\ EnOrden
  BY DEF InvSocket, InvHilos, Tipos
<1>a. UNCHANGED <<programa, proximo, grado, largo, listos, globales, cpu, actual,
                  pc, tabla, terminados, sano, escritos, espacio, procesos, orden>>
  BY DEF lados, contenido
<1>q. /\ respuestas' \in Seq(Respuesta) /\ Distintos(respuestas')
      /\ Range(respuestas') = Range(respuestas) \cup {r}
  <2>1. r \notin Range(respuestas)
    OBVIOUS
  <2> QED
    BY <1>i, <2>1, AlAgregar DEF TiposCanal
<1>d. (CreacionPendiente' <=> CreacionPendiente) /\ ~ CpuPide'
  BY DEF CreacionPendiente, CpuPide, EsDeCpu
<1>1. TiposCanal' /\ TiposDeDatos'
  BY <1>a, <1>i, <1>q DEF TiposCanal, TiposDeDatos, Direcciones
<1>2. ProcesosDeLaMemoria'
  <2>1. \A q \in Pids : Creado(q)' <=> Creado(q)
    BY <1>a, <1>d DEF Creado
  <2>2. \A q \in Pids : EliminacionPendiente(q)' <=> EliminacionPendiente(q)
    BY DEF EliminacionPendiente, PidAMemoria, EsDeCpu
  <2> QED
    BY <1>a, <1>i, <2>1, <2>2 DEF EnOrden, ProcesosDeLaMemoria
<1>3. PedidosEnOrden'
  <2>1. \A n \in Range(pedidos') : Pedida(n)'
    BY <1>a, <1>i DEF EnOrden, PedidosEnOrden, Pedida, EsDeCpu
  <2> QED
    BY <2>1 DEF PedidosEnOrden
<1>4. RespuestasEnOrden'
  <2>1. \A n \in Range(respuestas) : ParaLargo(n)'
    BY <1>a, <1>d, <1>i DEF EnOrden, RespuestasEnOrden, ParaLargo
  <2>2. ParaCpu(r)'
    BY <1>d DEF ParaCpu
  <2> QED
    BY <1>i, <1>q, <2>1, <2>2 DEF EnOrden, RespuestasEnOrden
<1>5. FaseEnOrden'
  BY <1>a, <1>q DEF FaseEnOrden, HayParaCpu
<1>6. TablasEnCamino'
  BY <1>a, <1>q DEF TablasEnCamino, Admitidos, Trae
<1> QED
  BY <1>1, <1>2, <1>3, <1>4, <1>5, <1>6, LadosIguales DEF InvHilos, Tipos, EnOrden

\* The tables of every admitted process, while the CPU thread's request is to be
\* read.
LEMMA TablasAntesDePedir ==
    ASSUME TiposCanal, EnOrden, CpuPide, fase # "compacta"
    PROVE  /\ \A n \in Range(respuestas) : n.para = "largo"
           /\ \A p \in Admitidos : tabla[p] = Tabla(p)
<1>1. \A n \in Range(respuestas) : n.para = "largo"
  BY SinRespuestaParaCpu DEF EnOrden
<1> QED
  BY <1>1 DEF EnOrden, TablasEnCamino, Trae

LEMMA InvAtenderCrearSegmento ==
    ASSUME InvSocket, sano, fase = "atiende", pedidos # <<>>,
           pedidos' = Tail(pedidos), AtenderCrearSegmento(Head(pedidos)),
           UNCHANGED <<lados, algoritmo>>
    PROVE  InvHilos'
<1>0. PICK m : m = Head(pedidos)
  OBVIOUS
<1>i. /\ TiposCanal /\ TiposHilos /\ TiposProcesos /\ TiposDeDatos
      /\ Lugares /\ GradoExacto /\ EnOrden /\ Inv
  BY DEF InvSocket, InvHilos, Tipos
<1>o. m.op = "CREAR_SEGMENTO" /\ EsDeCpu(m)
  BY <1>0 DEF AtenderCrearSegmento, EsDeCpu
<1>m. /\ pedidos' \in Seq(Pedido) /\ Distintos(pedidos')
      /\ EliminarAntes(pedidos') /\ Pedida(m) /\ CpuPide
      /\ Range(pedidos') = {n \in Range(pedidos) : ~ EsDeCpu(n)}
      /\ \A n \in Range(pedidos') : n.op # "ELIMINAR_PROCESO"
  BY <1>0, <1>i, <1>o, AlTomarPedido
<1>p. /\ cpu = "crea" /\ m.pid = actual /\ m.id = Instruccion.id
      /\ m.tamanio = Instruccion.tamanio /\ actual \in Pids /\ actual # 0
      /\ actual \in Publicados /\ actual \in Admitidos
  <2>1. /\ cpu = "crea" /\ m.pid = actual /\ m.id = Instruccion.id
        /\ m.tamanio = Instruccion.tamanio
    BY <1>m, <1>o DEF Pedida, SolicitudDeCreacion
  <2> QED
    BY <1>i, <2>1 DEF TiposHilos, Lugares, Publicados, Admitidos
<1>t. /\ \A n \in Range(respuestas) : n.para = "largo"
      /\ \A p \in Admitidos : tabla[p] = Tabla(p)
  BY <1>i, <1>m, TablasAntesDePedir
<1>a. /\ UNCHANGED <<procesos, orden, contenido>>
      /\ PedidoCrearSegmento(m.pid, m.id, m.tamanio)
  BY <1>0 DEF AtenderCrearSegmento, PedidoCrearSegmento
<1>u. UNCHANGED <<programa, cpu, actual, pc, tabla, proximo, largo>>
  BY DEF lados
<1>v. \A b : Nuevo(b)' = Nuevo(b)
  BY <1>u DEF Nuevo, Instruccion
<1>r. PICK r : r = PuedoCrearSegmento(m.pid, m.id, m.tamanio)
  OBVIOUS
<1>1. CASE r = "OK"
  <2>1. CrearSegmento(m.pid, m.id, m.tamanio)
    BY <1>1, <1>a, <1>r DEF PedidoCrearSegmento
  <2>2. PICK h \in Elegibles(m.tamanio) :
           segmentos' = segmentos \cup
              {[pid |-> m.pid, idSegmento |-> m.id, base |-> h.base,
                tamanio |-> m.tamanio]}
    BY <2>1 DEF CrearSegmento
  <2>h. h.base \in Nat /\ fase' = "atiende"
    BY <1>i, <2>1 DEF Elegibles, Entran, Inv, TypeOK, Hueco, CrearSegmento
  <2>3. segmentos' = segmentos \cup {Nuevo(h.base)} /\ Nuevo(h.base).base = h.base
    BY <1>p, <2>2 DEF Nuevo
  <2>4. respuestas' = Append(respuestas, [op |-> "OK", base |-> h.base, para |-> "cpu"])
    <3>1. PICK s \in segmentos' \ segmentos :
             respuestas' = Append(respuestas, [op |-> "OK", base |-> s.base, para |-> "cpu"])
      BY <1>0, <1>1, <1>r DEF AtenderCrearSegmento, Responder
    <3>2. s = Nuevo(h.base)
      BY <2>3, <3>1
    <3> QED
      BY <2>3, <3>1, <3>2
  <2>5. PICK c : c = [op |-> "OK", base |-> h.base, para |-> "cpu"]
    OBVIOUS
  <2>6. /\ c \in Respuesta /\ c.para = "cpu" /\ c.op = "OK" /\ c.base = h.base
        /\ respuestas' = Append(respuestas, c)
    BY <2>4, <2>5, <2>h DEF Respuesta
  <2>7. Tabla(actual)' = tabla'[actual] \cup {Nuevo(h.base)}
    <3>1. Nuevo(h.base).pid = actual
      BY DEF Nuevo
    <3>2. tabla[actual] = Tabla(actual)
      BY <1>p, <1>t
    <3> QED
      BY <1>u, <2>3, <3>1, <3>2 DEF Tabla
  <2>8. RespuestaACrear(c)'
    BY <1>p, <1>u, <1>v, <2>6, <2>7, <2>h DEF RespuestaACrear
  <2>9. SegmentosConDueno'
    <3>1. Nuevo(h.base).pid = actual /\ actual # Compartido
      BY <1>p, IdsAssumption DEF Nuevo
    <3> QED
      BY <1>i, <1>p, <1>u, <2>3, <3>1 DEF EnOrden, SegmentosConDueno, Publicados
  <2>10. \A p \in Admitidos : tabla[p] = Tabla(p)' \/ Trae(p, c)
    <3> SUFFICES ASSUME NEW p \in Admitidos, p # actual
                 PROVE  tabla[p] = Tabla(p)'
      BY <1>p, <2>6 DEF Trae
    <3>1. Nuevo(h.base).pid = actual /\ actual # Compartido /\ p \in Pids
      BY <1>p, IdsAssumption DEF Nuevo, Admitidos
    <3>2. Tabla(p)' = Tabla(p)
      BY <2>3, <3>1 DEF Tabla
    <3> QED
      BY <1>t, <3>2
  <2> QED
    BY <1>a, <1>m, <1>p, <1>t, <2>6, <2>8, <2>9, <2>10, <2>h, InvResponderCpu
<1>2. CASE r # "OK"
  <2>1. r \in Rechazos
    BY <1>2, <1>r DEF PuedoCrearSegmento, Rechazos
  <2>2. /\ segmentos' = segmentos
        /\ fase' = IF r = "NECESITA_COMPACTACION" THEN "espera_kernel" ELSE "atiende"
    BY <1>2, <1>a, <1>r DEF PedidoCrearSegmento, CrearSegmento, NoCrearSegmento
  <2>3. PICK c : c = [op |-> r, para |-> "cpu"]
    OBVIOUS
  <2>4. /\ c \in Respuesta /\ c.para = "cpu" /\ c.op = r
        /\ respuestas' = Append(respuestas, c)
    BY <1>0, <1>2, <1>r, <2>1, <2>3 DEF AtenderCrearSegmento, Responder, Respuesta
  <2>5. RespuestaACrear(c)'
    BY <1>p, <1>u, <1>2, <2>1, <2>2, <2>4 DEF RespuestaACrear
  <2>6. SegmentosConDueno'
    BY <1>i, <1>u, <2>2 DEF EnOrden, SegmentosConDueno, Publicados
  <2>7. \A p \in Admitidos : tabla[p] = Tabla(p)'
    BY <1>t, <2>2 DEF Tabla
  <2> QED
    BY <1>a, <1>m, <1>p, <1>t, <2>2, <2>4, <2>5, <2>6, <2>7, InvResponderCpu
<1> QED
  BY <1>1, <1>2

LEMMA InvAtenderEliminarSegmento ==
    ASSUME InvSocket, sano, fase = "atiende", pedidos # <<>>,
           pedidos' = Tail(pedidos), AtenderEliminarSegmento(Head(pedidos)),
           UNCHANGED <<lados, algoritmo>>
    PROVE  InvHilos'
<1>0. PICK m : m = Head(pedidos)
  OBVIOUS
<1>i. /\ TiposCanal /\ TiposHilos /\ TiposProcesos /\ TiposDeDatos
      /\ Lugares /\ GradoExacto /\ EnOrden /\ Inv
  BY DEF InvSocket, InvHilos, Tipos
<1>o. m.op = "ELIMINAR_SEGMENTO" /\ EsDeCpu(m)
  BY <1>0 DEF AtenderEliminarSegmento, EsDeCpu
<1>m. /\ pedidos' \in Seq(Pedido) /\ Distintos(pedidos')
      /\ EliminarAntes(pedidos') /\ Pedida(m) /\ CpuPide
      /\ Range(pedidos') = {n \in Range(pedidos) : ~ EsDeCpu(n)}
      /\ \A n \in Range(pedidos') : n.op # "ELIMINAR_PROCESO"
  BY <1>0, <1>i, <1>o, AlTomarPedido
<1>p. cpu = "elimina" /\ m.pid = actual /\ actual \in Pids /\ actual # Compartido
  <2>1. cpu = "elimina" /\ m.pid = actual
    BY <1>m, <1>o DEF Pedida, SolicitudDeEliminacion
  <2> QED
    BY <1>i, <2>1, IdsAssumption DEF TiposHilos
<1>t. /\ \A n \in Range(respuestas) : n.para = "largo"
      /\ \A p \in Admitidos : tabla[p] = Tabla(p)
  BY <1>i, <1>m, TablasAntesDePedir
<1>u. UNCHANGED <<programa, cpu, actual, pc, tabla, proximo, largo>>
  BY DEF lados
<1>a. /\ UNCHANGED <<procesos, orden, contenido>> /\ fase' = "atiende"
      /\ segmentos' \subseteq segmentos
      /\ \A s \in segmentos : s.pid # actual => s \in segmentos'
  <2>1. CASE EliminarSegmento(m.pid, m.id)
    BY <1>0, <1>p, <2>1 DEF EliminarSegmento, AtenderEliminarSegmento
  <2>2. CASE UNCHANGED <<procesos, segmentos, huecos, fase, compactacion>>
    BY <1>0, <2>2 DEF AtenderEliminarSegmento
  <2> QED
    BY <1>0, <2>1, <2>2 DEF AtenderEliminarSegmento
<1>1. PICK c : c = RespuestaTabla({s \in segmentos' : s.pid \in {actual, Compartido}},
                                  "cpu")
  OBVIOUS
<1>2. /\ c \in Respuesta /\ c.para = "cpu" /\ c.op = "TABLA_SEGMENTOS"
      /\ c.tabla = {s \in segmentos' : s.pid \in {actual, Compartido}}
      /\ respuestas' = Append(respuestas, c)
  <2>1. segmentos \subseteq Segmento
    BY <1>i DEF Inv, TypeOK
  <2> QED
    BY <1>0, <1>1, <1>a, <1>p, <2>1
       DEF AtenderEliminarSegmento, Responder, RespuestaTabla, Respuesta
<1>3. RespuestaAEliminar(c)'
  BY <1>2, <1>a, <1>p, <1>u DEF RespuestaAEliminar, Tabla
<1>4. SegmentosConDueno'
  BY <1>a, <1>i, <1>u DEF EnOrden, SegmentosConDueno, Publicados
<1>5. \A p \in Admitidos : tabla[p] = Tabla(p)' \/ Trae(p, c)
  <2> SUFFICES ASSUME NEW p \in Admitidos, p # actual
               PROVE  tabla[p] = Tabla(p)'
    BY <1>2, <1>p DEF Trae
  <2>1. Tabla(p)' = Tabla(p)
    BY <1>a, <1>p DEF Tabla
  <2> QED
    BY <1>t, <2>1
<1> QED
  BY <1>2, <1>3, <1>4, <1>5, <1>a, <1>m, <1>p, <1>t, InvResponderCpu

\* The answer to the request for leave: the other thread's request is in its
\* place only while that thread admits a process.
LEMMA InvAtenderCompactar ==
    ASSUME InvSocket, sano, AtenderCompactar, UNCHANGED algoritmo
    PROVE  InvHilos'
<1>0. PICK m : m = Head(pedidos)
  OBVIOUS
<1>i. /\ TiposCanal /\ TiposHilos /\ TiposProcesos /\ TiposDeDatos
      /\ Lugares /\ GradoExacto /\ EnOrden /\ Inv
  BY DEF InvSocket, InvHilos, Tipos
<1>a. /\ fase = "espera_kernel" /\ pedidos # <<>> /\ pedidos' = Tail(pedidos)
      /\ UNCHANGED <<respuestas, orden>>
  BY DEF AtenderCompactar
<1>m. /\ m \in Pedido /\ m \in Range(pedidos)
      /\ pedidos' \in Seq(Pedido) /\ Distintos(pedidos')
      /\ EliminarAntes(pedidos') /\ Pedida(m)
      /\ EsDeCpu(m) =>
            /\ CpuPide
            /\ Range(pedidos') = {n \in Range(pedidos) : ~ EsDeCpu(n)}
            /\ \A n \in Range(pedidos) : n.op # "ELIMINAR_PROCESO"
  BY <1>0, <1>a, <1>i, AlTomarPedido
<1>1. CASE m = Compactar
  <2>0. m.op = "COMPACTAR" /\ EsDeCpu(m)
    BY <1>1 DEF Compactar, EsDeCpu
  <2>a. /\ RecibirCompactar /\ UNCHANGED <<lados, contenido>>
        /\ UNCHANGED <<procesos, segmentos>> /\ fase' = "compacta"
    BY <1>0, <1>1 DEF AtenderCompactar, RecibirCompactar
  <2>b. UNCHANGED <<programa, proximo, grado, largo, listos, globales, cpu, actual,
                    pc, tabla, terminados, sano, escritos, espacio>>
    BY <2>a DEF lados, contenido
  <2>c. cpu = "tablas"
    BY <1>m, <2>0 DEF Pedida
  <2>d. (CreacionPendiente' <=> CreacionPendiente) /\ ~ CpuPide'
    BY <1>m, <2>0 DEF CreacionPendiente, CpuPide, EsDeCpu
  <2>1. TiposCanal' /\ TiposDeDatos'
    BY <1>a, <1>i, <1>m, <2>a, <2>b DEF TiposCanal, TiposDeDatos, Direcciones
  <2>2. ProcesosDeLaMemoria' /\ SegmentosConDueno'
    <3>1. \A q \in Pids : Creado(q)' <=> Creado(q)
      BY <2>b, <2>d DEF Creado
    <3>2. \A q \in Pids : EliminacionPendiente(q)' <=> EliminacionPendiente(q)
      BY <1>m, <2>0 DEF EliminacionPendiente, PidAMemoria, EsDeCpu
    <3> QED
      BY <1>i, <2>a, <2>b, <3>1, <3>2
         DEF EnOrden, ProcesosDeLaMemoria, SegmentosConDueno, Publicados
  <2>3. PedidosEnOrden'
    <3>1. \A n \in Range(pedidos') : Pedida(n)'
      BY <1>i, <1>m, <2>0, <2>b DEF EnOrden, PedidosEnOrden, Pedida, EsDeCpu
    <3> QED
      BY <1>m, <2>0, <3>1 DEF PedidosEnOrden
  <2>4. RespuestasEnOrden'
    <3>1. \A n \in Range(respuestas) : n.para = "largo" /\ ParaLargo(n)'
      <4>1. \A n \in Range(respuestas) : n.para = "largo" /\ ParaLargo(n)
        BY <1>i, <1>m, <2>0, SinRespuestaParaCpu DEF EnOrden
      <4> QED
        BY <2>b, <2>d, <4>1 DEF ParaLargo
    <3> QED
      BY <1>a, <1>i, <3>1 DEF EnOrden, RespuestasEnOrden
  <2>5. FaseEnOrden'
    BY <2>a, <2>b, <2>c, <2>d DEF FaseEnOrden
  <2>6. TablasEnCamino'
    BY <2>a DEF TablasEnCamino
  <2> QED
    BY <2>1, <2>2, <2>3, <2>4, <2>5, <2>6, <2>a, LadosIguales
       DEF InvHilos, Tipos, EnOrden
<1>2. CASE m # Compactar
  <2>a. /\ sano' = FALSE
        /\ UNCHANGED <<vars, programa, proximo, grado, largo, listos, globales, cpu,
                       actual, pc, tabla, terminados, contenido>>
    BY <1>0, <1>2 DEF AtenderCompactar
  <2>b. UNCHANGED <<procesos, escritos, espacio>>
    BY <2>a DEF vars, contenido
  <2>1. Tipos'
    <3>1. TiposCanal' /\ TiposDeDatos'
      BY <1>a, <1>i, <1>m, <2>b DEF TiposCanal, TiposDeDatos, Direcciones
    <3>2. TiposHilos' /\ TiposProcesos'
      BY <1>i, <2>a DEF TiposHilos, TiposProcesos, Instruccion
    <3> QED
      BY <3>1, <3>2 DEF Tipos
  <2>2. Lugares' /\ GradoExacto'
    BY <1>i, <2>a DEF Lugares, Publicados, GradoExacto
  <2>3. largo = "recibe"
    <3>1. m.op \in Mensajes /\ m.op # "COMPACTAR"
      BY <1>2, <1>m, TipoDePedido
    <3>2. m.op \in {"CREAR_PROCESO", "ELIMINAR_PROCESO"}
      BY <1>a, <1>m, <3>1 DEF Pedida, Mensajes
    <3>3. ASSUME m.op = "ELIMINAR_PROCESO" PROVE FALSE
      <4>1. CpuPide
        <5>1. ~ (CpuEspera /\ ~ CpuPide)
          BY <1>i, <1>m, <3>3 DEF EnOrden, PedidosEnOrden
        <5> QED
          BY <1>a, <1>i, <5>1 DEF EnOrden, FaseEnOrden, CpuEspera
      <4>2. PICK n \in Range(pedidos) : EsDeCpu(n)
        BY <4>1 DEF CpuPide
      <4>3. n.op = "COMPACTAR"
        BY <1>a, <1>i, <4>2 DEF EnOrden, PedidosEnOrden, Pedida, EsDeCpu
      <4> QED
        BY <1>i, <1>m, <3>3, <4>2, <4>3 DEF EnOrden, PedidosEnOrden, EliminarAntes, Range
    <3> QED
      BY <1>m, <3>2, <3>3 DEF Pedida
  <2> QED
    BY <2>1, <2>2, <2>3, <2>a DEF InvHilos, SeCruzanAlIngresar
<1> QED
  BY <1>1, <1>2

\* A segment that moves keeps its owner, and segment 0 does not move.
LEMMA InvMoverUno ==
    ASSUME InvSocket, sano, MoverUno, UNCHANGED algoritmo
    PROVE  InvHilos'
<1>i. /\ TiposCanal /\ TiposHilos /\ TiposProcesos /\ TiposDeDatos
      /\ Lugares /\ GradoExacto /\ EnOrden /\ Inv
  BY DEF InvSocket, InvHilos, Tipos
<1>1. PICK s \in pendientes :
         segmentos' = (segmentos \ {s}) \cup {[s EXCEPT !.base = frontera]}
  BY DEF MoverUno, CompactarUno, Siguientes
<1>a. /\ fase = "compacta" /\ fase' = "compacta"
      /\ UNCHANGED <<procesos, pedidos, respuestas, orden, programa, proximo, grado,
                     largo, listos, globales, cpu, actual, pc, tabla, terminados, sano>>
      /\ UNCHANGED lados
  BY DEF MoverUno, CompactarUno, canal, lados
<1>2. SegmentosConDueno'
  <2>1. s \in segmentos /\ s \in Segmento /\ s # SegmentoCero
    BY <1>1, <1>a, <1>i DEF Inv, TypeOK, Contiguos, Compactados
  <2>2. s.pid # Compartido /\ s.pid \in Publicados
    BY <1>i, <2>1 DEF EnOrden, SegmentosConDueno
  <2>3. [s EXCEPT !.base = frontera].pid = s.pid
    BY <2>1 DEF Segmento
  <2> QED
    BY <1>1, <1>a, <1>i, <2>2, <2>3 DEF EnOrden, SegmentosConDueno, Publicados
<1>3. TiposDeDatos'
  <2>1. PICK r \in Siguientes : Mudar(r, frontera)
    BY DEF MoverUno
  <2>2. DOMAIN espacio' = Direcciones
    BY <1>i, <2>1 DEF Mudar, contenido, TiposDeDatos
  <2>3. escritos' \in [Pids -> SUBSET Ids]
    BY <1>i, <2>1 DEF Mudar, contenido, TiposDeDatos
  <2> QED
    BY <2>2, <2>3 DEF TiposDeDatos, Direcciones
<1>4. TiposCanal'
  BY <1>a, <1>i DEF TiposCanal
<1>d. (CreacionPendiente' <=> CreacionPendiente) /\ (CpuPide' <=> CpuPide)
  BY <1>a DEF CreacionPendiente, CpuPide
<1>5. ProcesosDeLaMemoria'
  <2>1. \A q \in Pids : Creado(q)' <=> Creado(q)
    BY <1>a, <1>d DEF Creado
  <2> QED
    BY <1>a, <1>i, <2>1 DEF EnOrden, ProcesosDeLaMemoria, EliminacionPendiente
<1>6. PedidosEnOrden'
  <2>1. \A n \in Range(pedidos) : Pedida(n)'
    BY <1>a, <1>i DEF EnOrden, PedidosEnOrden, Pedida, Instruccion
  <2> QED
    BY <1>a, <1>d, <1>i, <2>1 DEF EnOrden, PedidosEnOrden, CpuEspera
<1>7. RespuestasEnOrden'
  <2>1. \A n \in Range(respuestas) : n.para = "largo" /\ ParaLargo(n)
    BY <1>a, <1>i, SinRespuestaParaCpu DEF EnOrden
  <2>2. \A n \in Range(respuestas) : ParaLargo(n)'
    BY <1>a, <1>d, <2>1 DEF ParaLargo
  <2> QED
    BY <1>a, <1>i, <2>1, <2>2 DEF EnOrden, RespuestasEnOrden
<1>8. FaseEnOrden'
  BY <1>a, <1>d, <1>i DEF EnOrden, FaseEnOrden
<1>9. TablasEnCamino'
  BY <1>a DEF TablasEnCamino
<1> QED
  BY <1>2, <1>3, <1>4, <1>5, <1>6, <1>7, <1>8, <1>9, <1>a, LadosIguales
     DEF InvHilos, Tipos, EnOrden

LEMMA InvTerminarPedidoCompactar ==
    ASSUME InvSocket, sano, TerminarPedidoCompactar, UNCHANGED algoritmo
    PROVE  InvHilos'
<1>i. /\ TiposCanal /\ TiposHilos /\ TiposProcesos /\ TiposDeDatos
      /\ Lugares /\ GradoExacto /\ EnOrden /\ Inv
  BY DEF InvSocket, InvHilos, Tipos
<1>0. PICK r : r = RespuestaTablas(segmentos)
  OBVIOUS
<1>a. /\ fase = "compacta" /\ fase' = "atiende"
      /\ respuestas' = Append(respuestas, r)
      /\ UNCHANGED <<procesos, segmentos, pedidos, orden, lados, contenido>>
      /\ UNCHANGED <<programa, proximo, largo, cpu, actual, pc, tabla>>
  BY <1>0 DEF TerminarPedidoCompactar, ResponderTablas, TerminarCompactacion, Responder,
     lados
<1>c. cpu = "tablas" /\ ~ CpuPide
  BY <1>a, <1>i DEF EnOrden, FaseEnOrden
<1>t. \A n \in Range(respuestas) : n.para = "largo"
  BY <1>a, <1>i, SinRespuestaParaCpu DEF EnOrden
<1>r. /\ r.op = "OK" /\ r.para = "cpu" /\ DOMAIN r.tablas = DOMAIN orden
      /\ \A k \in DOMAIN orden :
            r.tablas[k].pid = orden[k] /\ r.tablas[k].tabla = Tabla(orden[k])
      /\ r \in Tablas
  <2> DEFINE T == [i \in DOMAIN orden |->
                     [pid |-> orden[i],
                      tabla |-> {s \in segmentos : s.pid \in {orden[i], Compartido}}]]
  <2>1. r = [op |-> "OK", para |-> "cpu", tablas |-> T]
    BY <1>0 DEF RespuestaTablas
  <2>2. /\ DOMAIN orden = 1..Len(orden) /\ Len(orden) \in Nat
        /\ \A k \in DOMAIN orden : orden[k] \in Pids
    BY <1>i, LenProperties, ElementOfSeq DEF TiposCanal
  <2>3. \A k \in DOMAIN orden : T[k] \in TablaDeUno
    BY <1>i, <2>2 DEF TablaDeUno, Inv, TypeOK
  <2>4. T \in Seq(TablaDeUno)
    <3> HIDE DEF T
    <3>1. T \in [1..Len(orden) -> TablaDeUno]
      <4>1. T = [i \in 1..Len(orden) |-> T[i]]
        BY <2>2 DEF T
      <4> QED
        BY <2>2, <2>3, <4>1
    <3> QED
      BY <2>2, <3>1, SeqDef
  <2>5. \A k \in DOMAIN orden : T[k].pid = orden[k] /\ T[k].tabla = Tabla(orden[k])
    BY DEF Tabla
  <2>6. DOMAIN T = DOMAIN orden
    OBVIOUS
  <2> HIDE DEF T
  <2> QED
    BY <2>1, <2>4, <2>5, <2>6 DEF Tablas
<1>o. /\ \A k, l \in DOMAIN orden : orden[k] = orden[l] => k = l
      /\ procesos = {orden[k] : k \in DOMAIN orden}
  BY <1>i DEF TiposCanal, Distintos, Range
<1>1. RespuestaACompactar(r)'
  <2>1. \A p : Tabla(p)' = Tabla(p)
    BY <1>a DEF Tabla
  <2>2. TablasFieles(r)'
    BY <1>a, <1>o, <1>r, <2>1 DEF TablasFieles
  <2> QED
    BY <1>a, <1>c, <1>r, <2>2 DEF RespuestaACompactar
<1>2. SegmentosConDueno'
  BY <1>a, <1>i DEF EnOrden, SegmentosConDueno, Publicados
<1>3. \A p \in Admitidos : Trae(p, r)
  <2> SUFFICES ASSUME NEW p \in Admitidos PROVE Trae(p, r)
    OBVIOUS
  <2>1. p \in procesos
    BY <1>i DEF Admitidos, EnOrden, ProcesosDeLaMemoria, Creado
  <2> QED
    BY <1>c, <1>o, <1>r, <2>1 DEF Trae
<1>4. /\ pedidos' \in Seq(Pedido) /\ Distintos(pedidos') /\ EliminarAntes(pedidos')
      /\ Range(pedidos') = {n \in Range(pedidos) : ~ EsDeCpu(n)}
      /\ \A n \in Range(pedidos') : n.op # "ELIMINAR_PROCESO"
  BY <1>a, <1>c, <1>i DEF TiposCanal, EnOrden, PedidosEnOrden, CpuPide, CpuEspera
<1>5. r \in Respuesta
  BY <1>r DEF Respuesta
<1> QED
  BY <1>1, <1>2, <1>3, <1>4, <1>5, <1>a, <1>c, <1>r, <1>t, InvResponderCpu

-----------------------------------------------------------------------------
(* The invariant.                                                          *)

\* A step that changes nothing.
LEMMA InvSocketSigue ==
    ASSUME InvSocket, UNCHANGED varsSocket
    PROVE  InvSocket'
<1>a. /\ UNCHANGED vars
      /\ UNCHANGED <<algoritmo, procesos, segmentos, huecos, fase, pendientes, frontera>>
      /\ UNCHANGED <<pedidos, respuestas, orden, escritos, espacio>>
      /\ UNCHANGED <<programa, proximo, grado, largo, listos, globales, cpu, actual,
                     pc, tabla, terminados, sano>>
  BY DEF varsSocket, vars, canal, lados, contenido, compactacion
<1>i. /\ TiposCanal /\ TiposHilos /\ TiposProcesos /\ TiposDeDatos
      /\ Lugares /\ GradoExacto /\ SeCruzanAlIngresar
  BY DEF InvSocket, InvHilos, Tipos
<1>1. Inv'
  BY <1>a, InvNext DEF InvSocket
<1>2. Tipos'
  <2>1. TiposCanal' /\ TiposDeDatos' /\ TiposHilos'
    BY <1>a, <1>i DEF TiposCanal, TiposDeDatos, TiposHilos, Direcciones
  <2>2. TiposProcesos'
    BY <1>a, <1>i DEF TiposProcesos, Instruccion
  <2> QED
    BY <2>1, <2>2 DEF Tipos
<1>3. Lugares' /\ GradoExacto' /\ SeCruzanAlIngresar'
  BY <1>a, <1>i DEF Lugares, Publicados, GradoExacto, SeCruzanAlIngresar
<1>4. ASSUME sano' PROVE EnOrden'
  <2>0. EnOrden
    BY <1>a, <1>4 DEF InvSocket, InvHilos
  <2>d. (CreacionPendiente' <=> CreacionPendiente) /\ (CpuPide' <=> CpuPide)
    BY <1>a DEF CreacionPendiente, CpuPide
  <2>t. \A p : Tabla(p)' = Tabla(p)
    BY <1>a DEF Tabla
  <2>1. ProcesosDeLaMemoria' /\ SegmentosConDueno'
    <3>1. \A q \in Pids : Creado(q)' <=> Creado(q)
      BY <1>a, <2>d DEF Creado
    <3> QED
      BY <1>a, <2>0, <3>1 DEF EnOrden, ProcesosDeLaMemoria, SegmentosConDueno,
         EliminacionPendiente, Publicados
  <2>2. PedidosEnOrden'
    <3>1. \A n \in Range(pedidos) : Pedida(n)'
      BY <1>a, <2>0 DEF EnOrden, PedidosEnOrden, Pedida, Instruccion
    <3> QED
      BY <1>a, <2>0, <2>d, <3>1 DEF EnOrden, PedidosEnOrden, CpuEspera
  <2>3. RespuestasEnOrden'
    <3>1. ASSUME NEW n \in Range(respuestas), n.para # "largo" PROVE ParaCpu(n)'
      <4>0. ParaCpu(n)
        BY <2>0, <3>1 DEF EnOrden, RespuestasEnOrden
      <4>1. CASE RespuestaACrear(n)
        <5>1. \A b : Nuevo(b)' = Nuevo(b)
          BY <1>a DEF Nuevo, Instruccion
        <5>2. RespuestaACrear(n)'
          BY <1>a, <2>t, <4>1, <5>1 DEF RespuestaACrear
        <5> QED
          BY <2>d, <4>0, <5>2 DEF ParaCpu
      <4>2. CASE RespuestaAEliminar(n)
        <5>1. RespuestaAEliminar(n)'
          BY <1>a, <2>t, <4>2 DEF RespuestaAEliminar
        <5> QED
          BY <2>d, <4>0, <5>1 DEF ParaCpu
      <4>3. CASE RespuestaACompactar(n)
        <5>1. TablasFieles(n)'
          BY <1>a, <2>t, <4>3 DEF RespuestaACompactar, TablasFieles
        <5>2. RespuestaACompactar(n)'
          BY <1>a, <4>3, <5>1 DEF RespuestaACompactar
        <5> QED
          BY <2>d, <4>0, <5>2 DEF ParaCpu
      <4> QED
        BY <4>0, <4>1, <4>2, <4>3 DEF ParaCpu
    <3>2. \A n \in Range(respuestas) : n.para = "largo" => ParaLargo(n)'
      BY <1>a, <2>0, <2>d DEF EnOrden, RespuestasEnOrden, ParaLargo
    <3> QED
      BY <1>a, <2>0, <3>1, <3>2 DEF EnOrden, RespuestasEnOrden
  <2>4. FaseEnOrden'
    BY <1>a, <2>0, <2>d DEF EnOrden, FaseEnOrden, HayParaCpu
  <2>5. TablasEnCamino'
    BY <1>a, <2>0 DEF EnOrden, TablasEnCamino, Admitidos, Trae, Tabla
  <2> QED
    BY <2>1, <2>2, <2>3, <2>4, <2>5 DEF EnOrden
<1> QED
  BY <1>1, <1>2, <1>3, <1>4 DEF InvSocket, InvHilos

\* One case for each action.
LEMMA InvSocketNext == InvSocket /\ [NextSocket]_varsSocket => InvSocket'
<1> SUFFICES ASSUME InvSocket, NextSocket
             PROVE  InvSocket'
  BY InvSocketSigue
<1>0. sano
  BY DEF NextSocket
<1>1. Inv'
  BY PasoDeMemoria, InvNext DEF InvSocket, InvHilos, Tipos
<1>2. InvHilos'
  <2>1. CASE Memoria /\ UNCHANGED algoritmo
    <3>1. CASE AtenderPedido
      <4>1. /\ fase = "atiende" /\ pedidos # <<>> /\ pedidos' = Tail(pedidos)
            /\ UNCHANGED <<lados, algoritmo>>
        BY <2>1, <3>1 DEF AtenderPedido
      <4>2. \/ AtenderCrearProceso(Head(pedidos))
            \/ AtenderEliminarProceso(Head(pedidos))
            \/ AtenderCrearSegmento(Head(pedidos))
            \/ AtenderEliminarSegmento(Head(pedidos))
        BY <3>1 DEF AtenderPedido
      <4> QED
        BY <1>0, <4>1, <4>2, InvAtenderCrearProceso, InvAtenderEliminarProceso,
           InvAtenderCrearSegmento, InvAtenderEliminarSegmento
    <3> QED
      BY <1>0, <2>1, <3>1, InvAtenderCompactar, InvMoverUno, InvTerminarPedidoCompactar
         DEF Memoria
  <2>2. CASE HiloLargo /\ UNCHANGED <<vars, programa, orden>>
    BY <1>0, <2>2, InvLargoPide, InvLargoRecibe, InvLargoPublica, InvLargoRegistra
       DEF HiloLargo, Largo
  <2>3. CASE HiloCpu /\ UNCHANGED <<vars, programa, orden>>
    <3>1. CASE Cpu /\ UNCHANGED contenido
      BY <1>0, <2>3, <3>1, InvCpuToma, InvCpuRecibeCreacion, InvCpuRecibeTabla,
         InvCpuPideCompactar, InvCpuRecibeTablas DEF Cpu
    <3>2. CASE CpuEjecuta
      <4>1. /\ cpu = "ejecuta" /\ pc[actual] \in DOMAIN programa[actual]
            /\ UNCHANGED <<vars, programa, orden, respuestas, proximo, largo, sano>>
            /\ PedirCreacion \/ PedirEliminacion \/ Escribir \/ Ceder \/ Salir
        BY <2>3, <3>2 DEF CpuEjecuta
      <4> QED
        BY <1>0, <4>1, InvPedirSegmento, InvEscribir, InvCeder, InvSalir
    <3> QED
      BY <2>3, <3>1, <3>2 DEF HiloCpu
  <2> QED
    BY <2>1, <2>2, <2>3 DEF NextSocket
<1> QED
  BY <1>1, <1>2 DEF InvSocket

THEOREM SpecSocketInv == SpecSocket => []InvSocket
  BY InvSocketInit, InvSocketNext, PTL DEF SpecSocket

-----------------------------------------------------------------------------
(* Theorems.                                                               *)

\* The memory of the whole system, whatever the two threads of the kernel send it
\* and in whatever order, is the one of Memoria: what is proved there holds here.
THEOREM MemoriaDelSocket == SpecSocket => Spec
<1>1. InitSocket => Init
  BY DEF InitSocket
<1>2. InvSocket /\ [NextSocket]_varsSocket => [Next]_vars
  <2>1. CASE UNCHANGED varsSocket
    BY <2>1 DEF varsSocket
  <2>2. ASSUME InvSocket, NextSocket PROVE [Next]_vars
    BY <2>2, PasoDeMemoria DEF InvSocket, InvHilos, Tipos
  <2> QED
    BY <2>1, <2>2
<1> QED
  BY <1>1, <1>2, SpecSocketInv, PTL DEF SpecSocket, Spec

\* Every message is one that its reader knows, the memory's list of processes is
\* the one it compacts by, and the places of the degree of multiprogramming are
\* neither lost nor given twice: as many are taken as processes have not ended.
THEOREM TipoDelSocket == SpecSocket => []TypeOKSocket
<1>1. ASSUME InvSocket PROVE TypeOKSocket
  <2>i. /\ TiposCanal /\ TiposHilos /\ TiposProcesos /\ TiposDeDatos
        /\ Lugares /\ GradoExacto /\ Inv
    BY <1>1 DEF InvSocket, InvHilos, Tipos
  <2>1. grado <= Grado
    <3>1. terminados \subseteq 1..((proximo - 1) + Uno(largo # "libre"))
      <4>1. \A p \in terminados : p \in Pids /\ p \in Nat \ {0} /\
               (p < proximo \/ (p = proximo /\ largo = "registra"))
        BY <2>i, PidsEnNat DEF Lugares, Publicados
      <4>2. proximo \in Nat \ {0}
        BY <2>i, PidsEnNat DEF TiposHilos
      <4> QED
        BY <4>1, <4>2 DEF Uno
    <3>2. (proximo - 1) + Uno(largo # "libre") \in Nat
      BY <2>i, PidsEnNat DEF TiposHilos, Uno
    <3>3. Cardinality(terminados) <= (proximo - 1) + Uno(largo # "libre")
      <4> DEFINE n == (proximo - 1) + Uno(largo # "libre")
      <4> HIDE DEF n
      <4>1. n \in Nat /\ terminados \in SUBSET (1..n)
        BY <3>1, <3>2 DEF n
      <4>2. IsFiniteSet(1..n) /\ Cardinality(1..n) = n
        BY <4>1, FS_Interval
      <4>3. Cardinality(terminados) <= n
        BY <4>1, <4>2, FS_Subset
      <4> QED
        BY <4>3 DEF n
    <3>4. Cardinality(terminados) \in Nat /\ proximo \in Int /\ grado \in Int
          /\ Grado \in Int
      BY <2>i, TerminadosFinito, GradoAssumption, PidsEnNat DEF TiposHilos
    <3> DEFINE n == (proximo - 1) + Uno(largo # "libre")
               c == Cardinality(terminados)
    <3>5. grado + n = Grado + c
      BY <2>i, <3>2, <3>4 DEF GradoExacto, Uno
    <3>6. n \in Int /\ c \in Int /\ c <= n
      BY <3>2, <3>3, <3>4
    <3> HIDE DEF n, c
    <3> QED
      BY <3>4, <3>5, <3>6
  <2>2. grado \in 0..Grado
    BY <2>1, <2>i, GradoAssumption DEF TiposHilos
  <2>3. \A i \in DOMAIN pedidos : pedidos[i].op \in Mensajes
    BY <2>i, LenProperties, ElementOfSeq, TipoDePedido DEF TiposCanal
  <2>4. \A i \in DOMAIN respuestas : respuestas[i].para \in {"largo", "cpu"}
    BY <2>i, LenProperties, ElementOfSeq, TipoDeRespuesta DEF TiposCanal
  <2> QED
    BY <2>i, <2>2, <2>3, <2>4
       DEF TypeOKSocket, TiposCanal, TiposHilos, TiposProcesos, TiposDeDatos, Inv
<1> QED
  BY <1>1, SpecSocketInv, PTL

\* crear_segmento, eliminar_segmento and recibir_tablas_de_segmentos: whenever
\* nothing is under way and no thread has read what was not for it, the table in
\* each pcb is the memory's table of that process, after any number of
\* compactions and with any other processes.
THEOREM TablaSiempreFiel == SpecSocket => []TablaFiel
<1>1. ASSUME InvSocket PROVE TablaFiel
  <2> SUFFICES ASSUME EnCalma, sano, NEW p \in Admitidos
               PROVE  tabla[p] = Tabla(p)
    BY DEF TablaFiel
  <2>1. EnOrden /\ cpu \in {"libre", "ejecuta"}
    BY <1>1 DEF InvSocket, InvHilos, EnCalma
  <2> QED
    BY <1>1, <2>1, SinMensajesDeCpu
<1> QED
  BY <1>1, SpecSocketInv, PTL

\* The two threads share the socket with no mutex, and only read each other's
\* replies, or lose their place, while a process is being admitted or once one
\* was listed after its end.
THEOREM SoloSeCruzanAlIngresar == SpecSocket => []SeCruzanAlIngresar
<1>1. InvSocket => SeCruzanAlIngresar
  BY DEF InvSocket, InvHilos
<1> QED
  BY <1>1, SpecSocketInv, PTL
-----------------------------------------------------------------------------
(* What a process wrote.                                                   *)

\* No process has two segments of one id, not even with the shared one.
IdsUnicos ==
    \A p \in Pids : \A s, r \in Tabla(p) : s.idSegmento = r.idSegmento => s = r
\* Each address of s holds what its process wrote there.
Conserva(s) ==
    \A k \in 0..s.tamanio - 1 : espacio[s.base + k] = <<s.pid, s.idSegmento, k>>
Conservados ==
    \A s \in segmentos :
        s.pid # Compartido /\ s.idSegmento \in escritos[s.pid] => Conserva(s)
\* A segment that is created later is not taken for one that was written.
EscritosExisten ==
    \A p \in Pids \ terminados : \A id \in escritos[p] \ {0} :
        \E s \in segmentos : s.pid = p /\ s.idSegmento = id
BorradoOlvidado == cpu = "elimina" => Instruccion.id \notin escritos[actual]
InvEspacio ==
    /\ IdsUnicos
    /\ sano => Conservados /\ EscritosExisten /\ BorradoOlvidado

LEMMA InvEspacioInit == InitSocket => InvEspacio
<1> SUFFICES ASSUME InitSocket PROVE InvEspacio
  OBVIOUS
<1>1. /\ segmentos = {SegmentoCero} /\ cpu = "libre"
      /\ \A p \in Pids : escritos[p] = {}
  BY DEF InitSocket, Init
<1>2. SegmentoCero.pid = Compartido
  BY DEF SegmentoCero
<1> QED
  BY <1>1, <1>2 DEF InvEspacio, IdsUnicos, Tabla, Conservados, EscritosExisten,
     BorradoOlvidado

\* A step that changes neither the segments nor the user space.
LEMMA MismoEspacio ==
    ASSUME InvEspacio, sano, UNCHANGED <<segmentos, espacio, escritos>>,
           terminados \subseteq terminados',
           cpu' # "elimina" \/ UNCHANGED <<cpu, actual, pc, programa>>
    PROVE  InvEspacio'
<1>1. IdsUnicos'
  BY DEF InvEspacio, IdsUnicos, Tabla
<1>2. Conservados'
  BY DEF InvEspacio, Conservados, Conserva
<1>3. EscritosExisten'
  BY DEF InvEspacio, EscritosExisten
<1>4. BorradoOlvidado'
  BY DEF InvEspacio, BorradoOlvidado, Instruccion
<1> QED
  BY <1>1, <1>2, <1>3, <1>4 DEF InvEspacio

\* The segments of each process are those of its own pid.
LEMMA DuenoDe ==
    ASSUME InvSocket, sano
    PROVE  /\ SegmentoCero.pid = Compartido /\ SegmentoCero.idSegmento = 0
           /\ SegmentoCero \in segmentos /\ SegmentoCero \in Segmento
           /\ \A s \in segmentos :
                 /\ s \in Segmento /\ s.base \in Nat /\ s.tamanio \in Nat \ {0}
                 /\ Fin(s) = s.base + s.tamanio /\ Fin(s) <= TAM_MEMORIA
                 /\ s.pid # Compartido => s.pid \in Pids
                 /\ s.pid = Compartido => s = SegmentoCero
           /\ \A s, r \in segmentos : s = r \/ Fin(s) <= r.base \/ Fin(r) <= s.base
           /\ \A p \in Pids : p # Compartido
<1>i. Inv /\ EnOrden
  BY DEF InvSocket, InvHilos
<1>1. SegmentoCero.pid = Compartido /\ SegmentoCero.idSegmento = 0
  BY DEF SegmentoCero
<1>2. \A s \in segmentos : s \in Segmento /\ Fin(s) <= TAM_MEMORIA /\ s.tamanio > 0
  BY <1>i DEF Inv, TypeOK, SegmentosDisjuntos, ConTamanio
<1>3. SegmentoCero \in segmentos
  BY <1>i DEF Inv
<1>4. \A s \in segmentos : IF s.pid = Compartido THEN s = SegmentoCero
                                                  ELSE s.pid \in Pids
  BY <1>i DEF EnOrden, SegmentosConDueno, Publicados
<1>5. \A s \in segmentos :
         s.base \in Nat /\ s.tamanio \in Nat \ {0} /\ Fin(s) = s.base + s.tamanio
  BY <1>2, SegmentoTipo
<1>6. \A s, r \in segmentos : s = r \/ Fin(s) <= r.base \/ Fin(r) <= s.base
  BY <1>i DEF Inv, SegmentosDisjuntos
<1>7. \A p \in Pids : p # Compartido
  BY IdsAssumption
<1> QED
  BY <1>1, <1>2, <1>3, <1>4, <1>5, <1>6, <1>7

\* MOV_OUT: the CPU writes in a segment of the table in the pcb, which is the
\* memory's.
LEMMA EspacioEscribir ==
    ASSUME InvSocket, InvEspacio, sano, cpu = "ejecuta", Escribir,
           pc[actual] \in DOMAIN programa[actual],
           UNCHANGED <<vars, programa, orden, respuestas, proximo, largo, sano>>
    PROVE  InvEspacio'
<1>i. TiposHilos /\ TiposProcesos /\ TiposDeDatos /\ Lugares
  BY DEF InvSocket, InvHilos, Tipos
<1>a. /\ UNCHANGED segmentos /\ UNCHANGED terminados /\ UNCHANGED cpu
      /\ escritos' = [escritos EXCEPT ![actual] = @ \cup {Instruccion.id}]
      /\ Instruccion.op = "MOV_OUT"
  BY DEF Escribir, vars
<1>b. actual \in Pids /\ actual \in Admitidos
  BY <1>i DEF TiposHilos, Lugares, Publicados, Admitidos
<1>s. PICK s \in tabla[actual] :
         /\ s.idSegmento = Instruccion.id
         /\ espacio' = [a \in Direcciones |->
               IF a \in s.base..(Fin(s) - 1)
               THEN <<actual, s.idSegmento, a - s.base>> ELSE espacio[a]]
  BY DEF Escribir
<1>d. PICK id : id = Instruccion.id
  OBVIOUS
<1>t. s \in Tabla(actual) /\ s \in segmentos /\ s.pid \in {actual, Compartido}
  BY <1>b, SinMensajesDeCpu DEF Tabla
<1>e. /\ \A p \in Pids : p # actual => escritos'[p] = escritos[p]
      /\ escritos'[actual] = escritos[actual] \cup {id}
  BY <1>a, <1>b, <1>d, <1>i DEF TiposDeDatos
<1>1. IdsUnicos'
  BY <1>a DEF InvEspacio, IdsUnicos, Tabla
<1>2. Conservados'
  <2> SUFFICES ASSUME NEW r \in segmentos, r.pid # Compartido,
                      r.idSegmento \in escritos'[r.pid]
               PROVE  Conserva(r)'
    BY <1>a DEF Conservados
  <2> SUFFICES ASSUME NEW k \in 0..r.tamanio - 1
               PROVE  espacio'[r.base + k] = <<r.pid, r.idSegmento, k>>
    BY DEF Conserva
  <2>0. r.pid \in Pids
    BY DuenoDe
  <2>1. /\ r.base \in Nat /\ r.tamanio \in Nat \ {0} /\ k \in Nat /\ k < r.tamanio
        /\ Fin(r) = r.base + r.tamanio /\ Fin(r) <= TAM_MEMORIA
        /\ s.base \in Nat /\ Fin(s) \in Nat
    BY <1>t, DuenoDe, SegmentoTipo
  <2>2. r.base + k \in Direcciones /\ (r.base + k) - r.base = k
    BY <2>1, TamaniosAssumption DEF Direcciones
  <2>3. CASE r = s
    <3>1. r.base + k \in s.base..(Fin(s) - 1)
      BY <2>1, <2>3
    <3>2. r.pid = actual
      BY <1>t, <2>3
    <3> QED
      BY <1>s, <2>2, <2>3, <3>1, <3>2
  <2>4. CASE r # s
    <3>1. r.base + k \notin s.base..(Fin(s) - 1)
      <4>1. Fin(s) <= r.base \/ Fin(r) <= s.base
        BY <1>t, <2>4, DuenoDe
      <4> QED
        BY <2>1, <4>1
    <3>2. espacio'[r.base + k] = espacio[r.base + k]
      BY <1>s, <2>2, <3>1
    <3>3. r.idSegmento \in escritos[r.pid]
      <4>1. CASE r.pid # actual
        BY <1>e, <2>0, <4>1
      <4>2. CASE r.pid = actual
        <5>1. r \in Tabla(actual)
          BY <4>2 DEF Tabla
        <5>2. r.idSegmento # id
          BY <1>b, <1>d, <1>s, <1>t, <2>4, <5>1 DEF InvEspacio, IdsUnicos
        <5> QED
          BY <1>e, <4>2, <5>2
      <4> QED
        BY <4>1, <4>2
    <3>4. Conserva(r)
      BY <3>3 DEF InvEspacio, Conservados
    <3> QED
      BY <3>2, <3>4 DEF Conserva
  <2> QED
    BY <2>3, <2>4
<1>3. EscritosExisten'
  <2> SUFFICES ASSUME NEW p \in Pids \ terminados, NEW x \in escritos'[p] \ {0}
               PROVE  \E r \in segmentos : r.pid = p /\ r.idSegmento = x
    BY <1>a DEF EscritosExisten
  <2>1. CASE x \in escritos[p]
    BY <2>1 DEF InvEspacio, EscritosExisten
  <2>2. CASE x \notin escritos[p]
    <3>1. p = actual /\ x = id
      BY <1>e, <2>2
    <3>2. s.pid # Compartido
      BY <1>d, <1>s, <1>t, <3>1, DuenoDe
    <3> QED
      BY <1>d, <1>s, <1>t, <3>1, <3>2
  <2> QED
    BY <2>1, <2>2
<1>4. BorradoOlvidado'
  BY <1>a DEF BorradoOlvidado
<1> QED
  BY <1>1, <1>2, <1>3, <1>4 DEF InvEspacio

\* DELETE_SEGMENT: what was written there no longer counts.
LEMMA EspacioPedirEliminacion ==
    ASSUME InvSocket, InvEspacio, sano, cpu = "ejecuta", PedirEliminacion,
           UNCHANGED <<vars, programa, orden, respuestas, proximo, largo, sano>>
    PROVE  InvEspacio'
<1>i. TiposHilos /\ TiposProcesos /\ TiposDeDatos
  BY DEF InvSocket, InvHilos, Tipos
<1>d. PICK id : id = Instruccion.id
  OBVIOUS
<1>a. /\ UNCHANGED <<segmentos, espacio, terminados, actual, pc>>
      /\ escritos' = [escritos EXCEPT ![actual] = @ \ {id}]
      /\ Instruccion' = Instruccion
  BY <1>d DEF PedirEliminacion, vars, Instruccion
<1>b. actual \in Pids
  BY <1>i DEF TiposHilos
<1>e. /\ \A p \in Pids : escritos'[p] \subseteq escritos[p]
      /\ id \notin escritos'[actual]
  BY <1>a, <1>b, <1>i DEF TiposDeDatos
<1>1. IdsUnicos'
  BY <1>a DEF InvEspacio, IdsUnicos, Tabla
<1>2. Conservados'
  <2> SUFFICES ASSUME NEW r \in segmentos, r.pid # Compartido,
                      r.idSegmento \in escritos'[r.pid]
               PROVE  Conserva(r)'
    BY <1>a DEF Conservados
  <2>1. r.idSegmento \in escritos[r.pid]
    BY <1>e, DuenoDe
  <2>2. Conserva(r)
    BY <2>1 DEF InvEspacio, Conservados
  <2> QED
    BY <1>a, <2>2 DEF Conserva
<1>3. EscritosExisten'
  BY <1>a, <1>e DEF InvEspacio, EscritosExisten
<1>4. BorradoOlvidado'
  BY <1>a, <1>d, <1>e DEF BorradoOlvidado
<1> QED
  BY <1>1, <1>2, <1>3, <1>4 DEF InvEspacio

\* The memory places a segment whose id its process has not.
LEMMA EspacioCrearSegmento ==
    ASSUME InvSocket, InvEspacio, sano, pedidos # <<>>,
           AtenderCrearSegmento(Head(pedidos)), pedidos' = Tail(pedidos),
           UNCHANGED <<lados, algoritmo>>
    PROVE  InvEspacio'
<1>0. PICK m : m = Head(pedidos)
  OBVIOUS
<1>i. TiposCanal /\ TiposHilos /\ Lugares /\ EnOrden
  BY DEF InvSocket, InvHilos, Tipos
<1>o. /\ m.op = "CREAR_SEGMENTO" /\ PedidoCrearSegmento(m.pid, m.id, m.tamanio)
      /\ UNCHANGED <<espacio, escritos, programa, cpu, actual, pc, terminados>>
  BY <1>0 DEF AtenderCrearSegmento, lados, contenido
<1>p. /\ cpu = "crea" /\ m.pid = actual /\ actual \in Pids /\ actual \notin terminados
  <2>1. Pedida(m)
    BY <1>0, <1>i, AlTomarPedido
  <2>2. cpu = "crea" /\ m.pid = actual
    BY <1>o, <2>1 DEF Pedida, SolicitudDeCreacion
  <2> QED
    BY <1>i, <2>2 DEF TiposHilos, Lugares
<1>1. CASE PuedoCrearSegmento(m.pid, m.id, m.tamanio) # "OK"
  <2>1. UNCHANGED segmentos
    BY <1>1, <1>o DEF PedidoCrearSegmento, CrearSegmento, NoCrearSegmento
  <2> QED
    BY <1>o, <1>p, <2>1, MismoEspacio
<1>2. CASE PuedoCrearSegmento(m.pid, m.id, m.tamanio) = "OK"
  <2>1. \A r \in Tabla(m.pid) : r.idSegmento # m.id
    BY <1>2 DEF PuedoCrearSegmento
  <2>2. CrearSegmento(m.pid, m.id, m.tamanio)
    BY <1>2, <1>o DEF PedidoCrearSegmento
  <2>3. PICK b : segmentos' = segmentos \cup
           {[pid |-> m.pid, idSegmento |-> m.id, base |-> b, tamanio |-> m.tamanio]}
    BY <2>2 DEF CrearSegmento
  <2>4. PICK n : n = [pid |-> m.pid, idSegmento |-> m.id, base |-> b,
                      tamanio |-> m.tamanio]
    OBVIOUS
  <2>n. n.pid = actual /\ n.idSegmento = m.id /\ segmentos' = segmentos \cup {n}
    BY <1>p, <2>3, <2>4
  <2>5. IdsUnicos'
    <3> SUFFICES ASSUME NEW p \in Pids, NEW s \in segmentos', NEW r \in segmentos',
                        s.pid \in {p, Compartido}, r.pid \in {p, Compartido},
                        s.idSegmento = r.idSegmento
                 PROVE  s = r
      BY DEF IdsUnicos, Tabla
    <3>1. CASE s \in segmentos /\ r \in segmentos
      BY <3>1 DEF InvEspacio, IdsUnicos, Tabla
    <3>2. CASE s = n \/ r = n
      <4>1. p = actual
        BY <1>p, <2>n, <3>2, DuenoDe
      <4> QED
        BY <1>p, <2>1, <2>n, <3>2, <4>1 DEF Tabla
    <3> QED
      BY <2>n, <3>1, <3>2
  <2>6. m.id \notin escritos[actual]
    <3>1. m.id # 0
      BY <2>1, DuenoDe DEF Tabla
    <3> QED
      BY <1>p, <2>1, <3>1 DEF InvEspacio, EscritosExisten, Tabla
  <2>7. Conservados'
    <3> SUFFICES ASSUME NEW r \in segmentos, r.pid # Compartido,
                        r.idSegmento \in escritos[r.pid]
                 PROVE  Conserva(r)'
      BY <1>o, <2>n, <2>6 DEF Conservados
    <3>1. Conserva(r)
      BY DEF InvEspacio, Conservados
    <3> QED
      BY <1>o, <3>1 DEF Conserva
  <2>8. EscritosExisten' /\ BorradoOlvidado'
    BY <1>o, <1>p, <2>n DEF InvEspacio, EscritosExisten, BorradoOlvidado
  <2> QED
    BY <2>5, <2>7, <2>8 DEF InvEspacio
<1> QED
  BY <1>1, <1>2

\* Segments that go are of a process that ended, or were forgotten before.
LEMMA EspacioQuitar ==
    ASSUME InvEspacio, sano, segmentos' \subseteq segmentos,
           \A s \in segmentos \ segmentos' :
              \/ s.pid = Compartido \/ s.pid \in terminados
              \/ s.pid \in Pids /\ s.idSegmento \notin escritos[s.pid],
           UNCHANGED <<espacio, escritos, programa, cpu, actual, pc, terminados>>
    PROVE  InvEspacio'
<1>1. IdsUnicos'
  BY DEF InvEspacio, IdsUnicos, Tabla
<1>2. Conservados'
  BY DEF InvEspacio, Conservados, Conserva
<1>3. EscritosExisten'
  <2> SUFFICES ASSUME NEW p \in Pids \ terminados, NEW x \in escritos[p] \ {0}
               PROVE  \E r \in segmentos' : r.pid = p /\ r.idSegmento = x
    BY DEF EscritosExisten
  <2>1. PICK r \in segmentos : r.pid = p /\ r.idSegmento = x
    BY DEF InvEspacio, EscritosExisten
  <2>2. r \in segmentos'
    BY <2>1, IdsAssumption
  <2> QED
    BY <2>1, <2>2
<1>4. BorradoOlvidado'
  BY DEF InvEspacio, BorradoOlvidado, Instruccion
<1> QED
  BY <1>1, <1>2, <1>3, <1>4 DEF InvEspacio

LEMMA EspacioEliminar ==
    ASSUME InvSocket, InvEspacio, sano, pedidos # <<>>,
           \/ AtenderEliminarProceso(Head(pedidos))
           \/ AtenderEliminarSegmento(Head(pedidos)),
           pedidos' = Tail(pedidos), UNCHANGED <<lados, algoritmo>>
    PROVE  InvEspacio'
<1>0. PICK m : m = Head(pedidos)
  OBVIOUS
<1>i. TiposCanal /\ TiposHilos /\ EnOrden
  BY DEF InvSocket, InvHilos, Tipos
<1>m. Pedida(m)
  BY <1>0, <1>i, AlTomarPedido
<1>u. UNCHANGED <<espacio, escritos, programa, cpu, actual, pc, terminados>>
  BY DEF AtenderEliminarProceso, AtenderEliminarSegmento, lados, contenido
<1>1. CASE AtenderEliminarProceso(m)
  <2>1. m.pid \in terminados
    BY <1>1, <1>m DEF AtenderEliminarProceso, Pedida
  <2>2. segmentos' = {s \in segmentos : s.pid # m.pid}
    BY <1>1 DEF AtenderEliminarProceso, EliminarProceso
  <2> QED
    BY <1>u, <2>1, <2>2, EspacioQuitar
<1>2. CASE AtenderEliminarSegmento(m)
  <2>1. cpu = "elimina" /\ m.pid = actual /\ m.id = Instruccion.id /\ actual \in Pids
    <3>1. cpu = "elimina" /\ m.pid = actual /\ m.id = Instruccion.id
      BY <1>2, <1>m DEF AtenderEliminarSegmento, Pedida, SolicitudDeEliminacion
    <3> QED
      BY <1>i, <3>1 DEF TiposHilos
  <2>2. m.id \notin escritos[m.pid]
    BY <2>1 DEF InvEspacio, BorradoOlvidado
  <2>3. \/ UNCHANGED segmentos
        \/ \E s \in segmentos : /\ s.pid = m.pid /\ s.idSegmento = m.id
                                /\ segmentos' = segmentos \ {s}
    BY <1>2 DEF AtenderEliminarSegmento, EliminarSegmento
  <2> QED
    BY <1>u, <2>1, <2>2, <2>3, EspacioQuitar
<1> QED
  BY <1>0, <1>1, <1>2

\* A compaction copies a segment over addresses that only it may be using.
LEMMA EspacioMoverUno ==
    ASSUME InvSocket, InvEspacio, sano, MoverUno, UNCHANGED algoritmo
    PROVE  InvEspacio'
<1>i. TiposDeDatos /\ Inv
  BY DEF InvSocket, InvHilos, Tipos
<1>a. /\ fase = "compacta"
      /\ UNCHANGED <<programa, cpu, actual, pc, terminados, sano>>
  BY DEF MoverUno, CompactarUno, lados
<1>1. PICK s \in Siguientes :
         segmentos' = (segmentos \ {s}) \cup {[s EXCEPT !.base = frontera]}
  BY DEF MoverUno, CompactarUno
<1>2. /\ s \in pendientes /\ s \in segmentos /\ s # SegmentoCero
      /\ \A r \in pendientes : s.base <= r.base
      /\ frontera \in Nat /\ frontera <= s.base
      /\ \A r \in segmentos : r \notin pendientes => Fin(r) <= frontera
  BY <1>1, <1>a, <1>i DEF Siguientes, Inv, TypeOK, Contiguos, Compactados
<1>t. /\ s.pid \in Pids /\ s.pid # Compartido
      /\ s.base \in Nat /\ s.tamanio \in Nat \ {0} /\ Fin(s) = s.base + s.tamanio
      /\ Fin(s) <= TAM_MEMORIA /\ s \in Segmento
  BY <1>2, DuenoDe
<1>m. Mudar(s, frontera)
  <2>1. PICK r \in Siguientes : Mudar(r, frontera)
    BY DEF MoverUno
  <2>2. r \in segmentos /\ r.base = s.base
    <3>1. /\ r \in pendientes /\ \A x \in pendientes : r.base <= x.base
          /\ r \in segmentos
      BY <1>i DEF Siguientes, Inv, TypeOK
    <3>2. r.base \in Nat
      BY <3>1, DuenoDe
    <3> QED
      BY <1>2, <1>t, <3>1, <3>2
  <2>3. r = s
    <3>1. r.tamanio \in Nat \ {0} /\ Fin(r) = r.base + r.tamanio
      BY <2>2, DuenoDe
    <3>2. r = s \/ Fin(s) <= r.base \/ Fin(r) <= s.base
      BY <1>2, <2>2, DuenoDe
    <3> QED
      BY <1>t, <2>2, <3>1, <3>2
  <2> QED
    BY <2>1, <2>3
<1>n. PICK n : n = [s EXCEPT !.base = frontera]
  OBVIOUS
<1>3. /\ n.pid = s.pid /\ n.idSegmento = s.idSegmento /\ n.tamanio = s.tamanio
      /\ n.base = frontera /\ segmentos' = (segmentos \ {s}) \cup {n}
  BY <1>1, <1>n, <1>t DEF Segmento
<1>e. \A p \in Pids : escritos'[p] \subseteq escritos[p]
  BY <1>i, <1>m DEF Mudar, contenido, TiposDeDatos
<1>4. IdsUnicos'
  <2> SUFFICES ASSUME NEW p \in Pids, NEW x \in segmentos', NEW y \in segmentos',
                      x.pid \in {p, Compartido}, y.pid \in {p, Compartido},
                      x.idSegmento = y.idSegmento
               PROVE  x = y
    BY DEF IdsUnicos, Tabla
  <2>0. \A v, w \in segmentos :
           v.pid \in {p, Compartido} /\ w.pid \in {p, Compartido}
              /\ v.idSegmento = w.idSegmento => v = w
    BY DEF InvEspacio, IdsUnicos, Tabla
  <2>1. CASE x = n
    BY <1>2, <1>3, <2>0, <2>1
  <2>2. CASE x # n /\ y = n
    BY <1>2, <1>3, <2>0, <2>2
  <2>3. CASE x # n /\ y # n
    BY <1>3, <2>0, <2>3
  <2> QED
    BY <2>1, <2>2, <2>3
<1>5. Conservados'
  <2> SUFFICES ASSUME NEW r \in segmentos', r.pid # Compartido,
                      r.idSegmento \in escritos'[r.pid]
               PROVE  Conserva(r)'
    BY DEF Conservados
  <2> SUFFICES ASSUME NEW k \in 0..r.tamanio - 1
               PROVE  espacio'[r.base + k] = <<r.pid, r.idSegmento, k>>
    BY DEF Conserva
  <2>1. CASE r \in segmentos /\ r # s
    <3>t. /\ r.base \in Nat /\ r.tamanio \in Nat \ {0} /\ k \in Nat /\ k < r.tamanio
          /\ Fin(r) = r.base + r.tamanio /\ Fin(r) <= TAM_MEMORIA /\ r.pid \in Pids
      BY <2>1, DuenoDe
    <3>1. Conserva(r)
      BY <1>e, <2>1, <3>t DEF InvEspacio, Conservados
    <3>2. r.base + k \in Direcciones
      BY <3>t, TamaniosAssumption DEF Direcciones
    <3>3. r.base + k \notin frontera..(frontera + s.tamanio - 1)
      <4>1. CASE r \in pendientes
        <5>1. s.base <= r.base /\ (Fin(s) <= r.base \/ Fin(r) <= s.base)
          BY <1>2, <2>1, <4>1, DuenoDe
        <5> QED
          BY <1>2, <1>t, <3>t, <5>1
      <4>2. CASE r \notin pendientes
        <5>1. Fin(r) <= frontera
          BY <1>2, <2>1, <4>2
        <5> QED
          BY <1>2, <1>t, <3>t, <5>1
      <4> QED
        BY <4>1, <4>2
    <3>4. espacio'[r.base + k] = espacio[r.base + k]
      BY <1>m, <3>2, <3>3 DEF Mudar, contenido
    <3> QED
      BY <3>1, <3>4 DEF Conserva
  <2>2. CASE ~ (r \in segmentos /\ r # s)
    <3>0. r = n
      BY <1>3, <2>2
    <3>t. k \in Nat /\ k < s.tamanio /\ r.base + k = frontera + k
      BY <1>2, <1>3, <1>t, <3>0
    <3>1. Conserva(s)
      BY <1>2, <1>3, <1>e, <1>t, <3>0 DEF InvEspacio, Conservados
    <3>2. espacio[s.base + k] = <<r.pid, r.idSegmento, k>>
      BY <1>3, <3>0, <3>1 DEF Conserva
    <3>3. CASE frontera = s.base
      <4>1. UNCHANGED espacio
        BY <1>m, <3>3 DEF Mudar, contenido
      <4> QED
        BY <3>2, <3>3, <3>t, <4>1
    <3>4. CASE frontera # s.base
      <4>1. ~ Solapa(s, frontera)
        <5> SUFFICES ASSUME Solapa(s, frontera) PROVE FALSE
          OBVIOUS
        <5>1. escritos' = [escritos EXCEPT ![s.pid] = @ \ {s.idSegmento}]
          BY <1>m, <3>4 DEF Mudar
        <5>2. s.idSegmento \notin escritos'[s.pid]
          BY <1>i, <1>t, <5>1 DEF TiposDeDatos
        <5> QED
          BY <1>3, <3>0, <5>2
      <4>2. espacio' = [a \in Direcciones |->
               IF a \in frontera..(frontera + s.tamanio - 1)
               THEN espacio[s.base + Origen(s, frontera, a - frontera, TRUE)]
               ELSE espacio[a]]
        BY <1>m, <3>4, <4>1 DEF Mudar
      <4>3. /\ frontera + k \in Direcciones
            /\ frontera + k \in frontera..(frontera + s.tamanio - 1)
            /\ (frontera + k) - frontera = k
        BY <1>2, <1>t, <3>t, TamaniosAssumption DEF Direcciones
      <4>4. \A x : Origen(s, frontera, x, TRUE) = x
        BY DEF Origen
      <4>5. espacio'[frontera + k] = espacio[s.base + k]
        BY <4>2, <4>3, <4>4
      <4> QED
        BY <3>2, <3>t, <4>5
    <3> QED
      BY <3>3, <3>4
  <2> QED
    BY <2>1, <2>2
<1>6. EscritosExisten'
  <2> SUFFICES ASSUME NEW p \in Pids \ terminados, NEW x \in escritos'[p] \ {0}
               PROVE  \E r \in segmentos' : r.pid = p /\ r.idSegmento = x
    BY <1>a DEF EscritosExisten
  <2>1. PICK r \in segmentos : r.pid = p /\ r.idSegmento = x
    BY <1>e DEF InvEspacio, EscritosExisten
  <2>2. CASE r = s
    BY <1>3, <2>1, <2>2
  <2>3. CASE r # s
    BY <1>3, <2>1, <2>3
  <2> QED
    BY <2>2, <2>3
<1>7. BorradoOlvidado'
  <2>1. ASSUME cpu = "elimina" PROVE actual \in Pids
    BY <2>1 DEF InvSocket, InvHilos, Tipos, TiposHilos
  <2> QED
    BY <1>a, <1>e, <2>1 DEF InvEspacio, BorradoOlvidado, Instruccion
<1> QED
  BY <1>4, <1>5, <1>6, <1>7 DEF InvEspacio

\* One case for each action; most change neither segments nor user space.
LEMMA InvEspacioNext ==
    InvSocket /\ InvEspacio /\ [NextSocket]_varsSocket => InvEspacio'
<1>1. ASSUME InvEspacio, UNCHANGED varsSocket PROVE InvEspacio'
  <2>1. /\ UNCHANGED <<segmentos, espacio, escritos, programa, cpu, actual, pc,
                       terminados, sano>>
    BY <1>1 DEF varsSocket, vars, lados, contenido
  <2>2. CASE sano
    BY <1>1, <2>1, <2>2, MismoEspacio
  <2>3. CASE ~ sano
    BY <1>1, <2>1, <2>3 DEF InvEspacio, IdsUnicos, Tabla
  <2> QED
    BY <2>2, <2>3
<1>2. ASSUME InvSocket, InvEspacio, NextSocket PROVE InvEspacio'
  <2>0. sano
    BY <1>2 DEF NextSocket
  <2>1. CASE Memoria /\ UNCHANGED algoritmo
    <3>1. CASE AtenderPedido
      <4>1. pedidos # <<>> /\ pedidos' = Tail(pedidos) /\ UNCHANGED <<lados, algoritmo>>
        BY <2>1, <3>1 DEF AtenderPedido
      <4>2. CASE AtenderCrearProceso(Head(pedidos))
        <5>1. UNCHANGED <<segmentos, espacio, escritos, programa, cpu, actual, pc,
                          terminados>>
          BY <4>1, <4>2 DEF AtenderCrearProceso, CrearProceso, lados, contenido
        <5> QED
          BY <1>2, <2>0, <5>1, MismoEspacio
      <4> QED
        BY <1>2, <2>0, <3>1, <4>1, <4>2, EspacioCrearSegmento, EspacioEliminar
           DEF AtenderPedido
    <3>2. CASE AtenderCompactar
      <4>1. UNCHANGED <<segmentos, espacio, escritos, programa, cpu, actual, pc,
                        terminados>>
        BY <3>2 DEF AtenderCompactar, RecibirCompactar, lados, contenido, vars
      <4> QED
        BY <1>2, <2>0, <4>1, MismoEspacio
    <3>3. CASE TerminarPedidoCompactar
      <4>1. UNCHANGED <<segmentos, espacio, escritos, programa, cpu, actual, pc,
                        terminados>>
        BY <3>3 DEF TerminarPedidoCompactar, ResponderTablas, TerminarCompactacion,
           lados, contenido
      <4> QED
        BY <1>2, <2>0, <4>1, MismoEspacio
    <3> QED
      BY <1>2, <2>0, <2>1, <3>1, <3>2, <3>3, EspacioMoverUno DEF Memoria
  <2>2. CASE HiloLargo /\ UNCHANGED <<vars, programa, orden>>
    <3>1. UNCHANGED <<segmentos, espacio, escritos, programa, cpu, actual, pc,
                      terminados>>
      BY <2>2 DEF HiloLargo, Largo, LargoPide, LargoRecibe, LargoPublica, LargoRegistra,
         contenido, vars
    <3> QED
      BY <1>2, <2>0, <3>1, MismoEspacio
  <2>3. CASE HiloCpu /\ UNCHANGED <<vars, programa, orden>>
    <3>1. CASE Cpu /\ UNCHANGED contenido
      <4>1. UNCHANGED <<segmentos, espacio, escritos>>
        BY <2>3, <3>1 DEF vars, contenido
      <4>2. terminados \subseteq terminados' /\ cpu' # "elimina"
        BY <3>1 DEF Cpu, CpuToma, CpuRecibeCreacion, SegmentoCreado, FaltaCompactar,
           CreacionRechazada, Terminar, CpuRecibeTabla, CpuPideCompactar,
           CpuRecibeTablas
      <4> QED
        BY <1>2, <2>0, <4>1, <4>2, MismoEspacio
    <3>2. CASE CpuEjecuta
      <4>1. /\ cpu = "ejecuta" /\ pc[actual] \in DOMAIN programa[actual]
            /\ UNCHANGED <<vars, programa, orden, respuestas, proximo, largo, sano>>
            /\ PedirCreacion \/ PedirEliminacion \/ Escribir \/ Ceder \/ Salir
        BY <2>3, <3>2 DEF CpuEjecuta
      <4>2. CASE PedirCreacion \/ Ceder \/ Salir
        <5>1. /\ UNCHANGED <<segmentos, espacio, escritos>>
              /\ terminados \subseteq terminados' /\ cpu' # "elimina"
          BY <4>1, <4>2 DEF PedirCreacion, Ceder, Salir, Terminar, contenido, vars
        <5> QED
          BY <1>2, <2>0, <5>1, MismoEspacio
      <4> QED
        BY <1>2, <2>0, <4>1, <4>2, EspacioEscribir, EspacioPedirEliminacion
    <3> QED
      BY <2>3, <3>1, <3>2 DEF HiloCpu
  <2> QED
    BY <1>2, <2>1, <2>2, <2>3 DEF NextSocket
<1> QED
  BY <1>1, <1>2

\* MOV_OUT, CREATE_SEGMENT, DELETE_SEGMENT and compactarSegmentos: while the
\* threads have not crossed, a process that runs finds in each of its segments
\* what it wrote there, at the base that its pcb has, whatever the others wrote
\* and however often the memory was compacted.
THEOREM EscritoSePuedeLeer == SpecSocket => []LecturaDeLoEscrito
<1>1. SpecSocket => [](InvSocket /\ InvEspacio)
  BY InvSocketInit, InvSocketNext, InvEspacioInit, InvEspacioNext, PTL DEF SpecSocket
<1>2. ASSUME InvSocket, InvEspacio PROVE LecturaDeLoEscrito
  <2> SUFFICES ASSUME cpu = "ejecuta", sano, NEW p \in Admitidos,
                      NEW id \in escritos[p] \ {0}
               PROVE  \E s \in tabla[p] :
                         /\ s.idSegmento = id
                         /\ \A k \in 0..s.tamanio - 1 : espacio[s.base + k] = <<p, id, k>>
    BY DEF LecturaDeLoEscrito
  <2>1. p \in Pids \ terminados /\ p # Compartido
    BY IdsAssumption DEF Admitidos
  <2>2. PICK s \in segmentos : s.pid = p /\ s.idSegmento = id
    BY <1>2, <2>1 DEF InvEspacio, EscritosExisten
  <2>3. Conserva(s)
    BY <1>2, <2>1, <2>2 DEF InvEspacio, Conservados
  <2>4. tabla[p] = Tabla(p)
    BY <1>2, SinMensajesDeCpu
  <2> QED
    BY <2>2, <2>3, <2>4 DEF Conserva, Tabla
<1> QED
  BY <1>1, <1>2, PTL
=============================================================================
