----------------------- MODULE ArchivosAbiertosProofs -----------------------
(***************************************************************************)
(* Proofs about ArchivosAbiertos: for every set of processes, files and    *)
(* programs, the open files keep their owners, nobody waits for a file     *)
(* that no one will wake it for, a transfer starts where the last F_SEEK   *)
(* left the file, and a compaction excludes a transfer.                    *)
(*                                                                         *)
(* The invariant has five parts. Three sums say where the token of each    *)
(* semaphore is (Permiso, Apertura, Exclusion). CpuEnOrden and FsEnOrden   *)
(* say what each thread has read, and what of it still holds, at each of   *)
(* its steps: between two of its waits the other thread may run. UnLugar   *)
(* puts each process in one place. UnDueno, DuenoEnTabla and EnUsoConDueno *)
(* tie the table to the counts of F_OPEN and F_CLOSE that each process has *)
(* done. PunteroFiel ties the pointers to the instructions that moved      *)
(* them. The last two speak of a file until CerradoSinTener holds of it:   *)
(* until a process closes it without having it, which the code lets it do  *)
(* and which is the only step that parts the table from the counts.        *)
(***************************************************************************)
EXTENDS ArchivosAbiertos, FiniteSetTheorems, TLAPS

Uno(condicion) == IF condicion THEN 1 ELSE 0

-----------------------------------------------------------------------------
(* The semaphores as tokens that one thread hands to another.              *)

\* A request posted and not taken, or taken and its process not read yet.
PorTomar == sem["operacion_fs"] = 1 \/ fs = "pcb_en_ejecucion"
\* The file thread serves an F_OPEN.
FsAbre ==
    \/ fs \in {"existe", "creado", "list_add"}
    \/ fs = "switch" /\ Pendiente(pcb_operacion_fs).nombre = "F_OPEN"

Permiso ==
    sem["operacion_fs"] + Uno(fs = "pcb_en_ejecucion")
        + sem["puede_replanificar"]
    = Uno(cpu \in {"abriendo", "puede_replanificar"})
Apertura ==
    sem["termina_operacion_fs"] + Uno(FsAbre)
        + Uno(cpu = "abriendo" /\ PorTomar)
    = Uno(cpu \in {"abriendo", "termina_operacion_fs"})
Exclusion ==
    sem["mutex_operacion_fs_memoria"] + Uno(cpu = "compactando")
        + Uno(fs = "transferido") = 1

-----------------------------------------------------------------------------
(* What each thread holds at each of its steps.                            *)

Archivo(p) == Pendiente(p).parametro1
PorPosicion == {"F_TRUNCATE"} \cup Accesos

CpuEnOrden ==
    /\ cpu # "proceso_running" => pcb_en_ejecucion \in Procesos
    /\ cpu \in {"abriendo", "termina_operacion_fs"} =>
          EnInstruccion(pcb_en_ejecucion, {"F_OPEN"})
    /\ cpu = "direccion_fisica" => EnInstruccion(pcb_en_ejecucion, Accesos)
    /\ cpu = "puede_replanificar" /\ PorTomar =>
          EnInstruccion(pcb_en_ejecucion, PorPosicion)
    /\ cpu = "abriendo" /\ PorTomar => ~ EnTabla(Archivo(pcb_en_ejecucion))
    /\ cpu \in {"mutex_operacion_fs_memoria", "compactando"} =>
          disposicion < MaxCompactaciones
FsEnOrden ==
    /\ fs \notin {"operacion_fs", "pcb_en_ejecucion"} =>
          pcb_operacion_fs \in Procesos
    /\ fs = "switch" =>
          EnInstruccion(pcb_operacion_fs, {"F_OPEN"} \cup PorPosicion)
    /\ fs \in {"existe", "creado", "list_add"} =>
          EnInstruccion(pcb_operacion_fs, {"F_OPEN"})
    /\ fs = "recortado" => EnInstruccion(pcb_operacion_fs, {"F_TRUNCATE"})
    /\ fs = "transferido" => EnInstruccion(pcb_operacion_fs, Accesos)
    /\ FsAbre => /\ pcb_operacion_fs = pcb_en_ejecucion
                 /\ ~ EnTabla(Archivo(pcb_operacion_fs))
CanalEnOrden ==
    /\ pedido = Nulo \/ respuesta = Nulo
    /\ fs \in {"operacion_fs", "pcb_en_ejecucion", "switch", "list_add"} =>
          pedido = Nulo /\ respuesta = Nulo

-----------------------------------------------------------------------------
(* Where each process is.                                                  *)

Cola(i) == tabla_global[i].cola_esperando
EnCola(p) ==
    \E i \in DOMAIN tabla_global : \E j \in DOMAIN Cola(i) : Cola(i)[j] = p
Cuantos(p) ==
    Uno(p \in listos) + Uno(p \in EnCPU) + Uno(p \in PorPedir)
        + Uno(p \in EnFS) + Uno(p \in terminados) + Uno(EnCola(p))
Perdido(p) ==
    /\ EnInstruccion(p, {"F_CLOSE"})
    /\ ~ Tiene(p, Archivo(p)) \/ CerradoSinTener(Archivo(p))

UnLugar ==
    \A p \in Procesos : Cuantos(p) <= 1 /\ (Cuantos(p) = 0 => Perdido(p))
EsperaUna ==
    \A i, k \in DOMAIN tabla_global :
        \A j \in DOMAIN Cola(i), l \in DOMAIN Cola(k) :
            Cola(i)[j] = Cola(k)[l] => i = k /\ j = l
EsperaSuArchivo ==
    \A i \in DOMAIN tabla_global : \A j \in DOMAIN Cola(i) :
        /\ EnInstruccion(Cola(i)[j], {"F_OPEN"})
        /\ Archivo(Cola(i)[j]) = tabla_global[i].nombre
TerminaSinCerrar ==
    \A p \in terminados : EnInstruccion(p, {"EXIT", "CREATE_SEGMENT"})
EnPrograma == \A p \in Procesos : program_counter[p] <= Len(programa[p])

-----------------------------------------------------------------------------
(* Who uses each file.                                                     *)

NombresUnicos ==
    \A i, j \in DOMAIN tabla_global :
        tabla_global[i].nombre = tabla_global[j].nombre => i = j
Abiertas(p, f) == Cardinality(Hechas(p, {"F_OPEN"}, f))
Cerradas(p, f) == Cardinality(Hechas(p, {"F_CLOSE"}, f))
UnaVez ==
    \A p \in Procesos, f \in Archivos :
        CerradoSinTener(f) \/ Abiertas(p, f) <= Cerradas(p, f) + 1
UnDueno ==
    \A f \in Archivos : CerradoSinTener(f) \/
        \A p, q \in Procesos : Tiene(p, f) /\ Tiene(q, f) => p = q
DuenoEnTabla ==
    \A p \in Procesos, f \in Archivos : Tiene(p, f) =>
        \/ CerradoSinTener(f)
        \/ \E i \in DOMAIN tabla_global : /\ tabla_global[i].nombre = f
                                          /\ tabla_global[i].bit_de_uso = 1
EnUsoConDueno ==
    \A i \in DOMAIN tabla_global : tabla_global[i].bit_de_uso = 1 =>
        \/ CerradoSinTener(tabla_global[i].nombre)
        \/ \E p \in Procesos : Tiene(p, tabla_global[i].nombre)

-----------------------------------------------------------------------------
(* The pointers.                                                           *)

Movidas(p, f) == Hechas(p, {"F_OPEN", "F_SEEK"}, f)
Posicion(p, f) ==
    LET ultima == programa[p][CHOOSE i \in Movidas(p, f) :
                                 \A j \in Movidas(p, f) : j <= i]
    IN  IF ultima.nombre = "F_SEEK" THEN ultima.parametro2 ELSE 0
PunteroFiel ==
    \A p \in Procesos \ terminados, f \in Archivos : CerradoSinTener(f) \/
        /\ Tiene(p, f) => /\ tabla_local[p][f] # Nulo
                          /\ tabla_local[p][f] = Posicion(p, f)
        /\ ~ Tiene(p, f) /\ tabla_local[p][f] # Nulo =>
              /\ EnInstruccion(p, {"F_OPEN"}) /\ Archivo(p) = f
              /\ tabla_local[p][f] = 0
PedidoFiel ==
    EsTransferencia =>
        /\ fs = "transferido"
        /\ pedido.archivo = Archivo(pcb_operacion_fs)
        /\ CerradoSinTener(pedido.archivo) \/
              /\ Tiene(pcb_operacion_fs, pedido.archivo)
              /\ pedido.puntero = Posicion(pcb_operacion_fs, pedido.archivo)

Entradas ==
    [nombre : Archivos, bit_de_uso : 0..1, cola_esperando : Seq(Procesos)]
Tipos ==
    /\ sem \in [Semaforos -> Nat]
    /\ programa \in [Procesos -> Programas]
    /\ program_counter \in [Procesos -> Nat]
    /\ listos \in SUBSET Procesos
    /\ pcb_en_ejecucion \in Procesos \cup {Nulo}
    /\ terminados \in SUBSET Procesos
    /\ tabla_global \in Seq(Entradas)
    /\ tabla_local \in [Procesos -> [Archivos -> Posiciones \cup {Nulo}]]
    /\ direccion_fisica \in Direccion \cup {Nulo}
    /\ disposicion \in 0..MaxCompactaciones
    /\ cpu \in HilosCPU
    /\ fs \in HilosFS
    /\ pcb_operacion_fs \in Procesos \cup {Nulo}
    /\ pedido \in Pedidos \cup {Nulo}
    /\ respuesta \in {"OK", "NO_EXISTE_ARCHIVO", Nulo}
    /\ en_disco \in SUBSET Archivos

Inv ==
    /\ Tipos
    /\ Permiso /\ Apertura /\ Exclusion
    /\ CpuEnOrden /\ FsEnOrden /\ CanalEnOrden
    /\ UnLugar /\ EsperaUna /\ EsperaSuArchivo /\ TerminaSinCerrar /\ EnPrograma
    /\ NombresUnicos /\ UnaVez
    /\ UnDueno /\ DuenoEnTabla /\ EnUsoConDueno
    /\ SinDespertarPerdido
    /\ PunteroFiel /\ PedidoFiel

-----------------------------------------------------------------------------
(* Sequences.                                                              *)

\* list_remove: the entries after the one removed move down by one.
LEMMA RemoveAtPropiedades ==
    ASSUME NEW T, NEW s \in Seq(T), NEW i \in DOMAIN s
    PROVE  /\ RemoveAt(s, i) \in Seq(T)
           /\ Len(RemoveAt(s, i)) = Len(s) - 1
           /\ \A j \in DOMAIN RemoveAt(s, i) :
                 /\ j \in 1..(Len(s) - 1)
                 /\ RemoveAt(s, i)[j] = IF j < i THEN s[j] ELSE s[j + 1]
<1> DEFINE a == SubSeq(s, 1, i - 1)
           b == SubSeq(s, i + 1, Len(s))
<1>1. i \in 1..Len(s) /\ Len(s) \in Nat
  OBVIOUS
<1>2. a \in Seq(T) /\ Len(a) = i - 1 /\ \A j \in 1..(i - 1) : a[j] = s[j]
  BY <1>1
<1>3. /\ b \in Seq(T) /\ Len(b) = Len(s) - i
      /\ \A j \in 1..(Len(s) - i) : b[j] = s[i + j]
  BY <1>1
<1> HIDE DEF a, b
<1>4. a \o b \in Seq(T) /\ Len(a \o b) = Len(s) - 1
  BY <1>1, <1>2, <1>3
<1>5. \A j \in 1..(Len(s) - 1) :
         (a \o b)[j] = IF j < i THEN s[j] ELSE s[j + 1]
  <2> SUFFICES ASSUME NEW j \in 1..(Len(s) - 1)
               PROVE  (a \o b)[j] = IF j < i THEN s[j] ELSE s[j + 1]
    OBVIOUS
  <2>1. (a \o b)[j] = IF j <= Len(a) THEN a[j] ELSE b[j - Len(a)]
    BY <1>1, <1>2, <1>3
  <2>2. CASE j < i
    BY <2>1, <2>2, <1>1, <1>2
  <2>3. CASE ~ (j < i)
    <3>1. j - (i - 1) \in 1..(Len(s) - i) /\ i + (j - (i - 1)) = j + 1
      BY <2>3, <1>1
    <3>2. b[j - (i - 1)] = s[j + 1]
      BY <3>1, <1>3
    <3> QED
      BY <2>1, <2>3, <3>2, <1>1, <1>2
  <2> QED
    BY <2>2, <2>3
<1>6. RemoveAt(s, i) = a \o b
  BY DEF RemoveAt, a, b
<1>7. DOMAIN (a \o b) = 1..(Len(s) - 1)
  BY <1>4, <1>1
<1> QED
  BY <1>4, <1>5, <1>6, <1>7

\* A name has one entry, and the search finds it.
LEMMA EntradaUnica ==
    ASSUME tabla_global \in Seq(Entradas), NombresUnicos, NEW f, EnTabla(f)
    PROVE  /\ Entrada(f) \in DOMAIN tabla_global
           /\ tabla_global[Entrada(f)].nombre = f
           /\ \A i \in DOMAIN tabla_global :
                 tabla_global[i].nombre = f => i = Entrada(f)
<1>1. PICK i \in DOMAIN tabla_global : tabla_global[i].nombre = f
  BY DEF EnTabla
<1>2. i \in Nat /\ DOMAIN tabla_global = 1..Len(tabla_global)
  OBVIOUS
<1>3. {k \in 1..Len(tabla_global) : tabla_global[k].nombre = f} = {i}
  BY <1>1, <1>2 DEF NombresUnicos
<1>4. Min({i}) = i
  BY <1>2 DEF Min
<1>5. Entrada(f) = i
  BY <1>3, <1>4 DEF Entrada, SelectInSeq
<1> QED
  BY <1>1, <1>5 DEF NombresUnicos

\* The process of an instruction, and its operands.
LEMMA InstruccionTipo ==
    ASSUME programa \in [Procesos -> Programas],
           program_counter \in [Procesos -> Nat],
           NEW p \in Procesos, NEW N, EnInstruccion(p, N)
    PROVE  /\ Pendiente(p) \in Instruccion /\ Pendiente(p).nombre \in N
           /\ Pendiente(p).nombre \in DeArchivo => Archivo(p) \in Archivos
           /\ Pendiente(p).parametro2 \in Posiciones
           /\ program_counter[p] + 1 \in DOMAIN programa[p]
           /\ programa[p] \in Programas /\ program_counter[p] \in Nat
<1>1. /\ programa[p] \in Programas /\ programa[p] \in Seq(Instruccion)
      /\ program_counter[p] \in Nat
  BY ProgramasAssumption
<1>2. program_counter[p] + 1 \in DOMAIN programa[p]
  BY <1>1 DEF EnInstruccion
<1>3. Pendiente(p) \in Instruccion
  BY <1>1, <1>2 DEF Pendiente
<1>4. Pendiente(p).nombre \in DeArchivo => Archivo(p) \in Archivos
  BY <1>3 DEF Instruccion, Archivo, DeArchivo, Accesos
<1>5. Pendiente(p).parametro2 \in Posiciones
  BY <1>3 DEF Instruccion
<1> QED
  BY <1>1, <1>2, <1>3, <1>4, <1>5 DEF EnInstruccion

\* One entry of the table is replaced and the others are left.
LEMMA CambiaEntrada ==
    ASSUME NEW s \in Seq(Entradas), NEW i \in DOMAIN s, NEW e \in Entradas
    PROVE  LET t == [s EXCEPT ![i] = e]
           IN  /\ t \in Seq(Entradas) /\ DOMAIN t = DOMAIN s
               /\ t[i] = e
               /\ \A k \in DOMAIN s : k # i => t[k] = s[k]
  OBVIOUS

\* An entry with another queue.
LEMMA ConCola ==
    ASSUME NEW e \in Entradas, NEW c \in Seq(Procesos)
    PROVE  LET n == [e EXCEPT !.cola_esperando = c]
           IN  /\ n \in Entradas /\ n.nombre = e.nombre
               /\ n.bit_de_uso = e.bit_de_uso /\ n.cola_esperando = c
  BY DEF Entradas

\* An entry with another bit.
LEMMA ConBit ==
    ASSUME NEW e \in Entradas, NEW b \in 0..1
    PROVE  LET n == [e EXCEPT !.bit_de_uso = b]
           IN  /\ n \in Entradas /\ n.nombre = e.nombre
               /\ n.bit_de_uso = b /\ n.cola_esperando = e.cola_esperando
  BY DEF Entradas

\* The fields of an entry have their types.
LEMMA CamposDeEntrada ==
    ASSUME NEW e \in Entradas
    PROVE  /\ e.cola_esperando \in Seq(Procesos) /\ e.bit_de_uso \in 0..1
           /\ e.nombre \in Archivos
  BY DEF Entradas

\* What F_OPEN does to the table, for a file in use and for a free one.
EfectoEspera(p, i) ==
    /\ tabla_global' \in Seq(Entradas)
    /\ DOMAIN tabla_global' = DOMAIN tabla_global
    /\ \A k \in DOMAIN tabla_global :
          /\ tabla_global'[k].nombre = tabla_global[k].nombre
          /\ tabla_global'[k].bit_de_uso = tabla_global[k].bit_de_uso
          /\ k # i => tabla_global'[k].cola_esperando = Cola(k)
    /\ tabla_global[i].bit_de_uso = 1
    /\ tabla_global'[i].cola_esperando = Append(Cola(i), p)
EfectoToma(i) ==
    /\ tabla_global' \in Seq(Entradas)
    /\ DOMAIN tabla_global' = DOMAIN tabla_global
    /\ \A k \in DOMAIN tabla_global :
          /\ tabla_global'[k].nombre = tabla_global[k].nombre
          /\ tabla_global'[k].cola_esperando = Cola(k)
          /\ k # i => tabla_global'[k].bit_de_uso = tabla_global[k].bit_de_uso
    /\ tabla_global[i].bit_de_uso = 0
    /\ tabla_global'[i].bit_de_uso = 1
\* What F_CLOSE does, with nobody waiting and with somebody.
EfectoQuita(i) ==
    /\ tabla_global' \in Seq(Entradas)
    /\ Cola(i) = <<>>
    /\ Len(tabla_global') = Len(tabla_global) - 1
    /\ \A k \in DOMAIN tabla_global' :
          LET j == IF k < i THEN k ELSE k + 1
          IN  j \in DOMAIN tabla_global /\ tabla_global'[k] = tabla_global[j]
    /\ listos' = listos
EfectoLibera(i) ==
    /\ tabla_global' \in Seq(Entradas)
    /\ DOMAIN tabla_global' = DOMAIN tabla_global
    /\ \A k \in DOMAIN tabla_global :
          /\ tabla_global'[k].nombre = tabla_global[k].nombre
          /\ k # i => /\ tabla_global'[k].cola_esperando = Cola(k)
                      /\ tabla_global'[k].bit_de_uso =
                             tabla_global[k].bit_de_uso
    /\ tabla_global'[i].bit_de_uso = 0
    /\ Cola(i) # <<>> /\ tabla_global'[i].cola_esperando = Tail(Cola(i))
    /\ listos' = listos \cup {Cola(i)[1]}

\* F_OPEN of a file in the table waits for it, or takes it.
LEMMA TomaOEsperaHace ==
    ASSUME tabla_global \in Seq(Entradas), NombresUnicos,
           NEW p \in Procesos, NEW f, EnTabla(f), TomaOEspera(p, f)
    PROVE  \/ /\ EfectoEspera(p, Entrada(f))
              /\ cpu' = "proceso_running" /\ UNCHANGED program_counter
           \/ /\ EfectoToma(Entrada(f))
              /\ cpu' = "instruccion" /\ Avanza(p)
<1> DEFINE i == Entrada(f)
           e == tabla_global[i]
<1>1. i \in DOMAIN tabla_global
  BY EntradaUnica
<1>2. e \in Entradas
  BY <1>1
<1> HIDE DEF i
<1>3. CASE /\ e.bit_de_uso = 1
           /\ tabla_global' =
                 [tabla_global EXCEPT ![i].cola_esperando = Append(@, p)]
  <2> DEFINE n == [e EXCEPT !.cola_esperando = Append(@, p)]
  <2>1. /\ n \in Entradas /\ n.nombre = e.nombre
        /\ n.bit_de_uso = e.bit_de_uso
        /\ n.cola_esperando = Append(e.cola_esperando, p)
    <3>1. Append(e.cola_esperando, p) \in Seq(Procesos) /\ 1 \in 0..1
      BY <1>2, CamposDeEntrada
    <3> QED
      BY <1>2, <3>1, ConCola
  <2>2. tabla_global' = [tabla_global EXCEPT ![i] = n]
    BY <1>3
  <2> HIDE DEF n
  <2>3. EfectoEspera(p, i)
    <3>1. /\ tabla_global' \in Seq(Entradas)
          /\ DOMAIN tabla_global' = DOMAIN tabla_global
          /\ tabla_global'[i] = n
          /\ \A k \in DOMAIN tabla_global :
                k # i => tabla_global'[k] = tabla_global[k]
      BY <1>1, <2>1, <2>2, CambiaEntrada
    <3> QED
      BY <1>3, <2>1, <3>1 DEF EfectoEspera, Cola
  <2> QED
    BY <1>2, <1>3, <2>3 DEF TomaOEspera, i, Entradas
<1>4. CASE /\ e.bit_de_uso = 0
           /\ tabla_global' = [tabla_global EXCEPT ![i].bit_de_uso = 1]
  <2> DEFINE n == [e EXCEPT !.bit_de_uso = 1]
  <2>1. /\ n \in Entradas /\ n.nombre = e.nombre /\ n.bit_de_uso = 1
        /\ n.cola_esperando = e.cola_esperando
    <3>1. e.cola_esperando \in Seq(Procesos) /\ 1 \in 0..1
      BY <1>2, CamposDeEntrada
    <3> QED
      BY <1>2, <3>1, ConBit
  <2>2. tabla_global' = [tabla_global EXCEPT ![i] = n]
    BY <1>4
  <2> HIDE DEF n
  <2>3. EfectoToma(i)
    <3>1. /\ tabla_global' \in Seq(Entradas)
          /\ DOMAIN tabla_global' = DOMAIN tabla_global
          /\ tabla_global'[i] = n
          /\ \A k \in DOMAIN tabla_global :
                k # i => tabla_global'[k] = tabla_global[k]
      BY <1>1, <2>1, <2>2, CambiaEntrada
    <3> QED
      BY <1>4, <2>1, <3>1 DEF EfectoToma, Cola
  <2> QED
    BY <1>2, <1>4, <2>3 DEF TomaOEspera, i, Entradas
<1> QED
  BY <1>3, <1>4 DEF TomaOEspera, i

\* F_CLOSE removes the entry nobody waits for, or hands the file to the
\* first that waits.
LEMMA LiberaHace ==
    ASSUME tabla_global \in Seq(Entradas), NEW i \in DOMAIN tabla_global,
           Libera(i)
    PROVE  EfectoQuita(i) \/ EfectoLibera(i)
<1> DEFINE e == tabla_global[i]
<1>1. CASE /\ e.cola_esperando = <<>>
           /\ tabla_global' = RemoveAt(tabla_global, i)
           /\ UNCHANGED listos
  <2>1. /\ tabla_global' \in Seq(Entradas)
        /\ Len(tabla_global') = Len(tabla_global) - 1
        /\ \A j \in DOMAIN tabla_global' :
              /\ j \in 1..(Len(tabla_global) - 1)
              /\ tabla_global'[j] =
                     IF j < i THEN tabla_global[j] ELSE tabla_global[j + 1]
    BY <1>1, RemoveAtPropiedades
  <2>2. \A k \in DOMAIN tabla_global' :
          LET j == IF k < i THEN k ELSE k + 1
          IN  j \in DOMAIN tabla_global /\ tabla_global'[k] = tabla_global[j]
    BY <2>1
  <2> QED
    BY <1>1, <2>1, <2>2 DEF EfectoQuita, Cola
<1>2. CASE /\ e.cola_esperando # <<>>
           /\ tabla_global' =
                 [tabla_global EXCEPT ![i].cola_esperando = Tail(@),
                                      ![i].bit_de_uso = 0]
           /\ listos' = listos \cup {Head(e.cola_esperando)}
  <2> DEFINE n == [e EXCEPT !.cola_esperando = Tail(@), !.bit_de_uso = 0]
  <2>0. e \in Entradas
    OBVIOUS
  <2>1. /\ n \in Entradas /\ n.nombre = e.nombre /\ n.bit_de_uso = 0
        /\ n.cola_esperando = Tail(e.cola_esperando)
        /\ Head(e.cola_esperando) = e.cola_esperando[1]
    <3>1. /\ Tail(e.cola_esperando) \in Seq(Procesos) /\ 0 \in 0..1
          /\ Head(e.cola_esperando) = e.cola_esperando[1]
      BY <1>2, <2>0, CamposDeEntrada
    <3> DEFINE c == Tail(e.cola_esperando)
    <3>2. n = [e EXCEPT !.cola_esperando = c, !.bit_de_uso = 0]
      OBVIOUS
    <3> HIDE DEF n, c
    <3>3. /\ n \in Entradas /\ n.nombre = e.nombre
          /\ n.bit_de_uso = 0 /\ n.cola_esperando = c
      <4>1. c \in Seq(Procesos) /\ 0 \in 0..1
        BY <3>1 DEF c
      <4> HIDE DEF e
      <4> QED
        <5> DEFINE m == [e EXCEPT !.cola_esperando = c]
        <5>1. /\ m \in Entradas /\ m.nombre = e.nombre
              /\ m.cola_esperando = c
          BY <2>0, <4>1, ConCola
        <5>2. n = [m EXCEPT !.bit_de_uso = 0]
          BY <3>2
        <5> HIDE DEF m
        <5> QED
          BY <5>1, <5>2, <4>1, ConBit
    <3> QED
      BY <3>1, <3>3 DEF c
  <2>2. tabla_global' = [tabla_global EXCEPT ![i] = n]
    BY <1>2
  <2> HIDE DEF n
  <2>3. /\ tabla_global' \in Seq(Entradas)
        /\ DOMAIN tabla_global' = DOMAIN tabla_global
        /\ tabla_global'[i] = n
        /\ \A k \in DOMAIN tabla_global :
              k # i => tabla_global'[k] = tabla_global[k]
    BY <2>1, <2>2, CambiaEntrada
  <2> QED
    BY <1>2, <2>1, <2>3 DEF EfectoLibera, Cola
<1> QED
  BY <1>1, <1>2 DEF Libera

-----------------------------------------------------------------------------
(* Types.                                                                  *)

\* The invariant holds when nothing has started.
LEMMA InvInit == Init => Inv
<1> SUFFICES ASSUME Init
             PROVE  Inv
  OBVIOUS
<1>0. /\ \A p \in Procesos : programa[p] \in Seq(Instruccion)
      /\ program_counter = [p \in Procesos |-> 0]
      /\ tabla_global = <<>> /\ DOMAIN tabla_global = {}
  BY ProgramasAssumption DEF Init
<1>1. Tipos
  BY PosicionesAssumption, MaxAssumption
  DEF Init, Tipos, Semaforos, SinAbrir, HilosCPU, HilosFS
<1>2. Permiso /\ Apertura /\ Exclusion
  BY DEF Init, Permiso, Apertura, Exclusion, Uno, FsAbre, Semaforos
<1>3. CpuEnOrden /\ FsEnOrden /\ CanalEnOrden
  BY DEF Init, CpuEnOrden, FsEnOrden, CanalEnOrden, FsAbre
<1>4. UnLugar
  <2> SUFFICES ASSUME NEW p \in Procesos
               PROVE  Cuantos(p) = 1
    BY DEF UnLugar
  <2>1. p \in listos /\ p \notin terminados /\ ~ EnCola(p)
    BY <1>0 DEF Init, EnCola
  <2>2. p \notin EnCPU /\ p \notin PorPedir /\ p \notin EnFS
    BY DEF Init, EnCPU, PorPedir, EnFS
  <2> QED
    BY <2>1, <2>2 DEF Cuantos, Uno
<1>5. EsperaUna /\ EsperaSuArchivo /\ TerminaSinCerrar
  BY <1>0 DEF EsperaUna, EsperaSuArchivo, TerminaSinCerrar, Init
<1>6. EnPrograma
  BY <1>0 DEF EnPrograma
<1>7. \A p \in Procesos : \A N, f : Hechas(p, N, f) = {}
  BY <1>0 DEF Hechas, Hasta
<1>8. Cardinality({}) = 0
  BY FS_EmptySet
<1>9. \A p \in Procesos : \A f :
         ~ Tiene(p, f) /\ Abiertas(p, f) = 0 /\ Cerradas(p, f) = 0
  <2> SUFFICES ASSUME NEW p \in Procesos, NEW f
               PROVE  ~ Tiene(p, f) /\ Abiertas(p, f) = 0
                      /\ Cerradas(p, f) = 0
    OBVIOUS
  <2>1. Hechas(p, {"F_OPEN"}, f) = {} /\ Hechas(p, {"F_CLOSE"}, f) = {}
    BY <1>7
  <2> QED
    BY <2>1, <1>8 DEF Tiene, Abiertas, Cerradas
<1>10. NombresUnicos /\ UnaVez /\ UnDueno /\ DuenoEnTabla
       /\ EnUsoConDueno /\ SinDespertarPerdido
  BY <1>0, <1>9 DEF NombresUnicos, UnaVez, UnDueno, DuenoEnTabla,
                    EnUsoConDueno, SinDespertarPerdido
<1>11. PunteroFiel /\ PedidoFiel
  BY <1>9 DEF Init, PunteroFiel, PedidoFiel, EsTransferencia, SinAbrir
<1> QED
  BY <1>1, <1>2, <1>3, <1>4, <1>5, <1>6, <1>10, <1>11 DEF Inv

\* The process whose context came back is at one of the instructions named.
LEMMA RetornaTipo ==
    ASSUME Tipos, NEW p \in Procesos, NEW N \in SUBSET DeArchivo,
           Retorna(p, N)
    PROVE  /\ EnInstruccion(p, N) /\ Archivo(p) \in Archivos
           /\ Pendiente(p).parametro2 \in Posiciones
           /\ cpu = "instruccion" /\ p = pcb_en_ejecucion
<1>1. EnInstruccion(p, N)
  BY DEF Retorna
<1>2. /\ Pendiente(p).nombre \in N
      /\ Pendiente(p).nombre \in DeArchivo => Archivo(p) \in Archivos
      /\ Pendiente(p).parametro2 \in Posiciones
  BY <1>1, InstruccionTipo DEF Tipos
<1> QED
  BY <1>1, <1>2 DEF Retorna

\* A semaphore never goes below 0.
LEMMA SemTipo ==
    ASSUME sem \in [Semaforos -> Nat], NEW s \in Semaforos
    PROVE  /\ Wait(s) => sem' \in [Semaforos -> Nat]
           /\ Post(s) => sem' \in [Semaforos -> Nat]
  BY DEF Wait, Post

\* An F_OPEN that ends leaves every type.
LEMMA TiposTermina ==
    ASSUME Tipos, NombresUnicos, NEW p \in Procesos, NEW f \in Archivos,
           TerminaDeAbrir(p, f), sem' \in [Semaforos -> Nat]
    PROVE  Tipos'
<1>1. tabla_local' \in [Procesos -> [Archivos -> Posiciones \cup {Nulo}]]
  BY PosicionesAssumption DEF Tipos, TerminaDeAbrir
<1>2. /\ tabla_global' \in Seq(Entradas)
      /\ cpu' \in HilosCPU
      /\ UNCHANGED program_counter \/ Avanza(p)
  BY TomaOEsperaHace
  DEF Tipos, TerminaDeAbrir, EfectoEspera, EfectoToma, HilosCPU
<1>3. program_counter' \in [Procesos -> Nat]
  <2>1. program_counter \in [Procesos -> Nat]
    BY DEF Tipos
  <2>2. Avanza(p) => program_counter' \in [Procesos -> Nat]
    BY <2>1 DEF Avanza
  <2> QED
    BY <1>2, <2>1, <2>2
<1> QED
  BY <1>1, <1>2, <1>3 DEF Tipos, TerminaDeAbrir, memoria, hilo_fs, canal

\* The CPU thread keeps the types.
LEMMA TiposCpu ==
    ASSUME Tipos, NombresUnicos, CpuEnOrden, HiloCPU
    PROVE  Tipos'
<1> USE DEF procesos, tablas, memoria, hilo_fs, canal
<1>s. /\ "puede_replanificar" \in Semaforos
      /\ "operacion_fs" \in Semaforos
      /\ "termina_operacion_fs" \in Semaforos
      /\ "mutex_operacion_fs_memoria" \in Semaforos
      /\ sem \in [Semaforos -> Nat]
  BY DEF Semaforos, Tipos
<1>1. CASE EsperaPermisoDeAbrir \/ EsperaPermiso
  <2>1. sem' \in [Semaforos -> Nat]
    BY <1>1, <1>s, SemTipo DEF EsperaPermisoDeAbrir, EsperaPermiso
  <2> QED
    BY <1>1, <2>1 DEF Tipos, EsperaPermisoDeAbrir, EsperaPermiso, HilosCPU
<1>2. CASE PideCompactar
  <2>1. sem' \in [Semaforos -> Nat]
    BY <1>2, <1>s, SemTipo DEF PideCompactar
  <2> QED
    BY <1>2, <2>1 DEF Tipos, PideCompactar, HilosCPU
<1>3. CASE RecibeTablas
  <2>1. sem' \in [Semaforos -> Nat]
    BY <1>3, <1>s, SemTipo DEF RecibeTablas
  <2>2. disposicion' \in 0..MaxCompactaciones
    BY <1>3, MaxAssumption DEF Tipos, RecibeTablas, CpuEnOrden
  <2> QED
    BY <1>3, <2>1, <2>2 DEF Tipos, RecibeTablas, HilosCPU
<1>4. ASSUME NEW p \in Procesos, Despacha(p)
      PROVE  Tipos'
  BY <1>4 DEF Tipos, Despacha, HilosCPU
<1>5. ASSUME NEW p \in Procesos, AbrePidiendo(p) \/ Trunca(p)
      PROVE  Tipos'
  <2>1. sem' \in [Semaforos -> Nat]
    BY <1>5, <1>s, SemTipo DEF AbrePidiendo, Trunca
  <2> QED
    BY <1>5, <2>1 DEF Tipos, AbrePidiendo, Trunca, HilosCPU
<1>6. ASSUME NEW p \in Procesos, AbreEnTabla(p)
      PROVE  Tipos'
  <2>1. Archivo(p) \in Archivos /\ TerminaDeAbrir(p, Archivo(p))
    BY <1>6, RetornaTipo DEF AbreEnTabla, DeArchivo, Archivo
  <2>2. sem' \in [Semaforos -> Nat]
    BY <1>6, <1>s DEF AbreEnTabla
  <2> QED
    BY <2>1, <2>2, TiposTermina
<1>7. ASSUME NEW p \in Procesos, EsperaTermina(p)
      PROVE  Tipos'
  <2>1. EnInstruccion(p, {"F_OPEN"}) /\ TerminaDeAbrir(p, Archivo(p))
    BY <1>7 DEF EsperaTermina, CpuEnOrden, Archivo
  <2>2. Archivo(p) \in Archivos
    BY <2>1, InstruccionTipo DEF Tipos, DeArchivo
  <2>3. sem' \in [Semaforos -> Nat]
    BY <1>7, <1>s, SemTipo DEF EsperaTermina
  <2> QED
    BY <2>1, <2>2, <2>3, TiposTermina
<1>8. ASSUME NEW p \in Procesos, Cierra(p)
      PROVE  Tipos'
  <2> DEFINE f == Pendiente(p).parametro1
  <2>1. f \in Archivos /\ EnTabla(f) /\ Libera(Entrada(f))
    BY <1>8, RetornaTipo DEF Cierra, DeArchivo, Archivo
  <2>2. PICK i \in DOMAIN tabla_global : i = Entrada(f)
    BY <2>1, EntradaUnica DEF Tipos
  <2>3. /\ tabla_global' \in Seq(Entradas)
        /\ listos' = listos \/ /\ listos' = listos \cup {Cola(i)[1]}
                               /\ Cola(i) # <<>>
    BY <2>1, <2>2, LiberaHace DEF Tipos, EfectoQuita, EfectoLibera
  <2>4. Cola(i) \in Seq(Procesos)
    BY CamposDeEntrada DEF Tipos, Cola
  <2>5. listos' \in SUBSET Procesos
    BY <2>3, <2>4 DEF Tipos
  <2>6. tabla_local' \in [Procesos -> [Archivos -> Posiciones \cup {Nulo}]]
    BY <1>8, <2>1 DEF Tipos, Cierra, TablaSin
  <2>7. program_counter' \in [Procesos -> Nat]
    BY <1>8 DEF Tipos, Cierra, Avanza
  <2> QED
    BY <1>8, <2>3, <2>5, <2>6, <2>7 DEF Tipos, Cierra
<1>9. ASSUME NEW p \in Procesos, CierraAusente(p)
      PROVE  Tipos'
  BY <1>9 DEF Tipos, CierraAusente, HilosCPU
<1>10. ASSUME NEW p \in Procesos, Posiciona(p)
       PROVE  Tipos'
  <2>1. Archivo(p) \in Archivos /\ Pendiente(p).parametro2 \in Posiciones
    BY <1>10, RetornaTipo DEF Posiciona, DeArchivo
  <2>2. tabla_local' \in [Procesos -> [Archivos -> Posiciones \cup {Nulo}]]
    BY <1>10, <2>1 DEF Tipos, Posiciona, Archivo
  <2>3. program_counter' \in [Procesos -> Nat]
    BY <1>10 DEF Tipos, Posiciona, Avanza
  <2> QED
    BY <1>10, <2>2, <2>3 DEF Tipos, Posiciona
<1>11. ASSUME NEW p \in Procesos, Accede(p)
       PROVE  Tipos'
  BY <1>11 DEF Tipos, Accede, HilosCPU
<1>12. ASSUME NEW p \in Procesos, RecibeDireccion(p)
       PROVE  Tipos'
  <2>1. sem' \in [Semaforos -> Nat]
    BY <1>12, <1>s, SemTipo DEF RecibeDireccion
  <2>2. direccion_fisica' \in Direccion
    BY <1>12 DEF Tipos, RecibeDireccion, Direccion
  <2> QED
    BY <1>12, <2>1, <2>2 DEF Tipos, RecibeDireccion, HilosCPU
<1>13. ASSUME NEW p \in Procesos, Sale(p) \/ SinSegmento(p)
       PROVE  Tipos'
  <2>1. TerminaProceso(p)
    BY <1>13 DEF Sale, SinSegmento
  <2>2. tabla_local' \in [Procesos -> [Archivos -> Posiciones \cup {Nulo}]]
    BY <2>1 DEF Tipos, TerminaProceso, SinAbrir
  <2> QED
    BY <2>1, <2>2 DEF Tipos, TerminaProceso, HilosCPU
<1>14. ASSUME NEW p \in Procesos, CreaSegmento(p)
       PROVE  Tipos'
  BY <1>14 DEF Tipos, CreaSegmento, Avanza
<1>15. ASSUME NEW p \in Procesos, NecesitaCompactar(p)
       PROVE  Tipos'
  BY <1>15 DEF Tipos, NecesitaCompactar, HilosCPU
<1> HIDE DEF procesos, tablas, memoria, hilo_fs, canal
<1> QED
  BY <1>1, <1>2, <1>3, <1>4, <1>5, <1>6, <1>7, <1>8, <1>9, <1>10, <1>11,
     <1>12, <1>13, <1>14, <1>15 DEF HiloCPU

\* The file thread keeps the types.
LEMMA TiposFs ==
    ASSUME Tipos, FsEnOrden, HiloFS
    PROVE  Tipos'
<1> USE DEF procesos, tablas, memoria, hilo_fs, canal
<1>s. /\ "puede_replanificar" \in Semaforos
      /\ "operacion_fs" \in Semaforos
      /\ "termina_operacion_fs" \in Semaforos
      /\ "mutex_operacion_fs_memoria" \in Semaforos
      /\ sem \in [Semaforos -> Nat]
  BY DEF Semaforos, Tipos
<1> DEFINE p == pcb_operacion_fs
<1>a. ASSUME fs \in {"switch", "existe", "creado", "list_add"} 
      PROVE  p \in Procesos /\ Archivo(p) \in Archivos
  <2>1. p \in Procesos
    BY <1>a DEF FsEnOrden
  <2>2. EnInstruccion(p, {"F_OPEN"} \cup PorPosicion)
    BY <1>a DEF FsEnOrden, EnInstruccion
  <2>3. /\ Pendiente(p).nombre \in {"F_OPEN"} \cup PorPosicion
        /\ Pendiente(p).nombre \in DeArchivo => Archivo(p) \in Archivos
    BY <2>1, <2>2, InstruccionTipo DEF Tipos
  <2> QED
    BY <2>1, <2>3 DEF DeArchivo, PorPosicion, Accesos
<1>p. ASSUME NEW c \in {"ABRIR_ARCHIVO", "CREAR_ARCHIVO", "RECORTAR_ARCHIVO",
                        "LEER_ARCHIVO", "ESCRIBIR_ARCHIVO"},
             NEW n \in Posiciones, NEW d \in Direccion \cup {Nulo},
             Solicita(c, n, d), fs \in {"switch", "existe"}
      PROVE  pedido' \in Pedidos
  BY <1>p, <1>a DEF Solicita, Pedidos, Archivo
<1>1. CASE TomaOperacion
  <2>1. sem' \in [Semaforos -> Nat]
    BY <1>1, <1>s, SemTipo DEF TomaOperacion
  <2> QED
    BY <1>1, <2>1 DEF Tipos, TomaOperacion, HilosFS
<1>2. CASE GuardaReferencia
  <2>1. sem' \in [Semaforos -> Nat]
    BY <1>2, <1>s, SemTipo DEF GuardaReferencia
  <2> QED
    BY <1>2, <2>1 DEF Tipos, GuardaReferencia, HilosFS
<1>3. CASE PreguntaSiExiste
  <2>1. pedido' \in Pedidos
    BY <1>3, <1>p, PosicionesAssumption DEF PreguntaSiExiste, Atiende
  <2> QED
    BY <1>3, <2>1 DEF Tipos, PreguntaSiExiste, HilosFS
<1>4. CASE Recorta
  <2>1. pedido' \in Pedidos
    BY <1>4, <1>p, PosicionesAssumption DEF Recorta, Atiende
  <2> QED
    BY <1>4, <2>1 DEF Tipos, Recorta, HilosFS
<1>5. CASE Transfiere
  <2> DEFINE n == tabla_local[p][Archivo(p)]
             c == IF Pendiente(p).nombre = "F_READ"
                  THEN "LEER_ARCHIVO" ELSE "ESCRIBIR_ARCHIVO"
  <2>1. n # Nulo /\ Solicita(c, n, direccion_fisica) /\ fs = "switch"
        /\ Wait("mutex_operacion_fs_memoria")
    BY <1>5 DEF Transfiere, Atiende, Archivo
  <2>2. n \in Posiciones
    BY <2>1, <1>a DEF Tipos
  <2>3. pedido' \in Pedidos
    BY <2>1, <2>2, <1>p DEF Tipos
  <2>4. sem' \in [Semaforos -> Nat]
    BY <2>1, <1>s, SemTipo
  <2> QED
    BY <1>5, <2>3, <2>4 DEF Tipos, Transfiere, HilosFS
<1>6. CASE RecibeSiExiste
  <2>1. pedido' \in Pedidos \cup {Nulo}
    <3>1. CASE UNCHANGED pedido
      BY <3>1 DEF Tipos
    <3>2. CASE Solicita("CREAR_ARCHIVO", 0, Nulo)
      BY <1>6, <3>2, <1>p, PosicionesAssumption DEF RecibeSiExiste, Recibe
    <3> QED
      BY <1>6, <3>1, <3>2 DEF RecibeSiExiste
  <2> QED
    BY <1>6, <2>1 DEF Tipos, RecibeSiExiste, Recibe, HilosFS
<1>7. CASE RecibeCreado
  BY <1>7 DEF Tipos, RecibeCreado, Recibe, HilosFS
<1>8. CASE AgregaATabla
  <2> DEFINE e == [nombre |-> Archivo(p), cola_esperando |-> <<>>,
                   bit_de_uso |-> 0]
  <2>1. e \in Entradas
    BY <1>8, <1>a DEF AgregaATabla, Entradas
  <2>2. tabla_global' = Append(tabla_global, e)
    BY <1>8 DEF AgregaATabla, Archivo
  <2>3. tabla_global' \in Seq(Entradas)
    BY <2>1, <2>2 DEF Tipos
  <2>4. sem' \in [Semaforos -> Nat]
    BY <1>8, <1>s, SemTipo DEF AgregaATabla
  <2> QED
    BY <1>8, <2>3, <2>4 DEF Tipos, AgregaATabla, HilosFS
<1>9. ASSUME DevuelveProceso, fs \in {"recortado", "transferido"},
             respuesta' = Nulo, sem' \in [Semaforos -> Nat]
      PROVE  Tipos'
  <2>1. p \in Procesos
    BY <1>9 DEF FsEnOrden
  <2>2. program_counter' \in [Procesos -> Nat] /\ listos' \in SUBSET Procesos
    BY <1>9, <2>1 DEF Tipos, DevuelveProceso, Avanza
  <2> QED
    BY <1>9, <2>2 DEF Tipos, DevuelveProceso, HilosFS
<1>10. CASE RecibeRecortado
  BY <1>10, <1>9, <1>s DEF RecibeRecortado, Recibe
<1>11. CASE RecibeTransferido
  <2>1. sem' \in [Semaforos -> Nat]
    BY <1>11, <1>s, SemTipo DEF RecibeTransferido
  <2> QED
    BY <1>11, <1>9, <2>1 DEF RecibeTransferido, Recibe
<1> HIDE DEF procesos, tablas, memoria, hilo_fs, canal
<1> QED
  BY <1>1, <1>2, <1>3, <1>4, <1>5, <1>6, <1>7, <1>8, <1>10, <1>11 DEF HiloFS

\* Every step keeps the types.
LEMMA TiposNext == Inv /\ [Next]_vars => Tipos'
<1>1. Inv => Tipos /\ NombresUnicos /\ CpuEnOrden /\ FsEnOrden
  BY DEF Inv
<1>2. Tipos /\ FileSystemResponde => Tipos'
  BY DEF Tipos, FileSystemResponde, procesos, tablas, memoria, hilo_fs, Pedidos
<1>3. Tipos /\ UNCHANGED vars => Tipos'
  BY DEF Tipos, vars, procesos, tablas, memoria, hilo_fs, canal
<1> QED
  BY <1>1, <1>2, <1>3, TiposCpu, TiposFs DEF Next

-----------------------------------------------------------------------------
(* The tokens.                                                             *)

\* sem_wait and sem_post move their own semaphore by one.
LEMMA SemCambia ==
    ASSUME sem \in [Semaforos -> Nat], NEW s \in Semaforos
    PROVE  /\ Wait(s) => /\ sem[s] > 0 /\ sem'[s] = sem[s] - 1
                         /\ \A t \in Semaforos \ {s} : sem'[t] = sem[t]
           /\ Post(s) => /\ sem'[s] = sem[s] + 1
                         /\ \A t \in Semaforos \ {s} : sem'[t] = sem[t]
  BY DEF Wait, Post

\* A process is in the hands of one thread at most.
LEMMA EnUnoSolo ==
    ASSUME Inv, NEW p \in Procesos
    PROVE  /\ p \in EnCPU => /\ p \notin listos /\ p \notin PorPedir
                             /\ p \notin EnFS /\ p \notin terminados
                             /\ ~ EnCola(p)
           /\ p \in EnFS => /\ p \notin listos /\ p \notin PorPedir
                            /\ p \notin terminados /\ ~ EnCola(p)
           /\ p \in PorPedir => /\ p \notin listos /\ p \notin terminados
                                /\ ~ EnCola(p)
           /\ p \in listos => p \notin terminados /\ ~ EnCola(p)
           /\ p \in terminados => ~ EnCola(p)
<1>1. Cuantos(p) <= 1
  BY DEF Inv, UnLugar
<1> QED
  BY <1>1 DEF Cuantos, Uno

\* While the CPU thread goes on, the file thread has another process.
LEMMA FsDeOtro ==
    ASSUME Inv, cpu \notin {"proceso_running", "puede_replanificar"},
           cpu \notin {"abriendo", "termina_operacion_fs"}
               \/ sem["termina_operacion_fs"] > 0
    PROVE  /\ ~ FsAbre
           /\ fs \notin {"operacion_fs", "pcb_en_ejecucion"} =>
                 pcb_operacion_fs \in EnFS /\ pcb_operacion_fs # pcb_en_ejecucion
<1>1. sem["termina_operacion_fs"] \in Nat
  BY DEF Inv, Tipos, Semaforos
<1>2. ~ FsAbre
  BY <1>1 DEF Inv, Apertura, Uno
<1>3. ASSUME fs \notin {"operacion_fs", "pcb_en_ejecucion"}
      PROVE  pcb_operacion_fs \in EnFS
  <2>1. fs \in {"switch", "recortado", "transferido"}
    BY <1>2, <1>3 DEF Inv, Tipos, HilosFS, FsAbre
  <2>2. Pendiente(pcb_operacion_fs).nombre # "F_OPEN"
    BY <1>2, <2>1
    DEF Inv, FsEnOrden, FsAbre, EnInstruccion, Accesos
  <2> QED
    BY <2>1, <2>2 DEF EnFS
<1>4. pcb_en_ejecucion \in Procesos /\ pcb_en_ejecucion \in EnCPU
  BY DEF Inv, CpuEnOrden, EnCPU
<1> QED
  BY <1>2, <1>3, <1>4, EnUnoSolo

\* A process that is not advanced is as it was.
LEMMA Quieto ==
    ASSUME UNCHANGED programa, NEW p,
           program_counter'[p] = program_counter[p]
    PROVE  /\ programa'[p] = programa[p]
           /\ programa'[p][program_counter'[p] + 1] = Pendiente(p)
           /\ \A N : program_counter'[p] < Len(programa'[p])
                     /\ programa'[p][program_counter'[p] + 1].nombre \in N
                  <=> EnInstruccion(p, N)
  BY DEF Pendiente, EnInstruccion

\* program_counter of one process advances.
LEMMA AvanzaSolo ==
    ASSUME program_counter \in [Procesos -> Nat], NEW p \in Procesos, Avanza(p)
    PROVE  /\ program_counter'[p] = program_counter[p] + 1
           /\ \A q \in Procesos \ {p} :
                 program_counter'[q] = program_counter[q]
  BY DEF Avanza

\* The CPU thread leaves the file thread and its process alone.
LEMMA CpuNoTocaFs ==
    ASSUME Inv, HiloCPU
    PROVE  /\ UNCHANGED <<fs, pcb_operacion_fs, programa, pedido, respuesta,
                          en_disco>>
           /\ fs \notin {"operacion_fs", "pcb_en_ejecucion"} =>
                 program_counter'[pcb_operacion_fs] =
                     program_counter[pcb_operacion_fs]
<1> USE DEF procesos, tablas, memoria, hilo_fs, canal
<1>0. /\ program_counter \in [Procesos -> Nat]
      /\ fs \notin {"operacion_fs", "pcb_en_ejecucion"} =>
            pcb_operacion_fs \in Procesos
      /\ sem["termina_operacion_fs"] \in Nat
  BY DEF Inv, Tipos, FsEnOrden, Semaforos
<1>1. ASSUME UNCHANGED program_counter
      PROVE  program_counter'[pcb_operacion_fs] =
                 program_counter[pcb_operacion_fs]
  BY <1>1
<1>2. ASSUME cpu = "instruccion" \/ /\ cpu = "termina_operacion_fs"
                                    /\ sem["termina_operacion_fs"] > 0,
             Avanza(pcb_en_ejecucion),
             fs \notin {"operacion_fs", "pcb_en_ejecucion"}
      PROVE  program_counter'[pcb_operacion_fs] =
                 program_counter[pcb_operacion_fs]
  <2>1. pcb_operacion_fs # pcb_en_ejecucion
    BY <1>2, FsDeOtro
  <2>2. pcb_en_ejecucion \in Procesos
    BY <1>2 DEF Inv, CpuEnOrden
  <2> QED
    BY <1>0, <1>2, <2>1, <2>2, AvanzaSolo
<1>3. CASE \E p \in Procesos : AbreEnTabla(p)
  BY <1>1, <1>2, <1>3
  DEF AbreEnTabla, Retorna, TerminaDeAbrir, TomaOEspera
<1>4. CASE \E p \in Procesos : EsperaTermina(p)
  <2> PICK p \in Procesos : EsperaTermina(p)
    BY <1>4
  <2>1. sem["termina_operacion_fs"] > 0 /\ p = pcb_en_ejecucion
        /\ cpu = "termina_operacion_fs"
    BY DEF EsperaTermina, Wait
  <2> QED
    BY <1>1, <1>2, <2>1 DEF EsperaTermina, TerminaDeAbrir, TomaOEspera
<1>5. CASE \E p \in Procesos : Cierra(p) \/ Posiciona(p) \/ CreaSegmento(p)
  BY <1>2, <1>5 DEF Cierra, Posiciona, CreaSegmento, Retorna
<1>6. CASE EsperaPermisoDeAbrir \/ EsperaPermiso \/ PideCompactar
           \/ RecibeTablas
  BY <1>6
  DEF EsperaPermisoDeAbrir, EsperaPermiso, PideCompactar, RecibeTablas
<1>7. CASE \E p \in Procesos : \/ Despacha(p) \/ AbrePidiendo(p)
                               \/ CierraAusente(p) \/ Trunca(p)
                               \/ Accede(p) \/ RecibeDireccion(p)
                               \/ Sale(p) \/ SinSegmento(p)
                               \/ NecesitaCompactar(p)
  BY <1>7
  DEF Despacha, AbrePidiendo, CierraAusente, Trunca, Accede, RecibeDireccion,
      Sale, SinSegmento, TerminaProceso, NecesitaCompactar
<1> HIDE DEF procesos, tablas, memoria, hilo_fs, canal
<1> QED
  BY <1>3, <1>4, <1>5, <1>6, <1>7 DEF HiloCPU

\* The file thread leaves the CPU thread and its process alone, and what the
\* process it serves executes is the end of an access or of F_TRUNCATE.
LEMMA FsNoTocaCpu ==
    ASSUME Inv, HiloFS
    PROVE  /\ UNCHANGED <<cpu, pcb_en_ejecucion, programa, terminados,
                          tabla_local, direccion_fisica, disposicion>>
           /\ pcb_en_ejecucion \in EnCPU \cup PorPedir =>
                 program_counter'[pcb_en_ejecucion] =
                     program_counter[pcb_en_ejecucion]
           /\ \/ UNCHANGED <<program_counter, listos>>
              \/ /\ Avanza(pcb_operacion_fs)
                 /\ listos' = listos \cup {pcb_operacion_fs}
                 /\ pcb_operacion_fs \in EnFS
                 /\ EnInstruccion(pcb_operacion_fs, PorPosicion)
                 /\ fs \in {"recortado", "transferido"}
                 /\ fs' = "operacion_fs"
<1> USE DEF procesos, tablas, memoria, hilo_fs, canal
<1>1. CASE RecibeRecortado \/ RecibeTransferido
  <2>1. /\ fs \in {"recortado", "transferido"} /\ DevuelveProceso
    BY <1>1 DEF RecibeRecortado, RecibeTransferido, Recibe
  <2>2. /\ pcb_operacion_fs \in Procesos
        /\ EnInstruccion(pcb_operacion_fs, PorPosicion)
    BY <2>1 DEF Inv, FsEnOrden, EnInstruccion, PorPosicion
  <2>3. pcb_operacion_fs \in EnFS
    BY <2>1, <2>2 DEF EnFS, EnInstruccion, PorPosicion, Accesos
  <2>4. ASSUME pcb_en_ejecucion \in EnCPU \cup PorPedir
        PROVE  program_counter'[pcb_en_ejecucion] =
                   program_counter[pcb_en_ejecucion]
    <3>1. pcb_en_ejecucion \in Procesos
      BY <2>4 DEF EnCPU, PorPedir, Inv, CpuEnOrden
    <3>2. pcb_en_ejecucion # pcb_operacion_fs
      BY <2>4, <3>1, <2>3, EnUnoSolo
    <3> QED
      BY <2>1, <2>2, <3>1, <3>2, AvanzaSolo DEF DevuelveProceso, Inv, Tipos
  <2> QED
    BY <2>1, <2>2, <2>3, <2>4 DEF DevuelveProceso
<1>2. CASE TomaOperacion \/ GuardaReferencia \/ PreguntaSiExiste \/ Recorta
           \/ Transfiere \/ RecibeSiExiste \/ RecibeCreado \/ AgregaATabla
  BY <1>2
  DEF TomaOperacion, GuardaReferencia, PreguntaSiExiste, Recorta, Transfiere,
      RecibeSiExiste, RecibeCreado, AgregaATabla
<1> HIDE DEF procesos, tablas, memoria, hilo_fs, canal
<1> QED
  BY <1>1, <1>2 DEF HiloFS

\* No step of the CPU thread begins or ends an F_OPEN of the file thread.
LEMMA FsAbreIgual ==
    ASSUME Inv, HiloCPU
    PROVE  FsAbre' <=> FsAbre
<1>1. /\ UNCHANGED <<fs, pcb_operacion_fs, programa>>
      /\ fs = "switch" => program_counter'[pcb_operacion_fs] =
                              program_counter[pcb_operacion_fs]
  BY CpuNoTocaFs
<1> QED
  BY <1>1 DEF FsAbre, Pendiente

\* The semaphores are counters.
LEMMA Contadores ==
    ASSUME sem \in [Semaforos -> Nat]
    PROVE  /\ sem["operacion_fs"] \in Nat
           /\ sem["puede_replanificar"] \in Nat
           /\ sem["termina_operacion_fs"] \in Nat
           /\ sem["mutex_operacion_fs_memoria"] \in Nat
  BY DEF Semaforos

Fichas == Permiso /\ Apertura /\ Exclusion

\* Each step of the CPU thread moves the tokens or keeps them where they
\* are: a token taken from one place is put in another.
LEMMA FichasCpu ==
    ASSUME Inv, HiloCPU
    PROVE  Fichas'
<1> DEFINE o == sem["operacion_fs"]
           r == sem["puede_replanificar"]
           t == sem["termina_operacion_fs"]
           m == sem["mutex_operacion_fs_memoria"]
<1>0. o \in Nat /\ r \in Nat /\ t \in Nat /\ m \in Nat
  BY Contadores DEF Inv, Tipos
<1>1. fs' = fs /\ (FsAbre' <=> FsAbre)
  BY CpuNoTocaFs, FsAbreIgual
<1>2. /\ o + Uno(fs = "pcb_en_ejecucion") + r
             = Uno(cpu \in {"abriendo", "puede_replanificar"})
      /\ t + Uno(FsAbre) + Uno(cpu = "abriendo" /\ (o = 1 \/ fs = "pcb_en_ejecucion"))
             = Uno(cpu \in {"abriendo", "termina_operacion_fs"})
      /\ m + Uno(cpu = "compactando") + Uno(fs = "transferido") = 1
  BY DEF Inv, Permiso, Apertura, Exclusion, PorTomar
<1>3. ASSUME /\ o' + Uno(fs' = "pcb_en_ejecucion") + r'
                    = Uno(cpu' \in {"abriendo", "puede_replanificar"})
             /\ t' + Uno(FsAbre')
                    + Uno(cpu' = "abriendo" /\ (o' = 1 \/ fs' = "pcb_en_ejecucion"))
                    = Uno(cpu' \in {"abriendo", "termina_operacion_fs"})
             /\ m' + Uno(cpu' = "compactando") + Uno(fs' = "transferido") = 1
      PROVE  Fichas'
  BY <1>3 DEF Fichas, Permiso, Apertura, Exclusion, PorTomar
<1>s. /\ sem \in [Semaforos -> Nat]
      /\ "operacion_fs" \in Semaforos /\ "puede_replanificar" \in Semaforos
      /\ "termina_operacion_fs" \in Semaforos
      /\ "mutex_operacion_fs_memoria" \in Semaforos
  BY DEF Inv, Tipos, Semaforos
<1> HIDE DEF o, r, t, m
<1>4. ASSUME UNCHANGED sem,
             cpu' \in {"proceso_running", "instruccion", "direccion_fisica",
                       "mutex_operacion_fs_memoria"},
             cpu \in {"proceso_running", "instruccion", "direccion_fisica",
                      "mutex_operacion_fs_memoria"}
      PROVE  Fichas'
  <2>1. o' = o /\ r' = r /\ t' = t /\ m' = m
    BY <1>4 DEF o, r, t, m
  <2> QED
    BY <1>4, <2>1, <1>0, <1>1, <1>2, <1>3 DEF Uno
<1>5. CASE EsperaPermisoDeAbrir \/ EsperaPermiso
  <2>1. o' = o /\ r > 0 /\ r' = r - 1 /\ t' = t /\ m' = m
    BY <1>5, <1>s, SemCambia DEF EsperaPermisoDeAbrir, EsperaPermiso, o, r, t, m
  <2>2. \/ cpu = "abriendo" /\ cpu' = "termina_operacion_fs"
        \/ cpu = "puede_replanificar" /\ cpu' = "proceso_running"
    BY <1>5 DEF EsperaPermisoDeAbrir, EsperaPermiso
  <2> QED
    BY <2>1, <2>2, <1>0, <1>1, <1>2, <1>3 DEF Uno
<1>6. CASE PideCompactar
  <2>1. o' = o /\ r' = r /\ t' = t /\ m > 0 /\ m' = m - 1
    BY <1>6, <1>s, SemCambia DEF PideCompactar, o, r, t, m
  <2>2. cpu = "mutex_operacion_fs_memoria" /\ cpu' = "compactando"
    BY <1>6 DEF PideCompactar
  <2> QED
    BY <2>1, <2>2, <1>0, <1>1, <1>2, <1>3 DEF Uno
<1>7. CASE RecibeTablas
  <2>1. o' = o /\ r' = r /\ t' = t /\ m' = m + 1
    BY <1>7, <1>s, SemCambia DEF RecibeTablas, o, r, t, m
  <2>2. cpu = "compactando" /\ cpu' = "instruccion"
    BY <1>7 DEF RecibeTablas
  <2> QED
    BY <2>1, <2>2, <1>0, <1>1, <1>2, <1>3 DEF Uno
<1>8. CASE \E p \in Procesos : AbrePidiendo(p) \/ Trunca(p) \/ RecibeDireccion(p)
  <2>1. o' = o + 1 /\ r' = r /\ t' = t /\ m' = m
    BY <1>8, <1>s, SemCambia
    DEF AbrePidiendo, Trunca, RecibeDireccion, o, r, t, m
  <2>2. /\ cpu \in {"instruccion", "direccion_fisica"}
        /\ cpu' \in {"abriendo", "puede_replanificar"}
    BY <1>8 DEF AbrePidiendo, Trunca, RecibeDireccion, Retorna
  <2> QED
    BY <2>1, <2>2, <1>0, <1>1, <1>2, <1>3 DEF Uno
<1>9. CASE \E p \in Procesos : EsperaTermina(p)
  <2>1. o' = o /\ r' = r /\ t > 0 /\ t' = t - 1 /\ m' = m
    BY <1>9, <1>s, SemCambia DEF EsperaTermina, o, r, t, m
  <2>2. /\ cpu = "termina_operacion_fs"
        /\ cpu' \in {"proceso_running", "instruccion"}
    BY <1>9 DEF EsperaTermina, TerminaDeAbrir, TomaOEspera
  <2> QED
    BY <2>1, <2>2, <1>0, <1>1, <1>2, <1>3 DEF Uno
<1>10. CASE \E p \in Procesos : AbreEnTabla(p)
  BY <1>10, <1>4 DEF AbreEnTabla, Retorna, TerminaDeAbrir, TomaOEspera
<1>11. CASE \E p \in Procesos : Cierra(p) \/ Posiciona(p) \/ CreaSegmento(p)
  BY <1>11, <1>4 DEF Cierra, Posiciona, CreaSegmento, Retorna
<1>12. CASE \E p \in Procesos : \/ Despacha(p) \/ CierraAusente(p)
                                \/ Accede(p) \/ Sale(p) \/ SinSegmento(p)
                                \/ NecesitaCompactar(p)
  BY <1>12, <1>4
  DEF Despacha, CierraAusente, Accede, Sale, SinSegmento, TerminaProceso,
      NecesitaCompactar, Retorna
<1> QED
  BY <1>5, <1>6, <1>7, <1>8, <1>9, <1>10, <1>11, <1>12 DEF HiloCPU

\* When the file thread reads pcb_en_ejecucion, the CPU thread waits for it.
LEMMA LeeElQuePidio ==
    ASSUME Inv, PorTomar
    PROVE  /\ cpu \in {"abriendo", "puede_replanificar"}
           /\ sem["puede_replanificar"] = 0
           /\ fs = "pcb_en_ejecucion" => sem["operacion_fs"] = 0
           /\ pcb_en_ejecucion \in Procesos
           /\ EnInstruccion(pcb_en_ejecucion, {"F_OPEN"} \cup PorPosicion)
           /\ cpu = "abriendo" =>
                 EnInstruccion(pcb_en_ejecucion, {"F_OPEN"})
                 /\ ~ EnTabla(Archivo(pcb_en_ejecucion))
           /\ cpu = "puede_replanificar" =>
                 EnInstruccion(pcb_en_ejecucion, PorPosicion)
<1>1. /\ sem["operacion_fs"] \in Nat
      /\ sem["puede_replanificar"] \in Nat
  BY Contadores DEF Inv, Tipos
<1>2. /\ cpu \in {"abriendo", "puede_replanificar"}
      /\ sem["puede_replanificar"] = 0
      /\ fs = "pcb_en_ejecucion" => sem["operacion_fs"] = 0
  BY <1>1 DEF Inv, Permiso, PorTomar, Uno
<1>3. /\ pcb_en_ejecucion \in Procesos
      /\ cpu = "abriendo" =>
            EnInstruccion(pcb_en_ejecucion, {"F_OPEN"})
            /\ ~ EnTabla(Archivo(pcb_en_ejecucion))
      /\ cpu = "puede_replanificar" =>
            EnInstruccion(pcb_en_ejecucion, PorPosicion)
  BY <1>2 DEF Inv, CpuEnOrden
<1> QED
  BY <1>2, <1>3 DEF EnInstruccion

\* The same for the file thread.
LEMMA FichasFs ==
    ASSUME Inv, HiloFS
    PROVE  Fichas'
<1> DEFINE o == sem["operacion_fs"]
           r == sem["puede_replanificar"]
           t == sem["termina_operacion_fs"]
           m == sem["mutex_operacion_fs_memoria"]
<1>0. o \in Nat /\ r \in Nat /\ t \in Nat /\ m \in Nat
  BY Contadores DEF Inv, Tipos
<1>1. cpu' = cpu
  BY FsNoTocaCpu
<1>2. /\ o + Uno(fs = "pcb_en_ejecucion") + r
             = Uno(cpu \in {"abriendo", "puede_replanificar"})
      /\ t + Uno(FsAbre) + Uno(cpu = "abriendo" /\ (o = 1 \/ fs = "pcb_en_ejecucion"))
             = Uno(cpu \in {"abriendo", "termina_operacion_fs"})
      /\ m + Uno(cpu = "compactando") + Uno(fs = "transferido") = 1
  BY DEF Inv, Permiso, Apertura, Exclusion, PorTomar
<1>3. ASSUME /\ o' + Uno(fs' = "pcb_en_ejecucion") + r'
                    = Uno(cpu' \in {"abriendo", "puede_replanificar"})
             /\ t' + Uno(FsAbre')
                    + Uno(cpu' = "abriendo" /\ (o' = 1 \/ fs' = "pcb_en_ejecucion"))
                    = Uno(cpu' \in {"abriendo", "termina_operacion_fs"})
             /\ m' + Uno(cpu' = "compactando") + Uno(fs' = "transferido") = 1
      PROVE  Fichas'
  BY <1>3 DEF Fichas, Permiso, Apertura, Exclusion, PorTomar
<1>s. /\ sem \in [Semaforos -> Nat]
      /\ "operacion_fs" \in Semaforos /\ "puede_replanificar" \in Semaforos
      /\ "termina_operacion_fs" \in Semaforos
      /\ "mutex_operacion_fs_memoria" \in Semaforos
  BY DEF Inv, Tipos, Semaforos
<1>4. CASE TomaOperacion
  <2>1. o > 0 /\ o' = o - 1 /\ r' = r /\ t' = t /\ m' = m
    BY <1>4, <1>s, SemCambia DEF TomaOperacion
  <2>2. fs = "operacion_fs" /\ fs' = "pcb_en_ejecucion" /\ ~ FsAbre /\ ~ FsAbre'
    BY <1>4 DEF TomaOperacion, FsAbre
  <2> HIDE DEF o, r, t, m
  <2> QED
    BY <2>1, <2>2, <1>0, <1>1, <1>2, <1>3 DEF Uno
<1>5. CASE GuardaReferencia
  <2>1. o' = o /\ r' = r + 1 /\ t' = t /\ m' = m
    BY <1>5, <1>s, SemCambia DEF GuardaReferencia
  <2>2. /\ cpu \in {"abriendo", "puede_replanificar"}
        /\ o = 0 /\ r = 0
        /\ FsAbre' <=> cpu = "abriendo"
    <3>1. PorTomar
      BY <1>5 DEF GuardaReferencia, PorTomar
    <3>2. /\ fs' = "switch" /\ pcb_operacion_fs' = pcb_en_ejecucion
          /\ UNCHANGED <<programa, program_counter>>
      BY <1>5 DEF GuardaReferencia, procesos
    <3>3. FsAbre' <=> Pendiente(pcb_en_ejecucion).nombre = "F_OPEN"
      BY <3>2 DEF FsAbre, Pendiente
    <3> QED
      BY <1>5, <3>1, <3>3, LeeElQuePidio
      DEF GuardaReferencia, EnInstruccion, PorPosicion, Accesos
  <2>3. fs = "pcb_en_ejecucion" /\ fs' = "switch" /\ ~ FsAbre
    BY <1>5 DEF GuardaReferencia, FsAbre
  <2> HIDE DEF o, r, t, m
  <2> QED
    BY <2>1, <2>2, <2>3, <1>0, <1>1, <1>2, <1>3 DEF Uno
<1>6. CASE PreguntaSiExiste \/ RecibeSiExiste \/ RecibeCreado
  <2>1. o' = o /\ r' = r /\ t' = t /\ m' = m
    BY <1>6 DEF PreguntaSiExiste, RecibeSiExiste, RecibeCreado
  <2>2. /\ fs \in {"switch", "existe", "creado"}
        /\ fs' \in {"existe", "creado", "list_add"}
        /\ FsAbre /\ FsAbre'
    BY <1>6 DEF PreguntaSiExiste, RecibeSiExiste, RecibeCreado, Recibe,
                Atiende, FsAbre
  <2> HIDE DEF o, r, t, m
  <2> QED
    BY <2>1, <2>2, <1>0, <1>1, <1>2, <1>3 DEF Uno
<1>7. CASE AgregaATabla
  <2>1. o' = o /\ r' = r /\ t' = t + 1 /\ m' = m
    BY <1>7, <1>s, SemCambia DEF AgregaATabla
  <2>2. fs = "list_add" /\ fs' = "operacion_fs" /\ FsAbre /\ ~ FsAbre'
    BY <1>7 DEF AgregaATabla, FsAbre
  <2> HIDE DEF o, r, t, m
  <2> QED
    BY <2>1, <2>2, <1>0, <1>1, <1>2, <1>3 DEF Uno
<1>8. CASE Recorta
  <2>1. o' = o /\ r' = r /\ t' = t /\ m' = m
    BY <1>8 DEF Recorta
  <2>2. fs = "switch" /\ fs' = "recortado" /\ ~ FsAbre /\ ~ FsAbre'
    BY <1>8 DEF Recorta, Atiende, FsAbre
  <2> HIDE DEF o, r, t, m
  <2> QED
    BY <2>1, <2>2, <1>0, <1>1, <1>2, <1>3 DEF Uno
<1>9. CASE Transfiere
  <2>1. o' = o /\ r' = r /\ t' = t /\ m > 0 /\ m' = m - 1
    BY <1>9, <1>s, SemCambia DEF Transfiere
  <2>2. fs = "switch" /\ fs' = "transferido" /\ ~ FsAbre /\ ~ FsAbre'
    BY <1>9 DEF Transfiere, Atiende, FsAbre, Accesos
  <2> HIDE DEF o, r, t, m
  <2> QED
    BY <2>1, <2>2, <1>0, <1>1, <1>2, <1>3 DEF Uno
<1>10. CASE RecibeRecortado
  <2>1. o' = o /\ r' = r /\ t' = t /\ m' = m
    BY <1>10 DEF RecibeRecortado
  <2>2. fs = "recortado" /\ fs' = "operacion_fs" /\ ~ FsAbre /\ ~ FsAbre'
    BY <1>10 DEF RecibeRecortado, Recibe, DevuelveProceso, FsAbre
  <2> HIDE DEF o, r, t, m
  <2> QED
    BY <2>1, <2>2, <1>0, <1>1, <1>2, <1>3 DEF Uno
<1>11. CASE RecibeTransferido
  <2>1. o' = o /\ r' = r /\ t' = t /\ m' = m + 1
    BY <1>11, <1>s, SemCambia DEF RecibeTransferido
  <2>2. fs = "transferido" /\ fs' = "operacion_fs" /\ ~ FsAbre /\ ~ FsAbre'
    BY <1>11 DEF RecibeTransferido, Recibe, DevuelveProceso, FsAbre
  <2> HIDE DEF o, r, t, m
  <2> QED
    BY <2>1, <2>2, <1>0, <1>1, <1>2, <1>3 DEF Uno
<1> QED
  BY <1>4, <1>5, <1>6, <1>7, <1>8, <1>9, <1>10, <1>11 DEF HiloFS

-----------------------------------------------------------------------------
(* The order of each thread.                                               *)

\* A process that does not advance is at the same instruction.
LEMMA Misma ==
    ASSUME UNCHANGED programa, NEW CONSTANT p,
           program_counter'[p] = program_counter[p]
    PROVE  /\ Pendiente(p)' = Pendiente(p)
           /\ Archivo(p)' = Archivo(p)
           /\ \A N : EnInstruccion(p, N)' <=> EnInstruccion(p, N)
  BY DEF Pendiente, EnInstruccion, Archivo

\* What a step of the CPU thread does to the table.
LEMMA CpuTabla ==
    ASSUME Inv, HiloCPU
    PROVE  \/ UNCHANGED tabla_global
           \/ \E i \in DOMAIN tabla_global :
                 \/ \E p \in Procesos : EfectoEspera(p, i)
                 \/ EfectoToma(i) \/ EfectoQuita(i) \/ EfectoLibera(i)
<1> USE DEF procesos, tablas, memoria, hilo_fs, canal
<1>0. tabla_global \in Seq(Entradas) /\ NombresUnicos
  BY DEF Inv, Tipos
<1>1. ASSUME NEW p \in Procesos, AbreEnTabla(p) \/ EsperaTermina(p)
      PROVE  \E i \in DOMAIN tabla_global :
                 EfectoEspera(p, i) \/ EfectoToma(i)
  <2> DEFINE f == Archivo(p)
  <2>1. EnTabla(f) /\ TomaOEspera(p, f)
    BY <1>1 DEF AbreEnTabla, EsperaTermina, TerminaDeAbrir, Archivo
  <2>2. Entrada(f) \in DOMAIN tabla_global
    BY <1>0, <2>1, EntradaUnica
  <2>3. EfectoEspera(p, Entrada(f)) \/ EfectoToma(Entrada(f))
    BY <1>0, <2>1, TomaOEsperaHace
  <2> QED
    BY <2>2, <2>3
<1>2. ASSUME NEW p \in Procesos, Cierra(p)
      PROVE  \E i \in DOMAIN tabla_global :
                 EfectoQuita(i) \/ EfectoLibera(i)
  <2> DEFINE f == Archivo(p)
  <2>1. EnTabla(f) /\ Libera(Entrada(f))
    BY <1>2 DEF Cierra, Archivo
  <2>2. PICK i \in DOMAIN tabla_global : i = Entrada(f)
    BY <1>0, <2>1, EntradaUnica
  <2> QED
    BY <1>0, <2>1, <2>2, LiberaHace
<1>3. CASE EsperaPermisoDeAbrir \/ EsperaPermiso \/ PideCompactar
           \/ RecibeTablas
  BY <1>3
  DEF EsperaPermisoDeAbrir, EsperaPermiso, PideCompactar, RecibeTablas
<1>4. CASE \E p \in Procesos : \/ Despacha(p) \/ AbrePidiendo(p)
                               \/ CierraAusente(p) \/ Trunca(p)
                               \/ Accede(p) \/ RecibeDireccion(p)
                               \/ Sale(p) \/ SinSegmento(p)
                               \/ NecesitaCompactar(p) \/ Posiciona(p)
                               \/ CreaSegmento(p)
  BY <1>4
  DEF Despacha, AbrePidiendo, CierraAusente, Trunca, Accede, RecibeDireccion,
      Sale, SinSegmento, TerminaProceso, NecesitaCompactar, Posiciona,
      CreaSegmento
<1> HIDE DEF procesos, tablas, memoria, hilo_fs, canal
<1> QED
  BY <1>1, <1>2, <1>3, <1>4 DEF HiloCPU

\* It adds no entry.
LEMMA CpuNoAgrega ==
    ASSUME Inv, HiloCPU
    PROVE  \A k \in DOMAIN tabla_global' : \E j \in DOMAIN tabla_global :
               tabla_global'[k].nombre = tabla_global[j].nombre
<1>1. CASE UNCHANGED tabla_global
  BY <1>1
<1>2. ASSUME NEW i \in DOMAIN tabla_global,
             \/ \E p \in Procesos : EfectoEspera(p, i)
             \/ EfectoToma(i) \/ EfectoLibera(i)
      PROVE  \A k \in DOMAIN tabla_global' : \E j \in DOMAIN tabla_global :
                 tabla_global'[k].nombre = tabla_global[j].nombre
  BY <1>2 DEF EfectoEspera, EfectoToma, EfectoLibera
<1>3. ASSUME NEW i \in DOMAIN tabla_global, EfectoQuita(i)
      PROVE  \A k \in DOMAIN tabla_global' : \E j \in DOMAIN tabla_global :
                 tabla_global'[k].nombre = tabla_global[j].nombre
  BY <1>3 DEF EfectoQuita
<1> QED
  BY <1>1, <1>2, <1>3, CpuTabla

\* Each step of the CPU thread establishes what its next one expects.
LEMMA CpuOrdenCpu ==
    ASSUME Inv, HiloCPU
    PROVE  CpuEnOrden'
<1> USE DEF procesos, tablas, memoria, hilo_fs, canal
<1>1. cpu # "proceso_running" => pcb_en_ejecucion \in Procesos
  BY DEF Inv, CpuEnOrden
<1>2. ASSUME \/ cpu' = "proceso_running"
             \/ cpu' = "instruccion" /\ pcb_en_ejecucion' \in Procesos
      PROVE  CpuEnOrden'
  BY <1>2 DEF CpuEnOrden
<1>3. ASSUME UNCHANGED <<pcb_en_ejecucion, programa, program_counter,
                         tabla_global, disposicion>>
      PROVE  /\ \A N : EnInstruccion(pcb_en_ejecucion, N)'
                           <=> EnInstruccion(pcb_en_ejecucion, N)
             /\ EnTabla(Archivo(pcb_en_ejecucion))'
                    <=> EnTabla(Archivo(pcb_en_ejecucion))
  BY <1>3 DEF EnInstruccion, Pendiente, EnTabla, Archivo
<1>4. CASE EsperaPermisoDeAbrir
  BY <1>4, <1>1, <1>3 DEF EsperaPermisoDeAbrir, Inv, CpuEnOrden
<1>5. CASE EsperaPermiso
  BY <1>5, <1>2 DEF EsperaPermiso
<1>6. CASE PideCompactar
  BY <1>6, <1>1, <1>3 DEF PideCompactar, Inv, CpuEnOrden
<1>7. CASE RecibeTablas
  BY <1>7, <1>1, <1>2 DEF RecibeTablas
<1>8. CASE \E p \in Procesos : Despacha(p)
  BY <1>8, <1>2 DEF Despacha
<1>9. ASSUME NEW p \in Procesos, AbrePidiendo(p)
      PROVE  CpuEnOrden'
  <2>1. /\ p = pcb_en_ejecucion /\ EnInstruccion(p, {"F_OPEN"})
        /\ ~ EnTabla(Archivo(p)) /\ cpu' = "abriendo"
        /\ UNCHANGED <<pcb_en_ejecucion, programa, program_counter,
                       tabla_global, disposicion>>
    BY <1>9 DEF AbrePidiendo, Retorna, HayQuePedir, Archivo
  <2> QED
    BY <2>1, <1>3 DEF CpuEnOrden
<1>10. ASSUME NEW p \in Procesos, AbreEnTabla(p) \/ EsperaTermina(p)
       PROVE  CpuEnOrden'
  BY <1>10, <1>1, <1>2
  DEF AbreEnTabla, EsperaTermina, TerminaDeAbrir, TomaOEspera, Retorna
<1>11. CASE \E p \in Procesos : Cierra(p) \/ Posiciona(p) \/ CreaSegmento(p)
  BY <1>11, <1>1, <1>2 DEF Cierra, Posiciona, CreaSegmento, Retorna
<1>12. CASE \E p \in Procesos : CierraAusente(p) \/ Sale(p) \/ SinSegmento(p)
  BY <1>12, <1>2 DEF CierraAusente, Sale, SinSegmento, TerminaProceso
<1>13. ASSUME NEW p \in Procesos, Trunca(p) \/ RecibeDireccion(p)
       PROVE  CpuEnOrden'
  <2>1. /\ p = pcb_en_ejecucion /\ cpu' = "puede_replanificar"
        /\ UNCHANGED <<pcb_en_ejecucion, programa, program_counter,
                       tabla_global, disposicion>>
    BY <1>13 DEF Trunca, RecibeDireccion, Retorna
  <2>2. EnInstruccion(p, PorPosicion)
    <3>1. CASE Trunca(p)
      BY <3>1 DEF Trunca, Retorna, EnInstruccion, PorPosicion
    <3>2. CASE RecibeDireccion(p)
      BY <3>2 DEF RecibeDireccion, Inv, CpuEnOrden, EnInstruccion, PorPosicion
    <3> QED
      BY <1>13, <3>1, <3>2
  <2> QED
    BY <2>1, <2>2, <1>3 DEF CpuEnOrden
<1>14. ASSUME NEW p \in Procesos, Accede(p)
       PROVE  CpuEnOrden'
  <2>1. /\ p = pcb_en_ejecucion /\ EnInstruccion(p, Accesos)
        /\ cpu' = "direccion_fisica"
        /\ UNCHANGED <<pcb_en_ejecucion, programa, program_counter,
                       tabla_global, disposicion>>
    BY <1>14 DEF Accede, Retorna
  <2> QED
    BY <2>1, <1>3 DEF CpuEnOrden
<1>15. ASSUME NEW p \in Procesos, NecesitaCompactar(p)
       PROVE  CpuEnOrden'
  BY <1>15 DEF CpuEnOrden, NecesitaCompactar, Retorna
<1> HIDE DEF procesos, tablas, memoria, hilo_fs, canal
<1> QED
  BY <1>4, <1>5, <1>6, <1>7, <1>8, <1>9, <1>10, <1>11, <1>12, <1>13, <1>14,
     <1>15 DEF HiloCPU

\* No step of the file thread disturbs what the CPU thread expects.
LEMMA CpuOrdenFs ==
    ASSUME Inv, HiloFS
    PROVE  CpuEnOrden'
<1>1. UNCHANGED <<cpu, pcb_en_ejecucion, programa, disposicion>>
  BY FsNoTocaCpu
<1>2. PorTomar' => PorTomar
  <2>1. sem \in [Semaforos -> Nat] /\ sem["operacion_fs"] \in Nat
        /\ sem["puede_replanificar"] \in Nat
    BY Contadores DEF Inv, Tipos
  <2>2. sem["operacion_fs"] <= 1
    BY <2>1 DEF Inv, Permiso, Uno
  <2>3. CASE TomaOperacion
    BY <2>1, <2>2, <2>3 DEF TomaOperacion, Wait, PorTomar
  <2>4. CASE fs' # "pcb_en_ejecucion" /\ sem'["operacion_fs"] = sem["operacion_fs"]
    BY <2>4 DEF PorTomar
  <2>5. CASE GuardaReferencia
    BY <2>1, <2>4, <2>5 DEF GuardaReferencia, Post, Semaforos
  <2>6. CASE PreguntaSiExiste \/ RecibeSiExiste \/ RecibeCreado \/ Recorta
             \/ RecibeRecortado
    BY <2>4, <2>6 DEF PreguntaSiExiste, RecibeSiExiste, RecibeCreado, Recorta,
                      RecibeRecortado, DevuelveProceso
  <2>7. CASE AgregaATabla \/ Transfiere \/ RecibeTransferido
    <3>1. sem'["operacion_fs"] = sem["operacion_fs"]
      BY <2>1, <2>7, SemCambia
      DEF AgregaATabla, Transfiere, RecibeTransferido, Semaforos
    <3> QED
      BY <2>4, <2>7, <3>1 DEF AgregaATabla, Transfiere, RecibeTransferido,
                              DevuelveProceso
  <2> QED
    BY <2>3, <2>5, <2>6, <2>7 DEF HiloFS
<1>3. PICK e \in {pcb_en_ejecucion} : TRUE
  OBVIOUS
<1>4. ASSUME e \in EnCPU \cup PorPedir
      PROVE  /\ Archivo(e)' = Archivo(e)
             /\ \A N : EnInstruccion(e, N)' <=> EnInstruccion(e, N)
  <2>1. program_counter'[e] = program_counter[e]
    BY <1>4, FsNoTocaCpu
  <2> QED
    BY <2>1, <1>1, Misma
<1>5. cpu \notin {"proceso_running", "puede_replanificar"} => e \in EnCPU
  BY DEF EnCPU
<1>6. cpu = "puede_replanificar" /\ PorTomar => e \in PorPedir
  BY DEF PorPedir, PorTomar
<1>7. ASSUME cpu = "abriendo", PorTomar'
      PROVE  ~ EnTabla(Archivo(e))'
  <2>1. PorTomar /\ ~ EnTabla(Archivo(e)) /\ Archivo(e)' = Archivo(e)
    BY <1>2, <1>4, <1>5, <1>7 DEF Inv, CpuEnOrden
  <2>2. ~ FsAbre
    <3>1. sem["termina_operacion_fs"] \in Nat
      BY Contadores DEF Inv, Tipos
    <3> QED
      BY <3>1, <1>7, <2>1 DEF Inv, Apertura, Uno
  <2>3. UNCHANGED tabla_global
    BY <2>2
    DEF HiloFS, TomaOperacion, GuardaReferencia, PreguntaSiExiste, Recorta,
        Transfiere, RecibeSiExiste, RecibeCreado, AgregaATabla,
        RecibeRecortado, RecibeTransferido, DevuelveProceso, tablas, FsAbre
  <2> QED
    BY <2>1, <2>3 DEF EnTabla
<1> QED
  BY <1>1, <1>2, <1>4, <1>5, <1>6, <1>7 DEF Inv, CpuEnOrden

\* No step of the CPU thread disturbs the file thread or its channel.
LEMMA FsOrdenCpu ==
    ASSUME Inv, HiloCPU
    PROVE  FsEnOrden' /\ CanalEnOrden'
<1>1. /\ UNCHANGED <<fs, pcb_operacion_fs, programa, pedido, respuesta>>
      /\ fs \notin {"operacion_fs", "pcb_en_ejecucion"} =>
            program_counter'[pcb_operacion_fs] =
                program_counter[pcb_operacion_fs]
      /\ FsAbre' <=> FsAbre
  BY CpuNoTocaFs, FsAbreIgual
<1>2. CanalEnOrden'
  BY <1>1 DEF Inv, CanalEnOrden
<1>3. PICK s \in {pcb_operacion_fs} : TRUE
  OBVIOUS
<1>4. ASSUME fs \notin {"operacion_fs", "pcb_en_ejecucion"}
      PROVE  /\ Archivo(s)' = Archivo(s)
             /\ \A N : EnInstruccion(s, N)' <=> EnInstruccion(s, N)
  BY <1>1, <1>4, Misma
<1>5. ASSUME FsAbre
      PROVE  /\ UNCHANGED pcb_en_ejecucion
             /\ ~ EnTabla(Archivo(s))'
  <2>1. fs \notin {"operacion_fs", "pcb_en_ejecucion"}
    BY <1>5 DEF FsAbre
  <2>2. ~ EnTabla(Archivo(s)) /\ Archivo(s)' = Archivo(s)
    BY <1>4, <1>5, <2>1 DEF Inv, FsEnOrden
  <2>3. ~ EnTabla(Archivo(s))'
    BY <2>2, CpuNoAgrega DEF EnTabla
  <2>4. cpu # "proceso_running"
    BY <1>5, Contadores DEF Inv, Tipos, Apertura, Uno
  <2>5. UNCHANGED pcb_en_ejecucion
    BY <2>4
    DEF HiloCPU, EsperaPermisoDeAbrir, EsperaPermiso, PideCompactar,
        RecibeTablas, Despacha, AbrePidiendo, AbreEnTabla, EsperaTermina,
        TerminaDeAbrir, Cierra, CierraAusente, Posiciona, Trunca, Accede,
        RecibeDireccion, Sale, SinSegmento, TerminaProceso, CreaSegmento,
        NecesitaCompactar
  <2> QED
    BY <2>3, <2>5
<1>6. FsEnOrden'
  BY <1>1, <1>4, <1>5 DEF Inv, FsEnOrden
<1> QED
  BY <1>2, <1>6

\* Each step of the file thread establishes what its next one expects.
LEMMA FsOrdenFs ==
    ASSUME Inv, HiloFS
    PROVE  FsEnOrden'
<1> USE DEF procesos, tablas, memoria
<1>0. UNCHANGED <<programa, pcb_en_ejecucion>>
  BY FsNoTocaCpu
<1>1. ASSUME fs' \in {"operacion_fs", "pcb_en_ejecucion"}
      PROVE  FsEnOrden'
  BY <1>1 DEF FsEnOrden, FsAbre
<1>2. ASSUME UNCHANGED <<programa, program_counter, tabla_global>>
      PROVE  /\ \A q : /\ \A N : EnInstruccion(q, N)' <=> EnInstruccion(q, N)
                       /\ Pendiente(q)' = Pendiente(q)
                       /\ Archivo(q)' = Archivo(q)
             /\ \A f : EnTabla(f)' <=> EnTabla(f)
  BY <1>2 DEF EnInstruccion, Pendiente, Archivo, EnTabla
<1>3. CASE \/ TomaOperacion \/ AgregaATabla \/ RecibeRecortado
           \/ RecibeTransferido
  BY <1>1, <1>3 DEF TomaOperacion, AgregaATabla, RecibeRecortado,
                    RecibeTransferido, DevuelveProceso
<1>4. CASE GuardaReferencia
  <2> PICK e \in Procesos : e = pcb_en_ejecucion
    BY <1>4, LeeElQuePidio DEF GuardaReferencia, PorTomar
  <2>1. /\ fs' = "switch" /\ pcb_operacion_fs' = e /\ e = pcb_en_ejecucion'
        /\ UNCHANGED <<programa, program_counter, tabla_global>>
    BY <1>0, <1>4 DEF GuardaReferencia
  <2>2. /\ EnInstruccion(e, {"F_OPEN"} \cup PorPosicion)
        /\ Pendiente(e).nombre = "F_OPEN" => ~ EnTabla(Archivo(e))
    BY <1>4, LeeElQuePidio
    DEF GuardaReferencia, PorTomar, EnInstruccion, PorPosicion, Accesos
  <2>3. /\ EnInstruccion(e, {"F_OPEN"} \cup PorPosicion)'
        /\ (Pendiente(e).nombre = "F_OPEN")' => ~ EnTabla(Archivo(e))'
    BY <2>1, <2>2 DEF EnInstruccion, Pendiente, Archivo, EnTabla
  <2> QED
    BY <2>1, <2>3 DEF FsEnOrden, FsAbre
<1> PICK s \in {pcb_operacion_fs} : TRUE
  OBVIOUS
<1>6. CASE PreguntaSiExiste \/ RecibeSiExiste \/ RecibeCreado
  <2>1. /\ fs' \in {"existe", "creado", "list_add"} /\ FsAbre
        /\ pcb_operacion_fs' = s
        /\ UNCHANGED <<programa, program_counter, tabla_global>>
    BY <1>6 DEF PreguntaSiExiste, RecibeSiExiste, RecibeCreado, Recibe,
                Atiende, FsAbre
  <2>2. /\ s \in Procesos /\ EnInstruccion(s, {"F_OPEN"})
        /\ s = pcb_en_ejecucion /\ ~ EnTabla(Archivo(s))
    BY <2>1 DEF Inv, FsEnOrden, FsAbre, EnInstruccion
  <2>3. EnInstruccion(s, {"F_OPEN"})' /\ ~ EnTabla(Archivo(s))'
    BY <2>1, <2>2 DEF EnInstruccion, Pendiente, Archivo, EnTabla
  <2> QED
    BY <1>0, <2>1, <2>2, <2>3 DEF FsEnOrden
<1>7. CASE Recorta \/ Transfiere
  <2>1. /\ fs = "switch" /\ pcb_operacion_fs' = s
        /\ \/ /\ fs' = "recortado"
              /\ Pendiente(s).nombre \in {"F_TRUNCATE"}
           \/ fs' = "transferido" /\ Pendiente(s).nombre \in Accesos
        /\ UNCHANGED <<programa, program_counter, tabla_global>>
    BY <1>7 DEF Recorta, Transfiere, Atiende
  <2>2. s \in Procesos /\ program_counter[s] < Len(programa[s])
    BY <2>1 DEF Inv, FsEnOrden, EnInstruccion
  <2>3. /\ fs' = "recortado" => EnInstruccion(s, {"F_TRUNCATE"})'
        /\ fs' = "transferido" => EnInstruccion(s, Accesos)'
    BY <2>1, <2>2 DEF EnInstruccion, Pendiente
  <2> QED
    BY <2>1, <2>2, <2>3 DEF FsEnOrden, FsAbre
<1> HIDE DEF procesos, tablas, memoria
<1> QED
  BY <1>3, <1>4, <1>6, <1>7 DEF HiloFS

\* One request at a time is on the channel to the file system.
LEMMA CanalOrdenFs ==
    ASSUME Inv, HiloFS
    PROVE  CanalEnOrden'
<1> USE DEF canal
<1>1. CASE TomaOperacion \/ GuardaReferencia \/ AgregaATabla
  BY <1>1 DEF TomaOperacion, GuardaReferencia, AgregaATabla, Inv, CanalEnOrden
<1>2. CASE PreguntaSiExiste \/ Recorta \/ Transfiere
  BY <1>2 DEF PreguntaSiExiste, Recorta, Transfiere, Atiende, Inv, CanalEnOrden
<1>3. CASE RecibeSiExiste \/ RecibeCreado
  BY <1>3 DEF RecibeSiExiste, RecibeCreado, Recibe, Inv, CanalEnOrden
<1>4. CASE RecibeRecortado \/ RecibeTransferido
  BY <1>4
  DEF RecibeRecortado, RecibeTransferido, Recibe, DevuelveProceso, Inv,
      CanalEnOrden
<1> HIDE DEF canal
<1> QED
  BY <1>1, <1>2, <1>3, <1>4 DEF HiloFS

-----------------------------------------------------------------------------
(* The queues.                                                             *)

\* The queue of an entry is of processes.
LEMMA ColaTipo ==
    ASSUME tabla_global \in Seq(Entradas), NEW i \in DOMAIN tabla_global
    PROVE  /\ Cola(i) \in Seq(Procesos) /\ Len(Cola(i)) \in Nat
           /\ DOMAIN Cola(i) = 1..Len(Cola(i))
           /\ \A j \in DOMAIN Cola(i) : Cola(i)[j] \in Procesos
           /\ tabla_global[i].nombre \in Archivos
           /\ tabla_global[i].bit_de_uso \in 0..1
<1>1. tabla_global[i] \in Entradas
  OBVIOUS
<1>2. Cola(i) \in Seq(Procesos)
  BY <1>1, CamposDeEntrada DEF Cola
<1> QED
  BY <1>1, <1>2, CamposDeEntrada

\* After waiting for a file, one more process is in a queue.
LEMMA ColaEspera ==
    ASSUME tabla_global \in Seq(Entradas), NEW i \in DOMAIN tabla_global,
           NEW p \in Procesos, EfectoEspera(p, i)
    PROVE  \A q : EnCola(q)' <=> EnCola(q) \/ q = p
<1> SUFFICES ASSUME NEW q
             PROVE  EnCola(q)' <=> EnCola(q) \/ q = p
  OBVIOUS
<1> DEFINE c == Cola(i)
           d == tabla_global'[i].cola_esperando
<1>1. c \in Seq(Procesos) /\ d = Append(c, p)
  BY ColaTipo DEF EfectoEspera
<1>2. /\ DOMAIN tabla_global' = DOMAIN tabla_global
      /\ \A k \in DOMAIN tabla_global :
            k # i => tabla_global'[k].cola_esperando = Cola(k)
  BY DEF EfectoEspera
<1>3. EnCola(q)' <=> \E k \in DOMAIN tabla_global :
                        \E j \in DOMAIN tabla_global'[k].cola_esperando :
                            tabla_global'[k].cola_esperando[j] = q
  BY <1>2 DEF EnCola, Cola
<1>4. (\E j \in DOMAIN d : d[j] = q) <=> (\E j \in DOMAIN c : c[j] = q) \/ q = p
  <2> HIDE DEF c, d
  <2>1. /\ DOMAIN d = 1..(Len(c) + 1) /\ DOMAIN c = 1..Len(c)
        /\ Len(c) \in Nat
        /\ \A j \in 1..Len(c) : d[j] = c[j]
        /\ d[Len(c) + 1] = p
    BY <1>1
  <2>2. \A j \in 1..(Len(c) + 1) : j \in 1..Len(c) \/ j = Len(c) + 1
    BY <2>1
  <2> QED
    BY <2>1, <2>2
<1> QED
  BY <1>2, <1>3, <1>4 DEF EnCola

\* Taking a file leaves every queue.
LEMMA ColaToma ==
    ASSUME NEW i \in DOMAIN tabla_global, EfectoToma(i)
    PROVE  \A q : EnCola(q)' <=> EnCola(q)
  BY DEF EfectoToma, EnCola, Cola

\* The entry removed had nobody in its queue.
LEMMA ColaQuita ==
    ASSUME tabla_global \in Seq(Entradas), NEW i \in DOMAIN tabla_global,
           EfectoQuita(i)
    PROVE  \A q : EnCola(q)' <=> EnCola(q)
<1> SUFFICES ASSUME NEW q
             PROVE  EnCola(q)' <=> EnCola(q)
  OBVIOUS
<1> DEFINE n == Len(tabla_global)
<1>1. /\ DOMAIN tabla_global = 1..n /\ n \in Nat /\ i \in 1..n
      /\ DOMAIN tabla_global' = 1..(n - 1)
      /\ \A k \in 1..(n - 1) :
            tabla_global'[k] =
                tabla_global[IF k < i THEN k ELSE k + 1]
  <2>1. tabla_global' \in Seq(Entradas) /\ Len(tabla_global') = n - 1
    BY DEF EfectoQuita
  <2>2. DOMAIN tabla_global' = 1..(n - 1)
    BY <2>1
  <2> QED
    BY <2>1, <2>2 DEF EfectoQuita
<1>2. Cola(i) = <<>>
  BY DEF EfectoQuita
<1> HIDE DEF n
<1>3. ASSUME EnCola(q)'
      PROVE  EnCola(q)
  <2>1. PICK k \in 1..(n - 1) :
           \E j \in DOMAIN tabla_global'[k].cola_esperando :
               tabla_global'[k].cola_esperando[j] = q
    BY <1>1, <1>3 DEF EnCola, Cola
  <2>2. (IF k < i THEN k ELSE k + 1) \in 1..n
    BY <1>1
  <2> QED
    BY <1>1, <2>1, <2>2 DEF EnCola, Cola
<1>4. ASSUME EnCola(q)
      PROVE  EnCola(q)'
  <2>1. PICK k \in 1..n : \E j \in DOMAIN Cola(k) : Cola(k)[j] = q
    BY <1>1, <1>4 DEF EnCola
  <2>2. k # i
    BY <1>2, <2>1
  <2> DEFINE l == IF k < i THEN k ELSE k - 1
  <2>3. l \in 1..(n - 1) /\ (IF l < i THEN l ELSE l + 1) = k
    BY <1>1, <2>2
  <2>4. tabla_global'[l] = tabla_global[k]
    BY <1>1, <2>3
  <2> HIDE DEF l
  <2> QED
    BY <1>1, <2>1, <2>3, <2>4 DEF EnCola, Cola
<1> QED
  BY <1>3, <1>4

\* Handing a file on takes its first process out of every queue.
LEMMA ColaLibera ==
    ASSUME tabla_global \in Seq(Entradas), NEW i \in DOMAIN tabla_global,
           EsperaUna, EfectoLibera(i)
    PROVE  /\ Cola(i)[1] \in Procesos /\ EnCola(Cola(i)[1])
           /\ \A q : EnCola(q)' <=> EnCola(q) /\ q # Cola(i)[1]
<1> DEFINE c == Cola(i)
           d == tabla_global'[i].cola_esperando
<1>1. /\ c \in Seq(Procesos) /\ c # <<>> /\ d = Tail(c)
      /\ DOMAIN tabla_global' = DOMAIN tabla_global
      /\ \A k \in DOMAIN tabla_global :
            k # i => tabla_global'[k].cola_esperando = Cola(k)
  BY ColaTipo DEF EfectoLibera
<1>2. /\ DOMAIN c = 1..Len(c) /\ Len(c) \in Nat /\ 1 \in 1..Len(c)
      /\ DOMAIN d = 1..(Len(c) - 1)
      /\ \A j \in 1..(Len(c) - 1) : d[j] = c[j + 1]
  BY <1>1
<1>3. \A k \in DOMAIN tabla_global : \A j \in DOMAIN Cola(k) :
         Cola(k)[j] = c[1] => k = i /\ j = 1
  BY <1>2 DEF EsperaUna
<1>4. c[1] \in Procesos /\ EnCola(c[1])
  BY <1>1, <1>2 DEF EnCola
<1>5. ASSUME NEW q
      PROVE  EnCola(q)' <=> EnCola(q) /\ q # c[1]
  <2>1. EnCola(q)' <=> \E k \in DOMAIN tabla_global :
                          \E j \in DOMAIN tabla_global'[k].cola_esperando :
                              tabla_global'[k].cola_esperando[j] = q
    BY <1>1 DEF EnCola, Cola
  <2>2. (\E j \in DOMAIN d : d[j] = q) <=>
            (\E j \in DOMAIN c : c[j] = q /\ j # 1)
    <3> HIDE DEF c, d
    <3>1. \A j \in 1..Len(c) : j # 1 => j - 1 \in 1..(Len(c) - 1)
      BY <1>2
    <3>2. \A j \in 1..(Len(c) - 1) : j + 1 \in 1..Len(c) /\ j + 1 # 1
      BY <1>2
    <3>3. \A j \in 1..Len(c) : j # 1 => d[j - 1] = c[j]
      BY <1>2, <3>1
    <3> QED
      BY <1>2, <3>1, <3>2, <3>3
  <2> QED
    BY <1>1, <1>3, <2>1, <2>2 DEF EnCola
<1> QED
  BY <1>4, <1>5

-----------------------------------------------------------------------------
(* The place of each process.                                              *)

EnLugar(p) == Cuantos(p) <= 1 /\ (Cuantos(p) = 0 => Perdido(p))

\* A step completes one instruction of a process at most.
LEMMA AvanzaONadie ==
    ASSUME Inv, HiloCPU \/ HiloFS
    PROVE  UNCHANGED program_counter \/ \E p \in Procesos : Avanza(p)
<1> USE DEF procesos, tablas, memoria, hilo_fs, canal
<1>1. CASE HiloCPU
  BY <1>1
  DEF HiloCPU, EsperaPermisoDeAbrir, EsperaPermiso, PideCompactar,
      RecibeTablas, Despacha, AbrePidiendo, AbreEnTabla, EsperaTermina,
      TerminaDeAbrir, TomaOEspera, Cierra, CierraAusente, Posiciona, Trunca,
      Accede, RecibeDireccion, Sale, TerminaProceso, CreaSegmento,
      SinSegmento, NecesitaCompactar
<1>2. CASE RecibeRecortado \/ RecibeTransferido
  <2>1. Avanza(pcb_operacion_fs) /\ fs \in {"recortado", "transferido"}
    BY <1>2 DEF RecibeRecortado, RecibeTransferido, Recibe, DevuelveProceso
  <2>2. pcb_operacion_fs \in Procesos
    BY <2>1 DEF Inv, FsEnOrden
  <2> QED
    BY <2>1, <2>2
<1>3. CASE HiloFS /\ ~ RecibeRecortado /\ ~ RecibeTransferido
  BY <1>3
  DEF HiloFS, TomaOperacion, GuardaReferencia, PreguntaSiExiste, Recorta,
      Transfiere, RecibeSiExiste, RecibeCreado, AgregaATabla
<1> QED
  BY <1>1, <1>2, <1>3

\* A file closed by a process that did not have it stays so: programs do not
\* change and what was executed stays executed.
LEMMA CerradoSigue ==
    ASSUME Inv, UNCHANGED programa,
           HiloCPU \/ HiloFS \/ UNCHANGED program_counter
    PROVE  \A f : CerradoSinTener(f) => CerradoSinTener(f)'
<1> SUFFICES ASSUME NEW f, CerradoSinTener(f)
             PROVE  CerradoSinTener(f)'
  OBVIOUS
<1>1. PICK p \in Procesos : \E k \in 1..program_counter[p] :
         Cardinality(Hasta(programa[p], k, {"F_CLOSE"}, f)) >
             Cardinality(Hasta(programa[p], k, {"F_OPEN"}, f))
  BY DEF CerradoSinTener
<1>2. PICK k \in 1..program_counter[p] :
         Cardinality(Hasta(programa[p], k, {"F_CLOSE"}, f)) >
             Cardinality(Hasta(programa[p], k, {"F_OPEN"}, f))
  BY <1>1
<1>3. Tipos /\ program_counter[p] \in Nat
  BY DEF Inv, Tipos
<1>4. program_counter'[p] = program_counter[p]
      \/ program_counter'[p] = program_counter[p] + 1
  <2>1. CASE UNCHANGED program_counter
    BY <2>1
  <2>2. ASSUME NEW q \in Procesos, Avanza(q)
        PROVE  program_counter'[p] \in {program_counter[p], program_counter[p] + 1}
    <3>1. /\ program_counter'[q] = program_counter[q] + 1
          /\ q # p => program_counter'[p] = program_counter[p]
      BY <1>3, <2>2, AvanzaSolo DEF Tipos
    <3> QED
      BY <3>1
  <2> QED
    BY <2>1, <2>2, AvanzaONadie
<1>5. k \in 1..program_counter'[p]
  BY <1>3, <1>4
<1> QED
  BY <1>2, <1>5 DEF CerradoSinTener

\* One that does not move keeps its place.
LEMMA LugarIgual ==
    ASSUME Inv, UNCHANGED programa, NEW q \in Procesos,
           HiloCPU \/ HiloFS \/ UNCHANGED program_counter,
           program_counter'[q] = program_counter[q],
           (q \in listos)' <=> q \in listos,
           (q \in EnCPU)' <=> q \in EnCPU,
           (q \in PorPedir)' <=> q \in PorPedir,
           (q \in EnFS)' <=> q \in EnFS,
           (q \in terminados)' <=> q \in terminados,
           EnCola(q)' <=> EnCola(q)
    PROVE  EnLugar(q)'
<1>1. Cuantos(q)' = Cuantos(q)
  BY DEF Cuantos, Uno
<1>2. Perdido(q) => Perdido(q)'
  <2> PICK f \in {Archivo(q)} : TRUE
    OBVIOUS
  <2>1. CerradoSinTener(f) => CerradoSinTener(f)'
    BY CerradoSigue
  <2>2. /\ Archivo(q) = f /\ Archivo(q)' = f
        /\ EnInstruccion(q, {"F_CLOSE"})' <=> EnInstruccion(q, {"F_CLOSE"})
        /\ Tiene(q, f)' <=> Tiene(q, f)
    BY DEF EnInstruccion, Pendiente, Archivo, Tiene, Hechas
  <2> QED
    BY <2>1, <2>2 DEF Perdido, Tiene, Hechas, CerradoSinTener
<1>3. EnLugar(q)
  BY DEF Inv, UnLugar, EnLugar
<1> QED
  BY <1>1, <1>2, <1>3 DEF EnLugar

\* Where a process can be found.
LEMMA Sitios ==
    ASSUME NEW q \in Procesos
    PROVE  /\ q \in EnCPU <=> /\ cpu \notin {"proceso_running",
                                             "puede_replanificar"}
                              /\ q = pcb_en_ejecucion
           /\ q \in PorPedir <=> /\ cpu = "puede_replanificar" /\ PorTomar
                                 /\ q = pcb_en_ejecucion
           /\ q \in EnFS <=> /\ fs \in {"switch", "recortado", "transferido"}
                             /\ q = pcb_operacion_fs
                             /\ Pendiente(q).nombre # "F_OPEN"
  BY DEF EnCPU, PorPedir, PorTomar, EnFS

\* The same after a step.
LEMMA SitiosDespues ==
    ASSUME NEW q \in Procesos
    PROVE  /\ (q \in EnCPU)' <=> /\ cpu' \notin {"proceso_running",
                                                 "puede_replanificar"}
                                 /\ q = pcb_en_ejecucion'
           /\ (q \in PorPedir)' <=> /\ cpu' = "puede_replanificar"
                                    /\ \/ sem'["operacion_fs"] = 1
                                       \/ fs' = "pcb_en_ejecucion"
                                    /\ q = pcb_en_ejecucion'
           /\ (q \in EnFS)' <=> /\ fs' \in {"switch", "recortado",
                                            "transferido"}
                                /\ q = pcb_operacion_fs'
                                /\ Pendiente(q)'.nombre # "F_OPEN"
  BY DEF EnCPU, PorPedir, EnFS

\* The CPU thread neither gives the file thread a process nor takes one.
LEMMA EnFsCpu ==
    ASSUME Inv, HiloCPU, NEW q \in Procesos
    PROVE  (q \in EnFS)' <=> q \in EnFS
<1>1. /\ UNCHANGED <<fs, pcb_operacion_fs, programa>>
      /\ fs \notin {"operacion_fs", "pcb_en_ejecucion"} =>
            program_counter'[pcb_operacion_fs] =
                program_counter[pcb_operacion_fs]
  BY CpuNoTocaFs
<1>2. (q \in EnFS)' <=> /\ fs' \in {"switch", "recortado", "transferido"}
                        /\ q = pcb_operacion_fs'
                        /\ Pendiente(q)'.nombre # "F_OPEN"
  BY SitiosDespues
<1> QED
  BY <1>1, <1>2, Sitios DEF Pendiente

\* Outside the handshake nobody is about to be asked for.
LEMMA NadiePide ==
    ASSUME Inv, cpu \notin {"abriendo", "puede_replanificar"}
                \/ sem["puede_replanificar"] > 0
    PROVE  ~ PorTomar /\ sem["operacion_fs"] = 0 /\ fs # "pcb_en_ejecucion"
<1>1. sem["operacion_fs"] \in Nat /\ sem["puede_replanificar"] \in Nat
  BY Contadores DEF Inv, Tipos
<1> QED
  BY <1>1 DEF Inv, Permiso, PorTomar, Uno

\* A step of the CPU thread between two of its waits moves no process.
LEMMA LugarCpuFijo ==
    ASSUME Inv, HiloCPU, UNCHANGED <<program_counter, listos, terminados,
                                     pcb_en_ejecucion, tabla_global>>,
           \/ /\ {cpu, cpu'} \subseteq
                     HilosCPU \ {"proceso_running", "puede_replanificar"}
           \/ /\ cpu = "puede_replanificar" /\ cpu' = "proceso_running"
              /\ sem["puede_replanificar"] > 0,
           NEW q \in Procesos
    PROVE  EnLugar(q)'
<1>1. UNCHANGED <<programa, fs>>
  BY CpuNoTocaFs
<1>2. (q \in EnFS)' <=> q \in EnFS
  BY EnFsCpu
<1>3. /\ (q \in EnCPU)' <=> q \in EnCPU
      /\ (q \in PorPedir)' <=> q \in PorPedir
  <2>1. /\ (q \in EnCPU)' <=> /\ cpu' \notin {"proceso_running",
                                              "puede_replanificar"}
                              /\ q = pcb_en_ejecucion'
        /\ (q \in PorPedir)' <=> /\ cpu' = "puede_replanificar"
                                 /\ \/ sem'["operacion_fs"] = 1
                                    \/ fs' = "pcb_en_ejecucion"
                                 /\ q = pcb_en_ejecucion'
    BY SitiosDespues
  <2>2. CASE cpu = "puede_replanificar" /\ sem["puede_replanificar"] > 0
             /\ cpu' = "proceso_running"
    <3>1. ~ PorTomar
      BY <2>2, NadiePide
    <3> QED
      BY <2>1, <2>2, <3>1, Sitios
  <2> QED
    BY <2>1, <2>2, Sitios
<1>4. EnCola(q)' <=> EnCola(q)
  BY DEF EnCola, Cola
<1> QED
  BY <1>1, <1>2, <1>3, <1>4, LugarIgual

\* One that moves, or advances, ends up in one place.
LEMMA LugarUno ==
    ASSUME NEW q \in Procesos,
           Uno((q \in listos)') + Uno((q \in EnCPU)') + Uno((q \in PorPedir)')
             + Uno((q \in EnFS)') + Uno((q \in terminados)')
             + Uno(EnCola(q)') = 1
    PROVE  EnLugar(q)'
  BY DEF EnLugar, Cuantos, Uno

\* The CPU thread advances its process, which stays on the CPU.
LEMMA LugarCpuAvanza ==
    ASSUME Inv, HiloCPU, NEW p \in Procesos, p \in EnCPU, Avanza(p),
           cpu' = "instruccion",
           UNCHANGED <<terminados, pcb_en_ejecucion>>,
           \/ UNCHANGED listos /\ \A q : EnCola(q)' <=> EnCola(q)
           \/ \E h \in Procesos :
                 /\ EnCola(h) /\ listos' = listos \cup {h}
                 /\ \A q : EnCola(q)' <=> EnCola(q) /\ q # h,
           NEW q \in Procesos
    PROVE  EnLugar(q)'
<1>1. UNCHANGED <<programa, fs>> /\ ((q \in EnFS)' <=> q \in EnFS)
  BY CpuNoTocaFs, EnFsCpu
<1>2. /\ (q \in EnCPU)' <=> q = p
      /\ q \in EnCPU <=> q = p
      /\ ~ (q \in PorPedir)' /\ q \notin PorPedir
  BY Sitios, SitiosDespues
<1>3. CASE q = p
  <2>1. /\ q \notin listos /\ q \notin PorPedir /\ q \notin EnFS
        /\ q \notin terminados /\ ~ EnCola(q)
    BY <1>2, <1>3, EnUnoSolo
  <2>2. q \notin listos' /\ ~ EnCola(q)' /\ q \notin terminados'
    BY <2>1
  <2> QED
    BY <1>1, <1>2, <1>3, <2>1, <2>2, LugarUno DEF Uno
<1>4. ASSUME q # p
      PROVE  program_counter'[q] = program_counter[q]
  BY <1>4, AvanzaSolo DEF Inv, Tipos
<1>5. CASE q # p /\ ((q \in listos)' <=> q \in listos)
           /\ (EnCola(q)' <=> EnCola(q))
  BY <1>1, <1>2, <1>4, <1>5, LugarIgual
<1>6. CASE q # p /\ EnCola(q) /\ q \in listos' /\ ~ EnCola(q)'
  <2>1. /\ q \notin listos /\ q \notin PorPedir /\ q \notin EnFS
        /\ q \notin terminados /\ q \notin EnCPU
    BY <1>6, EnUnoSolo
  <2> QED
    BY <1>1, <1>2, <1>6, <2>1, LugarUno DEF Uno
<1> QED
  BY <1>3, <1>5, <1>6

\* Each step of the CPU thread moves a process from one place to another.
LEMMA LugarCpu ==
    ASSUME Inv, HiloCPU
    PROVE  UnLugar'
<1> USE DEF procesos, tablas, memoria, hilo_fs, canal
<1> SUFFICES ASSUME NEW q \in Procesos
             PROVE  EnLugar(q)'
  BY DEF UnLugar, EnLugar
<1>0. /\ UNCHANGED <<programa, fs>> /\ ((q \in EnFS)' <=> q \in EnFS)
      /\ tabla_global \in Seq(Entradas)
  BY CpuNoTocaFs, EnFsCpu DEF Inv, Tipos
<1>a. /\ (q \in EnCPU)' <=> /\ cpu' \notin {"proceso_running",
                                            "puede_replanificar"}
                            /\ q = pcb_en_ejecucion'
      /\ (q \in PorPedir)' <=> /\ cpu' = "puede_replanificar"
                               /\ \/ sem'["operacion_fs"] = 1
                                  \/ fs' = "pcb_en_ejecucion"
                               /\ q = pcb_en_ejecucion'
  BY SitiosDespues
<1>b. ASSUME UNCHANGED tabla_global
      PROVE  EnCola(q)' <=> EnCola(q)
  BY <1>b DEF EnCola, Cola
<1>1. CASE EsperaPermisoDeAbrir
  BY <1>1, LugarCpuFijo DEF EsperaPermisoDeAbrir, HilosCPU
<1>2. CASE EsperaPermiso
  BY <1>2, LugarCpuFijo DEF EsperaPermiso, Wait
<1>3. CASE PideCompactar \/ RecibeTablas
  BY <1>3, LugarCpuFijo DEF PideCompactar, RecibeTablas, HilosCPU
<1>4. ASSUME NEW p \in Procesos, Despacha(p)
      PROVE  EnLugar(q)'
  <2>1. /\ cpu = "proceso_running" /\ cpu' = "instruccion"
        /\ p \in listos /\ listos' = listos \ {p} /\ pcb_en_ejecucion' = p
        /\ UNCHANGED <<program_counter, terminados, tabla_global>>
    BY <1>4 DEF Despacha
  <2>2. q \notin EnCPU /\ q \notin PorPedir /\ ~ (q \in PorPedir)'
        /\ ((q \in EnCPU)' <=> q = p)
    BY <1>a, <2>1, Sitios
  <2>3. CASE q = p
    <3>1. q \notin terminados /\ ~ EnCola(q) /\ q \notin EnFS
      BY <2>1, <2>3, EnUnoSolo
    <3> QED
      BY <1>0, <1>b, <2>1, <2>2, <2>3, <3>1, LugarUno DEF Uno
  <2>4. CASE q # p
    <3>1. (q \in listos)' <=> q \in listos
      BY <2>1, <2>4
    <3> QED
      BY <1>0, <1>b, <2>1, <2>2, <2>4, <3>1, LugarIgual
  <2> QED
    BY <2>3, <2>4
<1>5. ASSUME NEW p \in Procesos,
             AbrePidiendo(p) \/ Accede(p) \/ NecesitaCompactar(p)
      PROVE  EnLugar(q)'
  BY <1>5, LugarCpuFijo
  DEF AbrePidiendo, Accede, NecesitaCompactar, Retorna, HilosCPU
<1>6. ASSUME NEW p \in Procesos, AbreEnTabla(p) \/ EsperaTermina(p)
      PROVE  EnLugar(q)'
  <2> DEFINE f == Archivo(p)
  <2>1. /\ p = pcb_en_ejecucion /\ EnTabla(f) /\ TomaOEspera(p, f)
        /\ cpu \in {"instruccion", "termina_operacion_fs"}
        /\ UNCHANGED <<listos, terminados, pcb_en_ejecucion>>
    BY <1>6
    DEF AbreEnTabla, EsperaTermina, TerminaDeAbrir, Archivo, Retorna
  <2>2. PICK i \in DOMAIN tabla_global : i = Entrada(f)
    BY <1>0, <2>1, EntradaUnica DEF Inv
  <2>3. p \in EnCPU /\ (q \in EnCPU <=> q = p)
    BY <2>1, Sitios
  <2>4. CASE EfectoToma(i) /\ cpu' = "instruccion" /\ Avanza(p)
    <3>1. \A x : EnCola(x)' <=> EnCola(x)
      BY <2>4, ColaToma
    <3> QED
      BY <2>1, <2>3, <2>4, <3>1, LugarCpuAvanza
  <2>5. CASE EfectoEspera(p, i) /\ cpu' = "proceso_running"
             /\ UNCHANGED program_counter
    <3>1. EnCola(q)' <=> EnCola(q) \/ q = p
      BY <1>0, <2>5, ColaEspera
    <3>2. ~ (q \in EnCPU)' /\ ~ (q \in PorPedir)' /\ q \notin PorPedir
      BY <1>a, <2>1, <2>5, Sitios
    <3>3. CASE q = p
      <4>1. q \notin terminados /\ q \notin listos /\ q \notin EnFS
        BY <2>3, <3>3, EnUnoSolo
      <4> QED
        BY <1>0, <2>1, <3>1, <3>2, <3>3, <4>1, LugarUno DEF Uno
    <3>4. CASE q # p
      BY <1>0, <2>1, <2>3, <2>5, <3>1, <3>2, <3>4, LugarIgual
    <3> QED
      BY <3>3, <3>4
  <2> QED
    BY <1>0, <2>1, <2>2, <2>4, <2>5, TomaOEsperaHace DEF Inv
<1>7. ASSUME NEW p \in Procesos, Cierra(p)
      PROVE  EnLugar(q)'
  <2> DEFINE f == Archivo(p)
  <2>1. /\ p = pcb_en_ejecucion /\ EnTabla(f) /\ Libera(Entrada(f))
        /\ cpu = "instruccion" /\ cpu' = "instruccion" /\ Avanza(p)
        /\ UNCHANGED <<terminados, pcb_en_ejecucion>>
    BY <1>7 DEF Cierra, Archivo, Retorna
  <2>2. PICK i \in DOMAIN tabla_global : i = Entrada(f)
    BY <1>0, <2>1, EntradaUnica DEF Inv
  <2>3. p \in EnCPU
    BY <2>1, Sitios
  <2>4. CASE EfectoQuita(i)
    <3>1. listos' = listos /\ \A x : EnCola(x)' <=> EnCola(x)
      BY <1>0, <2>4, ColaQuita DEF EfectoQuita
    <3> QED
      BY <2>1, <2>3, <3>1, LugarCpuAvanza
  <2>5. CASE EfectoLibera(i)
    <3> DEFINE h == Cola(i)[1]
    <3>1. /\ h \in Procesos /\ EnCola(h)
          /\ \A x : EnCola(x)' <=> EnCola(x) /\ x # h
      BY <1>0, <2>5, ColaLibera DEF Inv
    <3>2. listos' = listos \cup {h}
      BY <2>5 DEF EfectoLibera
    <3> HIDE DEF h
    <3> QED
      BY <2>1, <2>3, <3>1, <3>2, LugarCpuAvanza
  <2> QED
    BY <1>0, <2>1, <2>2, <2>4, <2>5, LiberaHace
<1>8. ASSUME NEW p \in Procesos, CierraAusente(p)
      PROVE  EnLugar(q)'
  <2>1. /\ p = pcb_en_ejecucion /\ EnInstruccion(p, {"F_CLOSE"})
        /\ ~ EnTabla(Archivo(p)) /\ cpu = "instruccion"
        /\ cpu' = "proceso_running"
        /\ UNCHANGED <<program_counter, listos, terminados, tabla_global>>
    BY <1>8 DEF CierraAusente, Retorna, Archivo
  <2>2. Perdido(p)
    <3>1. Archivo(p) \in Archivos
      BY <2>1, InstruccionTipo DEF Inv, Tipos, DeArchivo
    <3> QED
      BY <2>1, <3>1 DEF Perdido, Inv, DuenoEnTabla, EnTabla
  <2>3. ~ (q \in EnCPU)' /\ ~ (q \in PorPedir)' /\ q \notin PorPedir
        /\ (q \in EnCPU <=> q = p)
    BY <1>a, <2>1, Sitios
  <2>4. CASE q = p
    <3>1. q \notin terminados /\ q \notin listos /\ q \notin EnFS
          /\ ~ EnCola(q)
      BY <2>3, <2>4, EnUnoSolo
    <3>2. Cuantos(q)' = 0
      BY <1>0, <1>b, <2>1, <2>3, <3>1 DEF Cuantos, Uno
    <3>3. Perdido(p)'
      BY <1>0, <2>1, <2>2
      DEF Perdido, EnInstruccion, Pendiente, Archivo, Tiene, Hechas,
          CerradoSinTener
    <3> QED
      BY <2>4, <3>2, <3>3 DEF EnLugar
  <2>5. CASE q # p
    BY <1>0, <1>b, <2>1, <2>3, <2>5, LugarIgual
  <2> QED
    BY <2>4, <2>5
<1>9. ASSUME NEW p \in Procesos, Posiciona(p) \/ CreaSegmento(p)
      PROVE  EnLugar(q)'
  <2>1. /\ p = pcb_en_ejecucion
        /\ cpu = "instruccion" /\ cpu' = "instruccion" /\ Avanza(p)
        /\ UNCHANGED <<terminados, pcb_en_ejecucion, listos, tabla_global>>
    BY <1>9 DEF Posiciona, CreaSegmento, Retorna
  <2>2. p \in EnCPU /\ \A x : EnCola(x)' <=> EnCola(x)
    BY <2>1, Sitios DEF EnCola, Cola
  <2> QED
    BY <2>1, <2>2, LugarCpuAvanza
<1>10. ASSUME NEW p \in Procesos, Trunca(p) \/ RecibeDireccion(p)
       PROVE  EnLugar(q)'
  <2>1. /\ p = pcb_en_ejecucion /\ cpu \in {"instruccion", "direccion_fisica"}
        /\ cpu' = "puede_replanificar" /\ Post("operacion_fs")
        /\ UNCHANGED <<program_counter, listos, terminados, tabla_global,
                       pcb_en_ejecucion>>
    BY <1>10 DEF Trunca, RecibeDireccion, Retorna
  <2>2. sem'["operacion_fs"] = 1
    BY <2>1, NadiePide DEF Post, Inv, Tipos, Semaforos
  <2>3. ~ (q \in EnCPU)' /\ q \notin PorPedir
        /\ (q \in EnCPU <=> q = p) /\ ((q \in PorPedir)' <=> q = p)
    BY <1>a, <2>1, <2>2, Sitios
  <2>4. CASE q = p
    <3>1. q \notin terminados /\ q \notin listos /\ q \notin EnFS
          /\ ~ EnCola(q)
      BY <2>3, <2>4, EnUnoSolo
    <3> QED
      BY <1>0, <1>b, <2>1, <2>3, <2>4, <3>1, LugarUno DEF Uno
  <2>5. CASE q # p
    BY <1>0, <1>b, <2>1, <2>3, <2>5, LugarIgual
  <2> QED
    BY <2>4, <2>5
<1>11. ASSUME NEW p \in Procesos, Sale(p) \/ SinSegmento(p)
       PROVE  EnLugar(q)'
  <2>1. /\ p = pcb_en_ejecucion /\ cpu = "instruccion"
        /\ cpu' = "proceso_running" /\ terminados' = terminados \cup {p}
        /\ UNCHANGED <<program_counter, listos, tabla_global>>
    BY <1>11 DEF Sale, SinSegmento, TerminaProceso, Retorna
  <2>2. ~ (q \in EnCPU)' /\ ~ (q \in PorPedir)' /\ q \notin PorPedir
        /\ (q \in EnCPU <=> q = p)
    BY <1>a, <2>1, Sitios
  <2>3. CASE q = p
    <3>1. q \notin listos /\ q \notin EnFS /\ ~ EnCola(q)
      BY <2>2, <2>3, EnUnoSolo
    <3> QED
      BY <1>0, <1>b, <2>1, <2>2, <2>3, <3>1, LugarUno DEF Uno
  <2>4. CASE q # p
    <3>1. (q \in terminados)' <=> q \in terminados
      BY <2>1, <2>4
    <3> QED
      BY <1>0, <1>b, <2>1, <2>2, <2>4, <3>1, LugarIgual
  <2> QED
    BY <2>3, <2>4
<1> HIDE DEF procesos, tablas, memoria, hilo_fs, canal
<1> QED
  BY <1>1, <1>2, <1>3, <1>4, <1>5, <1>6, <1>7, <1>8, <1>9, <1>10, <1>11
  DEF HiloCPU

\* The same for the file thread.
LEMMA LugarFs ==
    ASSUME Inv, HiloFS
    PROVE  UnLugar'
<1> USE DEF procesos, tablas, memoria, hilo_fs, canal
<1> SUFFICES ASSUME NEW q \in Procesos
             PROVE  EnLugar(q)'
  BY DEF UnLugar, EnLugar
<1>0. /\ UNCHANGED <<cpu, pcb_en_ejecucion, programa, terminados>>
      /\ sem \in [Semaforos -> Nat] /\ "operacion_fs" \in Semaforos
      /\ sem["operacion_fs"] \in Nat /\ sem["puede_replanificar"] \in Nat
  BY FsNoTocaCpu, Contadores DEF Inv, Tipos, Semaforos
<1>a. /\ (q \in EnCPU)' <=> q \in EnCPU
      /\ (q \in PorPedir)' <=> /\ cpu = "puede_replanificar"
                               /\ \/ sem'["operacion_fs"] = 1
                                  \/ fs' = "pcb_en_ejecucion"
                               /\ q = pcb_en_ejecucion
      /\ (q \in EnFS)' <=> /\ fs' \in {"switch", "recortado", "transferido"}
                           /\ q = pcb_operacion_fs'
                           /\ Pendiente(q)'.nombre # "F_OPEN"
  BY <1>0, Sitios, SitiosDespues
<1>b. ASSUME UNCHANGED tabla_global
      PROVE  EnCola(q)' <=> EnCola(q)
  BY <1>b DEF EnCola, Cola
<1>c. ASSUME UNCHANGED <<program_counter, listos, tabla_global>>,
             \/ sem'["operacion_fs"] = 1 \/ fs' = "pcb_en_ejecucion" <=> PorTomar,
             (q \in EnFS)' <=> q \in EnFS
      PROVE  EnLugar(q)'
  <2>1. (q \in PorPedir)' <=> q \in PorPedir
    BY <1>a, <1>c, Sitios
  <2> QED
    BY <1>0, <1>a, <1>b, <1>c, <2>1, LugarIgual
<1>1. CASE TomaOperacion
  <2>1. /\ fs = "operacion_fs" /\ fs' = "pcb_en_ejecucion"
        /\ sem["operacion_fs"] > 0
        /\ UNCHANGED <<program_counter, listos, tabla_global>>
    BY <1>1 DEF TomaOperacion, Wait
  <2>2. sem["operacion_fs"] = 1
    BY <1>0, <2>1 DEF Inv, Permiso, Uno
  <2>3. ~ (q \in EnFS)' /\ q \notin EnFS
    BY <1>a, <2>1, Sitios
  <2> QED
    BY <1>c, <2>1, <2>2, <2>3 DEF PorTomar
<1>2. CASE GuardaReferencia
  <2>1. /\ fs = "pcb_en_ejecucion" /\ fs' = "switch"
        /\ pcb_operacion_fs' = pcb_en_ejecucion
        /\ UNCHANGED <<program_counter, listos, tabla_global>>
        /\ sem'["operacion_fs"] = sem["operacion_fs"]
    BY <1>0, <1>2, SemCambia DEF GuardaReferencia, Semaforos
  <2>2. PorTomar
    BY <2>1 DEF PorTomar
  <2>3. /\ sem["operacion_fs"] = 0 /\ ~ (q \in PorPedir)' /\ q \notin EnFS
        /\ Pendiente(q)' = Pendiente(q)
    BY <1>0, <1>a, <2>1, <2>2, LeeElQuePidio, Sitios DEF Pendiente
  <2>4. (q \in EnFS)' <=> q \in PorPedir
    <3>1. \/ /\ cpu = "abriendo"
             /\ EnInstruccion(pcb_en_ejecucion, {"F_OPEN"})
          \/ /\ cpu = "puede_replanificar"
             /\ EnInstruccion(pcb_en_ejecucion, PorPosicion)
      BY <2>2, LeeElQuePidio
    <3> QED
      BY <1>a, <2>1, <2>2, <2>3, <3>1, Sitios
      DEF EnInstruccion, PorPosicion, Accesos
  <2>5. CASE q \in PorPedir
    <3>1. /\ q \notin listos /\ q \notin EnFS /\ q \notin terminados
          /\ ~ EnCola(q) /\ q \notin EnCPU
      BY <2>5, EnUnoSolo
    <3> QED
      BY <1>0, <1>a, <1>b, <2>1, <2>3, <2>4, <2>5, <3>1, LugarUno DEF Uno
  <2>6. CASE q \notin PorPedir
    BY <1>0, <1>a, <1>b, <2>1, <2>3, <2>4, <2>6, LugarIgual
  <2> QED
    BY <2>5, <2>6
<1>3. CASE PreguntaSiExiste \/ RecibeSiExiste \/ RecibeCreado
  <2>1. /\ fs' \in {"existe", "creado", "list_add"} /\ FsAbre
        /\ fs \in {"switch", "existe", "creado"}
        /\ UNCHANGED <<program_counter, listos, tabla_global, sem>>
    BY <1>3 DEF PreguntaSiExiste, RecibeSiExiste, RecibeCreado, Recibe,
                Atiende, FsAbre
  <2>2. ~ (q \in EnFS)' /\ q \notin EnFS
    BY <1>a, <2>1, Sitios DEF FsAbre
  <2> QED
    BY <1>c, <2>1, <2>2 DEF PorTomar
<1>4. CASE Recorta \/ Transfiere
  <2>1. /\ fs' \in {"recortado", "transferido"} /\ fs = "switch"
        /\ Pendiente(pcb_operacion_fs).nombre # "F_OPEN"
        /\ UNCHANGED <<program_counter, listos, tabla_global,
                       pcb_operacion_fs>>
    BY <1>4 DEF Recorta, Transfiere, Atiende, Accesos
  <2>2. sem'["operacion_fs"] = sem["operacion_fs"]
    BY <1>0, <1>4, SemCambia DEF Recorta, Transfiere, Semaforos
  <2>3. (q \in EnFS)' <=> q \in EnFS
    BY <1>0, <1>a, <2>1, Sitios DEF Pendiente
  <2> QED
    BY <1>c, <2>1, <2>2, <2>3 DEF PorTomar
<1>5. CASE AgregaATabla
  <2> DEFINE e == [nombre |-> Pendiente(pcb_operacion_fs).parametro1,
                   cola_esperando |-> <<>>, bit_de_uso |-> 0]
  <2>1. /\ fs' = "operacion_fs" /\ fs = "list_add"
        /\ tabla_global' = Append(tabla_global, e)
        /\ UNCHANGED <<program_counter, listos, pcb_operacion_fs>>
    BY <1>5 DEF AgregaATabla
  <2>2. sem'["operacion_fs"] = sem["operacion_fs"]
    BY <1>0, <1>5, SemCambia DEF AgregaATabla, Semaforos
  <2>3. /\ ~ (q \in EnFS)' /\ q \notin EnFS
        /\ (q \in PorPedir)' <=> q \in PorPedir
    BY <1>a, <2>1, <2>2, Sitios DEF PorTomar
  <2>4. EnCola(q)' <=> EnCola(q)
    <3> DEFINE n == Len(tabla_global)
               c == tabla_global'
    <3>1. /\ n \in Nat /\ DOMAIN tabla_global = 1..n /\ DOMAIN c = 1..(n + 1)
          /\ \A k \in 1..n : c[k] = tabla_global[k]
          /\ c[n + 1].cola_esperando = <<>>
      BY <2>1 DEF Inv, Tipos
    <3>2. EnCola(q)' <=> \E k \in 1..(n + 1) :
              \E j \in DOMAIN c[k].cola_esperando :
                  c[k].cola_esperando[j] = q
      BY <3>1 DEF EnCola, Cola
    <3>3. DOMAIN c[n + 1].cola_esperando = {}
      BY <3>1
    <3>4. \A k \in 1..(n + 1) : k \in 1..n \/ k = n + 1
      BY <3>1
    <3>5. EnCola(q) <=> \E k \in 1..n :
              \E j \in DOMAIN tabla_global[k].cola_esperando :
                  tabla_global[k].cola_esperando[j] = q
      BY <3>1 DEF EnCola, Cola
    <3>6. \A k \in 1..n : k \in 1..(n + 1)
      BY <3>1
    <3> HIDE DEF n, c, e
    <3> QED
      BY <3>1, <3>2, <3>3, <3>4, <3>5, <3>6
  <2> QED
    BY <1>0, <1>a, <2>1, <2>3, <2>4, LugarIgual
<1>6. CASE RecibeRecortado \/ RecibeTransferido
  <2> PICK s \in {pcb_operacion_fs} : TRUE
    OBVIOUS
  <2>0. /\ fs' = "operacion_fs" /\ fs \in {"recortado", "transferido"}
        /\ Avanza(s) /\ listos' = listos \cup {s} /\ UNCHANGED tabla_global
    BY <1>6 DEF RecibeRecortado, RecibeTransferido, Recibe, DevuelveProceso
  <2>1. s \in EnFS
    BY <2>0 DEF Inv, FsEnOrden, EnFS, EnInstruccion, Accesos
  <2>2. sem'["operacion_fs"] = sem["operacion_fs"]
    BY <1>0, <1>6, SemCambia DEF RecibeRecortado, RecibeTransferido, Semaforos
  <2>3. /\ ~ (q \in EnFS)' /\ (q \in EnFS <=> q = s)
        /\ (q \in PorPedir)' <=> q \in PorPedir
    BY <1>a, <2>0, <2>1, <2>2, Sitios DEF PorTomar, EnFS
  <2>4. CASE q = s
    <3>1. /\ q \notin EnCPU /\ q \notin PorPedir /\ q \notin terminados
          /\ ~ EnCola(q)
      BY <2>0, <2>1, <2>4, EnUnoSolo
    <3> QED
      BY <1>0, <1>a, <1>b, <2>0, <2>1, <2>3, <2>4, <3>1, LugarUno DEF Uno
  <2>5. CASE q # s
    <3>1. s \in Procesos
      BY <2>0, <2>1 DEF Inv, FsEnOrden
    <3>2. program_counter'[q] = program_counter[q]
      BY <2>0, <2>1, <2>5, <3>1, AvanzaSolo DEF Inv, Tipos
    <3>3. (q \in listos)' <=> q \in listos
      BY <2>0, <2>1, <2>5
    <3> QED
      BY <1>0, <1>a, <1>b, <2>0, <2>1, <2>3, <2>5, <3>2, <3>3, LugarIgual
  <2> QED
    BY <2>4, <2>5
<1> HIDE DEF procesos, tablas, memoria, hilo_fs, canal
<1> QED
  BY <1>1, <1>2, <1>3, <1>4, <1>5, <1>6 DEF HiloFS

-----------------------------------------------------------------------------
(* The steps of each thread, by what they do to the processes and tables.  *)

EnManos(p) ==
    p \in Procesos /\ p = pcb_en_ejecucion /\ p \in EnCPU
PasoEspera(p, i) ==
    /\ EnManos(p) /\ EnInstruccion(p, {"F_OPEN"})
    /\ i \in DOMAIN tabla_global /\ tabla_global[i].nombre = Archivo(p)
    /\ EfectoEspera(p, i)
    /\ tabla_local' =
          [tabla_local EXCEPT ![p][Archivo(p)] = IF @ = Nulo THEN 0 ELSE @]
    /\ UNCHANGED <<program_counter, listos, terminados>>
PasoToma(p, i) ==
    /\ EnManos(p) /\ EnInstruccion(p, {"F_OPEN"})
    /\ i \in DOMAIN tabla_global /\ tabla_global[i].nombre = Archivo(p)
    /\ EfectoToma(i)
    /\ tabla_local' =
          [tabla_local EXCEPT ![p][Archivo(p)] = IF @ = Nulo THEN 0 ELSE @]
    /\ Avanza(p)
    /\ UNCHANGED <<listos, terminados>>
PasoCierra(p, i) ==
    /\ EnManos(p) /\ EnInstruccion(p, {"F_CLOSE"})
    /\ i \in DOMAIN tabla_global /\ tabla_global[i].nombre = Archivo(p)
    /\ EfectoQuita(i) \/ EfectoLibera(i)
    /\ tabla_local' = [tabla_local EXCEPT ![p][Archivo(p)] = Nulo]
    /\ Avanza(p)
    /\ UNCHANGED terminados
PasoSigue(p) ==
    /\ EnManos(p) /\ EnInstruccion(p, {"F_SEEK", "CREATE_SEGMENT"})
    /\ \/ /\ EnInstruccion(p, {"CREATE_SEGMENT"}) /\ UNCHANGED tabla_local
       \/ /\ EnInstruccion(p, {"F_SEEK"})
          /\ tabla_local[p][Archivo(p)] # Nulo
          /\ tabla_local' = [tabla_local EXCEPT
                                ![p][Archivo(p)] = Pendiente(p).parametro2]
    /\ Avanza(p)
    /\ UNCHANGED <<tabla_global, listos, terminados>>
PasoTermina(p) ==
    /\ EnManos(p) /\ EnInstruccion(p, {"EXIT", "CREATE_SEGMENT"})
    /\ terminados' = terminados \cup {p}
    /\ tabla_local' = [tabla_local EXCEPT ![p] = SinAbrir]
    /\ UNCHANGED <<program_counter, tabla_global, listos>>
PasoDespacha(p) ==
    /\ p \in listos /\ p \in Procesos
    /\ cpu = "proceso_running" /\ cpu' = "instruccion"
    /\ listos' = listos \ {p} /\ pcb_en_ejecucion' = p
    /\ UNCHANGED <<program_counter, tablas, terminados>>
PasoFijo ==
    /\ \A p \in EnCPU : EnInstruccion(p, {"F_OPEN"}) => p \in EnCPU'
    /\ UNCHANGED <<program_counter, tablas, listos, terminados>>
SigueEnCPU == cpu' = "instruccion" /\ UNCHANGED pcb_en_ejecucion

\* What a step of the CPU thread does to the processes, the table and the
\* pointers, in one of six forms.
LEMMA PasosCpu ==
    ASSUME Inv, HiloCPU
    PROVE  \/ PasoFijo
           \/ \E p \in Procesos :
                 \/ PasoDespacha(p) \/ PasoTermina(p)
                 \/ PasoSigue(p) /\ SigueEnCPU
                 \/ \E i \in DOMAIN tabla_global :
                       \/ PasoEspera(p, i)
                       \/ PasoToma(p, i) /\ SigueEnCPU
                       \/ PasoCierra(p, i) /\ SigueEnCPU
<1> USE DEF procesos, tablas, memoria, hilo_fs, canal
<1>0. tabla_global \in Seq(Entradas) /\ NombresUnicos
  BY DEF Inv, Tipos
<1>a. ASSUME NEW p \in Procesos, p = pcb_en_ejecucion,
             cpu \notin {"proceso_running", "puede_replanificar"}
      PROVE  EnManos(p)
  BY <1>a DEF EnManos, EnCPU
<1>b. ASSUME UNCHANGED pcb_en_ejecucion,
             \/ cpu' \notin {"proceso_running", "puede_replanificar"}
             \/ cpu = "puede_replanificar"
             \/ EnInstruccion(pcb_en_ejecucion, PorPosicion \cup {"F_CLOSE"})
      PROVE  \A p \in EnCPU : EnInstruccion(p, {"F_OPEN"}) => p \in EnCPU'
  BY <1>b DEF EnCPU, EnInstruccion, PorPosicion, Accesos
<1>1. CASE EsperaPermisoDeAbrir \/ EsperaPermiso \/ PideCompactar
           \/ RecibeTablas
  <2>1. PasoFijo
    BY <1>1, <1>b
    DEF EsperaPermisoDeAbrir, EsperaPermiso, PideCompactar, RecibeTablas,
        PasoFijo
  <2> QED
    BY <2>1
<1>2. ASSUME NEW p \in Procesos, Despacha(p)
      PROVE  PasoDespacha(p)
  BY <1>2 DEF Despacha, PasoDespacha
<1>3. ASSUME NEW p \in Procesos,
             \/ AbrePidiendo(p) \/ Accede(p) \/ NecesitaCompactar(p)
      PROVE  PasoFijo
  BY <1>3, <1>b
  DEF AbrePidiendo, Accede, NecesitaCompactar, Retorna, PasoFijo
<1>4. ASSUME NEW p \in Procesos,
             CierraAusente(p) \/ Trunca(p) \/ RecibeDireccion(p)
      PROVE  PasoFijo
  <2>1. EnInstruccion(pcb_en_ejecucion, PorPosicion \cup {"F_CLOSE"})
    <3>1. CASE CierraAusente(p) \/ Trunca(p)
      BY <3>1
      DEF CierraAusente, Trunca, Retorna, EnInstruccion, PorPosicion
    <3>2. CASE RecibeDireccion(p)
      BY <3>2 DEF RecibeDireccion, Inv, CpuEnOrden, EnInstruccion, PorPosicion
    <3> QED
      BY <1>4, <3>1, <3>2
  <2>2. UNCHANGED pcb_en_ejecucion
    BY <1>4 DEF CierraAusente, Trunca, RecibeDireccion
  <2>3. UNCHANGED <<program_counter, tablas, listos, terminados>>
    BY <1>4 DEF CierraAusente, Trunca, RecibeDireccion
  <2> QED
    BY <2>1, <2>2, <2>3, <1>b DEF PasoFijo
<1>5. ASSUME NEW p \in Procesos, Sale(p) \/ SinSegmento(p)
      PROVE  PasoTermina(p)
  BY <1>5, <1>a
  DEF Sale, SinSegmento, TerminaProceso, Retorna, PasoTermina, EnInstruccion
<1>6. ASSUME NEW p \in Procesos, Posiciona(p) \/ CreaSegmento(p)
      PROVE  PasoSigue(p) /\ SigueEnCPU
  <2>1. EnManos(p) /\ SigueEnCPU /\ Avanza(p)
        /\ UNCHANGED <<tabla_global, listos, terminados>>
    BY <1>6, <1>a DEF Posiciona, CreaSegmento, Retorna, SigueEnCPU
  <2>2. CASE Posiciona(p)
    BY <2>1, <2>2
    DEF Posiciona, Retorna, PasoSigue, EnInstruccion, Archivo
  <2>3. CASE CreaSegmento(p)
    BY <2>1, <2>3 DEF CreaSegmento, Retorna, PasoSigue, EnInstruccion
  <2> QED
    BY <1>6, <2>2, <2>3
<1>7. ASSUME NEW p \in Procesos, AbreEnTabla(p) \/ EsperaTermina(p)
      PROVE  \E i \in DOMAIN tabla_global :
                 \/ PasoEspera(p, i)
                 \/ PasoToma(p, i) /\ SigueEnCPU
  <2> DEFINE f == Archivo(p)
  <2>1. /\ EnManos(p) /\ EnInstruccion(p, {"F_OPEN"})
        /\ EnTabla(f) /\ TomaOEspera(p, f)
        /\ tabla_local' =
              [tabla_local EXCEPT ![p][f] = IF @ = Nulo THEN 0 ELSE @]
        /\ UNCHANGED <<listos, terminados, pcb_en_ejecucion>>
    <3>1. TerminaDeAbrir(p, f) /\ p = pcb_en_ejecucion
          /\ cpu \notin {"proceso_running", "puede_replanificar"}
      BY <1>7 DEF AbreEnTabla, EsperaTermina, Retorna, Archivo
    <3>2. EnInstruccion(p, {"F_OPEN"})
      BY <1>7 DEF AbreEnTabla, EsperaTermina, Retorna, Inv, CpuEnOrden
    <3> QED
      BY <1>a, <3>1, <3>2 DEF TerminaDeAbrir
  <2>2. PICK i \in DOMAIN tabla_global :
           i = Entrada(f) /\ tabla_global[i].nombre = f
    BY <1>0, <2>1, EntradaUnica
  <2>3. \/ EfectoEspera(p, i) /\ UNCHANGED program_counter
        \/ EfectoToma(i) /\ cpu' = "instruccion" /\ Avanza(p)
    BY <1>0, <2>1, <2>2, TomaOEsperaHace
  <2>4. CASE EfectoEspera(p, i) /\ UNCHANGED program_counter
    <3>1. PasoEspera(p, i)
      BY ONLY <2>1, <2>2, <2>4, i \in DOMAIN tabla_global DEF PasoEspera
    <3> QED
      BY <3>1
  <2>5. CASE EfectoToma(i) /\ cpu' = "instruccion" /\ Avanza(p)
    <3>1. PasoToma(p, i) /\ SigueEnCPU
      BY ONLY <2>1, <2>2, <2>5, i \in DOMAIN tabla_global
      DEF PasoToma, SigueEnCPU
    <3> QED
      BY <3>1
  <2> QED
    BY <2>3, <2>4, <2>5
<1>8. ASSUME NEW p \in Procesos, Cierra(p)
      PROVE  \E i \in DOMAIN tabla_global : PasoCierra(p, i) /\ SigueEnCPU
  <2> DEFINE f == Archivo(p)
  <2>1. /\ EnManos(p) /\ EnInstruccion(p, {"F_CLOSE"})
        /\ EnTabla(f) /\ Libera(Entrada(f))
        /\ tabla_local' = [tabla_local EXCEPT ![p][f] = Nulo]
        /\ Avanza(p) /\ SigueEnCPU /\ UNCHANGED terminados
    BY <1>8, <1>a DEF Cierra, Archivo, Retorna, TablaSin, SigueEnCPU
  <2>2. PICK i \in DOMAIN tabla_global :
           i = Entrada(f) /\ tabla_global[i].nombre = f
    BY <1>0, <2>1, EntradaUnica
  <2>3. EfectoQuita(i) \/ EfectoLibera(i)
    BY <1>0, <2>1, <2>2, LiberaHace
  <2> QED
    BY <2>1, <2>2, <2>3 DEF PasoCierra
<1> HIDE DEF procesos, tablas, memoria, hilo_fs, canal
<1> QED
  BY <1>1, <1>2, <1>3, <1>4, <1>5, <1>6, <1>7, <1>8 DEF HiloCPU

\* The file thread.
PasoAgrega(s) ==
    /\ s \in Procesos /\ s = pcb_operacion_fs /\ FsAbre
    /\ EnInstruccion(s, {"F_OPEN"}) /\ ~ EnTabla(Archivo(s))
    /\ s = pcb_en_ejecucion /\ s \in EnCPU
    /\ tabla_global' =
          Append(tabla_global, [nombre |-> Archivo(s),
                                cola_esperando |-> <<>>, bit_de_uso |-> 0])
    /\ UNCHANGED <<program_counter, listos>>
PasoDevuelve(s) ==
    /\ s \in Procesos /\ s = pcb_operacion_fs /\ s \in EnFS
    /\ EnInstruccion(s, PorPosicion)
    /\ Avanza(s)
    /\ listos' = listos \cup {s}
    /\ UNCHANGED tabla_global

\* What a step of the file thread does to them, in one of three.
LEMMA PasosFs ==
    ASSUME Inv, HiloFS
    PROVE  \/ UNCHANGED <<program_counter, tabla_global, listos>>
           \/ \E s \in Procesos : PasoAgrega(s) \/ PasoDevuelve(s)
<1> USE DEF procesos, tablas
<1>1. CASE AgregaATabla
  <2>1. fs = "list_add" /\ FsAbre
    BY <1>1 DEF AgregaATabla, FsAbre
  <2>2. PICK s \in Procesos : s = pcb_operacion_fs
    BY <2>1 DEF Inv, FsEnOrden
  <2>3. /\ EnInstruccion(s, {"F_OPEN"}) /\ ~ EnTabla(Archivo(s))
        /\ s = pcb_en_ejecucion
    BY <2>1, <2>2 DEF Inv, FsEnOrden
  <2>4. s \in EnCPU
    <3>1. cpu \in {"abriendo", "termina_operacion_fs"}
      BY <2>1, Contadores DEF Inv, Tipos, Apertura, Uno
    <3> QED
      BY <2>3, <3>1 DEF EnCPU
  <2>5. PasoAgrega(s)
    BY <1>1, <2>1, <2>2, <2>3, <2>4 DEF AgregaATabla, PasoAgrega, Archivo
  <2> QED
    BY <2>5
<1>2. CASE RecibeRecortado \/ RecibeTransferido
  <2>1. /\ fs \in {"recortado", "transferido"} /\ Avanza(pcb_operacion_fs)
        /\ listos' = listos \cup {pcb_operacion_fs} /\ UNCHANGED tabla_global
    BY <1>2 DEF RecibeRecortado, RecibeTransferido, Recibe, DevuelveProceso
  <2>2. PICK s \in Procesos : s = pcb_operacion_fs
    BY <2>1 DEF Inv, FsEnOrden
  <2>3. EnInstruccion(s, PorPosicion)
    BY <2>1, <2>2 DEF Inv, FsEnOrden, EnInstruccion, PorPosicion
  <2>4. s \in EnFS
    BY <2>1, <2>2, <2>3 DEF EnFS, EnInstruccion, PorPosicion, Accesos
  <2> QED
    BY <2>1, <2>2, <2>3, <2>4 DEF PasoDevuelve
<1>3. CASE TomaOperacion \/ GuardaReferencia \/ PreguntaSiExiste \/ Recorta
           \/ Transfiere \/ RecibeSiExiste \/ RecibeCreado
  BY <1>3
  DEF TomaOperacion, GuardaReferencia, PreguntaSiExiste, Recorta, Transfiere,
      RecibeSiExiste, RecibeCreado
<1> HIDE DEF procesos, tablas
<1> QED
  BY <1>1, <1>2, <1>3 DEF HiloFS

\* Only the process on the CPU, or the one an answer was for, advances.
LEMMA PcQuieto ==
    ASSUME Inv, HiloCPU \/ HiloFS, NEW q \in Procesos,
           q \notin EnCPU, q \notin EnFS
    PROVE  program_counter'[q] = program_counter[q]
<1>0. program_counter \in [Procesos -> Nat]
  BY DEF Inv, Tipos
<1>1. CASE HiloCPU
  <2>1. \/ UNCHANGED program_counter
        \/ \E p \in Procesos : EnManos(p) /\ Avanza(p)
    BY <1>1, PasosCpu
    DEF PasoFijo, PasoDespacha, PasoTermina, PasoSigue, PasoEspera, PasoToma,
        PasoCierra
  <2> QED
    BY <1>0, <2>1, AvanzaSolo DEF EnManos
<1>2. CASE HiloFS
  <2>1. \/ UNCHANGED program_counter
        \/ \E s \in Procesos : s \in EnFS /\ Avanza(s)
    BY <1>2, PasosFs DEF PasoAgrega, PasoDevuelve
  <2> QED
    BY <1>0, <2>1, AvanzaSolo
<1> QED
  BY <1>1, <1>2

\* The table did not change, nor who waits.
LEMMA EsperanIgual ==
    ASSUME Inv, UNCHANGED tabla_global
    PROVE  EsperaUna'
  BY DEF Inv, EsperaUna, Cola

\* A process that was in no queue is in one, once.
LEMMA EsperaUnaAlEsperar ==
    ASSUME Inv, NEW p \in Procesos, NEW i \in DOMAIN tabla_global,
           ~ EnCola(p), EfectoEspera(p, i)
    PROVE  EsperaUna'
<1> DEFINE d(k) == tabla_global'[k].cola_esperando
           n == Len(Cola(i))
<1>1. /\ DOMAIN tabla_global' = DOMAIN tabla_global
      /\ \A k \in DOMAIN tabla_global : k # i => d(k) = Cola(k)
      /\ d(i) = Append(Cola(i), p)
  BY DEF EfectoEspera
<1>2. Cola(i) \in Seq(Procesos)
  BY ColaTipo DEF Inv, Tipos
<1>3. /\ n \in Nat /\ DOMAIN Cola(i) = 1..n /\ DOMAIN d(i) = 1..(n + 1)
      /\ \A j \in 1..n : d(i)[j] = Cola(i)[j]
      /\ d(i)[n + 1] = p
  BY <1>1, <1>2
<1>4. \A k \in DOMAIN tabla_global : \A j \in DOMAIN Cola(k) : Cola(k)[j] # p
  BY DEF EnCola
<1> HIDE DEF d, n
<1>5. \A a \in DOMAIN tabla_global : \A j \in DOMAIN d(a) :
         \/ j \in DOMAIN Cola(a) /\ d(a)[j] = Cola(a)[j]
         \/ a = i /\ j = n + 1 /\ d(a)[j] = p
  <2> SUFFICES ASSUME NEW a \in DOMAIN tabla_global, NEW j \in DOMAIN d(a)
               PROVE  \/ j \in DOMAIN Cola(a) /\ d(a)[j] = Cola(a)[j]
                      \/ a = i /\ j = n + 1 /\ d(a)[j] = p
    OBVIOUS
  <2>1. CASE a = i
    <3>1. j \in 1..n \/ j = n + 1
      BY <1>3, <2>1
    <3> QED
      BY <1>3, <2>1, <3>1
  <2> QED
    BY <1>1, <2>1
<1>6. \A a, b \in DOMAIN tabla_global :
         \A j \in DOMAIN d(a), l \in DOMAIN d(b) :
             d(a)[j] = d(b)[l] => a = b /\ j = l
  BY <1>4, <1>5 DEF Inv, EsperaUna
<1> QED
  BY <1>1, <1>6 DEF EsperaUna, Cola, d

\* An entry leaves the table.
LEMMA EsperaUnaAlQuitar ==
    ASSUME Inv, NEW i \in DOMAIN tabla_global, EfectoQuita(i)
    PROVE  EsperaUna'
<1> DEFINE v(k) == IF k < i THEN k ELSE k + 1
<1>1. /\ DOMAIN tabla_global' = 1..(Len(tabla_global) - 1)
      /\ Len(tabla_global) \in Nat /\ i \in 1..Len(tabla_global)
  <2>1. /\ tabla_global' \in Seq(Entradas)
        /\ Len(tabla_global') = Len(tabla_global) - 1
    BY DEF EfectoQuita
  <2> QED
    BY <2>1 DEF Inv, Tipos
<1>2. \A k \in DOMAIN tabla_global' :
         v(k) \in DOMAIN tabla_global /\ tabla_global'[k] = tabla_global[v(k)]
  BY DEF EfectoQuita
<1>3. \A a, b \in DOMAIN tabla_global' : v(a) = v(b) => a = b
  BY <1>1
<1> HIDE DEF v
<1>4. \A a, b \in DOMAIN tabla_global' :
         \A j \in DOMAIN Cola(v(a)), l \in DOMAIN Cola(v(b)) :
             Cola(v(a))[j] = Cola(v(b))[l] => a = b /\ j = l
  BY <1>2, <1>3 DEF Inv, EsperaUna
<1> QED
  BY <1>2, <1>4 DEF EsperaUna, Cola

\* The first process of a queue leaves it.
LEMMA EsperaUnaAlLiberar ==
    ASSUME Inv, NEW i \in DOMAIN tabla_global, EfectoLibera(i)
    PROVE  EsperaUna'
<1> DEFINE d(k) == tabla_global'[k].cola_esperando
           n == Len(Cola(i))
<1>1. /\ DOMAIN tabla_global' = DOMAIN tabla_global
      /\ \A k \in DOMAIN tabla_global : k # i => d(k) = Cola(k)
      /\ d(i) = Tail(Cola(i)) /\ Cola(i) # <<>>
  BY DEF EfectoLibera
<1>2. Cola(i) \in Seq(Procesos)
  BY ColaTipo DEF Inv, Tipos
<1>3. /\ n \in Nat /\ DOMAIN Cola(i) = 1..n /\ DOMAIN d(i) = 1..(n - 1)
      /\ \A j \in 1..(n - 1) : d(i)[j] = Cola(i)[j + 1]
  BY <1>1, <1>2
<1> HIDE DEF d, n
<1>4. \A a \in DOMAIN tabla_global : \A j \in DOMAIN d(a) :
         \/ a # i /\ j \in DOMAIN Cola(a) /\ d(a)[j] = Cola(a)[j]
         \/ /\ a = i /\ j \in Nat /\ j + 1 \in DOMAIN Cola(a)
            /\ d(a)[j] = Cola(a)[j + 1]
  BY <1>1, <1>3
<1>5. \A a, b \in DOMAIN tabla_global :
         \A j \in DOMAIN d(a), l \in DOMAIN d(b) :
             d(a)[j] = d(b)[l] => a = b /\ j = l
  BY <1>4 DEF Inv, EsperaUna
<1> QED
  BY <1>1, <1>5 DEF EsperaUna, Cola, d

\* A new entry has nobody in its queue.
LEMMA EsperaUnaAlAgregar ==
    ASSUME Inv, NEW s, PasoAgrega(s)
    PROVE  EsperaUna'
<1> DEFINE n == Len(tabla_global)
<1>1. /\ n \in Nat /\ DOMAIN tabla_global = 1..n
      /\ DOMAIN tabla_global' = 1..(n + 1)
      /\ \A k \in 1..n : tabla_global'[k] = tabla_global[k]
      /\ tabla_global'[n + 1].cola_esperando = <<>>
  BY DEF PasoAgrega, Inv, Tipos
<1>2. \A a \in DOMAIN tabla_global' :
         \A j \in DOMAIN tabla_global'[a].cola_esperando :
             /\ a \in DOMAIN tabla_global
             /\ tabla_global'[a] = tabla_global[a]
  <2>1. \A a \in 1..(n + 1) : a \in 1..n \/ a = n + 1
    BY <1>1
  <2> HIDE DEF n
  <2> QED
    BY <1>1, <2>1
<1> QED
  BY <1>2 DEF Inv, EsperaUna, Cola

\* Nobody is twice in the queues, after any step.
LEMMA EsperaUnaNext ==
    ASSUME Inv, HiloCPU \/ HiloFS
    PROVE  EsperaUna'
<1>1. CASE HiloCPU
  <2>1. CASE UNCHANGED tabla_global
    BY <2>1, EsperanIgual
  <2>2. ASSUME NEW p \in Procesos, NEW i \in DOMAIN tabla_global,
               PasoEspera(p, i)
        PROVE  EsperaUna'
    <3>1. ~ EnCola(p)
      BY <2>2, EnUnoSolo DEF PasoEspera, EnManos
    <3> QED
      BY <2>2, <3>1, EsperaUnaAlEsperar DEF PasoEspera
  <2>3. ASSUME NEW p \in Procesos, NEW i \in DOMAIN tabla_global,
               PasoToma(p, i)
        PROVE  EsperaUna'
    BY <2>3 DEF PasoToma, EfectoToma, Inv, EsperaUna, Cola
  <2>4. ASSUME NEW p \in Procesos, NEW i \in DOMAIN tabla_global,
               PasoCierra(p, i)
        PROVE  EsperaUna'
    BY <2>4, EsperaUnaAlQuitar, EsperaUnaAlLiberar DEF PasoCierra
  <2> QED
    BY <1>1, <2>1, <2>2, <2>3, <2>4, PasosCpu
    DEF PasoFijo, PasoDespacha, PasoTermina, PasoSigue, tablas
<1>2. CASE HiloFS
  BY <1>2, PasosFs, EsperanIgual, EsperaUnaAlAgregar DEF PasoDevuelve
<1> QED
  BY <1>1, <1>2

\* Who waits afterwards waited for the same file, or starts to.
LEMMA EsperabaOEmpieza ==
    ASSUME Inv, HiloCPU \/ HiloFS, NEW a \in DOMAIN tabla_global',
           NEW j \in DOMAIN tabla_global'[a].cola_esperando
    PROVE  \E b \in DOMAIN tabla_global :
              /\ tabla_global'[a].nombre = tabla_global[b].nombre
              /\ \/ \E l \in DOMAIN Cola(b) :
                       Cola(b)[l] = tabla_global'[a].cola_esperando[j]
                 \/ PasoEspera(tabla_global'[a].cola_esperando[j], b)
<1> DEFINE q == tabla_global'[a].cola_esperando[j]
           Meta == \E b \in DOMAIN tabla_global :
                      /\ tabla_global'[a].nombre = tabla_global[b].nombre
                      /\ \/ \E l \in DOMAIN Cola(b) : Cola(b)[l] = q
                         \/ PasoEspera(q, b)
<1>1. CASE UNCHANGED tabla_global
  BY <1>1 DEF Cola
<1>2. ASSUME NEW p \in Procesos, NEW i \in DOMAIN tabla_global,
             PasoEspera(p, i)
      PROVE  Meta
  <2>1. /\ a \in DOMAIN tabla_global
        /\ tabla_global'[a].nombre = tabla_global[a].nombre
        /\ a # i => tabla_global'[a].cola_esperando = Cola(a)
    BY <1>2 DEF PasoEspera, EfectoEspera
  <2>2. CASE a # i
    BY <2>1, <2>2
  <2>3. CASE a = i
    <3> DEFINE c == Cola(i)
               d == tabla_global'[i].cola_esperando
    <3>1. d = Append(c, p) /\ c \in Seq(Procesos)
      BY <1>2, ColaTipo DEF PasoEspera, EfectoEspera, Inv, Tipos
    <3>2. j \in DOMAIN d
      BY <2>3
    <3>3. (j \in DOMAIN c /\ d[j] = c[j]) \/ d[j] = p
      <4> HIDE DEF c, d
      <4> QED
        BY <3>1, <3>2
    <3> QED
      BY <1>2, <2>1, <2>3, <3>3
  <2> QED
    BY <2>2, <2>3
<1>3. ASSUME NEW i \in DOMAIN tabla_global, EfectoToma(i)
      PROVE  Meta
  BY <1>3 DEF EfectoToma
<1>4. ASSUME NEW i \in DOMAIN tabla_global, EfectoQuita(i)
      PROVE  Meta
  <2> DEFINE b == IF a < i THEN a ELSE a + 1
  <2>1. b \in DOMAIN tabla_global /\ tabla_global'[a] = tabla_global[b]
    BY <1>4 DEF EfectoQuita
  <2> HIDE DEF b
  <2> QED
    BY <2>1 DEF Cola
<1>5. ASSUME NEW i \in DOMAIN tabla_global, EfectoLibera(i)
      PROVE  Meta
  <2>1. /\ a \in DOMAIN tabla_global
        /\ tabla_global'[a].nombre = tabla_global[a].nombre
        /\ a # i => tabla_global'[a].cola_esperando = Cola(a)
    BY <1>5 DEF EfectoLibera
  <2>2. CASE a # i
    BY <2>1, <2>2
  <2>3. CASE a = i
    <3> DEFINE c == Cola(i)
               d == tabla_global'[i].cola_esperando
    <3>1. d = Tail(c) /\ c \in Seq(Procesos) /\ c # <<>>
      BY <1>5, ColaTipo DEF EfectoLibera, Inv, Tipos
    <3>2. j \in DOMAIN d
      BY <2>3
    <3>3. j + 1 \in DOMAIN c /\ d[j] = c[j + 1]
      <4> HIDE DEF c, d
      <4> QED
        BY <3>1, <3>2
    <3> QED
      BY <2>1, <2>3, <3>3
  <2> QED
    BY <2>2, <2>3
<1>6. ASSUME NEW s, PasoAgrega(s)
      PROVE  Meta
  <2> DEFINE n == Len(tabla_global)
  <2>1. /\ n \in Nat /\ DOMAIN tabla_global = 1..n
        /\ DOMAIN tabla_global' = 1..(n + 1)
        /\ \A k \in 1..n : tabla_global'[k] = tabla_global[k]
        /\ tabla_global'[n + 1].cola_esperando = <<>>
    BY <1>6 DEF PasoAgrega, Inv, Tipos
  <2>2. a \in 1..n \/ a = n + 1
    BY <2>1
  <2>3. a \in 1..n
    BY <2>1, <2>2
  <2> QED
    BY <2>1, <2>3 DEF Cola
<1>7. CASE HiloCPU
  BY <1>7, <1>1, <1>2, <1>3, <1>4, <1>5, PasosCpu
  DEF PasoFijo, PasoDespacha, PasoTermina, PasoSigue, PasoToma, PasoCierra,
      tablas
<1>8. CASE HiloFS
  BY <1>8, <1>1, <1>6, PasosFs DEF PasoDevuelve
<1> QED
  BY <1>7, <1>8

\* Who waits for a file is at the F_OPEN of that file, after any step.
LEMMA EsperaSuArchivoNext ==
    ASSUME Inv, HiloCPU \/ HiloFS
    PROVE  EsperaSuArchivo'
<1> SUFFICES ASSUME NEW a \in DOMAIN tabla_global',
                    NEW j \in DOMAIN tabla_global'[a].cola_esperando,
                    NEW q, q = tabla_global'[a].cola_esperando[j]
             PROVE  /\ EnInstruccion(q, {"F_OPEN"})'
                    /\ Archivo(q)' = tabla_global'[a].nombre
  BY DEF EsperaSuArchivo, Cola, EnInstruccion, Archivo, Pendiente
<1>1. PICK b \in DOMAIN tabla_global :
         /\ tabla_global'[a].nombre = tabla_global[b].nombre
         /\ \/ \E l \in DOMAIN Cola(b) : Cola(b)[l] = q
            \/ PasoEspera(q, b)
  BY EsperabaOEmpieza
<1>2. UNCHANGED programa
  BY CpuNoTocaFs, FsNoTocaCpu
<1>3. /\ EnInstruccion(q, {"F_OPEN"})
      /\ Archivo(q) = tabla_global[b].nombre
      /\ program_counter'[q] = program_counter[q]
  <2>1. CASE \E l \in DOMAIN Cola(b) : Cola(b)[l] = q
    <3>1. /\ EnInstruccion(q, {"F_OPEN"})
          /\ Archivo(q) = tabla_global[b].nombre
      BY <2>1 DEF Inv, EsperaSuArchivo
    <3>2. q \in Procesos /\ EnCola(q)
      BY <2>1, ColaTipo DEF EnCola, Inv, Tipos
    <3>3. q \notin EnCPU /\ q \notin EnFS
      BY <3>2, EnUnoSolo
    <3> QED
      BY <3>1, <3>2, <3>3, PcQuieto
  <2>2. CASE PasoEspera(q, b)
    BY <2>2 DEF PasoEspera
  <2> QED
    BY <1>1, <2>1, <2>2
<1> QED
  BY <1>1, <1>2, <1>3, Misma

\* Who has ended did so at EXIT or at a segment it could not create.
LEMMA TerminaNext ==
    ASSUME Inv, HiloCPU \/ HiloFS
    PROVE  TerminaSinCerrar'
<1> SUFFICES ASSUME NEW q \in terminados'
             PROVE  EnInstruccion(q, {"EXIT", "CREATE_SEGMENT"})'
  BY DEF TerminaSinCerrar, EnInstruccion, Pendiente
<1>1. UNCHANGED programa
  BY CpuNoTocaFs, FsNoTocaCpu
<1>2. /\ EnInstruccion(q, {"EXIT", "CREATE_SEGMENT"})
      /\ program_counter'[q] = program_counter[q]
  <2>1. CASE q \in terminados
    <3>1. q \in Procesos
      BY <2>1 DEF Inv, Tipos
    <3>2. q \notin EnCPU /\ q \notin EnFS
      BY <2>1, <3>1, EnUnoSolo
    <3> QED
      BY <2>1, <3>1, <3>2, PcQuieto DEF Inv, TerminaSinCerrar
  <2>2. CASE q \notin terminados
    <3>1. HiloCPU
      BY <2>2, FsNoTocaCpu
    <3>2. \E p \in Procesos : PasoTermina(p)
      BY <2>2, <3>1, PasosCpu
      DEF PasoFijo, PasoDespacha, PasoSigue, PasoEspera, PasoToma, PasoCierra
    <3> QED
      BY <2>2, <3>2 DEF PasoTermina
  <2> QED
    BY <2>1, <2>2
<1> QED
  BY <1>1, <1>2, Misma

\* No process runs past its program.
LEMMA EnProgramaNext ==
    ASSUME Inv, HiloCPU \/ HiloFS
    PROVE  EnPrograma'
<1>1. UNCHANGED programa
  BY CpuNoTocaFs, FsNoTocaCpu
<1>2. \/ UNCHANGED program_counter
      \/ \E p \in Procesos : /\ program_counter[p] < Len(programa[p])
                             /\ Avanza(p)
  <2>1. CASE HiloCPU
    BY <2>1, PasosCpu
    DEF PasoFijo, PasoDespacha, PasoTermina, PasoSigue, PasoEspera, PasoToma,
        PasoCierra, EnInstruccion
  <2>2. CASE HiloFS
    BY <2>2, PasosFs DEF PasoAgrega, PasoDevuelve, EnInstruccion
  <2> QED
    BY <2>1, <2>2
<1>3. ASSUME NEW p \in Procesos, program_counter[p] < Len(programa[p]),
             Avanza(p), NEW q \in Procesos
      PROVE  program_counter'[q] <= Len(programa[q])
  <2>1. /\ Len(programa[q]) \in Nat /\ program_counter[q] \in Nat
        /\ program_counter[q] <= Len(programa[q])
    BY ProgramasAssumption DEF Inv, Tipos, EnPrograma
  <2>2. /\ program_counter'[p] = program_counter[p] + 1
        /\ q # p => program_counter'[q] = program_counter[q]
    BY <1>3, AvanzaSolo DEF Inv, Tipos
  <2> QED
    BY <1>3, <2>1, <2>2
<1> QED
  BY <1>1, <1>2, <1>3 DEF EnPrograma, Inv

-----------------------------------------------------------------------------
(* What each process opened and closed.                                    *)

\* The instructions done are finitely many.
LEMMA HastaFinito ==
    ASSUME NEW c, NEW k \in Nat, NEW N, NEW f
    PROVE  /\ IsFiniteSet(Hasta(c, k, N, f))
           /\ Cardinality(Hasta(c, k, N, f)) \in Nat
<1>1. IsFiniteSet(1..k)
  BY FS_Interval
<1>2. Hasta(c, k, N, f) \subseteq 1..k
  BY DEF Hasta
<1>3. IsFiniteSet(Hasta(c, k, N, f))
  BY <1>1, <1>2, FS_Subset
<1> QED
  BY <1>3, FS_CardinalityType

\* One more instruction is done: it is counted if it is of the kind.
LEMMA HastaOtra ==
    ASSUME NEW c, NEW k \in Nat, NEW N, NEW f
    PROVE  Cardinality(Hasta(c, k + 1, N, f)) =
               Cardinality(Hasta(c, k, N, f))
                   + Uno(c[k + 1].nombre \in N /\ c[k + 1].parametro1 = f)
<1> DEFINE S == Hasta(c, k, N, f)
           T == Hasta(c, k + 1, N, f)
<1>1. IsFiniteSet(S) /\ Cardinality(S) \in Nat
  BY HastaFinito
<1>2. k + 1 \notin S
  BY DEF Hasta
<1>3. \A i : i \in 1..(k + 1) <=> i \in 1..k \/ i = k + 1
  OBVIOUS
<1>4. CASE c[k + 1].nombre \in N /\ c[k + 1].parametro1 = f
  <2>1. T = S \cup {k + 1}
    BY <1>3, <1>4 DEF Hasta
  <2>2. Cardinality(S \cup {k + 1}) = Cardinality(S) + 1
    BY <1>1, <1>2, FS_AddElement
  <2> QED
    BY <1>4, <2>1, <2>2 DEF Uno
<1>5. CASE ~ (c[k + 1].nombre \in N /\ c[k + 1].parametro1 = f)
  <2>1. T = S
    BY <1>3, <1>5 DEF Hasta
  <2> QED
    BY <1>1, <1>5, <2>1 DEF Uno
<1> QED
  BY <1>4, <1>5

\* A process has the file when it opened it more often than it closed it.
LEMMA CuentasTipo ==
    ASSUME Tipos, NEW q \in Procesos, NEW f
    PROVE  /\ Abiertas(q, f) \in Nat /\ Cerradas(q, f) \in Nat
           /\ Tiene(q, f) <=> Abiertas(q, f) > Cerradas(q, f)
<1>1. program_counter[q] \in Nat
  BY DEF Tipos
<1>2. Abiertas(q, f) \in Nat /\ Cerradas(q, f) \in Nat
  BY <1>1, HastaFinito DEF Abiertas, Cerradas, Hechas
<1> QED
  BY <1>2 DEF Tiene, Abiertas, Cerradas

\* A process that does not advance opens and closes nothing.
LEMMA CuentasQuietas ==
    ASSUME UNCHANGED programa, NEW q,
           program_counter'[q] = program_counter[q]
    PROVE  \A f : /\ Abiertas(q, f)' = Abiertas(q, f)
                  /\ Cerradas(q, f)' = Cerradas(q, f)
                  /\ Tiene(q, f)' <=> Tiene(q, f)
  BY DEF Abiertas, Cerradas, Tiene, Hechas

\* The instruction a process completes is the only one counted anew.
LEMMA CuentasAvanzan ==
    ASSUME Tipos, UNCHANGED programa, NEW p \in Procesos, NEW N,
           EnInstruccion(p, N), Avanza(p), NEW q \in Procesos, NEW f
    PROVE  /\ Abiertas(q, f)' = Abiertas(q, f)
                  + Uno(/\ q = p /\ Pendiente(p).nombre = "F_OPEN"
                        /\ Archivo(p) = f)
           /\ Cerradas(q, f)' = Cerradas(q, f)
                  + Uno(/\ q = p /\ Pendiente(p).nombre = "F_CLOSE"
                        /\ Archivo(p) = f)
           /\ Tiene(q, f)' <=> Abiertas(q, f)' > Cerradas(q, f)'
<1>1. /\ program_counter'[p] = program_counter[p] + 1
      /\ q # p => program_counter'[q] = program_counter[q]
      /\ program_counter[p] \in Nat
  BY AvanzaSolo DEF Tipos
<1>2. Abiertas(q, f) \in Nat /\ Cerradas(q, f) \in Nat
  BY CuentasTipo
<1>3. Tiene(q, f)' <=> Abiertas(q, f)' > Cerradas(q, f)'
  BY DEF Tiene, Abiertas, Cerradas
<1>4. CASE q # p
  BY <1>1, <1>2, <1>3, <1>4, CuentasQuietas DEF Uno
<1>5. CASE q = p
  <2> DEFINE c == programa[p]
             k == program_counter[p]
  <2>1. \A M : Cardinality(Hasta(c, k + 1, M, f)) =
                   Cardinality(Hasta(c, k, M, f))
                       + Uno(c[k + 1].nombre \in M /\ c[k + 1].parametro1 = f)
    BY <1>1, HastaOtra
  <2>2. /\ Abiertas(p, f)' = Cardinality(Hasta(c, k + 1, {"F_OPEN"}, f))
        /\ Cerradas(p, f)' = Cardinality(Hasta(c, k + 1, {"F_CLOSE"}, f))
    BY <1>1 DEF Abiertas, Cerradas, Hechas
  <2>3. /\ Abiertas(p, f) = Cardinality(Hasta(c, k, {"F_OPEN"}, f))
        /\ Cerradas(p, f) = Cardinality(Hasta(c, k, {"F_CLOSE"}, f))
    BY DEF Abiertas, Cerradas, Hechas
  <2>4. /\ Uno(c[k + 1].nombre \in {"F_OPEN"} /\ c[k + 1].parametro1 = f)
             = Uno(Pendiente(p).nombre = "F_OPEN" /\ Archivo(p) = f)
        /\ Uno(c[k + 1].nombre \in {"F_CLOSE"} /\ c[k + 1].parametro1 = f)
             = Uno(Pendiente(p).nombre = "F_CLOSE" /\ Archivo(p) = f)
    BY DEF Pendiente, Archivo, Uno
  <2> HIDE DEF c, k
  <2>5. /\ Abiertas(p, f)' = Abiertas(p, f)
              + Uno(Pendiente(p).nombre = "F_OPEN" /\ Archivo(p) = f)
        /\ Cerradas(p, f)' = Cerradas(p, f)
              + Uno(Pendiente(p).nombre = "F_CLOSE" /\ Archivo(p) = f)
    BY <2>1, <2>2, <2>3, <2>4
  <2> QED
    BY <1>3, <1>5, <2>5 DEF Uno
<1> QED
  BY <1>4, <1>5

\* An instruction that neither opens nor closes.
LEMMA CuentasDeOtra ==
    ASSUME Tipos, UNCHANGED programa, NEW p \in Procesos, NEW N,
           EnInstruccion(p, N), "F_OPEN" \notin N, "F_CLOSE" \notin N,
           Avanza(p), NEW q \in Procesos
    PROVE  \A f : /\ Abiertas(q, f)' = Abiertas(q, f)
                  /\ Cerradas(q, f)' = Cerradas(q, f)
                  /\ Tiene(q, f)' <=> Tiene(q, f)
<1> SUFFICES ASSUME NEW f
             PROVE  /\ Abiertas(q, f)' = Abiertas(q, f)
                    /\ Cerradas(q, f)' = Cerradas(q, f)
                    /\ Tiene(q, f)' <=> Tiene(q, f)
  OBVIOUS
<1>1. Pendiente(p).nombre # "F_OPEN" /\ Pendiente(p).nombre # "F_CLOSE"
  BY DEF EnInstruccion
<1>2. Abiertas(q, f) \in Nat /\ Cerradas(q, f) \in Nat
      /\ (Tiene(q, f) <=> Abiertas(q, f) > Cerradas(q, f))
  BY CuentasTipo
<1>3. /\ Abiertas(q, f)' = Abiertas(q, f) + 0
      /\ Cerradas(q, f)' = Cerradas(q, f) + 0
      /\ Tiene(q, f)' <=> Abiertas(q, f)' > Cerradas(q, f)'
  BY <1>1, CuentasAvanzan DEF Uno
<1> QED
  BY <1>2, <1>3

Uso == UnaVez /\ UnDueno /\ DuenoEnTabla /\ EnUsoConDueno

\* A file is in the table once.
LEMMA NombresNext ==
    ASSUME Inv, HiloCPU \/ HiloFS
    PROVE  NombresUnicos'
<1>0. tabla_global \in Seq(Entradas) /\ NombresUnicos /\ Tipos
  BY DEF Inv, Tipos
<1>1. ASSUME DOMAIN tabla_global' = DOMAIN tabla_global,
             \A k \in DOMAIN tabla_global :
                 tabla_global'[k].nombre = tabla_global[k].nombre
      PROVE  NombresUnicos'
  BY <1>0, <1>1 DEF NombresUnicos
<1>2. ASSUME NEW i \in DOMAIN tabla_global, EfectoQuita(i)
      PROVE  NombresUnicos'
  <2> DEFINE v(k) == IF k < i THEN k ELSE k + 1
  <2>1. /\ DOMAIN tabla_global' = 1..(Len(tabla_global) - 1)
        /\ Len(tabla_global) \in Nat /\ i \in 1..Len(tabla_global)
    <3>1. /\ tabla_global' \in Seq(Entradas)
          /\ Len(tabla_global') = Len(tabla_global) - 1
      BY <1>2 DEF EfectoQuita
    <3> QED
      BY <1>0, <3>1
  <2>2. \A k \in DOMAIN tabla_global' :
           v(k) \in DOMAIN tabla_global /\ tabla_global'[k] = tabla_global[v(k)]
    BY <1>2 DEF EfectoQuita
  <2>3. \A a, b \in DOMAIN tabla_global' : v(a) = v(b) => a = b
    BY <2>1
  <2> HIDE DEF v
  <2> QED
    BY <1>0, <2>2, <2>3 DEF NombresUnicos
<1>3. ASSUME NEW s \in Procesos, PasoAgrega(s)
      PROVE  NombresUnicos'
  <2> DEFINE n == Len(tabla_global)
  <2>1. /\ n \in Nat /\ DOMAIN tabla_global = 1..n
        /\ DOMAIN tabla_global' = 1..(n + 1)
        /\ \A k \in 1..n : tabla_global'[k] = tabla_global[k]
        /\ tabla_global'[n + 1].nombre = Archivo(s)
    BY <1>0, <1>3 DEF PasoAgrega
  <2>2. \A k \in 1..n : tabla_global[k].nombre # Archivo(s)
    BY <1>3, <2>1 DEF PasoAgrega, EnTabla
  <2>4. \A k \in 1..(n + 1) : k \in 1..n \/ k = n + 1
    BY <2>1
  <2> HIDE DEF n
  <2>5. \A a, b \in DOMAIN tabla_global' :
           tabla_global'[a].nombre = tabla_global'[b].nombre => a = b
    BY <1>0, <2>1, <2>2, <2>4 DEF NombresUnicos
  <2> QED
    BY <2>5 DEF NombresUnicos
<1>4. CASE HiloCPU
  <2>1. \/ UNCHANGED tabla_global
        \/ \E i \in DOMAIN tabla_global :
              \/ \E p \in Procesos : EfectoEspera(p, i)
              \/ EfectoToma(i) \/ EfectoQuita(i) \/ EfectoLibera(i)
    BY <1>4, CpuTabla
  <2> QED
    BY <1>1, <1>2, <2>1 DEF EfectoEspera, EfectoToma, EfectoLibera
<1>5. CASE HiloFS
  BY <1>5, <1>1, <1>3, PasosFs DEF PasoDevuelve
<1> QED
  BY <1>4, <1>5

\* The counts are as they were, and so are the entries in use.
LEMMA UsoIgual ==
    ASSUME Inv, HiloCPU \/ HiloFS,
           \A q \in Procesos : \A f :
               /\ Abiertas(q, f)' = Abiertas(q, f)
               /\ Cerradas(q, f)' = Cerradas(q, f)
               /\ Tiene(q, f)' <=> Tiene(q, f),
           \A k \in DOMAIN tabla_global :
               /\ k \in DOMAIN tabla_global'
               /\ tabla_global'[k].nombre = tabla_global[k].nombre
               /\ tabla_global'[k].bit_de_uso = tabla_global[k].bit_de_uso,
           \A k \in DOMAIN tabla_global' :
               tabla_global'[k].bit_de_uso = 1 => k \in DOMAIN tabla_global
    PROVE  Uso'
<1>0. \A f : CerradoSinTener(f) => CerradoSinTener(f)'
  BY CpuNoTocaFs, FsNoTocaCpu, CerradoSigue
<1>1. UnaVez' /\ UnDueno'
  BY <1>0 DEF Inv, UnaVez, UnDueno
<1>2. DuenoEnTabla'
  BY <1>0 DEF Inv, DuenoEnTabla
<1>3. EnUsoConDueno'
  <2> SUFFICES ASSUME NEW k \in DOMAIN tabla_global',
                      tabla_global'[k].bit_de_uso = 1,
                      NEW g, g = tabla_global'[k].nombre
               PROVE  CerradoSinTener(g)' \/ \E p \in Procesos : Tiene(p, g)'
    BY DEF EnUsoConDueno, Tiene, Hechas, CerradoSinTener
  <2> QED
    BY <1>0 DEF Inv, EnUsoConDueno
<1> QED
  BY <1>1, <1>2, <1>3 DEF Uso

\* While every F_CLOSE of a file was of a process that had it, none closed it
\* more often than it opened it.
LEMMA CierraLoSuyo ==
    ASSUME Tipos, NEW q \in Procesos, NEW f, ~ CerradoSinTener(f)
    PROVE  Cerradas(q, f) <= Abiertas(q, f)
<1>1. program_counter[q] \in Nat
  BY DEF Tipos
<1>2. CASE program_counter[q] = 0
  <2>1. Hechas(q, {"F_OPEN"}, f) = {} /\ Hechas(q, {"F_CLOSE"}, f) = {}
    BY <1>2 DEF Hechas, Hasta
  <2> QED
    BY <2>1, FS_EmptySet DEF Abiertas, Cerradas
<1>3. CASE program_counter[q] # 0
  <2>1. program_counter[q] \in 1..program_counter[q]
    BY <1>1, <1>3
  <2>2. Abiertas(q, f) \in Nat /\ Cerradas(q, f) \in Nat
    BY CuentasTipo
  <2>3. ~ (Cerradas(q, f) > Abiertas(q, f))
    BY <2>1 DEF CerradoSinTener, Abiertas, Cerradas, Hechas
  <2> QED
    BY <2>2, <2>3
<1> QED
  BY <1>2, <1>3

\* Opening a file nobody has gives it to one process.
LEMMA UsoToma ==
    ASSUME Inv, UNCHANGED programa, HiloCPU \/ HiloFS,
           NEW p \in Procesos, NEW i \in DOMAIN tabla_global, PasoToma(p, i)
    PROVE  Uso'
<1>m. \A g : CerradoSinTener(g) => CerradoSinTener(g)'
  BY CerradoSigue
<1> DEFINE f == tabla_global[i].nombre
<1>0. /\ Tipos /\ f = Archivo(p) /\ EnInstruccion(p, {"F_OPEN"}) /\ Avanza(p)
      /\ Pendiente(p).nombre = "F_OPEN" /\ f \in Archivos
  BY ColaTipo DEF Inv, PasoToma, EnInstruccion, Tipos
<1>1. /\ DOMAIN tabla_global' = DOMAIN tabla_global
      /\ \A k \in DOMAIN tabla_global :
            /\ tabla_global'[k].nombre = tabla_global[k].nombre
            /\ k # i => tabla_global'[k].bit_de_uso = tabla_global[k].bit_de_uso
      /\ tabla_global[i].bit_de_uso = 0 /\ tabla_global'[i].bit_de_uso = 1
  BY DEF PasoToma, EfectoToma
<1>2. CerradoSinTener(f) \/ \A q \in Procesos : ~ Tiene(q, f)
  BY <1>0, <1>1 DEF Inv, DuenoEnTabla, NombresUnicos
<1> HIDE DEF f
<1>3. ASSUME NEW q \in Procesos, NEW g \in Archivos,
             ~ CerradoSinTener(g)'
      PROVE  /\ Abiertas(q, g)' <= Cerradas(q, g)' + 1
             /\ Tiene(q, g)' <=> Tiene(q, g) \/ (q = p /\ g = f)
  <2>1. /\ Abiertas(q, g) \in Nat /\ Cerradas(q, g) \in Nat
        /\ Tiene(q, g) <=> Abiertas(q, g) > Cerradas(q, g)
    BY <1>0, CuentasTipo
  <2>2. /\ Abiertas(q, g)' = Abiertas(q, g) + Uno(q = p /\ f = g)
        /\ Cerradas(q, g)' = Cerradas(q, g) + 0
        /\ Tiene(q, g)' <=> Abiertas(q, g)' > Cerradas(q, g)'
    BY <1>0, CuentasAvanzan DEF Uno
  <2>3. Abiertas(q, g) <= Cerradas(q, g) + 1
    BY <1>m, <1>3 DEF Inv, UnaVez
  <2>4. CASE q = p /\ g = f
    <3>1. ~ CerradoSinTener(f) /\ ~ Tiene(q, g)
      BY <1>m, <1>2, <1>3, <2>4
    <3>2. Abiertas(q, g)' = Abiertas(q, g) + 1
      BY <2>2, <2>4 DEF Uno
    <3>3. Cerradas(q, g) <= Abiertas(q, g)
      BY <1>0, <2>4, <3>1, CierraLoSuyo
    <3> QED
      BY <2>1, <2>2, <2>4, <3>1, <3>2, <3>3
  <2>5. CASE ~ (q = p /\ g = f)
    <3>1. Abiertas(q, g)' = Abiertas(q, g) + 0
      BY <2>2, <2>5 DEF Uno
    <3> QED
      BY <2>1, <2>2, <2>3, <2>5, <3>1
  <2> QED
    BY <2>4, <2>5
<1>4. UnaVez'
  BY <1>3 DEF UnaVez
<1>5. UnDueno'
  BY <1>m, <1>2, <1>3 DEF UnDueno, Inv
<1>6. DuenoEnTabla'
  <2> SUFFICES ASSUME NEW q \in Procesos, NEW g \in Archivos, Tiene(q, g)',
                      ~ CerradoSinTener(g)'
               PROVE  \E k \in DOMAIN tabla_global' :
                         /\ tabla_global'[k].nombre = g
                         /\ tabla_global'[k].bit_de_uso = 1
    BY DEF DuenoEnTabla
  <2>1. CASE q = p /\ g = f
    BY <1>1, <2>1 DEF f
  <2>2. CASE Tiene(q, g)
    <3>1. PICK k \in DOMAIN tabla_global : /\ tabla_global[k].nombre = g
                                           /\ tabla_global[k].bit_de_uso = 1
      BY <1>m, <2>2 DEF Inv, DuenoEnTabla
    <3>2. k # i
      BY <1>1, <3>1
    <3> QED
      BY <1>1, <3>1, <3>2
  <2> QED
    BY <1>3, <2>1, <2>2
<1>7. EnUsoConDueno'
  <2> SUFFICES ASSUME NEW k \in DOMAIN tabla_global,
                      tabla_global'[k].bit_de_uso = 1,
                      NEW g, g = tabla_global[k].nombre,
                      ~ CerradoSinTener(g)'
               PROVE  \E q \in Procesos : Tiene(q, g)'
    BY <1>1 DEF EnUsoConDueno, Tiene, Hechas, CerradoSinTener
  <2>0. g \in Archivos
    BY <1>0, ColaTipo DEF Tipos
  <2>1. CASE k = i
    BY <1>3, <2>0, <2>1 DEF f
  <2>2. CASE k # i
    <3>1. PICK q \in Procesos : Tiene(q, g)
      BY <1>m, <1>1, <2>2 DEF Inv, EnUsoConDueno
    <3> QED
      BY <1>3, <2>0, <3>1
  <2> QED
    BY <2>1, <2>2
<1> QED
  BY <1>4, <1>5, <1>6, <1>7 DEF Uso

\* Unless it had been closed by a process without it, or is so now, a process
\* that closes a file has it, and nobody has it afterwards.
LEMMA CierraLoQueTiene ==
    ASSUME Inv, UNCHANGED programa, HiloCPU \/ HiloFS, NEW p \in Procesos,
           EnInstruccion(p, {"F_CLOSE"}), Avanza(p),
           NEW f \in Archivos, f = Archivo(p),
           NEW g \in Archivos, ~ CerradoSinTener(g)'
    PROVE  /\ g = f => Tiene(p, f)
           /\ \A q \in Procesos :
                 /\ Abiertas(q, g)' <= Cerradas(q, g)' + 1
                 /\ Tiene(q, g)' <=> Tiene(q, g) /\ g # f
<1>0. Tipos /\ Pendiente(p).nombre = "F_CLOSE" /\ ~ CerradoSinTener(g)
  BY CerradoSigue DEF Inv, EnInstruccion
<1>1. ASSUME NEW q \in Procesos
      PROVE  /\ Abiertas(q, g) \in Nat /\ Cerradas(q, g) \in Nat
             /\ Tiene(q, g) <=> Abiertas(q, g) > Cerradas(q, g)
             /\ Abiertas(q, g) <= Cerradas(q, g) + 1
             /\ Abiertas(q, g)' = Abiertas(q, g) + 0
             /\ Cerradas(q, g)' = Cerradas(q, g) + Uno(q = p /\ f = g)
             /\ Tiene(q, g)' <=> Abiertas(q, g)' > Cerradas(q, g)'
  <2>1. /\ Abiertas(q, g) \in Nat /\ Cerradas(q, g) \in Nat
        /\ Tiene(q, g) <=> Abiertas(q, g) > Cerradas(q, g)
    BY <1>0, CuentasTipo
  <2>2. Abiertas(q, g) <= Cerradas(q, g) + 1
    BY <1>0 DEF Inv, UnaVez
  <2>3. /\ Abiertas(q, g)' = Abiertas(q, g) + 0
        /\ Cerradas(q, g)' = Cerradas(q, g) + Uno(q = p /\ f = g)
        /\ Tiene(q, g)' <=> Abiertas(q, g)' > Cerradas(q, g)'
    BY <1>0, CuentasAvanzan DEF Uno
  <2> QED
    BY <2>1, <2>2, <2>3
<1>2. ASSUME g = f
      PROVE  Tiene(p, f)
  <2> PICK k \in {program_counter[p] + 1} : TRUE
    OBVIOUS
  <2>1. program_counter'[p] = k /\ k \in 1..k
    BY <1>0, AvanzaSolo DEF Tipos
  <2>2. ~ (Cerradas(p, g)' > Abiertas(p, g)')
    BY <2>1 DEF CerradoSinTener, Abiertas, Cerradas, Hechas
  <2>3. /\ Abiertas(p, g) \in Nat /\ Cerradas(p, g) \in Nat
        /\ Abiertas(p, g)' = Abiertas(p, g) + 0
        /\ Cerradas(p, g)' = Cerradas(p, g) + 1
        /\ Tiene(p, g) <=> Abiertas(p, g) > Cerradas(p, g)
    BY <1>1, <1>2 DEF Uno
  <2>4. Tiene(p, g)
    BY <2>2, <2>3
  <2> QED
    BY <1>2, <2>4
<1>3. ASSUME NEW q \in Procesos
      PROVE  /\ Abiertas(q, g)' <= Cerradas(q, g)' + 1
             /\ Tiene(q, g)' <=> Tiene(q, g) /\ g # f
  <2>1. CASE q = p /\ g = f
    <3>1. Cerradas(q, g)' = Cerradas(q, g) + 1
      BY <1>1, <2>1 DEF Uno
    <3> QED
      BY <1>1, <2>1, <3>1
  <2>2. CASE ~ (q = p /\ g = f)
    <3>1. Cerradas(q, g)' = Cerradas(q, g) + 0
      BY <1>1, <2>2 DEF Uno
    <3>2. g = f => ~ Tiene(q, g)
      BY <1>0, <1>2, <2>2 DEF Inv, UnDueno
    <3> QED
      BY <1>1, <3>1, <3>2
  <2> QED
    BY <2>1, <2>2
<1> QED
  BY <1>2, <1>3

\* Closing a file frees it, whoever waits for it: the bit is cleared and
\* the one woken must take it again.
LEMMA UsoCierra ==
    ASSUME Inv, UNCHANGED programa, HiloCPU \/ HiloFS,
           NEW p \in Procesos, NEW i \in DOMAIN tabla_global, PasoCierra(p, i)
    PROVE  Uso'
<1>m. \A g : CerradoSinTener(g) => CerradoSinTener(g)'
  BY CerradoSigue
<1> DEFINE f == tabla_global[i].nombre
<1>0. /\ f = Archivo(p) /\ f \in Archivos
      /\ EnInstruccion(p, {"F_CLOSE"}) /\ Avanza(p)
      /\ tabla_global \in Seq(Entradas) /\ NombresUnicos
  BY ColaTipo DEF Inv, Tipos, PasoCierra
<1>1. \A q \in Procesos, g \in Archivos : ~ CerradoSinTener(g)' =>
         /\ Abiertas(q, g)' <= Cerradas(q, g)' + 1
         /\ Tiene(q, g)' <=> Tiene(q, g) /\ g # f
  BY <1>0, CierraLoQueTiene
<1>2. /\ \A k \in DOMAIN tabla_global : k # i =>
            \E l \in DOMAIN tabla_global' :
               /\ tabla_global'[l].nombre = tabla_global[k].nombre
               /\ tabla_global'[l].bit_de_uso = tabla_global[k].bit_de_uso
      /\ \A l \in DOMAIN tabla_global' : tabla_global'[l].bit_de_uso = 1 =>
            \E k \in DOMAIN tabla_global :
               /\ tabla_global[k].bit_de_uso = 1 /\ k # i
               /\ tabla_global'[l].nombre = tabla_global[k].nombre
  <2>1. CASE EfectoQuita(i)
    <3> DEFINE n == Len(tabla_global)
    <3>1. /\ DOMAIN tabla_global' = 1..(n - 1)
          /\ n \in Nat /\ i \in 1..n /\ DOMAIN tabla_global = 1..n
          /\ \A k \in 1..(n - 1) :
                /\ k < i => tabla_global'[k] = tabla_global[k]
                /\ ~ (k < i) => tabla_global'[k] = tabla_global[k + 1]
      <4>1. tabla_global' \in Seq(Entradas) /\ Len(tabla_global') = n - 1
        BY <2>1 DEF EfectoQuita
      <4> QED
        BY <1>0, <2>1, <4>1 DEF EfectoQuita
    <3> HIDE DEF n
    <3>2. ASSUME NEW k \in DOMAIN tabla_global, k # i
          PROVE  \E l \in DOMAIN tabla_global' :
                    tabla_global'[l] = tabla_global[k]
      <4>1. CASE k < i
        BY <3>1, <4>1
      <4>2. CASE ~ (k < i)
        <5>1. /\ k - 1 \in 1..(n - 1) /\ ~ (k - 1 < i)
              /\ (k - 1) + 1 = k
          BY <3>1, <3>2, <4>2
        <5> QED
          BY <3>1, <5>1
      <4> QED
        BY <4>1, <4>2
    <3>3. ASSUME NEW l \in DOMAIN tabla_global'
          PROVE  \E k \in DOMAIN tabla_global :
                    k # i /\ tabla_global'[l] = tabla_global[k]
      <4>1. CASE l < i
        BY <3>1, <4>1
      <4>2. CASE ~ (l < i)
        <5>1. l + 1 \in 1..n /\ l + 1 # i
          BY <3>1, <4>2
        <5> QED
          BY <3>1, <4>2, <5>1
      <4> QED
        BY <4>1, <4>2
    <3>4. \A k \in DOMAIN tabla_global : k # i =>
             \E l \in DOMAIN tabla_global' :
                /\ tabla_global'[l].nombre = tabla_global[k].nombre
                /\ tabla_global'[l].bit_de_uso = tabla_global[k].bit_de_uso
      BY <3>2
    <3>5. \A l \in DOMAIN tabla_global' : tabla_global'[l].bit_de_uso = 1 =>
             \E k \in DOMAIN tabla_global :
                /\ tabla_global[k].bit_de_uso = 1 /\ k # i
                /\ tabla_global'[l].nombre = tabla_global[k].nombre
      BY <3>3
    <3> QED
      BY <3>4, <3>5
  <2>2. CASE EfectoLibera(i)
    BY <2>2 DEF EfectoLibera
  <2> QED
    BY <2>1, <2>2 DEF PasoCierra
<1> HIDE DEF f
<1>3. UnaVez' /\ UnDueno'
  BY <1>m, <1>1 DEF UnaVez, UnDueno, Inv
<1>4. DuenoEnTabla'
  <2> SUFFICES ASSUME NEW q \in Procesos, NEW g \in Archivos, Tiene(q, g)',
                      ~ CerradoSinTener(g)'
               PROVE  \E l \in DOMAIN tabla_global' :
                         /\ tabla_global'[l].nombre = g
                         /\ tabla_global'[l].bit_de_uso = 1
    BY DEF DuenoEnTabla
  <2>1. Tiene(q, g) /\ g # f
    BY <1>1
  <2>2. PICK k \in DOMAIN tabla_global : /\ tabla_global[k].nombre = g
                                         /\ tabla_global[k].bit_de_uso = 1
    BY <1>m, <2>1 DEF Inv, DuenoEnTabla
  <2>3. k # i
    BY <2>1, <2>2 DEF f
  <2> QED
    BY <1>2, <2>2, <2>3
<1>5. EnUsoConDueno'
  <2> SUFFICES ASSUME NEW l \in DOMAIN tabla_global',
                      tabla_global'[l].bit_de_uso = 1,
                      NEW g, g = tabla_global'[l].nombre,
                      ~ CerradoSinTener(g)'
               PROVE  \E q \in Procesos : Tiene(q, g)'
    BY DEF EnUsoConDueno, Tiene, Hechas, CerradoSinTener
  <2>1. PICK k \in DOMAIN tabla_global :
           /\ tabla_global[k].bit_de_uso = 1 /\ k # i
           /\ g = tabla_global[k].nombre
    BY <1>2
  <2>2. g # f /\ g \in Archivos
    BY <1>0, <2>1, ColaTipo DEF NombresUnicos, f
  <2>3. PICK q \in Procesos : Tiene(q, g)
    BY <1>m, <2>1 DEF Inv, EnUsoConDueno
  <2> QED
    BY <1>1, <2>2, <2>3
<1> QED
  BY <1>3, <1>4, <1>5 DEF Uso

\* The counts of F_OPEN and F_CLOSE agree with the table after any step.
LEMMA UsoNext ==
    ASSUME Inv, HiloCPU \/ HiloFS
    PROVE  Uso'
<1>0. Tipos /\ UNCHANGED programa
  BY CpuNoTocaFs, FsNoTocaCpu DEF Inv
<1>1. ASSUME UNCHANGED program_counter
      PROVE  \A q \in Procesos : \A f :
               /\ Abiertas(q, f)' = Abiertas(q, f)
               /\ Cerradas(q, f)' = Cerradas(q, f)
               /\ Tiene(q, f)' <=> Tiene(q, f)
  BY <1>0, <1>1, CuentasQuietas
<1>2. CASE UNCHANGED program_counter /\ UNCHANGED tabla_global
  BY <1>1, <1>2, UsoIgual
<1>3. ASSUME NEW p \in Procesos, NEW i \in DOMAIN tabla_global,
             PasoEspera(p, i)
      PROVE  Uso'
  <2>1. /\ \A k \in DOMAIN tabla_global :
              /\ k \in DOMAIN tabla_global'
              /\ tabla_global'[k].nombre = tabla_global[k].nombre
              /\ tabla_global'[k].bit_de_uso = tabla_global[k].bit_de_uso
        /\ DOMAIN tabla_global' = DOMAIN tabla_global
    BY <1>3 DEF PasoEspera, EfectoEspera
  <2>2. UNCHANGED program_counter
    BY <1>3 DEF PasoEspera
  <2> QED
    BY <1>1, <2>1, <2>2, UsoIgual
<1>4. ASSUME NEW p \in Procesos, PasoSigue(p) \/ PasoDevuelve(p)
      PROVE  Uso'
  <2>1. /\ Avanza(p) /\ UNCHANGED tabla_global
        /\ EnInstruccion(p, PorPosicion \cup {"F_SEEK", "CREATE_SEGMENT"})
    BY <1>4 DEF PasoSigue, PasoDevuelve, EnInstruccion
  <2>2. /\ "F_OPEN" \notin PorPosicion \cup {"F_SEEK", "CREATE_SEGMENT"}
        /\ "F_CLOSE" \notin PorPosicion \cup {"F_SEEK", "CREATE_SEGMENT"}
    BY DEF PorPosicion, Accesos
  <2>3. \A q \in Procesos : \A f :
           /\ Abiertas(q, f)' = Abiertas(q, f)
           /\ Cerradas(q, f)' = Cerradas(q, f)
           /\ Tiene(q, f)' <=> Tiene(q, f)
    BY <1>0, <2>1, <2>2, CuentasDeOtra
  <2> QED
    BY <2>1, <2>3, UsoIgual
<1>5. ASSUME NEW s \in Procesos, PasoAgrega(s)
      PROVE  Uso'
  <2> DEFINE n == Len(tabla_global)
  <2>1. /\ n \in Nat /\ DOMAIN tabla_global = 1..n
        /\ DOMAIN tabla_global' = 1..(n + 1)
        /\ \A k \in 1..n : tabla_global'[k] = tabla_global[k]
        /\ tabla_global'[n + 1].bit_de_uso = 0
        /\ UNCHANGED program_counter
    BY <1>0, <1>5 DEF PasoAgrega, Tipos
  <2>2. \A k \in 1..(n + 1) : k \in 1..n \/ k = n + 1
    BY <2>1
  <2>3. \A k \in 1..n : k \in 1..(n + 1)
    BY <2>1
  <2> HIDE DEF n
  <2>4. /\ \A k \in DOMAIN tabla_global :
              /\ k \in DOMAIN tabla_global'
              /\ tabla_global'[k].nombre = tabla_global[k].nombre
              /\ tabla_global'[k].bit_de_uso = tabla_global[k].bit_de_uso
        /\ \A k \in DOMAIN tabla_global' :
              tabla_global'[k].bit_de_uso = 1 => k \in DOMAIN tabla_global
    BY <2>1, <2>2, <2>3
  <2> QED
    BY <1>1, <2>1, <2>4, UsoIgual
<1>6. CASE HiloCPU
  BY <1>0, <1>2, <1>3, <1>4, <1>6, UsoToma, UsoCierra, PasosCpu
  DEF PasoFijo, PasoDespacha, PasoTermina, tablas
<1>7. CASE HiloFS
  BY <1>2, <1>4, <1>5, <1>7, PasosFs
<1> QED
  BY <1>6, <1>7

-----------------------------------------------------------------------------
(* Who is awake.                                                           *)

Despierto(f) ==
    \E p \in listos \cup EnCPU :
        EnInstruccion(p, {"F_OPEN"}) /\ Archivo(p) = f

\* Who is to open the file, and neither ran nor ended, still is.
LEMMA SigueDespierto ==
    ASSUME UNCHANGED programa, NEW q,
           program_counter'[q] = program_counter[q],
           q \in listos' \/ q \in EnCPU', EnInstruccion(q, {"F_OPEN"}),
           NEW f, f = Archivo(q)
    PROVE  Despierto(f)'
<1>1. EnInstruccion(q, {"F_OPEN"})' /\ Archivo(q)' = Archivo(q)
  BY Misma
<1> QED
  BY <1>1 DEF Despierto

\* Who was to open a file still is, unless some process took it or began to
\* wait.
LEMMA DespiertoNext ==
    ASSUME Inv, HiloCPU \/ HiloFS, NEW f, Despierto(f)
    PROVE  \/ Despierto(f)'
           \/ \E p \in Procesos : \E i \in DOMAIN tabla_global :
                 /\ PasoEspera(p, i) \/ PasoToma(p, i)
                 /\ tabla_global[i].nombre = f
<1> PICK q \in listos \cup EnCPU : EnInstruccion(q, {"F_OPEN"}) /\ Archivo(q) = f
  BY DEF Despierto
<1>0. /\ UNCHANGED programa /\ listos \subseteq Procesos
      /\ program_counter \in [Procesos -> Nat]
  BY CpuNoTocaFs, FsNoTocaCpu DEF Inv, Tipos
<1>1. q \in Procesos
  BY <1>0 DEF EnCPU, Inv, CpuEnOrden
<1>2. ASSUME program_counter'[q] = program_counter[q],
             q \in listos' \/ q \in EnCPU'
      PROVE  Despierto(f)'
  BY <1>0, <1>2, SigueDespierto
<1>e. EnCPU' = IF cpu' \in {"proceso_running", "puede_replanificar"} THEN {}
               ELSE {pcb_en_ejecucion'}
  BY DEF EnCPU
<1>3. ASSUME NEW p \in Procesos, EnManos(p), q # p
      PROVE  q \in listos
  BY <1>3 DEF EnManos, EnCPU
<1>4. CASE PasoFijo
  BY <1>2, <1>4 DEF PasoFijo
<1>5. ASSUME NEW p \in Procesos, PasoDespacha(p)
      PROVE  Despierto(f)'
  <2>1. q \in listos
    BY <1>5 DEF PasoDespacha, EnCPU
  <2>2. q \in listos' \/ q \in EnCPU'
    BY <1>5, <1>e, <2>1 DEF PasoDespacha
  <2> QED
    BY <1>2, <1>5, <2>2 DEF PasoDespacha
<1>6. ASSUME NEW p \in Procesos, PasoTermina(p)
      PROVE  Despierto(f)'
  <2>1. q # p
    BY <1>6 DEF PasoTermina, EnInstruccion
  <2> QED
    BY <1>2, <1>3, <1>6, <2>1 DEF PasoTermina
<1>7. ASSUME NEW p \in Procesos, EnManos(p), Avanza(p), listos \subseteq listos',
             q # p
      PROVE  Despierto(f)'
  <2>1. q \in listos' /\ program_counter'[q] = program_counter[q]
    BY <1>0, <1>1, <1>3, <1>7, AvanzaSolo
  <2> QED
    BY <1>2, <2>1
<1>8. ASSUME NEW p \in Procesos, PasoSigue(p)
      PROVE  Despierto(f)'
  BY <1>7, <1>8 DEF PasoSigue, EnInstruccion
<1>9. ASSUME NEW p \in Procesos, NEW i \in DOMAIN tabla_global,
             PasoCierra(p, i)
      PROVE  Despierto(f)'
  <2>1. q # p /\ listos \subseteq listos'
    BY <1>9 DEF PasoCierra, EnInstruccion, EfectoQuita, EfectoLibera
  <2> QED
    BY <1>7, <1>9, <2>1 DEF PasoCierra
<1>10. ASSUME NEW p \in Procesos, NEW i \in DOMAIN tabla_global,
              PasoToma(p, i), tabla_global[i].nombre # f
       PROVE  Despierto(f)'
  <2>1. q # p
    BY <1>10 DEF PasoToma
  <2> QED
    BY <1>7, <1>10, <2>1 DEF PasoToma
<1>11. ASSUME NEW p \in Procesos, NEW i \in DOMAIN tabla_global,
              PasoEspera(p, i), tabla_global[i].nombre # f
       PROVE  Despierto(f)'
  <2>1. q # p
    BY <1>11 DEF PasoEspera
  <2> QED
    BY <1>2, <1>3, <1>11, <2>1 DEF PasoEspera
<1>12. CASE HiloFS
  <2>1. EnCPU' = EnCPU
    BY <1>12, <1>e, FsNoTocaCpu DEF EnCPU
  <2>2. q \notin EnFS
    BY <1>1, EnUnoSolo
  <2>3. \/ UNCHANGED <<program_counter, listos>>
        \/ \E s \in Procesos : /\ s \in EnFS /\ Avanza(s)
                               /\ listos' = listos \cup {s}
    BY <1>12, PasosFs DEF PasoAgrega, PasoDevuelve
  <2>4. program_counter'[q] = program_counter[q]
    BY <1>0, <1>1, <2>2, <2>3, AvanzaSolo
  <2> QED
    BY <1>2, <2>1, <2>3, <2>4
<1>13. CASE HiloCPU
  BY <1>13, <1>4, <1>5, <1>6, <1>8, <1>9, <1>10, <1>11, PasosCpu
<1> QED
  BY <1>12, <1>13

\* After any step, a free file that is waited for has somebody awake who
\* will open it.
LEMMA DespiertanNext ==
    ASSUME Inv, HiloCPU \/ HiloFS
    PROVE  SinDespertarPerdido'
<1> SUFFICES ASSUME NEW a \in DOMAIN tabla_global',
                    tabla_global'[a].cola_esperando # <<>>,
                    NEW f, f = tabla_global'[a].nombre
             PROVE  tabla_global'[a].bit_de_uso = 1 \/ Despierto(f)'
  BY DEF SinDespertarPerdido, Despierto, Archivo
<1>0. /\ tabla_global \in Seq(Entradas) /\ NombresUnicos
      /\ UNCHANGED programa
  BY CpuNoTocaFs, FsNoTocaCpu DEF Inv, Tipos
<1>1. \A k \in DOMAIN tabla_global : Cola(k) # <<>> =>
         \/ tabla_global[k].bit_de_uso = 1
         \/ Despierto(tabla_global[k].nombre)
  BY DEF Inv, SinDespertarPerdido, Despierto, Cola, Archivo
<1>2. ASSUME NEW k \in DOMAIN tabla_global,
             tabla_global'[a] = tabla_global[k],
             \A p \in Procesos : \A i \in DOMAIN tabla_global :
                 PasoEspera(p, i) \/ PasoToma(p, i) =>
                     tabla_global[i].nombre # f
      PROVE  tabla_global'[a].bit_de_uso = 1 \/ Despierto(f)'
  <2>1. tabla_global[k].bit_de_uso = 1 \/ Despierto(f)
    BY <1>1, <1>2 DEF Cola
  <2> QED
    BY <1>2, <2>1, DespiertoNext
<1>3. CASE \E p \in Procesos : \E i \in DOMAIN tabla_global :
               PasoEspera(p, i) \/ PasoToma(p, i)
  <2> PICK p \in Procesos, i \in DOMAIN tabla_global :
             PasoEspera(p, i) \/ PasoToma(p, i)
    BY <1>3
  <2>1. /\ a \in DOMAIN tabla_global /\ f = tabla_global[a].nombre
        /\ a = i => tabla_global'[a].bit_de_uso = 1
        /\ a # i => /\ tabla_global'[a].cola_esperando = Cola(a)
                    /\ tabla_global'[a].bit_de_uso
                           = tabla_global[a].bit_de_uso
    BY DEF PasoEspera, PasoToma, EfectoEspera, EfectoToma
  <2>2. CASE a # i
    <3>1. tabla_global[a].bit_de_uso = 1 \/ Despierto(f)
      BY <1>1, <2>1, <2>2
    <3>2. f # tabla_global[i].nombre
      BY <1>0, <2>1, <2>2 DEF NombresUnicos
    <3>3. ASSUME NEW r \in Procesos, NEW k \in DOMAIN tabla_global,
                 PasoEspera(r, k) \/ PasoToma(r, k)
          PROVE  tabla_global[k].nombre = tabla_global[i].nombre
      BY <3>3 DEF PasoEspera, PasoToma, EnManos
    <3> QED
      BY <2>1, <2>2, <3>1, <3>2, <3>3, DespiertoNext
  <2> QED
    BY <2>1, <2>2
<1>4. CASE ~ \E p \in Procesos : \E i \in DOMAIN tabla_global :
                 PasoEspera(p, i) \/ PasoToma(p, i)
  <2>1. CASE UNCHANGED tabla_global
    BY <1>2, <1>4, <2>1
  <2>2. ASSUME NEW p \in Procesos, NEW i \in DOMAIN tabla_global,
               PasoCierra(p, i)
        PROVE  tabla_global'[a].bit_de_uso = 1 \/ Despierto(f)'
    <3>1. CASE EfectoQuita(i)
      <4> DEFINE k == IF a < i THEN a ELSE a + 1
      <4>1. k \in DOMAIN tabla_global /\ tabla_global'[a] = tabla_global[k]
        BY <3>1 DEF EfectoQuita
      <4> HIDE DEF k
      <4> QED
        BY <1>2, <1>4, <4>1
    <3>2. CASE EfectoLibera(i)
      <4>1. /\ a \in DOMAIN tabla_global /\ f = tabla_global[a].nombre
            /\ a # i => /\ tabla_global'[a].cola_esperando = Cola(a)
                        /\ tabla_global'[a].bit_de_uso
                               = tabla_global[a].bit_de_uso
            /\ Cola(i) # <<>> /\ listos' = listos \cup {Cola(i)[1]}
        BY <3>2 DEF EfectoLibera
      <4>2. CASE a # i
        <5>1. tabla_global[a].bit_de_uso = 1 \/ Despierto(f)
          BY <1>1, <4>1, <4>2
        <5> QED
          BY <1>4, <4>1, <4>2, <5>1, DespiertoNext
      <4>3. CASE a = i
        <5> PICK h \in Procesos : h = Cola(i)[1] /\ EnCola(h)
          BY <1>0, <3>2, ColaLibera DEF Inv
        <5>1. 1 \in DOMAIN Cola(i)
          BY <1>0, <4>1, ColaTipo
        <5>2. EnInstruccion(h, {"F_OPEN"}) /\ Archivo(h) = f
          BY <4>1, <4>3, <5>1 DEF Inv, EsperaSuArchivo
        <5>3. program_counter'[h] = program_counter[h]
          BY EnUnoSolo, PcQuieto
        <5> QED
          BY <1>0, <4>1, <5>2, <5>3, SigueDespierto
      <4> QED
        BY <4>2, <4>3
    <3> QED
      BY <2>2, <3>1, <3>2 DEF PasoCierra
  <2>3. ASSUME NEW s \in Procesos, PasoAgrega(s)
        PROVE  tabla_global'[a].bit_de_uso = 1 \/ Despierto(f)'
    <3> DEFINE n == Len(tabla_global)
    <3>1. /\ n \in Nat /\ DOMAIN tabla_global = 1..n
          /\ DOMAIN tabla_global' = 1..(n + 1)
          /\ \A k \in 1..n : tabla_global'[k] = tabla_global[k]
          /\ tabla_global'[n + 1].cola_esperando = <<>>
      BY <1>0, <2>3 DEF PasoAgrega
    <3>2. a \in 1..n
      <4>1. a \in 1..n \/ a = n + 1
        BY <3>1
      <4> QED
        BY <3>1, <4>1
    <3> QED
      BY <1>2, <1>4, <3>1, <3>2
  <2>4. CASE HiloCPU
    BY <1>4, <2>1, <2>2, <2>4, PasosCpu
    DEF PasoFijo, PasoDespacha, PasoTermina, PasoSigue, tablas
  <2>5. CASE HiloFS
    BY <2>1, <2>3, <2>5, PasosFs DEF PasoDevuelve
  <2> QED
    BY <2>4, <2>5
<1> QED
  BY <1>3, <1>4

-----------------------------------------------------------------------------
(* The pointers.                                                           *)

\* A process that does not advance keeps its pointers.
LEMMA PosicionQuieta ==
    ASSUME UNCHANGED programa, NEW q,
           program_counter'[q] = program_counter[q]
    PROVE  \A f : Posicion(q, f)' = Posicion(q, f)
  BY DEF Posicion, Movidas, Hechas

\* Only F_OPEN and F_SEEK of a file move its pointer.
LEMMA PosicionDeOtra ==
    ASSUME Tipos, UNCHANGED programa, NEW p \in Procesos, Avanza(p),
           NEW f, ~ (/\ Pendiente(p).nombre \in {"F_OPEN", "F_SEEK"}
                     /\ Archivo(p) = f)
    PROVE  Posicion(p, f)' = Posicion(p, f)
<1> DEFINE k == program_counter[p]
<1>1. program_counter'[p] = k + 1 /\ k \in Nat
  BY AvanzaSolo DEF Tipos
<1>2. Movidas(p, f)' = Movidas(p, f)
  <2>1. \A i : i \in 1..(k + 1) <=> i \in 1..k \/ i = k + 1
    BY <1>1
  <2>2. Movidas(p, f)' =
            {i \in 1..(k + 1) : /\ programa[p][i].nombre \in {"F_OPEN", "F_SEEK"}
                                /\ programa[p][i].parametro1 = f}
    BY <1>1 DEF Movidas, Hechas, Hasta
  <2>3. Movidas(p, f) =
            {i \in 1..k : /\ programa[p][i].nombre \in {"F_OPEN", "F_SEEK"}
                          /\ programa[p][i].parametro1 = f}
    BY DEF Movidas, Hechas, Hasta
  <2>4. ~ (/\ programa[p][k + 1].nombre \in {"F_OPEN", "F_SEEK"}
           /\ programa[p][k + 1].parametro1 = f)
    BY DEF Pendiente, Archivo
  <2> HIDE DEF k
  <2> QED
    BY <2>1, <2>2, <2>3, <2>4
<1> QED
  BY <1>2 DEF Posicion

\* They are the last ones that did.
LEMMA PosicionDeEsta ==
    ASSUME Tipos, UNCHANGED programa, NEW p \in Procesos, Avanza(p),
           NEW f, Pendiente(p).nombre \in {"F_OPEN", "F_SEEK"}, Archivo(p) = f
    PROVE  Posicion(p, f)' = IF Pendiente(p).nombre = "F_SEEK"
                             THEN Pendiente(p).parametro2 ELSE 0
<1> DEFINE k == program_counter[p] + 1
           M == {i \in 1..k :
                    /\ programa[p][i].nombre \in {"F_OPEN", "F_SEEK"}
                    /\ programa[p][i].parametro1 = f}
<1>1. program_counter'[p] = k /\ k \in Nat /\ k >= 1
  BY AvanzaSolo DEF Tipos
<1>2. Movidas(p, f)' = M
  BY <1>1 DEF Movidas, Hechas, Hasta
<1>3. k \in M
  BY <1>1 DEF Pendiente, Archivo
<1>4. \A i \in M : i \in Nat /\ i <= k
  BY <1>1
<1> HIDE DEF M
<1>5. (CHOOSE i \in M : \A j \in M : j <= i) = k
  <2> DEFINE P(i) == \A j \in M : j <= i
  <2>1. P(k)
    BY <1>4
  <2>2. \A i \in M : P(i) => i = k
    BY <1>1, <1>3, <1>4
  <2> HIDE DEF P
  <2>3. (CHOOSE i \in M : P(i)) = k
    BY <1>3, <2>1, <2>2
  <2> QED
    BY <2>3 DEF P
<1>6. /\ programa'[p] = programa[p]
      /\ Posicion(p, f)' =
            LET ultima == programa'[p][CHOOSE i \in Movidas(p, f)' :
                                          \A j \in Movidas(p, f)' : j <= i]
            IN  IF ultima.nombre = "F_SEEK" THEN ultima.parametro2 ELSE 0
  BY DEF Posicion
<1>7. Posicion(p, f)' = IF programa[p][k].nombre = "F_SEEK"
                        THEN programa[p][k].parametro2 ELSE 0
  BY <1>2, <1>5, <1>6
<1> QED
  BY <1>7 DEF Pendiente

Fiel(p, f) ==
    /\ Tiene(p, f) => /\ tabla_local[p][f] # Nulo
                      /\ tabla_local[p][f] = Posicion(p, f)
    /\ ~ Tiene(p, f) /\ tabla_local[p][f] # Nulo =>
          /\ EnInstruccion(p, {"F_OPEN"}) /\ Archivo(p) = f
          /\ tabla_local[p][f] = 0

\* A process that does not advance, with its table as it was.
LEMMA FielQuieto ==
    ASSUME UNCHANGED programa, NEW q, NEW f, Fiel(q, f),
           program_counter'[q] = program_counter[q],
           tabla_local'[q][f] = tabla_local[q][f]
    PROVE  Fiel(q, f)'
<1>1. /\ Tiene(q, f)' <=> Tiene(q, f)
      /\ Posicion(q, f)' = Posicion(q, f)
      /\ EnInstruccion(q, {"F_OPEN"})' <=> EnInstruccion(q, {"F_OPEN"})
      /\ Archivo(q)' = Archivo(q)
  BY CuentasQuietas, PosicionQuieta, Misma
<1> QED
  BY <1>1 DEF Fiel

\* A process that advances past an instruction on another file.
LEMMA FielDeOtro ==
    ASSUME Tipos, UNCHANGED programa, NEW p \in Procesos, NEW N,
           EnInstruccion(p, N), Avanza(p), NEW f, Fiel(p, f),
           tabla_local'[p][f] = tabla_local[p][f],
           \/ Archivo(p) # f
           \/ Pendiente(p).nombre \notin {"F_OPEN", "F_CLOSE", "F_SEEK"}
    PROVE  Fiel(p, f)'
<1>1. Posicion(p, f)' = Posicion(p, f)
  BY PosicionDeOtra
<1>2. Tiene(p, f)' <=> Tiene(p, f)
  <2>1. /\ Abiertas(p, f) \in Nat /\ Cerradas(p, f) \in Nat
        /\ Tiene(p, f) <=> Abiertas(p, f) > Cerradas(p, f)
    BY CuentasTipo
  <2>2. /\ Abiertas(p, f)' = Abiertas(p, f) + 0
        /\ Cerradas(p, f)' = Cerradas(p, f) + 0
        /\ Tiene(p, f)' <=> Abiertas(p, f)' > Cerradas(p, f)'
    BY CuentasAvanzan DEF Uno
  <2> QED
    BY <2>1, <2>2
<1>3. ~ Tiene(p, f) => tabla_local[p][f] = Nulo
  BY DEF Fiel, EnInstruccion
<1> QED
  BY <1>1, <1>2, <1>3 DEF Fiel

\* The pointer in the table of a process is the one its last F_OPEN or
\* F_SEEK set, after any step.
LEMMA PunteroNext ==
    ASSUME Inv, HiloCPU \/ HiloFS
    PROVE  PunteroFiel'
<1> SUFFICES ASSUME NEW q \in Procesos, q \notin terminados',
                    NEW f \in Archivos, ~ CerradoSinTener(f)'
             PROVE  Fiel(q, f)'
  BY DEF PunteroFiel, Fiel
<1>0. /\ Tipos /\ UNCHANGED programa
      /\ program_counter \in [Procesos -> Nat]
      /\ tabla_local \in [Procesos -> [Archivos -> Posiciones \cup {Nulo}]]
  BY CpuNoTocaFs, FsNoTocaCpu DEF Inv, Tipos
<1>a. ~ CerradoSinTener(f)
  BY <1>0, CerradoSigue
<1>1. q \notin terminados => Fiel(q, f)
  BY <1>a DEF Inv, PunteroFiel, Fiel
<1>2. ASSUME UNCHANGED <<program_counter, tabla_local>>,
             UNCHANGED terminados
      PROVE  Fiel(q, f)'
  BY <1>0, <1>1, <1>2, FielQuieto
<1>3. ASSUME NEW p \in Procesos, PasoTermina(p)
      PROVE  Fiel(q, f)'
  <2>1. /\ q # p /\ q \notin terminados
        /\ tabla_local'[q] = tabla_local[q]
        /\ program_counter'[q] = program_counter[q]
    BY <1>0, <1>3 DEF PasoTermina
  <2> QED
    BY <1>0, <1>1, <2>1, FielQuieto
<1>4. ASSUME NEW p \in Procesos, Avanza(p), UNCHANGED terminados, q # p,
             tabla_local'[q] = tabla_local[q]
      PROVE  Fiel(q, f)'
  BY <1>0, <1>1, <1>4, AvanzaSolo, FielQuieto
<1>5. ASSUME NEW p \in Procesos, NEW N, EnInstruccion(p, N), Avanza(p),
             UNCHANGED terminados, q = p,
             tabla_local'[p][f] = tabla_local[p][f],
             \/ Archivo(p) # f
             \/ Pendiente(p).nombre \notin {"F_OPEN", "F_CLOSE", "F_SEEK"}
      PROVE  Fiel(q, f)'
  BY <1>0, <1>1, <1>5, FielDeOtro
<1>6. ASSUME NEW p \in Procesos, NEW i \in DOMAIN tabla_global,
             PasoEspera(p, i)
      PROVE  Fiel(q, f)'
  <2> PICK g \in {Archivo(p)} : TRUE
    OBVIOUS
  <2>1. /\ EnInstruccion(p, {"F_OPEN"}) /\ g \in Archivos
        /\ tabla_local' =
              [tabla_local EXCEPT ![p][g] = IF @ = Nulo THEN 0 ELSE @]
        /\ UNCHANGED <<program_counter, terminados>>
    BY <1>0, <1>6, ColaTipo DEF PasoEspera, Tipos
  <2>2. CASE q # p \/ f # g
    <3>1. tabla_local'[q][f] = tabla_local[q][f]
      BY <1>0, <2>1, <2>2
    <3> QED
      BY <1>0, <1>1, <2>1, <3>1, FielQuieto
  <2>3. CASE q = p /\ f = g
    <3>1. tabla_local'[p][g] = IF tabla_local[p][g] = Nulo THEN 0
                               ELSE tabla_local[p][g]
      BY <1>0, <2>1
    <3>2. /\ Tiene(p, g)' <=> Tiene(p, g)
          /\ Posicion(p, g)' = Posicion(p, g)
          /\ EnInstruccion(p, {"F_OPEN"})' /\ Archivo(p)' = Archivo(p)
      BY <1>0, <2>1, CuentasQuietas, PosicionQuieta, Misma
    <3>3. Fiel(p, g)
      BY <1>1, <2>1, <2>3
    <3>4. Archivo(p) = g
      OBVIOUS
    <3> QED
      BY <2>3, <3>1, <3>2, <3>3, <3>4 DEF Fiel
  <2> QED
    BY <2>2, <2>3
<1>7. ASSUME NEW p \in Procesos, NEW i \in DOMAIN tabla_global,
             PasoToma(p, i)
      PROVE  Fiel(q, f)'
  <2> PICK g \in {Archivo(p)} : TRUE
    OBVIOUS
  <2>1. /\ EnInstruccion(p, {"F_OPEN"}) /\ Pendiente(p).nombre = "F_OPEN"
        /\ g \in Archivos /\ g = tabla_global[i].nombre
        /\ tabla_local' =
              [tabla_local EXCEPT ![p][g] = IF @ = Nulo THEN 0 ELSE @]
        /\ Avanza(p) /\ UNCHANGED terminados
        /\ tabla_global[i].bit_de_uso = 0
    BY <1>0, <1>7, ColaTipo DEF PasoToma, Tipos, EnInstruccion, EfectoToma
  <2>2. CASE q # p
    <3>1. tabla_local'[q] = tabla_local[q]
      BY <1>0, <2>1, <2>2
    <3> QED
      BY <1>4, <2>1, <2>2, <3>1
  <2>3. CASE q = p /\ f # g
    <3>1. tabla_local'[p][f] = tabla_local[p][f]
      BY <1>0, <2>1, <2>3
    <3> QED
      BY <1>5, <2>1, <2>3, <3>1
  <2>4. CASE q = p /\ f = g
    <3>1. ~ Tiene(p, g)
      BY <1>a, <2>1, <2>4 DEF Inv, DuenoEnTabla, NombresUnicos
    <3>2. tabla_local[p][g] = Nulo \/ tabla_local[p][g] = 0
      BY <1>1, <2>1, <2>4, <3>1 DEF Fiel
    <3>3. tabla_local'[p][g] = 0
      BY <1>0, <2>1, <3>2
    <3>4. Posicion(p, g)' = 0
      BY <1>0, <2>1, PosicionDeEsta
    <3>5. Tiene(p, g)'
      <4>2. Cerradas(p, g) <= Abiertas(p, g)
        BY <1>0, <1>a, <2>4, CierraLoSuyo
      <4>3. Abiertas(p, g) \in Nat /\ Cerradas(p, g) \in Nat
        BY <1>0, CuentasTipo
      <4>4. /\ Abiertas(p, g)' = Abiertas(p, g) + 1
            /\ Cerradas(p, g)' = Cerradas(p, g) + 0
            /\ Tiene(p, g)' <=> Abiertas(p, g)' > Cerradas(p, g)'
        BY <1>0, <2>1, CuentasAvanzan DEF Uno
      <4> QED
        BY <4>2, <4>3, <4>4
    <3>6. 0 # Nulo
      BY NuloAssumption, PosicionesAssumption
    <3> QED
      BY <2>4, <3>3, <3>4, <3>5, <3>6 DEF Fiel
  <2> QED
    BY <2>2, <2>3, <2>4
<1>8. ASSUME NEW p \in Procesos, NEW i \in DOMAIN tabla_global,
             PasoCierra(p, i)
      PROVE  Fiel(q, f)'
  <2> PICK g \in {Archivo(p)} : TRUE
    OBVIOUS
  <2>1. /\ EnInstruccion(p, {"F_CLOSE"}) /\ Pendiente(p).nombre = "F_CLOSE"
        /\ g \in Archivos /\ g = tabla_global[i].nombre
        /\ tabla_local' = [tabla_local EXCEPT ![p][g] = Nulo]
        /\ Avanza(p) /\ UNCHANGED terminados
    BY <1>0, <1>8, ColaTipo DEF PasoCierra, Tipos, EnInstruccion
  <2>2. CASE q # p
    <3>1. tabla_local'[q] = tabla_local[q]
      BY <1>0, <2>1, <2>2
    <3> QED
      BY <1>4, <2>1, <2>2, <3>1
  <2>3. CASE q = p /\ f # g
    <3>1. tabla_local'[p][f] = tabla_local[p][f]
      BY <1>0, <2>1, <2>3
    <3> QED
      BY <1>5, <2>1, <2>3, <3>1
  <2>4. CASE q = p /\ f = g
    <3>2. ~ Tiene(p, f)'
      BY <1>0, <2>1, <2>4, CierraLoQueTiene
    <3>3. tabla_local'[p][f] = Nulo
      BY <1>0, <2>1, <2>4
    <3> QED
      BY <2>4, <3>2, <3>3 DEF Fiel
  <2> QED
    BY <2>2, <2>3, <2>4
<1>9. ASSUME NEW p \in Procesos, PasoSigue(p)
      PROVE  Fiel(q, f)'
  <2> PICK g \in {Archivo(p)} : TRUE
    OBVIOUS
  <2>0. Avanza(p) /\ UNCHANGED terminados
    BY <1>9 DEF PasoSigue
  <2>1. CASE EnInstruccion(p, {"CREATE_SEGMENT"}) /\ UNCHANGED tabla_local
    <3>1. Pendiente(p).nombre \notin {"F_OPEN", "F_CLOSE", "F_SEEK"}
      BY <2>1 DEF EnInstruccion
    <3> QED
      BY <1>4, <1>5, <2>0, <2>1, <3>1
  <2>2. CASE /\ EnInstruccion(p, {"F_SEEK"})
             /\ tabla_local[p][Archivo(p)] # Nulo
             /\ tabla_local' = [tabla_local EXCEPT
                                  ![p][Archivo(p)] = Pendiente(p).parametro2]
    <3> PICK n \in {Pendiente(p).parametro2} : TRUE
      OBVIOUS
    <3>1. /\ Pendiente(p).nombre = "F_SEEK" /\ g \in Archivos
          /\ n \in Posiciones
      BY <1>0, <2>2, InstruccionTipo DEF Tipos, EnInstruccion, DeArchivo
    <3>2. tabla_local' = [tabla_local EXCEPT ![p][g] = n]
      BY <2>2
    <3>3. CASE q # p
      <4>1. tabla_local'[q] = tabla_local[q]
        BY <1>0, <3>1, <3>2, <3>3
      <4> QED
        BY <1>4, <2>0, <3>3, <4>1
    <3>4. CASE q = p /\ f # g
      <4>1. tabla_local'[p][f] = tabla_local[p][f]
        BY <1>0, <3>1, <3>2, <3>4
      <4> QED
        BY <1>5, <2>0, <2>2, <3>4, <4>1
    <3>5. CASE q = p /\ f = g
      <4>1. tabla_local'[p][g] = n
        BY <1>0, <3>1, <3>2
      <4>2. Tiene(p, g)
        BY <1>1, <2>0, <2>2, <3>1, <3>5 DEF Fiel, EnInstruccion
      <4>3. Tiene(p, g)'
        <5>1. {"F_SEEK"} \cap {"F_OPEN", "F_CLOSE"} = {}
          OBVIOUS
        <5> QED
          BY <1>0, <2>0, <2>2, <4>2, <5>1, CuentasDeOtra
      <4>4. Posicion(p, g)' = n
        BY <1>0, <2>0, <3>1, PosicionDeEsta
      <4>5. n # Nulo
        BY <3>1, NuloAssumption
      <4> QED
        BY <3>5, <4>1, <4>3, <4>4, <4>5 DEF Fiel
    <3> QED
      BY <3>3, <3>4, <3>5
  <2> QED
    BY <1>9, <2>1, <2>2 DEF PasoSigue
<1>10. CASE HiloCPU
  BY <1>10, <1>2, <1>3, <1>6, <1>7, <1>8, <1>9, PasosCpu
  DEF PasoFijo, PasoDespacha, tablas
<1>11. CASE HiloFS
  <2>1. UNCHANGED <<tabla_local, terminados>>
    BY <1>11, FsNoTocaCpu
  <2>2. ASSUME NEW s \in Procesos, PasoDevuelve(s)
        PROVE  Fiel(q, f)'
    <3>1. /\ EnInstruccion(s, PorPosicion) /\ Avanza(s)
          /\ Pendiente(s).nombre \notin {"F_OPEN", "F_CLOSE", "F_SEEK"}
      BY <2>2 DEF PasoDevuelve, EnInstruccion, PorPosicion, Accesos
    <3> QED
      BY <1>4, <1>5, <2>1, <3>1
  <2> QED
    BY <1>2, <1>11, <2>1, <2>2, PasosFs DEF PasoAgrega
<1> QED
  BY <1>10, <1>11

\* The request on the channel carries that pointer, after any step.
LEMMA PedidoNext ==
    ASSUME Inv, HiloCPU \/ HiloFS
    PROVE  PedidoFiel'
<1> USE DEF procesos, tablas, canal
<1> SUFFICES ASSUME EsTransferencia'
             PROVE  /\ fs' = "transferido"
                    /\ pedido'.archivo = Archivo(pcb_operacion_fs)'
                    /\ LET f == pedido'.archivo
                       IN  \A g : g = f => CerradoSinTener(g)' \/
                              /\ Tiene(pcb_operacion_fs, g)'
                              /\ pedido'.puntero = Posicion(pcb_operacion_fs, g)'
  BY DEF PedidoFiel, Archivo, Tiene, Posicion, Movidas, Hechas, CerradoSinTener
<1> PICK s \in {pcb_operacion_fs} : TRUE
  OBVIOUS
<1> PICK f \in {pedido'.archivo} : TRUE
  OBVIOUS
<1>0. Tipos /\ UNCHANGED programa
  BY CpuNoTocaFs, FsNoTocaCpu DEF Inv
<1>1. ASSUME UNCHANGED pcb_operacion_fs, fs' = "transferido",
             program_counter'[s] = program_counter[s],
             f = Archivo(s),
             CerradoSinTener(f) \/ /\ Tiene(s, f)
                                   /\ pedido'.puntero = Posicion(s, f)
      PROVE  /\ fs' = "transferido"
             /\ f = Archivo(pcb_operacion_fs)'
             /\ CerradoSinTener(f)' \/
                   /\ Tiene(pcb_operacion_fs, f)'
                   /\ pedido'.puntero = Posicion(pcb_operacion_fs, f)'
  <2>1. /\ Archivo(s)' = Archivo(s) /\ (Tiene(s, f)' <=> Tiene(s, f))
        /\ Posicion(s, f)' = Posicion(s, f)
        /\ CerradoSinTener(f) => CerradoSinTener(f)'
    BY <1>0, <1>1, Misma, CuentasQuietas, PosicionQuieta, CerradoSigue
  <2>2. pcb_operacion_fs' = s
    BY <1>1
  <2> QED
    BY <1>1, <2>1, <2>2
    DEF Archivo, Pendiente, Tiene, Posicion, Movidas, Hechas
<1>2. CASE HiloCPU
  <2>1. UNCHANGED <<pedido, fs, pcb_operacion_fs>>
    BY <1>2, CpuNoTocaFs
  <2>2. EsTransferencia
    BY <2>1 DEF EsTransferencia
  <2>3. /\ fs = "transferido" /\ f = Archivo(s)
        /\ CerradoSinTener(f) \/ /\ Tiene(s, f)
                                 /\ pedido.puntero = Posicion(s, f)
    BY <2>1, <2>2 DEF Inv, PedidoFiel
  <2>4. program_counter'[s] = program_counter[s]
    BY <1>2, <2>3, CpuNoTocaFs
  <2> QED
    BY <1>1, <2>1, <2>3, <2>4
<1>3. CASE Transfiere
  <2>1. /\ fs = "switch" /\ fs' = "transferido"
        /\ Pendiente(s).nombre \in Accesos
        /\ tabla_local[s][Archivo(s)] # Nulo
        /\ f = Archivo(s) /\ pedido'.puntero = tabla_local[s][Archivo(s)]
        /\ UNCHANGED <<pcb_operacion_fs, program_counter>>
    BY <1>3 DEF Transfiere, Atiende, Solicita, Archivo
  <2>2. /\ s \in Procesos /\ s \in EnFS
        /\ EnInstruccion(s, {"F_OPEN"} \cup PorPosicion)
    BY <2>1 DEF Inv, FsEnOrden, EnFS, Accesos
  <2>3. f \in Archivos /\ s \notin terminados
    <3>1. s \notin terminados
      BY <2>2, EnUnoSolo
    <3> QED
      BY <1>0, <2>1, <2>2, <3>1, InstruccionTipo
      DEF Tipos, DeArchivo
  <2>4. CerradoSinTener(f) \/ /\ Tiene(s, f)
                              /\ tabla_local[s][f] = Posicion(s, f)
    BY <2>1, <2>2, <2>3 DEF Inv, PunteroFiel, EnInstruccion, Accesos
  <2> QED
    BY <1>1, <2>1, <2>4
<1>4. CASE PreguntaSiExiste \/ Recorta
  BY <1>4 DEF PreguntaSiExiste, Recorta, Solicita, EsTransferencia
<1>5. CASE RecibeSiExiste
  <2>1. pedido' = pedido \/ pedido'.codigo = "CREAR_ARCHIVO"
    BY <1>5 DEF RecibeSiExiste, Solicita
  <2>2. pedido = Nulo
    BY <1>5 DEF RecibeSiExiste, Recibe, Inv, CanalEnOrden
  <2> QED
    BY <2>1, <2>2 DEF EsTransferencia
<1>6. CASE RecibeCreado \/ RecibeRecortado \/ RecibeTransferido
  <2>1. pedido = Nulo /\ UNCHANGED pedido
    BY <1>6
    DEF RecibeCreado, RecibeRecortado, RecibeTransferido, Recibe,
        DevuelveProceso, Inv, CanalEnOrden
  <2> QED
    BY <2>1 DEF EsTransferencia
<1>7. CASE TomaOperacion \/ GuardaReferencia \/ AgregaATabla
  <2>1. pedido = Nulo /\ UNCHANGED pedido
    BY <1>7
    DEF TomaOperacion, GuardaReferencia, AgregaATabla, Inv, CanalEnOrden
  <2> QED
    BY <2>1 DEF EsTransferencia
<1> HIDE DEF procesos, tablas, canal
<1> QED
  BY <1>2, <1>3, <1>4, <1>5, <1>6, <1>7 DEF HiloFS

-----------------------------------------------------------------------------
(* The invariant.                                                          *)

\* Both threads keep the invariant.
LEMMA InvHilos ==
    ASSUME Inv, HiloCPU \/ HiloFS
    PROVE  Inv'
<1>1. Tipos'
  BY TiposNext DEF Next
<1>2. Fichas'
  BY FichasCpu, FichasFs
<1>3. CpuEnOrden' /\ FsEnOrden' /\ CanalEnOrden'
  BY CpuOrdenCpu, CpuOrdenFs, FsOrdenCpu, FsOrdenFs, CanalOrdenFs
<1>4. UnLugar' /\ EsperaUna' /\ EsperaSuArchivo' /\ TerminaSinCerrar'
      /\ EnPrograma'
  BY LugarCpu, LugarFs, EsperaUnaNext, EsperaSuArchivoNext, TerminaNext,
     EnProgramaNext
<1>5. NombresUnicos' /\ Uso' /\ SinDespertarPerdido'
  BY NombresNext, UsoNext, DespiertanNext
<1>6. PunteroFiel' /\ PedidoFiel'
  BY PunteroNext, PedidoNext
<1> QED
  BY <1>1, <1>2, <1>3, <1>4, <1>5, <1>6 DEF Inv, Fichas, Uso

\* The file system moves nothing but the channel.
LEMMA InvQuieto ==
    ASSUME Inv,
           UNCHANGED <<sem, programa, program_counter, listos, terminados,
                       pcb_en_ejecucion, tabla_global, tabla_local, cpu, fs,
                       pcb_operacion_fs, disposicion>>,
           Tipos', CanalEnOrden', PedidoFiel'
    PROVE  Inv'
<1>1. /\ \A p, N : EnInstruccion(p, N)' <=> EnInstruccion(p, N)
      /\ \A p : Pendiente(p)' = Pendiente(p) /\ Archivo(p)' = Archivo(p)
      /\ \A p, f : Tiene(p, f)' <=> Tiene(p, f)
      /\ FsAbre' <=> FsAbre
      /\ \A f : CerradoSinTener(f)' <=> CerradoSinTener(f)
  BY DEF EnInstruccion, Pendiente, Archivo, Tiene, Hechas, FsAbre,
         CerradoSinTener
<1>2. Permiso' /\ Apertura' /\ Exclusion'
  <2>1. PorTomar' <=> PorTomar
    BY DEF PorTomar
  <2>2. Permiso /\ Apertura /\ Exclusion
    BY DEF Inv
  <2>3. Permiso'
    BY <2>2 DEF Permiso
  <2>4. Apertura'
    BY <1>1, <2>1, <2>2 DEF Apertura, Uno
  <2>5. Exclusion'
    BY <2>2 DEF Exclusion
  <2> QED
    BY <2>3, <2>4, <2>5
<1>3. CpuEnOrden' /\ FsEnOrden'
  BY DEF Inv, CpuEnOrden, FsEnOrden, EnInstruccion, Archivo, Pendiente,
         PorTomar, EnTabla, FsAbre
<1>4. UnLugar'
  <2>1. /\ EnCPU' = EnCPU /\ PorPedir' = PorPedir /\ EnFS' = EnFS
        /\ \A q : EnCola(q)' <=> EnCola(q)
    BY DEF EnCPU, PorPedir, EnFS, EnCola, Cola, Pendiente
  <2>2. ASSUME NEW q \in Procesos
        PROVE  EnLugar(q)'
    BY <2>1, LugarIgual
  <2> QED
    BY <2>2 DEF UnLugar, EnLugar
<1>5. EsperaUna' /\ EsperaSuArchivo' /\ TerminaSinCerrar' /\ EnPrograma'
  BY DEF Inv, EsperaUna, EsperaSuArchivo, TerminaSinCerrar, EnPrograma, Cola,
         EnInstruccion, Archivo, Pendiente
<1>6. NombresUnicos' /\ SinDespertarPerdido'
  BY DEF Inv, NombresUnicos, SinDespertarPerdido, EnInstruccion, Pendiente,
         EnCPU
<1>7. UnaVez' /\ UnDueno' /\ DuenoEnTabla' /\ EnUsoConDueno'
  BY DEF Inv, UnaVez, UnDueno, DuenoEnTabla, EnUsoConDueno, Tiene, Hechas,
         Abiertas, Cerradas, CerradoSinTener
<1>8. PunteroFiel'
  <2>1. ASSUME NEW q \in Procesos \ terminados, NEW f \in Archivos
        PROVE  CerradoSinTener(f)' \/ Fiel(q, f)'
    <3>1. CerradoSinTener(f) \/ Fiel(q, f)
      BY DEF Inv, PunteroFiel, Fiel
    <3> QED
      BY <1>1, <3>1, FielQuieto
  <2> QED
    BY <2>1 DEF PunteroFiel, Fiel
<1> QED
  BY <1>2, <1>3, <1>4, <1>5, <1>6, <1>7, <1>8 DEF Inv

\* Every step keeps the invariant.
LEMMA InvNext == Inv /\ [Next]_vars => Inv'
<1> USE DEF procesos, tablas, memoria, hilo_fs, canal
<1> SUFFICES ASSUME Inv, [Next]_vars
             PROVE  Inv'
  OBVIOUS
<1>0. Tipos'
  BY TiposNext
<1>1. CASE FileSystemResponde
  <2>1. CanalEnOrden' /\ PedidoFiel'
    BY <1>1 DEF FileSystemResponde, Inv, CanalEnOrden, PedidoFiel,
                EsTransferencia, Archivo, Pendiente, Tiene, Hechas, Posicion,
                Movidas, CerradoSinTener
  <2> QED
    BY <1>0, <1>1, <2>1, InvQuieto DEF FileSystemResponde
<1>2. CASE UNCHANGED vars
  <2>1. CanalEnOrden' /\ PedidoFiel'
    BY <1>2 DEF vars, Inv, CanalEnOrden, PedidoFiel, EsTransferencia, Archivo,
                Pendiente, Tiene, Hechas, Posicion, Movidas, CerradoSinTener
  <2> QED
    BY <1>0, <1>2, <2>1, InvQuieto DEF vars
<1> HIDE DEF procesos, tablas, memoria, hilo_fs, canal
<1> QED
  BY <1>1, <1>2, InvHilos DEF Next

\* The semaphores, the places, the counts and the pointers agree in every
\* state.
THEOREM SpecInv == Spec => []Inv
  BY InvInit, InvNext, PTL DEF Spec

-----------------------------------------------------------------------------
(* What the runs check, for every set of processes, files and programs.    *)

\* The types of the proof imply those that the runs check.
LEMMA TiposBastan == Inv => TypeOK
<1> SUFFICES ASSUME Inv
             PROVE  TypeOK
  OBVIOUS
<1>1. /\ Tipos /\ Permiso /\ Apertura
      /\ sem["operacion_fs"] \in Nat /\ sem["puede_replanificar"] \in Nat
      /\ sem["termina_operacion_fs"] \in Nat
  BY Contadores DEF Inv, Tipos
<1>2. /\ sem["operacion_fs"] <= 1 /\ sem["puede_replanificar"] <= 1
      /\ sem["termina_operacion_fs"] <= 1
  BY <1>1 DEF Permiso, Apertura, Uno
<1>3. \A s \in Semaforos \ {"mutex_operacion_fs_memoria"} : sem[s] <= 1
  BY <1>2 DEF Semaforos
<1> QED
  BY <1>1, <1>3 DEF TypeOK, Tipos, Entradas

\* Every variable keeps its type, and the three semaphores of the handshake
\* between the two threads never count more than one.
THEOREM TipoCorrecto == Spec => []TypeOK
  BY SpecInv, TiposBastan, PTL

\* A compaction and a transfer never overlap, and the mutex is free exactly
\* when neither is under way (comunicacion_filesystem.c:78).
THEOREM CompactacionNuncaATransferir == Spec => []CompactacionExcluida
<1>1. Inv => CompactacionExcluida
  <2> SUFFICES ASSUME Inv
               PROVE  CompactacionExcluida
    OBVIOUS
  <2>1. sem["mutex_operacion_fs_memoria"] \in Nat /\ Exclusion
    BY Contadores DEF Inv, Tipos
  <2> QED
    BY <2>1 DEF Exclusion, Uno, CompactacionExcluida
<1> QED
  BY <1>1, SpecInv, PTL

\* A file is in use exactly while one process has it open, whatever the
\* interleaving of the search in one thread and the insertion in the other,
\* until some process executes an F_CLOSE of it that it had no F_OPEN for:
\* whatever the programs do, that is the only way to share a file.
THEOREM UsoSiempreExacto == Spec => []UsoExacto
<1>1. Inv => UsoExacto
  <2> SUFFICES ASSUME Inv
               PROVE  UsoExacto
    OBVIOUS
  <2>1. /\ Tipos /\ NombresUnicos /\ UnDueno /\ DuenoEnTabla /\ EnUsoConDueno
        /\ tabla_global \in Seq(Entradas)
    BY DEF Inv, Tipos
  <2>2. ASSUME NEW f \in Archivos, ~ CerradoSinTener(f)
        PROVE  /\ Cardinality(Duenos(f)) <= 1
               /\ Duenos(f) # {} <=>
                     /\ EnTabla(f)
                     /\ tabla_global[Entrada(f)].bit_de_uso = 1
    <3>1. \A p, q \in Duenos(f) : p = q
      BY <2>1, <2>2 DEF Duenos, UnDueno
    <3>2. Cardinality(Duenos(f)) <= 1
      <4>1. CASE Duenos(f) = {}
        BY <4>1, FS_EmptySet
      <4>2. CASE Duenos(f) # {}
        <5>1. PICK p : Duenos(f) = {p}
          BY <3>1, <4>2
        <5> QED
          BY <5>1, FS_Singleton
      <4> QED
        BY <4>1, <4>2
    <3>3. ASSUME Duenos(f) # {}
          PROVE  EnTabla(f) /\ tabla_global[Entrada(f)].bit_de_uso = 1
      <4>1. PICK i \in DOMAIN tabla_global :
               tabla_global[i].nombre = f /\ tabla_global[i].bit_de_uso = 1
        BY <2>1, <2>2, <3>3 DEF Duenos, DuenoEnTabla
      <4>2. EnTabla(f)
        BY <4>1 DEF EnTabla
      <4>3. i = Entrada(f)
        BY <2>1, <4>1, <4>2, EntradaUnica
      <4> QED
        BY <4>1, <4>2, <4>3
    <3>4. ASSUME EnTabla(f), tabla_global[Entrada(f)].bit_de_uso = 1
          PROVE  Duenos(f) # {}
      <4>1. /\ Entrada(f) \in DOMAIN tabla_global
            /\ tabla_global[Entrada(f)].nombre = f
        BY <2>1, <3>4, EntradaUnica
      <4>2. PICK p \in Procesos : Tiene(p, f)
        BY <2>1, <2>2, <3>4, <4>1 DEF EnUsoConDueno
      <4> QED
        BY <4>2 DEF Duenos
    <3> QED
      BY <3>2, <3>3, <3>4
  <2> QED
    BY <2>1, <2>2 DEF UsoExacto, NombresUnicos
<1> QED
  BY <1>1, SpecInv, PTL

\* The places in the queues that a process has are none or one.
LEMMA EsperasDe ==
    ASSUME Inv, NEW p \in Procesos
    PROVE  Cardinality(Esperas(p)) = Uno(EnCola(p))
<1>1. \A x : x \in Esperas(p) <=>
         \E i \in DOMAIN tabla_global : \E j \in DOMAIN Cola(i) :
             x = <<i, j>> /\ Cola(i)[j] = p
  BY DEF Esperas, Cola
<1>2. CASE ~ EnCola(p)
  <2>1. Esperas(p) = {}
    BY <1>1, <1>2 DEF EnCola
  <2> QED
    BY <1>2, <2>1, FS_EmptySet DEF Uno
<1>3. CASE EnCola(p)
  <2>1. PICK i \in DOMAIN tabla_global : \E j \in DOMAIN Cola(i) : Cola(i)[j] = p
    BY <1>3 DEF EnCola
  <2>2. PICK j \in DOMAIN Cola(i) : Cola(i)[j] = p
    BY <2>1
  <2>3. \A k \in DOMAIN tabla_global : \A l \in DOMAIN Cola(k) :
           Cola(k)[l] = p => k = i /\ l = j
    BY <2>2 DEF Inv, EsperaUna
  <2>4. Esperas(p) = {<<i, j>>}
    BY <1>1, <2>2, <2>3
  <2> QED
    BY <1>3, <2>4, FS_Singleton DEF Uno
<1> QED
  BY <1>2, <1>3

\* The kernel never has a process in two places, and loses one only at an
\* F_CLOSE of a file that it does not have, or that another process closed
\* without having it.
THEOREM ProcesosEnUnLugar == Spec => []CadaProcesoEnUnLugar
<1>1. ASSUME Inv, NEW p \in Procesos
      PROVE  Cardinality({i \in DOMAIN Lugares : p \in Lugares[i]})
                 + Cardinality(Esperas(p)) = 1
  <2> DEFINE L == {i \in DOMAIN Lugares : p \in Lugares[i]}
  <2>1. /\ DOMAIN Lugares = 1..6
        /\ Lugares[1] = listos /\ Lugares[2] = EnCPU /\ Lugares[3] = PorPedir
        /\ Lugares[4] = EnFS /\ Lugares[5] = terminados
        /\ Lugares[6] = Extraviados
    BY DEF Lugares
  <2>2. \A i : i \in L <=> \/ i = 1 /\ p \in listos
                           \/ i = 2 /\ p \in EnCPU
                           \/ i = 3 /\ p \in PorPedir
                           \/ i = 4 /\ p \in EnFS
                           \/ i = 5 /\ p \in terminados
                           \/ i = 6 /\ p \in Extraviados
    <3>1. \A i : i \in 1..6 <=> i = 1 \/ i = 2 \/ i = 3 \/ i = 4 \/ i = 5 \/ i = 6
      OBVIOUS
    <3> QED
      BY <2>1, <3>1
  <2>3. Cuantos(p) <= 1 /\ (Cuantos(p) = 0 => Perdido(p))
    BY <1>1 DEF Inv, UnLugar
  <2>4. p \in Extraviados <=> p \notin listos /\ p \notin EnCPU /\ Perdido(p)
    BY DEF Extraviados, Perdido, Archivo
  <2>5. p \in PorPedir \cup EnFS \cup terminados \/ EnCola(p) => ~ Perdido(p)
    <3>1. p \in PorPedir => EnInstruccion(p, PorPosicion)
      BY <1>1, LeeElQuePidio, Sitios
    <3>2. p \in EnFS => EnInstruccion(p, PorPosicion)
      BY <1>1, Sitios DEF Inv, FsEnOrden, EnInstruccion, PorPosicion, Accesos
    <3>3. p \in terminados => EnInstruccion(p, {"EXIT", "CREATE_SEGMENT"})
      BY <1>1 DEF Inv, TerminaSinCerrar
    <3>4. EnCola(p) => EnInstruccion(p, {"F_OPEN"})
      BY <1>1 DEF Inv, EsperaSuArchivo, EnCola
    <3> QED
      BY <3>1, <3>2, <3>3, <3>4
         DEF Perdido, EnInstruccion, PorPosicion, Accesos
  <2>6. Cardinality(Esperas(p)) = Uno(EnCola(p))
    BY <1>1, EsperasDe
  <2> HIDE DEF L
  <2>7. ASSUME Cuantos(p) = 0
        PROVE  Cardinality(L) + Cardinality(Esperas(p)) = 1
    <3>1. /\ p \notin listos /\ p \notin EnCPU /\ p \notin PorPedir
          /\ p \notin EnFS /\ p \notin terminados /\ ~ EnCola(p)
      BY <2>7 DEF Cuantos, Uno
    <3>2. L = {6}
      BY <2>2, <2>3, <2>4, <2>7, <3>1
    <3> QED
      BY <2>6, <3>1, <3>2, FS_Singleton DEF Uno
  <2>8. ASSUME Cuantos(p) = 1, ~ EnCola(p)
        PROVE  Cardinality(L) + Cardinality(Esperas(p)) = 1
    <3>1. \E k \in 1..5 : L = {k}
      <4>1. CASE p \in listos
        <5>1. /\ p \notin EnCPU /\ p \notin PorPedir
              /\ p \notin EnFS /\ p \notin terminados
          BY <2>8, <4>1 DEF Cuantos, Uno
        <5> QED
          BY <2>2, <2>4, <4>1, <5>1
      <4>2. CASE p \in EnCPU
        <5>1. /\ p \notin listos /\ p \notin PorPedir
              /\ p \notin EnFS /\ p \notin terminados
          BY <2>8, <4>2 DEF Cuantos, Uno
        <5> QED
          BY <2>2, <2>4, <4>2, <5>1
      <4>3. CASE p \in PorPedir
        <5>1. /\ p \notin listos /\ p \notin EnCPU
              /\ p \notin EnFS /\ p \notin terminados
          BY <2>8, <4>3 DEF Cuantos, Uno
        <5> QED
          BY <2>2, <2>4, <2>5, <4>3, <5>1
      <4>4. CASE p \in EnFS
        <5>1. /\ p \notin listos /\ p \notin EnCPU
              /\ p \notin PorPedir /\ p \notin terminados
          BY <2>8, <4>4 DEF Cuantos, Uno
        <5> QED
          BY <2>2, <2>4, <2>5, <4>4, <5>1
      <4>5. CASE p \in terminados
        <5>1. /\ p \notin listos /\ p \notin EnCPU
              /\ p \notin PorPedir /\ p \notin EnFS
          BY <2>8, <4>5 DEF Cuantos, Uno
        <5> QED
          BY <2>2, <2>4, <2>5, <4>5, <5>1
      <4> QED
        BY <2>8, <4>1, <4>2, <4>3, <4>4, <4>5 DEF Cuantos, Uno
    <3> QED
      <4>1. PICK k \in 1..5 : L = {k}
        BY <3>1
      <4>2. Cardinality(L) = 1
        BY <4>1, FS_Singleton
      <4> QED
        BY <2>6, <2>8, <4>2 DEF Uno
  <2>9. ASSUME Cuantos(p) = 1, EnCola(p)
        PROVE  Cardinality(L) + Cardinality(Esperas(p)) = 1
    <3>1. /\ p \notin listos /\ p \notin EnCPU /\ p \notin PorPedir
          /\ p \notin EnFS /\ p \notin terminados
      BY <2>9 DEF Cuantos, Uno
    <3>2. L = {}
      BY <2>2, <2>4, <2>5, <2>9, <3>1
    <3> QED
      BY <2>6, <2>9, <3>2, FS_EmptySet DEF Uno
  <2>10. Cuantos(p) \in 0..6
    BY DEF Cuantos, Uno
  <2>11. Cardinality(L) + Cardinality(Esperas(p)) = 1
    BY <2>3, <2>7, <2>8, <2>9, <2>10
  <2> QED
    BY <2>11 DEF L
<1>2. Inv => CadaProcesoEnUnLugar
  BY <1>1 DEF CadaProcesoEnUnLugar
<1> QED
  BY <1>2, SpecInv, PTL

\* Nobody waits for a file that is free unless one that was woken is about to
\* take it: closing wakes one process, and only the last close forgets the
\* queue, when it is empty.
THEOREM SiempreHayQuienDespierte == Spec => []SinDespertarPerdido
<1>1. Inv => SinDespertarPerdido
  BY DEF Inv
<1> QED
  BY <1>1, SpecInv, PTL

\* A transfer starts where its process last positioned the file, unless some
\* process closed that file without having it.
THEOREM TransfiereDesdeElSeek == Spec => []PunteroDelUltimoSeek
<1>1. Inv => PunteroDelUltimoSeek
  BY DEF Inv, PedidoFiel, PunteroDelUltimoSeek, Posicion, Movidas
<1> QED
  BY <1>1, SpecInv, PTL
=============================================================================
