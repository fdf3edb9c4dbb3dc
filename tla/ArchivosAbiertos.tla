-------------------------- MODULE ArchivosAbiertos --------------------------
(***************************************************************************)
(* The files of the kernel: the file instructions in the thread that talks *)
(* to the CPU (comunicacion_cpu.c), the thread that talks to the file      *)
(* system (comunicacion_filesystem.c), and the compaction that must not    *)
(* run beside a transfer (comunicacion_memoria.c).                         *)
(*                                                                         *)
(* The CPU thread hands an instruction over with operacion_fs, waits for   *)
(* puede_replanificar, and takes another process while the file thread     *)
(* waits for the file system.  Only F_OPEN waits for its result.  The      *)
(* planners are seen through what Planificador shows of them: while the    *)
(* CPU thread has no process, any ready one may be given to it.            *)
(***************************************************************************)
EXTENDS Integers, Sequences, FiniteSets, SequencesExt

CONSTANTS
    Procesos, Archivos,
    Posiciones,          \* what F_SEEK may ask for
    Programas,           \* the programs a process may be given
    MaxCompactaciones,   \* bound on NECESITA_COMPACTACION
    Nulo                 \* NULL, and the address 0

ASSUME NuloAssumption == Nulo \notin Procesos \cup Archivos \cup Posiciones
ASSUME PosicionesAssumption == 0 \in Posiciones /\ Posiciones \subseteq Nat
ASSUME MaxAssumption == MaxCompactaciones \in Nat

Accesos == {"F_READ", "F_WRITE"}
DeArchivo == {"F_OPEN", "F_CLOSE", "F_SEEK", "F_TRUNCATE"} \cup Accesos
\* An instruction on files has a name: "vacio" if its line has none.
Instruccion ==
    [nombre : DeArchivo, parametro1 : Archivos, parametro2 : Posiciones]
    \cup [nombre : {"CREATE_SEGMENT", "EXIT"}, parametro1 : {Nulo},
          parametro2 : Posiciones]

ASSUME ProgramasAssumption == Programas \subseteq Seq(Instruccion)

\* The first k instructions of a program that have one of these names and f.
Hasta(instrucciones, k, nombres, f) ==
    {i \in 1..k : /\ instrucciones[i].nombre \in nombres
                  /\ instrucciones[i].parametro1 = f}

\* A physical address is told apart by whose segment it was computed for and
\* by the layout of the memory at that time.
Direccion == [pid : Procesos, disposicion : 0..MaxCompactaciones]

Pedidos ==
    [codigo : {"ABRIR_ARCHIVO", "CREAR_ARCHIVO", "RECORTAR_ARCHIVO",
               "LEER_ARCHIVO", "ESCRIBIR_ARCHIVO"},
     archivo : Archivos, puntero : Posiciones,
     direccion : Direccion \cup {Nulo}]

Semaforos == {"operacion_fs", "puede_replanificar", "termina_operacion_fs",
              "mutex_operacion_fs_memoria"}

VARIABLES
    sem,
    programa, program_counter,
    listos,              \* lista_pcbs, in no order
    pcb_en_ejecucion,
    terminados,
    tabla_global,        \* tabla_global_de_archivos_abiertos
    tabla_local,         \* each pcb's tabla_archivos_abiertos: the pointer of
                         \* each file in it, Nulo for the others
    direccion_fisica,
    disposicion,         \* compactions so far: the layout of the memory
    cpu,                 \* what the CPU thread is about to do
    fs,                  \* what the file thread is about to do
    pcb_operacion_fs,
    pedido,              \* the request the file system is serving
    respuesta,           \* its answer, until it is received
    en_disco             \* the files that have an FCB

procesos == <<programa, program_counter, listos, terminados>>
tablas == <<tabla_global, tabla_local>>
memoria == <<direccion_fisica, disposicion>>
hilo_fs == <<fs, pcb_operacion_fs>>
canal == <<pedido, respuesta, en_disco>>
vars == <<sem, procesos, pcb_en_ejecucion, tablas, memoria, cpu, hilo_fs,
          canal>>

SinAbrir == [f \in Archivos |-> Nulo]

Init ==
    /\ sem = [s \in Semaforos |->
                 IF s = "mutex_operacion_fs_memoria" THEN 1 ELSE 0]
    /\ programa \in [Procesos -> Programas]
    /\ program_counter = [p \in Procesos |-> 0]
    /\ listos = Procesos
    /\ pcb_en_ejecucion = Nulo
    /\ terminados = {}
    /\ tabla_global = <<>>
    /\ tabla_local = [p \in Procesos |-> SinAbrir]
    /\ direccion_fisica = Nulo
    /\ disposicion = 0
    /\ cpu = "proceso_running"
    /\ fs = "operacion_fs"
    /\ pcb_operacion_fs = Nulo
    /\ pedido = Nulo
    /\ respuesta = Nulo
    /\ en_disco = {}

Wait(s) ==
    /\ sem[s] > 0
    /\ sem' = [sem EXCEPT ![s] = @ - 1]
Post(s) == sem' = [sem EXCEPT ![s] = @ + 1]

Pendiente(p) == programa[p][program_counter[p] + 1]
\* The next instruction of p has one of these names.
EnInstruccion(p, nombres) ==
    program_counter[p] < Len(programa[p]) /\ Pendiente(p).nombre \in nombres
Avanza(p) == program_counter' = [program_counter EXCEPT ![p] = @ + 1]

EnTabla(f) == \E i \in DOMAIN tabla_global : tabla_global[i].nombre = f
\* buscarArchivoPorNombreGlobal: the first entry with that name.
Entrada(f) == SelectInSeq(tabla_global, LAMBDA e : e.nombre = f)

-----------------------------------------------------------------------------
(* The CPU thread.                                                         *)

\* sem_wait(&proceso_running), after the short-term planner chose.
Despacha(p) ==
    /\ cpu = "proceso_running"
    /\ p \in listos
    /\ listos' = listos \ {p}
    /\ pcb_en_ejecucion' = p
    /\ cpu' = "instruccion"
    /\ UNCHANGED <<sem, programa, program_counter, terminados, tablas,
                   memoria, hilo_fs, canal>>

\* The CPU returns p at an instruction that needs the kernel.
Retorna(p, nombres) ==
    /\ cpu = "instruccion"
    /\ p = pcb_en_ejecucion
    /\ EnInstruccion(p, nombres)

\* (mutant) a process that finds the file in use goes on instead of waiting.
TomaOEspera_SinEsperar(p, f) ==
    /\ tabla_global' = [tabla_global EXCEPT ![Entrada(f)].bit_de_uso = 1]
    /\ Avanza(p)
    /\ cpu' = "instruccion"
\* The end of F_OPEN: use the file, or wait for it and execute F_OPEN again.
TomaOEspera(p, f) ==
    LET i == Entrada(f) IN
    \/ /\ tabla_global[i].bit_de_uso = 1
       /\ tabla_global' =
             [tabla_global EXCEPT ![i].cola_esperando = Append(@, p)]
       /\ cpu' = "proceso_running"
       /\ UNCHANGED program_counter
    \/ /\ tabla_global[i].bit_de_uso = 0
       /\ tabla_global' = [tabla_global EXCEPT ![i].bit_de_uso = 1]
       /\ Avanza(p)
       /\ cpu' = "instruccion"

TerminaDeAbrir(p, f) ==
    /\ EnTabla(f)        \* otherwise archivo_solicitado is NULL
    /\ tabla_local' =
          [tabla_local EXCEPT ![p][f] = IF @ = Nulo THEN 0 ELSE @]
    /\ TomaOEspera(p, f)
    /\ UNCHANGED <<programa, listos, terminados, pcb_en_ejecucion, memoria,
                   hilo_fs, canal>>

HayQuePedir(f) == ~ EnTabla(f)

AbrePidiendo(p) ==
    /\ Retorna(p, {"F_OPEN"})
    /\ HayQuePedir(Pendiente(p).parametro1)
    /\ Post("operacion_fs")
    /\ cpu' = "abriendo"
    /\ UNCHANGED <<procesos, pcb_en_ejecucion, tablas, memoria, hilo_fs,
                   canal>>

AbreEnTabla(p) ==
    /\ Retorna(p, {"F_OPEN"})
    /\ ~ HayQuePedir(Pendiente(p).parametro1)
    /\ TerminaDeAbrir(p, Pendiente(p).parametro1)
    /\ UNCHANGED sem

\* The file thread read pcb_en_ejecucion.  F_OPEN goes on to wait for its end.
EsperaPermisoDeAbrir ==
    /\ cpu = "abriendo"
    /\ Wait("puede_replanificar")
    /\ cpu' = "termina_operacion_fs"
    /\ UNCHANGED <<procesos, pcb_en_ejecucion, tablas, memoria, hilo_fs,
                   canal>>

\* The others leave the CPU: the file thread may even have ended already.
EsperaPermiso ==
    /\ cpu = "puede_replanificar"
    /\ Wait("puede_replanificar")
    /\ cpu' = "proceso_running"
    /\ UNCHANGED <<procesos, pcb_en_ejecucion, tablas, memoria, hilo_fs,
                   canal>>

EsperaTermina(p) ==
    /\ cpu = "termina_operacion_fs"
    /\ p = pcb_en_ejecucion
    /\ Wait("termina_operacion_fs")
    /\ TerminaDeAbrir(p, Pendiente(p).parametro1)

\* (mutant) the process taken out of the queue is not made ready.
Libera_SinDespertar(i) ==
    /\ tabla_global' =
          IF tabla_global[i].cola_esperando = <<>>
          THEN RemoveAt(tabla_global, i)
          ELSE [tabla_global EXCEPT ![i].cola_esperando = Tail(@),
                                    ![i].bit_de_uso = 0]
    /\ UNCHANGED listos
\* (mutant) the file is free and nobody is taken out of its queue.
Libera_SinSacar(i) ==
    /\ tabla_global' =
          IF tabla_global[i].cola_esperando = <<>>
          THEN RemoveAt(tabla_global, i)
          ELSE [tabla_global EXCEPT ![i].bit_de_uso = 0]
    /\ UNCHANGED listos
\* With nobody waiting the entry is removed; otherwise the file is free and
\* the first process that waits is ready.
Libera(i) ==
    \/ /\ tabla_global[i].cola_esperando = <<>>
       /\ tabla_global' = RemoveAt(tabla_global, i)
       /\ UNCHANGED listos
    \/ /\ tabla_global[i].cola_esperando # <<>>
       /\ tabla_global' =
             [tabla_global EXCEPT ![i].cola_esperando = Tail(@),
                                  ![i].bit_de_uso = 0]
       /\ listos' = listos \cup {Head(tabla_global[i].cola_esperando)}

\* (mutant) the pointer of a closed file stays in the table of the process.
TablaSin_Nadie(p, f) == tabla_local
\* list_remove_and_destroy_by_condition on the table of the process.
TablaSin(p, f) == [tabla_local EXCEPT ![p][f] = Nulo]

Cierra(p) ==
    /\ Retorna(p, {"F_CLOSE"})
    /\ LET f == Pendiente(p).parametro1
       IN  /\ EnTabla(f)
           /\ tabla_local' = TablaSin(p, f)
           /\ Libera(Entrada(f))
    /\ Avanza(p)
    /\ UNCHANGED <<sem, programa, terminados, pcb_en_ejecucion, memoria, cpu,
                   hilo_fs, canal>>

\* No file has that name: another process is planned and this one is nowhere.
CierraAusente(p) ==
    /\ Retorna(p, {"F_CLOSE"})
    /\ ~ EnTabla(Pendiente(p).parametro1)
    /\ cpu' = "proceso_running"
    /\ UNCHANGED <<sem, procesos, pcb_en_ejecucion, tablas, memoria, hilo_fs,
                   canal>>

Posiciona(p) ==
    /\ Retorna(p, {"F_SEEK"})
    /\ LET f == Pendiente(p).parametro1
       IN  /\ tabla_local[p][f] # Nulo        \* otherwise NULL
           /\ tabla_local' =
                 [tabla_local EXCEPT ![p][f] = Pendiente(p).parametro2]
    /\ Avanza(p)
    /\ UNCHANGED <<sem, programa, listos, terminados, pcb_en_ejecucion,
                   tabla_global, memoria, cpu, hilo_fs, canal>>

Trunca(p) ==
    /\ Retorna(p, {"F_TRUNCATE"})
    /\ Post("operacion_fs")
    /\ cpu' = "puede_replanificar"
    /\ UNCHANGED <<procesos, pcb_en_ejecucion, tablas, memoria, hilo_fs,
                   canal>>

\* F_READ and F_WRITE clear direccion_fisica, and then receive it from the CPU,
\* which computed it from the table it was last sent.
Accede(p) ==
    /\ Retorna(p, Accesos)
    /\ direccion_fisica' = Nulo
    /\ cpu' = "direccion_fisica"
    /\ UNCHANGED <<sem, procesos, pcb_en_ejecucion, tablas, disposicion,
                   hilo_fs, canal>>

RecibeDireccion(p) ==
    /\ cpu = "direccion_fisica"
    /\ p = pcb_en_ejecucion
    /\ direccion_fisica' = [pid |-> p, disposicion |-> disposicion]
    /\ Post("operacion_fs")
    /\ cpu' = "puede_replanificar"
    /\ UNCHANGED <<procesos, pcb_en_ejecucion, tablas, disposicion, hilo_fs,
                   canal>>

\* pcb_destroy frees the table of the process; the global one is not looked at.
TerminaProceso(p) ==
    /\ terminados' = terminados \cup {p}
    /\ tabla_local' = [tabla_local EXCEPT ![p] = SinAbrir]
    /\ cpu' = "proceso_running"
    /\ UNCHANGED <<sem, programa, program_counter, listos, pcb_en_ejecucion,
                   tabla_global, memoria, hilo_fs, canal>>

Sale(p) ==
    /\ Retorna(p, {"EXIT"})
    /\ TerminaProceso(p)

\* crear_segmento: the memory has room.
CreaSegmento(p) ==
    /\ Retorna(p, {"CREATE_SEGMENT"})
    /\ Avanza(p)
    /\ UNCHANGED <<sem, programa, listos, terminados, pcb_en_ejecucion,
                   tablas, memoria, cpu, hilo_fs, canal>>

\* The memory refuses, for good.
SinSegmento(p) ==
    /\ Retorna(p, {"CREATE_SEGMENT"})
    /\ TerminaProceso(p)

\* NECESITA_COMPACTACION: the instruction is executed again afterwards.
NecesitaCompactar(p) ==
    /\ Retorna(p, {"CREATE_SEGMENT"})
    /\ disposicion < MaxCompactaciones
    /\ cpu' = "mutex_operacion_fs_memoria"
    /\ UNCHANGED <<sem, procesos, pcb_en_ejecucion, tablas, memoria, hilo_fs,
                   canal>>

\* (mutant) the compaction does not wait for the transfer to end.
PideCompactar_SinMutex ==
    /\ cpu = "mutex_operacion_fs_memoria"
    /\ cpu' = "compactando"
    /\ UNCHANGED <<sem, procesos, pcb_en_ejecucion, tablas, memoria, hilo_fs,
                   canal>>
PideCompactar ==
    /\ cpu = "mutex_operacion_fs_memoria"
    /\ Wait("mutex_operacion_fs_memoria")
    /\ cpu' = "compactando"
    /\ UNCHANGED <<procesos, pcb_en_ejecucion, tablas, memoria, hilo_fs,
                   canal>>

\* The memory answers with every table; every segment may have moved.
RecibeTablas ==
    /\ cpu = "compactando"
    /\ disposicion' = disposicion + 1
    /\ Post("mutex_operacion_fs_memoria")
    /\ cpu' = "instruccion"
    /\ UNCHANGED <<procesos, pcb_en_ejecucion, tablas, direccion_fisica,
                   hilo_fs, canal>>

HiloCPU ==
    \/ EsperaPermisoDeAbrir
    \/ EsperaPermiso
    \/ PideCompactar
    \/ RecibeTablas
    \/ \E p \in Procesos :
          \/ Despacha(p)
          \/ AbrePidiendo(p)
          \/ AbreEnTabla(p)
          \/ EsperaTermina(p)
          \/ Cierra(p)
          \/ CierraAusente(p)
          \/ Posiciona(p)
          \/ Trunca(p)
          \/ Accede(p)
          \/ RecibeDireccion(p)
          \/ Sale(p)
          \/ CreaSegmento(p)
          \/ SinSegmento(p)
          \/ NecesitaCompactar(p)

-----------------------------------------------------------------------------
(* The file thread.  Its process stays the one it read before it let the   *)
(* CPU thread go on.                                                       *)

\* (mutant) puede_replanificar is posted before the global is read.
TomaOperacion_AntesDeLeer ==
    /\ fs = "operacion_fs"
    /\ sem["operacion_fs"] > 0
    /\ sem' = [sem EXCEPT !["operacion_fs"] = @ - 1,
                          !["puede_replanificar"] = @ + 1]
    /\ fs' = "pcb_en_ejecucion"
    /\ UNCHANGED <<procesos, pcb_en_ejecucion, tablas, memoria, cpu,
                   pcb_operacion_fs, canal>>
TomaOperacion ==
    /\ fs = "operacion_fs"
    /\ Wait("operacion_fs")
    /\ fs' = "pcb_en_ejecucion"
    /\ UNCHANGED <<procesos, pcb_en_ejecucion, tablas, memoria, cpu,
                   pcb_operacion_fs, canal>>

GuardaReferencia ==
    /\ fs = "pcb_en_ejecucion"
    /\ pcb_operacion_fs' = pcb_en_ejecucion
    /\ Post("puede_replanificar")
    /\ fs' = "switch"
    /\ UNCHANGED <<procesos, pcb_en_ejecucion, tablas, memoria, cpu, canal>>

\* solicitar_a_fs, for the instruction pending in pcb_operacion_fs.
Solicita(codigo, puntero, direccion) ==
    pedido' = [codigo |-> codigo,
               archivo |-> Pendiente(pcb_operacion_fs).parametro1,
               puntero |-> puntero, direccion |-> direccion]

Atiende(nombres) ==
    /\ fs = "switch"
    /\ Pendiente(pcb_operacion_fs).nombre \in nombres

PreguntaSiExiste ==
    /\ Atiende({"F_OPEN"})
    /\ Solicita("ABRIR_ARCHIVO", 0, Nulo)
    /\ fs' = "existe"
    /\ UNCHANGED <<sem, procesos, pcb_en_ejecucion, tablas, memoria, cpu,
                   pcb_operacion_fs, respuesta, en_disco>>

Recorta ==
    /\ Atiende({"F_TRUNCATE"})
    /\ Solicita("RECORTAR_ARCHIVO", 0, Nulo)
    /\ fs' = "recortado"
    /\ UNCHANGED <<sem, procesos, pcb_en_ejecucion, tablas, memoria, cpu,
                   pcb_operacion_fs, respuesta, en_disco>>

\* mutex_operacion_fs_memoria, and then the address and the pointer as they
\* are at that time.
Transfiere ==
    /\ Atiende(Accesos)
    /\ LET p == pcb_operacion_fs
           puntero == tabla_local[p][Pendiente(p).parametro1]
       IN  /\ puntero # Nulo                  \* otherwise NULL
           /\ Wait("mutex_operacion_fs_memoria")
           /\ Solicita(IF Pendiente(p).nombre = "F_READ"
                       THEN "LEER_ARCHIVO" ELSE "ESCRIBIR_ARCHIVO",
                       puntero, direccion_fisica)
    /\ fs' = "transferido"
    /\ UNCHANGED <<procesos, pcb_en_ejecucion, tablas, memoria, cpu,
                   pcb_operacion_fs, respuesta, en_disco>>

Recibe(donde) ==
    /\ fs = donde
    /\ respuesta # Nulo
    /\ respuesta' = Nulo

\* F_OPEN: whether the file exists; otherwise it is created first.
RecibeSiExiste ==
    /\ Recibe("existe")
    /\ \/ /\ respuesta = "OK"
          /\ fs' = "list_add"
          /\ UNCHANGED pedido
       \/ /\ respuesta = "NO_EXISTE_ARCHIVO"
          /\ Solicita("CREAR_ARCHIVO", 0, Nulo)
          /\ fs' = "creado"
    /\ UNCHANGED <<sem, procesos, pcb_en_ejecucion, tablas, memoria, cpu,
                   pcb_operacion_fs, en_disco>>

RecibeCreado ==
    /\ Recibe("creado")
    /\ fs' = "list_add"
    /\ UNCHANGED <<sem, procesos, pcb_en_ejecucion, tablas, memoria, cpu,
                   pcb_operacion_fs, pedido, en_disco>>

\* (mutant) termina_operacion_fs is not posted.
AgregaATabla_SinAvisar ==
    /\ fs = "list_add"
    /\ tabla_global' =
          Append(tabla_global,
                 [nombre |-> Pendiente(pcb_operacion_fs).parametro1,
                  cola_esperando |-> <<>>, bit_de_uso |-> 0])
    /\ fs' = "operacion_fs"
    /\ UNCHANGED <<sem, procesos, pcb_en_ejecucion, tabla_local, memoria, cpu,
                   pcb_operacion_fs, canal>>
AgregaATabla ==
    /\ fs = "list_add"
    /\ tabla_global' =
          Append(tabla_global,
                 [nombre |-> Pendiente(pcb_operacion_fs).parametro1,
                  cola_esperando |-> <<>>, bit_de_uso |-> 0])
    /\ Post("termina_operacion_fs")
    /\ fs' = "operacion_fs"
    /\ UNCHANGED <<procesos, pcb_en_ejecucion, tabla_local, memoria, cpu,
                   pcb_operacion_fs, canal>>

\* The answer to F_TRUNCATE, F_READ or F_WRITE: the process is ready again,
\* at its next instruction.
DevuelveProceso ==
    /\ Avanza(pcb_operacion_fs)
    /\ listos' = listos \cup {pcb_operacion_fs}
    /\ fs' = "operacion_fs"
    /\ UNCHANGED <<programa, terminados, pcb_en_ejecucion, tablas, memoria,
                   cpu, pcb_operacion_fs, pedido, en_disco>>

RecibeRecortado ==
    /\ Recibe("recortado")
    /\ DevuelveProceso
    /\ UNCHANGED sem

RecibeTransferido ==
    /\ Recibe("transferido")
    /\ Post("mutex_operacion_fs_memoria")
    /\ DevuelveProceso

HiloFS ==
    \/ TomaOperacion
    \/ GuardaReferencia
    \/ PreguntaSiExiste
    \/ Recorta
    \/ Transfiere
    \/ RecibeSiExiste
    \/ RecibeCreado
    \/ AgregaATabla
    \/ RecibeRecortado
    \/ RecibeTransferido

-----------------------------------------------------------------------------
(* The file system serves one request at a time and answers each.          *)
FileSystemResponde ==
    /\ pedido # Nulo
    /\ respuesta' = IF /\ pedido.codigo = "ABRIR_ARCHIVO"
                       /\ pedido.archivo \notin en_disco
                    THEN "NO_EXISTE_ARCHIVO" ELSE "OK"
    /\ en_disco' = IF pedido.codigo = "CREAR_ARCHIVO"
                   THEN en_disco \cup {pedido.archivo} ELSE en_disco
    /\ pedido' = Nulo
    /\ UNCHANGED <<sem, procesos, pcb_en_ejecucion, tablas, memoria, cpu,
                   hilo_fs>>

Next == HiloCPU \/ HiloFS \/ FileSystemResponde

Spec == Init /\ [][Next]_vars

\* Both threads are scheduled and the file system answers.
Equidad == WF_vars(HiloCPU) /\ WF_vars(HiloFS) /\ WF_vars(FileSystemResponde)
SpecEquitativa == Spec /\ Equidad

-----------------------------------------------------------------------------
HilosCPU == {"proceso_running", "instruccion", "abriendo",
             "puede_replanificar", "termina_operacion_fs",
             "direccion_fisica", "mutex_operacion_fs_memoria", "compactando"}
HilosFS == {"operacion_fs", "pcb_en_ejecucion", "switch", "existe", "creado",
            "list_add", "recortado", "transferido"}

(* The type of every variable: the semaphores of the handshake are binary. *)
TypeOK ==
    /\ sem \in [Semaforos -> Nat]
    /\ \A s \in Semaforos \ {"mutex_operacion_fs_memoria"} : sem[s] <= 1
    /\ programa \in [Procesos -> Programas]
    /\ program_counter \in [Procesos -> Nat]
    /\ listos \in SUBSET Procesos
    /\ pcb_en_ejecucion \in Procesos \cup {Nulo}
    /\ terminados \in SUBSET Procesos
    /\ tabla_global \in Seq([nombre : Archivos, bit_de_uso : 0..1,
                             cola_esperando : Seq(Procesos)])
    /\ tabla_local \in [Procesos -> [Archivos -> Posiciones \cup {Nulo}]]
    /\ direccion_fisica \in Direccion \cup {Nulo}
    /\ disposicion \in 0..MaxCompactaciones
    /\ cpu \in HilosCPU
    /\ fs \in HilosFS
    /\ pcb_operacion_fs \in Procesos \cup {Nulo}
    /\ pedido \in Pedidos \cup {Nulo}
    /\ respuesta \in {"OK", "NO_EXISTE_ARCHIVO", Nulo}
    /\ en_disco \in SUBSET Archivos

\* What p executed so far.
Hechas(p, nombres, f) == Hasta(programa[p], program_counter[p], nombres, f)
\* p opened f and did not close it since.
Tiene(p, f) ==
    Cardinality(Hechas(p, {"F_OPEN"}, f)) >
        Cardinality(Hechas(p, {"F_CLOSE"}, f))

Duenos(f) == {p \in Procesos : Tiene(p, f)}

\* Some process executed an F_CLOSE of f that it had no F_OPEN for: the code
\* does not look whose the file is, and takes it from the one that has it.
CerradoSinTener(f) ==
    \E p \in Procesos : \E k \in 1..program_counter[p] :
        Cardinality(Hasta(programa[p], k, {"F_CLOSE"}, f)) >
            Cardinality(Hasta(programa[p], k, {"F_OPEN"}, f))

(* docs, PDF page 15: the locks on files are exclusive and mandatory.  By  *)
(* the instructions executed, at most one process has a file open, and it  *)
(* is in use exactly then, for as long as no process closed that file      *)
(* without having it: nothing but such an F_CLOSE breaks the lock.  No     *)
(* file ever gets two entries, although F_OPEN searches in one thread and  *)
(* another adds the entry much later.                                      *)
UsoExacto ==
    /\ \A f \in Archivos : CerradoSinTener(f) \/
          /\ Cardinality(Duenos(f)) <= 1
          /\ Duenos(f) # {} <=> /\ EnTabla(f)
                                /\ tabla_global[Entrada(f)].bit_de_uso = 1
    /\ \A i, j \in DOMAIN tabla_global :
          tabla_global[i].nombre = tabla_global[j].nombre => i = j

\* Where a process can be: the thread that holds it, if any.
EnCPU ==
    IF cpu \in {"proceso_running", "puede_replanificar"} THEN {}
    ELSE {pcb_en_ejecucion}
PorPedir ==
    IF /\ cpu = "puede_replanificar"
       /\ sem["operacion_fs"] = 1 \/ fs = "pcb_en_ejecucion"
    THEN {pcb_en_ejecucion} ELSE {}
EnFS ==
    IF fs \in {"switch", "recortado", "transferido"}
    THEN {p \in {pcb_operacion_fs} : Pendiente(p).nombre # "F_OPEN"} ELSE {}
Esperas(p) ==
    UNION {{<<i, j>> : j \in {k \in DOMAIN tabla_global[i].cola_esperando :
                                 tabla_global[i].cola_esperando[k] = p}}
              : i \in DOMAIN tabla_global}
\* Off the CPU at the close of a file that it does not have, or that another
\* process closed without having it.
Extraviados ==
    {p \in Procesos \ (listos \cup EnCPU) :
        /\ EnInstruccion(p, {"F_CLOSE"})
        /\ \/ ~ Tiene(p, Pendiente(p).parametro1)
           \/ CerradoSinTener(Pendiente(p).parametro1)}
Lugares == <<listos, EnCPU, PorPedir, EnFS, terminados, Extraviados>>

(* A process is in one queue or in the hands of one thread, also while the *)
(* CPU thread hands it to the file thread and goes on; the only way to be  *)
(* lost is the close of a file that it does not have, or no longer has     *)
(* because another closed it.                                              *)
CadaProcesoEnUnLugar ==
    \A p \in Procesos :
        Cardinality({i \in DOMAIN Lugares : p \in Lugares[i]})
            + Cardinality(Esperas(p)) = 1

(* Processes wait for a file only while it is in use, or while one that    *)
(* was woken is about to execute its F_OPEN again.                         *)
SinDespertarPerdido ==
    \A i \in DOMAIN tabla_global :
        tabla_global[i].cola_esperando # <<>> =>
            \/ tabla_global[i].bit_de_uso = 1
            \/ \E p \in listos \cup EnCPU :
                  /\ EnInstruccion(p, {"F_OPEN"})
                  /\ Pendiente(p).parametro1 = tabla_global[i].nombre

(* comunicacion_filesystem.c:78: the mutex is there "para que no se        *)
(* compacten segmentos al mismo tiempo que esto", and it is free when      *)
(* neither is under way.                                                   *)
CompactacionExcluida ==
    /\ cpu = "compactando" => fs # "transferido"
    /\ sem["mutex_operacion_fs_memoria"] = 1 <=>
          cpu # "compactando" /\ fs # "transferido"

EsTransferencia ==
    pedido # Nulo /\ pedido.codigo \in {"LEER_ARCHIVO", "ESCRIBIR_ARCHIVO"}

(* A transfer starts where the process last positioned the file since it   *)
(* opened it, or at 0: the pointer outlives neither a close nor a wait.    *)
(* (A file closed by a process that did not have it can be opened again    *)
(* by the one that does, and then its pointer stays.)                      *)
PunteroDelUltimoSeek ==
    EsTransferencia /\ ~ CerradoSinTener(pedido.archivo) =>
        LET p == pcb_operacion_fs
            movidas == Hechas(p, {"F_OPEN", "F_SEEK"}, pedido.archivo)
            ultima == programa[p][CHOOSE i \in movidas :
                                     \A j \in movidas : j <= i]
        IN  pedido.puntero = IF ultima.nombre = "F_SEEK"
                             THEN ultima.parametro2 ELSE 0

(* A transfer uses the physical address of the process that asked for it,  *)
(* in the memory as it is now (docs, PDF page 16).                         *)
DireccionDelPedido ==
    EsTransferencia =>
        pedido.direccion = [pid |-> pcb_operacion_fs,
                            disposicion |-> disposicion]

(* Processes that can never go on: each waits for a file that one of them  *)
(* has open, or one that was lost or ended without F_CLOSE                 *)
(* (terminar_proceso_en_ejecucion closes nothing).  Who uses a file that   *)
(* was closed by a process without it is not known from what was executed. *)
Atascado(conjunto) ==
    \A p \in conjunto : \E i \in DOMAIN tabla_global :
        LET f == tabla_global[i].nombre
        IN  /\ p \in Range(tabla_global[i].cola_esperando)
            /\ \/ /\ Duenos(f) # {}
                  /\ Duenos(f) \subseteq conjunto \cup terminados \cup Extraviados
               \/ CerradoSinTener(f)
Atascados ==
    UNION {conjunto \in SUBSET (Procesos \ terminados) : Atascado(conjunto)}

(* Every process ends, unless it was lost at an F_CLOSE, or the files were *)
(* taken in a circle, or left open by one that was lost or ended.          *)
TodosTerminan ==
    \A p \in Procesos : <>[](p \in terminados \cup Extraviados \cup Atascados)
=============================================================================
