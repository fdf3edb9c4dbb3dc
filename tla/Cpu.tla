--------------------------------- MODULE Cpu ---------------------------------
(***************************************************************************)
(* The CPU module and the kernel's exchange with it: the CPU thread sends  *)
(* the context of the running process, the CPU executes its instructions   *)
(* until one needs the kernel, and a context comes back, followed by a     *)
(* physical address for F_READ and F_WRITE.  The CPU translates addresses  *)
(* with the table of the context and reads and writes the user space.      *)
(*                                                                         *)
(* A context travels with `pid`, which the one that comes back does not    *)
(* have in the code: the kernel takes it for that of pcb_en_ejecucion.     *)
(* Once it has stored the context of another process, the model stops.     *)
(* Four bytes, the shortest register, are one cell.                        *)
(***************************************************************************)
EXTENDS Integers, Sequences, FiniteSets, SequencesExt

CONSTANTS
    Procesos,
    Programas,          \* the programs the processes may have, together
    Tablas,             \* tabla_de_segmentos of each process
    Bytes,              \* obtener_cant_bytes: the cells of each register
    TAM_MAX_SEGMENTO,
    TAM_MEMORIA,
    Cero,               \* a cell that nobody wrote
    Basura,             \* what is read outside the memory
    DelArchivo,         \* a cell read from a file
    Nulo                \* no pcb, no context

ASSUME TamanioAssumption ==
    TAM_MAX_SEGMENTO \in Nat \ {0} /\ TAM_MEMORIA \in Nat \ {0}
ASSUME BytesAssumption == Bytes \in [DOMAIN Bytes -> Nat \ {0}]
ASSUME ProcesosAssumption ==
    IsFiniteSet(Procesos) /\ Nulo \notin Procesos \cup {"EXIT", "SEG_FAULT"}
\* The operands that an instruction has, by its code; a transfer is not empty.
Instruccion(i) ==
    /\ i.op \in {"SET", "MOV_IN", "MOV_OUT"} => i.reg \in DOMAIN Bytes
    /\ i.op \in {"MOV_IN", "MOV_OUT", "F_READ", "F_WRITE"} =>
          i.dir \in Nat /\ i.n \in Nat \ {0}
    /\ i.op \in {"MOV_IN", "MOV_OUT"} => i.n = Bytes[i.reg]
ASSUME ProgramasAssumption ==
    \A todos \in Programas : \A p \in Procesos :
        /\ todos[p] \in Seq(Range(todos[p]))
        /\ \A k \in DOMAIN todos[p] : Instruccion(todos[p][k])
\* Tables as the memory makes them: distinct ids, in the memory, no shared
\* address but those of segment 0, which every process has.
ASSUME TablasAssumption ==
    \A p, q \in Procesos : \A s \in Tablas[p], t \in Tablas[q] :
        /\ s.base \in Nat /\ s.tamanio \in Nat
        /\ s.base + s.tamanio <= TAM_MEMORIA
        /\ p = q /\ s.idSegmento = t.idSegmento => s = t
        /\ \/ s = t
           \/ s.base + s.tamanio <= t.base \/ t.base + t.tamanio <= s.base

VARIABLES
    programa,     \* the instructions of each pcb
    pcb,          \* program_counter and registros_cpu of each pcb
    motivo,       \* why each process ended, Nulo if it has not
    listos,       \* lista_pcbs
    actual,       \* pcb_en_ejecucion
    hilo,         \* the CPU thread: "libre", "envia", "espera",
                  \* "espera_direccion", "espera_fs"
    direccion_fisica,
    fs,           \* pcb_operacion_fs
    aCpu,         \* the socket, towards the CPU
    aKernel,      \* the socket, towards the kernel
    contexto,     \* the context the CPU executes, Nulo between two
    espacio,      \* the user space of the memory
    mezclado      \* the kernel has stored a context in another pcb

kernel == <<pcb, motivo, listos, actual, hilo, direccion_fisica, fs, mezclado>>
vars == <<programa, kernel, aCpu, aKernel, contexto, espacio>>

Registros == DOMAIN Bytes
Celdas == 0..TAM_MEMORIA - 1
\* -1 in an unsigned variable: the largest address, never below 0.
SinDireccion == -1

Init ==
    /\ programa \in Programas
    /\ pcb = [p \in Procesos |->
                [pc |-> 1,
                 registros |-> [r \in Registros |->
                                   [i \in 1..Bytes[r] |-> Cero]]]]
    /\ motivo = [p \in Procesos |-> Nulo]
    /\ listos \in SetToSeqs(Procesos)
    /\ actual = Nulo /\ hilo = "libre"
    /\ direccion_fisica = 0 /\ fs = Nulo
    /\ aCpu = <<>> /\ aKernel = <<>>
    /\ contexto = Nulo
    /\ espacio = [c \in Celdas |-> Cero]
    /\ mezclado = FALSE

-----------------------------------------------------------------------------
(* The MMU.                                                                *)

\* encontrarSegmentoPorIDYTabla
Encontrados(id, T) == {s \in T : s.idSegmento = id}
Cabe(desplazamiento, n, s) == desplazamiento + n <= s.tamanio

\* obtener_dir_fisica
ObtenerDirFisica(dir, n, T) ==
    LET id == dir \div TAM_MAX_SEGMENTO
        desplazamiento == dir % TAM_MAX_SEGMENTO
        validos == {s \in Encontrados(id, T) : Cabe(desplazamiento, n, s)}
    IN  IF validos = {} THEN SinDireccion
        ELSE (CHOOSE s \in validos : TRUE).base + desplazamiento

\* pedido_leer_espacio_usuario does not look at the address: one byte before
\* the memory, every cell read is off by a byte.
Leer(d, n) ==
    [i \in 1..n |-> IF d = SinDireccion THEN Basura ELSE espacio[d + i - 1]]
\* pedido_escribir_espacio_usuario
Escribir(d, valor) ==
    espacio' = [c \in Celdas |->
                   IF c \in d..(d + Len(valor) - 1) THEN valor[c - d + 1]
                   ELSE espacio[c]]

-----------------------------------------------------------------------------
(* The CPU: comunicarse_a_kernel takes a context and executes it.          *)

CpuRecibe ==
    /\ contexto = Nulo
    /\ aCpu # <<>>
    /\ contexto' = Head(aCpu)
    /\ aCpu' = Tail(aCpu)
    /\ UNCHANGED <<programa, kernel, aKernel, espacio>>

Prog == programa[contexto.pid]
Fetch == Prog[contexto.pc]
Traducida == ObtenerDirFisica(Fetch.dir, Fetch.n, Tablas[contexto.pid])

\* The program ran out: the CPU takes its next context and sends nothing.
CpuSinInstrucciones ==
    /\ contexto # Nulo
    /\ contexto.pc > Len(Prog)
    /\ contexto' = Nulo
    /\ UNCHANGED <<programa, kernel, aCpu, aKernel, espacio>>

\* (mutant) as many bytes as the value has are copied.
ConRegistro_Entero(ctx, r, valor) == [ctx EXCEPT !.registros[r] = valor]
\* instruccion_set copies as many bytes as the register has.
ConRegistro(ctx, r, valor) ==
    [ctx EXCEPT !.registros[r] = SubSeq(valor, 1, Bytes[r])]
Siguiente(ctx) == [ctx EXCEPT !.pc = @ + 1]
\* obtener_valor_de_registro: the whole register.
ValorDe(r) == contexto.registros[r]

\* serializar_contexto_parcial: what returns is the reason, the program
\* counter and the registers.
Parcial(m) == [motivo |-> m, pid |-> contexto.pid, pc |-> contexto.pc,
               registros |-> contexto.registros]
\* (mutant) the context is sent again with the reason of the instruction.
Devolver_DosVeces(m) ==
    /\ aKernel' = aKernel \o <<Parcial(m), Parcial(Fetch.op)>>
    /\ contexto' = Nulo
\* devolver_contexto, which ends the loop of the CPU.
Devolver(m) == aKernel' = Append(aKernel, Parcial(m)) /\ contexto' = Nulo

InstruccionSet ==
    /\ Fetch.op = "SET"
    /\ contexto' = Siguiente(ConRegistro(contexto, Fetch.reg, Fetch.valor))
    /\ UNCHANGED <<aKernel, espacio>>

\* The test for a fault, direccion < 0, never holds of an unsigned address.
MovIn ==
    /\ Fetch.op = "MOV_IN"
    /\ contexto' = Siguiente(
          ConRegistro(contexto, Fetch.reg, Leer(Traducida, Fetch.n)))
    /\ UNCHANGED <<aKernel, espacio>>

\* (mutant) what was written is executed again.
MovOut_SinAvanzar ==
    /\ Fetch.op = "MOV_OUT"
    /\ \/ /\ Traducida = SinDireccion
          /\ Devolver("SEG_FAULT")
          /\ UNCHANGED espacio
       \/ /\ Traducida # SinDireccion
          /\ Escribir(Traducida, ValorDe(Fetch.reg))
          /\ UNCHANGED <<contexto, aKernel>>
MovOut ==
    /\ Fetch.op = "MOV_OUT"
    /\ \/ /\ Traducida = SinDireccion
          /\ Devolver("SEG_FAULT")
          /\ UNCHANGED espacio
       \/ /\ Traducida # SinDireccion
          /\ Escribir(Traducida, ValorDe(Fetch.reg))
          /\ contexto' = Siguiente(contexto)
          /\ UNCHANGED aKernel

\* F_READ and F_WRITE.  A fault sends its context first, and then goes on.
DeArchivo ==
    /\ Fetch.op \in {"F_READ", "F_WRITE"}
    /\ LET falla == IF Traducida = SinDireccion THEN <<Parcial("SEG_FAULT")>>
                    ELSE <<>>
       IN  aKernel' = aKernel \o falla \o
               <<Parcial(Fetch.op),
                 [motivo |-> "direccion", direccion |-> Traducida]>>
    /\ contexto' = Nulo
    /\ UNCHANGED espacio

\* Every other instruction is the kernel's.
DelKernel ==
    /\ Fetch.op \in {"WAIT", "YIELD", "EXIT"}
    /\ Devolver(Fetch.op)
    /\ UNCHANGED espacio

\* decode_instruccion
CpuEjecuta ==
    /\ contexto # Nulo
    /\ contexto.pc <= Len(Prog)
    /\ InstruccionSet \/ MovIn \/ MovOut \/ DeArchivo \/ DelKernel
    /\ UNCHANGED <<programa, kernel, aCpu>>

ModuloCpu == CpuRecibe \/ CpuSinInstrucciones \/ CpuEjecuta

-----------------------------------------------------------------------------
(* The kernel's CPU thread.                                                *)

KernelElige ==
    /\ hilo = "libre"
    /\ listos # <<>>
    /\ actual' = Head(listos)
    /\ listos' = Tail(listos)
    /\ hilo' = "envia"
    /\ UNCHANGED <<programa, pcb, motivo, direccion_fisica, fs, mezclado,
                   aCpu, aKernel, contexto, espacio>>

\* obtener_contexto_de_pcb; the table of the pcb and its program do not change.
ContextoDe(p) == [pid |-> p, pc |-> pcb[p].pc, registros |-> pcb[p].registros]

\* enviar_contexto_a_cpu
KernelEnvia ==
    /\ hilo = "envia"
    /\ aCpu' = Append(aCpu, ContextoDe(actual))
    /\ hilo' = "espera"
    /\ UNCHANGED <<programa, pcb, motivo, listos, actual, direccion_fisica, fs,
                   mezclado, aKernel, contexto, espacio>>

\* (mutant) the registers are left as they were.
Recibido_SinRegistros(m) ==
    [pcb EXCEPT ![actual] = [pc |-> m.pc, registros |-> @.registros]]
\* The program counter and recibir_registros.
Recibido(m) ==
    [pcb EXCEPT ![actual] = [pc |-> m.pc, registros |-> m.registros]]
Avanzado(P, p) == [P EXCEPT ![p].pc = @ + 1]

\* The process goes on: its context is sent again.
Continua(m) ==
    /\ m.motivo = "WAIT"
    /\ pcb' = Avanzado(Recibido(m), actual)
    /\ hilo' = "envia"
    /\ UNCHANGED <<motivo, listos, actual>>

Cede(m) ==
    /\ m.motivo = "YIELD"
    /\ listos' = Append(listos, actual)
    /\ pcb' = Avanzado(Recibido(m), actual)
    /\ actual' = Nulo /\ hilo' = "libre"
    /\ UNCHANGED motivo

PideArchivo(m) ==
    /\ m.motivo \in {"F_READ", "F_WRITE"}
    /\ pcb' = Recibido(m)
    /\ hilo' = "espera_direccion"
    /\ UNCHANGED <<motivo, listos, actual>>

Termina(m) ==
    /\ m.motivo \in {"EXIT", "SEG_FAULT"}
    /\ pcb' = Recibido(m)
    /\ motivo' = [motivo EXCEPT ![actual] = m.motivo]
    /\ actual' = Nulo /\ hilo' = "libre"
    /\ UNCHANGED listos

KernelRecibe ==
    /\ hilo = "espera"
    /\ aKernel # <<>>
    /\ aKernel' = Tail(aKernel)
    /\ LET m == Head(aKernel)
       IN  /\ Continua(m) \/ Cede(m) \/ PideArchivo(m) \/ Termina(m)
           /\ mezclado' = (m.pid # actual)
    /\ UNCHANGED <<programa, direccion_fisica, fs, aCpu, contexto, espacio>>

KernelRecibeDireccion ==
    /\ hilo = "espera_direccion"
    /\ aKernel # <<>>
    /\ aKernel' = Tail(aKernel)
    /\ direccion_fisica' = Head(aKernel).direccion
    /\ hilo' = "espera_fs"
    /\ UNCHANGED <<programa, pcb, motivo, listos, actual, fs, mezclado, aCpu,
                   contexto, espacio>>

-----------------------------------------------------------------------------
(* The kernel's file system thread, and the file system behind it.         *)

FsToma ==
    /\ hilo = "espera_fs"
    /\ fs = Nulo
    /\ fs' = actual
    /\ actual' = Nulo /\ hilo' = "libre"
    /\ UNCHANGED <<programa, pcb, motivo, listos, direccion_fisica, mezclado,
                   aCpu, aKernel, contexto, espacio>>

\* The operation, at the address of the global; what is read is written in the
\* user space.  ArchivosAbiertos follows the file, and that global.
FsTermina ==
    /\ fs # Nulo
    /\ LET i == programa[fs][pcb[fs].pc]
       IN  \/ i.op = "F_READ"
              /\ Escribir(direccion_fisica, [k \in 1..i.n |-> DelArchivo])
           \/ i.op = "F_WRITE" /\ UNCHANGED espacio
    /\ pcb' = Avanzado(pcb, fs)
    /\ listos' = Append(listos, fs)
    /\ fs' = Nulo
    /\ UNCHANGED <<programa, motivo, actual, hilo, direccion_fisica, mezclado,
                   aCpu, aKernel, contexto>>

HiloCpu == KernelElige \/ KernelEnvia \/ KernelRecibe \/ KernelRecibeDireccion
HiloFs == FsToma \/ FsTermina

Next == ~mezclado /\ (ModuloCpu \/ HiloCpu \/ HiloFs)

Spec == Init /\ [][Next]_vars

\* The CPU and both threads of the kernel are scheduled, and the file system
\* answers.
SpecEquitativa ==
    /\ Spec
    /\ WF_vars(~mezclado /\ ModuloCpu)
    /\ WF_vars(~mezclado /\ HiloCpu)
    /\ WF_vars(~mezclado /\ HiloFs)

-----------------------------------------------------------------------------
(* The type of every variable: a register never changes its width.         *)
ValoresDe(regs) ==
    DOMAIN regs = Registros /\ \A r \in Registros : Len(regs[r]) = Bytes[r]
TypeOK ==
    /\ programa \in Programas
    /\ DOMAIN pcb = Procesos
    /\ \A p \in Procesos : pcb[p].pc \in Nat \ {0} /\ ValoresDe(pcb[p].registros)
    /\ motivo \in [Procesos -> {Nulo, "EXIT", "SEG_FAULT"}]
    /\ listos \in Seq(Procesos)
    /\ {actual, fs} \subseteq Procesos \cup {Nulo}
    /\ hilo \in {"libre", "envia", "espera", "espera_direccion", "espera_fs"}
    /\ direccion_fisica \in Celdas \cup {SinDireccion}
    /\ \A k \in DOMAIN aCpu : ValoresDe(aCpu[k].registros)
    /\ contexto # Nulo => ValoresDe(contexto.registros)
    /\ DOMAIN espacio = Celdas /\ mezclado \in BOOLEAN

\* The reference: a process by itself, with a memory of its own that is
\* addressed by segment and displacement.  It stops at its first bad access.
Propias(p) == UNION {{<<s.idSegmento, d>> : d \in 0..s.tamanio - 1} :
                        s \in Tablas[p]}
Logica(dir, k) == <<(dir \div TAM_MAX_SEGMENTO), (dir % TAM_MAX_SEGMENTO) + k>>
Rango(i) == {Logica(i.dir, k) : k \in 0..i.n - 1}
Accede(i) == i.op \in {"MOV_IN", "MOV_OUT", "F_READ", "F_WRITE"}
Falla(p, i) == Accede(i) /\ ~(Rango(i) \subseteq Propias(p))

Desde(i, celda) == celda[2] - (i.dir % TAM_MAX_SEGMENTO) + 1
Paso(p, e, i) ==
    IF Falla(p, i) THEN [e EXCEPT !.falla = TRUE]
    ELSE CASE i.op = "SET" ->
                  [e EXCEPT !.regs[i.reg] = [k \in 1..Bytes[i.reg] |-> i.valor[k]]]
           [] i.op = "MOV_IN" ->
                  [e EXCEPT !.regs[i.reg] =
                      [k \in 1..i.n |-> e.mem[Logica(i.dir, k - 1)]]]
           [] i.op \in {"MOV_OUT", "F_READ"} ->
                  [e EXCEPT !.mem = [c \in Propias(p) |->
                      IF c \notin Rango(i) THEN e.mem[c]
                      ELSE IF i.op = "F_READ" THEN DelArchivo
                      ELSE e.regs[i.reg][Desde(i, c)]]]
           [] OTHER -> e
\* Process p after n instructions of prog, and after those before its program
\* counter.
Tras(p, prog, n) ==
    LET tras[k \in 0..n] ==
            IF k = 0
            THEN [falla |-> FALSE, mem |-> [c \in Propias(p) |-> Cero],
                  regs |-> [r \in Registros |-> [j \in 1..Bytes[r] |-> Cero]]]
            ELSE Paso(p, tras[k - 1], prog[k])
    IN  tras[n]
ASolas(p) == Tras(p, programa[p], pcb[p].pc - 1)

\* Two processes meet only in the CPU: one of them at most uses files, whose
\* operations share direccion_fisica, and none writes in a segment that
\* another has, as segment 0 is.
PorSeparado ==
    \A todos \in Programas : \A p, q \in Procesos : p # q =>
        \A k \in DOMAIN todos[p] :
            LET i == todos[p][k]
            IN  /\ i.op \in {"F_READ", "F_WRITE"} =>
                      \A j \in DOMAIN todos[q] :
                          todos[q][j].op \notin {"F_READ", "F_WRITE"}
                /\ i.op \in {"MOV_OUT", "F_READ"} =>
                      \A s \in Tablas[p] :
                          s.idSegmento = i.dir \div TAM_MAX_SEGMENTO =>
                              s \notin Tablas[q]

(* A process that leaves the CPU has the registers and the segments it     *)
(* would have had alone, whoever ran between two of its instructions, and  *)
(* ends for the reason it would have ended for.  (One that read outside of *)
(* its segments is not claimed anything of; and processes that meet in     *)
(* memory, or in the address of a file operation, do change each other.)   *)
ComoASolas ==
    ~mezclado /\ hilo = "libre" =>
        \A p \in Procesos \ {fs} :
            LET e == ASolas(p)
                i == programa[p][pcb[p].pc]
            IN  \/ e.falla
                \/ /\ pcb[p].registros = e.regs
                   /\ \A s \in Tablas[p] : \A d \in 0..s.tamanio - 1 :
                         espacio[s.base + d] = e.mem[<<s.idSegmento, d>>]
                   /\ motivo[p] = "EXIT" => i.op = "EXIT"
                   /\ motivo[p] = "SEG_FAULT" => Falla(p, i)

(* The kernel stores a context in the pcb it belongs to, although nothing  *)
(* in it says whose it is, until a file instruction has faulted.           *)
ContextoPropio ==
    mezclado => \E p \in Procesos :
        /\ motivo[p] = "SEG_FAULT"
        /\ programa[p][pcb[p].pc].op \in {"F_READ", "F_WRITE"}

(* "En caso de que el desplazamiento dentro del segmento [...] sea mayor   *)
(* al tamanio del segmento, debera devolverse el Contexto de Ejecucion al  *)
(* Kernel para que este lo finalice" (docs, PDF page 22): no process goes  *)
(* past an instruction that faults.                                        *)
FinalizaPorSegFault == ~mezclado => \A p \in Procesos : ~ASolas(p).falla

\* The kernel waits for a context that nobody will send.
Atascado ==
    hilo = "espera" /\ contexto = Nulo /\ aCpu = <<>> /\ aKernel = <<>>
SinFin(p) ==
    \A k \in pcb[p].pc..Len(programa[p]) : programa[p][k].op # "EXIT"

(* Every process ends, unless the contexts were mixed or one ran past its  *)
(* last instruction: the CPU then sends nothing and the kernel waits.      *)
TodosTerminan ==
    <>( \/ \A p \in Procesos : motivo[p] # Nulo
        \/ mezclado
        \/ Atascado /\ SinFin(actual))
=============================================================================
