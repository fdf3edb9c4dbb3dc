# TUKI: a TLA+ model of the kernel, the memory and their clients

The program (C, POSIX threads, TCP) simulates an operating system with five
processes: **consola**, **kernel**, **cpu**, **memoria** and **filesystem**.
A consola sends a program to the kernel; the kernel schedules it, the CPU
interprets it one instruction at a time and returns to the kernel for everything
that needs it (I/O, resources, segments, files, the end); the memory keeps
segments; the file system keeps files in blocks. This directory models the parts
whose correctness depends on interleavings, on counters that must agree with
queues, or on arithmetic over lists of segments.

## 1. Inventory

| component | state | operations | correct when |
|---|---|---|---|
| kernel, long-term planner (`planificador.c`) | `cola_new`, degree semaphore, `lista_global_de_pcbs` | admit the oldest NEW process, register it | the degree holds, no process lost, every admitted process registered |
| kernel, short-term planner (`planificador.c`) | `lista_pcbs`, `pcb_en_ejecucion`, four semaphores | choose (FIFO or HRRN), dispatch | one process on the CPU, never an empty queue popped, FIFO order kept |
| kernel, CPU thread (`comunicacion_cpu.c`) | `lista_recursos`, the running pcb | IO, WAIT, SIGNAL, YIELD, segments, files, end | the running pcb does not change under it; instances conserved; no lost wake-up |
| kernel, I/O threads (`bloquear_por_tiempo`) | one sleeping pcb each | sleep, back to READY | the process comes back exactly once |
| kernel, console threads (`main.c`) | `pid_actual`, `proceso_finalizado` and its condition | give a pid, push to NEW, wait for the end, answer | unique pids, every console answered, with its own motivo |
| kernel, file thread (`comunicacion_filesystem.c`) | local and global tables of open files, `direccion_fisica` | F_OPEN, F_CLOSE, F_SEEK, F_TRUNCATE, F_READ, F_WRITE | one user of a file, waiters served, no transfer during a compaction |
| kernel - memory (`comunicacion_memoria.c`, `conexion.c`) | one socket used by two threads; a copy of every segment table | create, delete, compact, end | each reply reaches its request; the copies equal the memory's tables |
| memory (`estructuras.c`, `algoritmos.c`, `operaciones.c`) | processes, segments, holes, the block of bytes | create and end a process, create and delete a segment, compact, read, write | segments disjoint, holes exact, the reply is right, compaction moves no byte over another |
| file system (`operacionesFS.c`) | an FCB per file, a bitmap, a file of blocks | open, create, truncate, read, write | no block in two files, bitmap exact, an access covers its bytes |
| CPU (`cpu/src`) | registers, program counter, segment table of the running process | fetch, translate, execute, return | one context per request, stored in its own pcb; a segmentation fault ends the process |
| consola (`consola/src`) | none | read a program, send it, wait for one byte | it ends, and knows the reason |
| utils (`utils.c`) | none | packets, serialisation of contexts and tables | what arrives is what was sent |

How they interact: inside the kernel by shared queues and semaphores, and by one
condition variable; between programs by messages on TCP connections, one request
at a time, except that two threads of the kernel share the connection with the
memory. What is hard: the semaphores are posted by some threads and waited for by
others, never symmetrically; globals (`pcb_en_ejecucion`, `direccion_fisica`,
`proceso_finalizado`, `pid_actual`) are read outside any lock; a pcb is published
in a queue before its fields are final; lists are walked while another thread
changes them. `PROJECT.json` lists every such hazard at its line, with the
properties that cover it or why none does.

## 2. Plan

1. **Planificador** (done): the scheduling core of the kernel, every thread, with
   **CicloDeVida** (done), the abstract life cycle it implements.
2. **Consolas** (done): the program consola, pids, and the notification of the end.
3. **Memoria** (done): segments, holes, placement and compaction.
4. **FileSystem** (done): FCB, bitmap and pointers through truncations, falls and
   restarts; the bytes an access touches against a reference definition.
5. **ArchivosAbiertos** (done): F_OPEN ... F_WRITE, the file thread's handshake,
   `mutex_operacion_fs_memoria` against compaction, `direccion_fisica`.
6. **SocketMemoria** (done): the connection two kernel threads share, the kernel's
   copies of the tables and their registration, the bytes a compaction moves;
   extends Memoria, whose actions are the memory's side of each request.
7. **Cpu** (done): the instruction cycle, the MMU, the contexts between kernel and
   CPU and the user space, against what each process would do alone.
8. Left: the HRRN formulas as functions and the contents of files.

Each module has its proofs (section 6). Every invariant and every action property
that the passing runs check is a theorem, and so is the refinement; only liveness
is model-checked alone.

## 3. Modules

**Planificador.tla** has one control variable per thread (`consola[p]`, `largo`,
`corto`, `cpu`, and the sets `durmiendo` and `pasando` of I/O threads), named
after what the thread is about to do: mostly the semaphore it waits for. A step
is one semaphore operation or the section between two of them that touches data
no other thread can touch meanwhile; a section under a mutex is one step. The one
exception is `lista_global_de_pcbs`, which has no mutex: the library's `list_add`
is two steps there (`LargoBuscaUltimo`, `LargoRegistra`), and the link is lost if
the node found is removed in between. `pasar_a_ready` is two steps, `Agrega` (the
`list_add`) and `AvisaListo` (the `sem_post`), because another thread can
act between them.

- `sem` holds the seven semaphores of `main.c` used here. `cantidad_procesos` is
  not initialised by `main`; as a static it is zero.
- A program is a sequence of the operations for which the CPU returns; what the
  CPU does by itself (SET, MOV_IN, MOV_OUT) is not visible to the kernel. A
  program past its last instruction never returns.
- HRRN compares ratios of wall-clock times: any ready process may be chosen.
- CREATE_SEGMENT either advances, ends the process for one of three reasons, or
  asks for a compaction, which leaves this state as it is.

**CicloDeVida.tla** is the diagram of states of a process: arrival, admission
within the degree, dispatch of one, yield, block, wake, end. Under the mapping in
Planificador (`Ciclo`), `nuevos` is `cola_new` plus the pcb the long-term planner
holds, `listos` is `lista_pcbs`, `ejecutando` is `Ejecutando` (chosen, announced
or on the CPU), `bloqueados` the sleepers and the queues of the resources.

**MCPlanificador.tla** gives the programs of the checked instances, scaled down
from `consola/config_pruebas`.

**Consolas.tla** has the program consola as three states (before it has sent its
instructions, waiting for its byte, ended) and the kernel's thread for it. It splits `pid_actual++` into its load and store, takes each section
under `mutex_proceso_finalizado` as a step, and reads the slot again after the
unlock, as `main.c` does. `Termina` is the CPU thread's write and broadcast.
`Conocidos` are the motivos for which the consola has a case; any other, such as
that of a full segment table, is "Respuesta inesperada".

**Memoria.tla** keeps segments and holes as sets. Creating a segment shrinks the
hole in place; deleting one, or ending a process, recomputes the holes; compaction
moves one segment per step. `algoritmo` is read from the configuration and never
changes.
A size travels as a `uint32_t` and is an `int` in `puedoCrearSegmento`; `ComoInt` is
that conversion, with `INT_MAX` a constant. The sizes of the holes are unsigned, so
only the comparison with their sum sees a negative size.
The pid of segment 0, -1 in the code, is a constant outside `Pids` (0 in the
configurations, since pids start at 1).

**FileSystem.tla** has what is on disk (`fcb`, `punteros`, `bitmap`) and the
truncation under way (`obra`), which `Caer` forgets. A truncation takes or frees
one block per step, because each bit of the shared map is on disk at once; then
the pointers are written (`fclose`), then the FCB (`config_save`). `Acceso` is
`acceder_archivo` as the sequence of bytes of the file of blocks it touches, and
`BytesDe` the bytes it should. Sizes are such that one block holds the pointers of
a file (`TamaniosAssumption`). When all blocks are taken the search goes past the
bitmap, as in the code, and a restart loses those bits. Once a fall has lost a bit
of a block in use (while a file shrank, or with such a block past the end) `sano`
is false: nothing is claimed and the history is not followed (`SeSigue`). Creation
of an FCB is one step.

**ArchivosAbiertos.tla** has two threads of the kernel, `cpu` and `fs`, and the
file system as one action that answers the request it has. The planners are one
action, `Despacha`: while the CPU thread has no process, any ready one may be
chosen (both algorithms); Planificador shows that nobody else is then chosen, nor
twice. `pasar_a_ready` is one step, since nothing here depends on
`cantidad_procesos`; sections under `mutex_archivos` are steps too.
`tabla_global` keeps its order and could hold a name twice, as the list could. A
physical address is the process it was computed for and how many compactions there
had been. Where the code would follow a NULL pointer (F_SEEK of a file that is
not open, an entry missing after F_OPEN) the action is not enabled, and
`TodosTerminan` would show the process stuck. Pointers and sizes are valid, as the
assignment says. **MCArchivosAbiertos.tla** gives the programs, after FS_1 and FS_3.

**SocketMemoria.tla** extends Memoria with both ends of the kernel's connection:
`pedidos` and `respuestas` are the bytes in flight, whole messages in order. The
long-term planner (`largo`) and the CPU thread (`cpu`) each send and then read
the head of `respuestas`, whoever it is for. A reply carries `para`, which the code
does not have, only so that a crossing can be recognised: `sano` becomes false when a thread
reads another's reply, when the memory reads something else than COMPACTAR after
NECESITA_COMPACTACION, or when the loop of `recibir_tablas_de_segmentos`, which
counts the registered pcbs, does not match the tables sent. What follows is mostly
undefined and the model stops there. `orden` is the order of the memory's list of
processes, which is that of the tables it sends. `espacio` says who wrote each
address last; a compaction copies segment by segment (`MoverUno`), and since
`memcpy` on ranges that overlap is undefined, such a segment's bytes are forgotten
(`escritos`). `lista_global_de_pcbs` is a set here; its race is in Planificador.
**MCSocketMemoria.tla** gives the programs, after MEMORIA_1 to MEMORIA_3.

**Cpu.tla** has the CPU's loop, the kernel's CPU thread and file thread as far as
they exchange contexts, and the user space in cells of four bytes. A
context carries `pid`, which the one that comes back does not have in the code;
when the kernel stores one in another pcb `mezclado` is set and the model stops. The
-1 of `obtener_dir_fisica` is -1 here (`SinDireccion`); that it never is below zero in
an unsigned variable is why `MovIn` has no fault. The operations for which the CPU
only returns are WAIT, YIELD and EXIT, which cover what the kernel does next: go
on with the same process, requeue it, end it. `ASolas` executes a
program on registers and segments of its own, translating nothing: it is the
reference for `ComoASolas`. **MCCpu.tla** gives programs, tables and two registers
of different widths, after BASE_1 and ERROR_3.

The modules named **...Proofs.tla** hold the theorems (section 6), one for each
component but the planners, which have two: **PlanificadorProofs** and
**PlanificadorLugarProofs** (which extends it), **ConsolasProofs**,
**MemoriaProofs**, **SocketMemoriaProofs** (which extends it, as SocketMemoria
extends Memoria), **FileSystemProofs**, **ArchivosAbiertosProofs** and
**CpuProofs**. They define no part of the system: only the parts of the inductive
invariants, and lemmas.

## 4. Runs

| run | instance | question |
|---|---|---|
| `fifo` | 3 processes, each with any of 3 programs, degree 2, one resource | counters agree with queues, no pcb lost, degree and instances conserved; the threads implement CicloDeVida |
| `vida` | 3 processes, each with either of 2 programs that take two resources in opposite orders, degree 2, HRRN, with fairness | no lost wake-up; the kernel stops only for a reason; the running pcb is stable; a process ends unless the processes block each other |
| `avisos` | 3 consoles, 2 motivos, one unknown to the consola, with fairness | the condition variable loses no wake-up of the last end; no answer before an end |
| `memoria` | 8 bytes, 2 processes, 4 ids, sizes 1, 2, 4 and one negative as an int, each of the three algorithms | no overlap at any step, holes exact, the reply right of the free bytes and of the table, but for the negative size |
| `filesystem` | 2 files of 5, 12 or 24 bytes, 6 blocks of 2 pointers, one fall | no block shared or leaked, data stays where it is, growing survives a fall, aligned accesses right |
| `archivos` | 3 processes, each with any of 4 programs, one of which closes a file it did not open, 3 files, one compaction, with fairness | locks that agree with what was executed and are exclusive for a file nobody closed so, no forgotten waiter, no process in two threads, no compaction beside a transfer, a process ends unless the processes block each other |
| `socket` | 3 processes, each with any of 3 programs, 8 bytes, three algorithms, degree 2, with fairness | the kernel's tables are the memory's, what was written stays where its table says, the threads cross only while a process is admitted, every process ends |
| `cpu` | 3 processes with any of 4 programs, one of them possibly with one of 3 that use a file, in any order | each process leaves the CPU as if it had run alone, contexts go back to their pcb, every process ends |

Runs that end in a violation, each a place where the code departs from what its
comments or its assignment say:

| run | violated | what TLC shows |
|---|---|---|
| `perdidos` | `TodasSeResponden` | the slot is overwritten before the console looks at it (it waits for ever), or between the unlock and the read (it sends another motivo) |
| `direccion` | `DireccionDelPedido` | a compaction between the translation of an address and the transfer; without compactions, the next F_READ overwrites the global |
| `tablas` | `TablasAlDia` | a process runs before it is in `lista_global_de_pcbs`; another compacts, the loop of `recibir_tablas_de_segmentos` stops before its table, and its pcb keeps the old bases |
| `segfault` | `FinalizaPorSegFault` | MOV_IN outside of its segment is executed, because the test for the fault is on an unsigned variable |

**Bounds.** Only two counters are cut off by a guard, the falls of `filesystem` and
the compactions of `archivos`; every other state space is finite because programs
and processes are. Three processes with degree 2 make one wait in NEW
while one runs and one is ready or blocked; the programs of `fifo` use every
operation and both ways of ending abnormally, and every assignment of programs to
processes is an initial state. The programs of `vida` cross on two resources, and one
ends with what it took, so that a circle, a resource kept after an end and
a process NEW behind either do happen. The memory's sizes are chosen so that placement
leaves holes of every size, several holes together but none alone can hold a
request, and a request can exceed the whole memory, or be negative as an `int` (31,
with `INT_MAX` 15); zero-sized segments are left
out (`Tamanios \subseteq 1..2 * INT_MAX + 1`). Processes are symmetric where no liveness is
checked.

`archivos` has `MaxCompactaciones` 1: one is enough to make an address stale, and
every CREATE_SEGMENT may be the one. One program opens a file twice, two hold two
files and take them in opposite orders, one of these closes neither, one creates a
segment first, one closes a file it did not open: it is then lost, or takes the
file from its owner, whose own F_CLOSE may then find it closed.

`socket` has compactions as often as the programs cause them, with up to three
segments per process, moves that overlap their own destination and moves that do
not. With degree 2 a third process is admitted while another uses the socket.

In `cpu` two neighbouring processes have segments side by side, so that an address
one cell too far is another's; values are wider than the short register; one
program never reaches EXIT. At most one process uses a file, since with two the
shared `direccion_fisica` gives the address of another (`direccion`).

The file system's blocks hold two pointers, so that a file of three blocks is
the largest; two such files need eight blocks of the six there are. One fall, at
any point, lets leaked blocks and later truncations meet.

**Deadlock** is not checked where the system stops: a kernel whose consoles have
all been served waits for more, as do the memory, the CPU and the file system
without a request; `socket` and `cpu` also stop where their models do (`sano`,
`mezclado`). Where it matters that they go on, `TodosTerminan` says so. In `vida`
deadlock is checked: `Detenido` describes the states in which no thread of the
kernel can take a step, and the run's specification may stutter in those only, so
that TLC would report any other. `DetencionJustificada` says why the kernel is in
one. The programs of `vida` end in an instruction that returns to the kernel, so its
first excuse, a program with no EXIT (`SinRetorno`), is met only by the proof.

**Fairness.** `vida`: each thread is scheduled (weak fairness of its next step; a
POSIX semaphore has one waiter here, so an enabled `sem_wait` stays enabled) and
each sleep ends. Consoles need not arrive. That processes end is not assumed.
`avisos`: programs and threads are scheduled, and the process of each console
ends, which is `vida`'s result. `archivos`: both threads are scheduled and the file
system answers; weak fairness is enough because at most one request for the
transfers' mutex is pending while the CPU thread waits for it. `socket`: the memory
and the two kernel threads are scheduled. `cpu`: the CPU program and the kernel's two threads are.

## 5. What the checks show, and what they do not

The semaphore protocol of the planners is right: one token circulates, the queues
are never popped empty, no wake-up of SIGNAL is lost, the degree is respected and
FIFO order is kept. A woken process retries its WAIT and may lose the instance to
another. The kernel adds no reason of its own for a process not to end:
`TodosTerminan` excuses only a process in a circle of waits, one that
waits for what an ended process kept (`terminar_proceso_en_ejecucion` gives back
neither resources nor files, although the assignment asks for the former), and one
NEW behind such a set that has every place of the degree (`Trabado`). The same
holds of files in `archivos` (`Atascado`, which also excuses a process that was lost
and one that waits for a file that somebody closed without having it).

The races found are all on data outside the semaphores: the global list, the pid
counter and the notification slot (and `estado`, which only the log shows and
Planificador leaves out). In Planificador `list_add` may lose its link to a
concurrent removal, and a process is then never in `lista_global_de_pcbs`; no
property forbids it there. Duplicate pids (`pid_actual++` in each console thread)
are possible in Consolas, and so are two processes that share one notification.

The hand-over between the CPU thread and the file thread is right: an operation is
done for the process that asked, although that process may be ready again before
the CPU thread has left it. A file is exclusive until some process closes it without
having it (`CerradoSinTener`): F_CLOSE looks whether the file is open, not whose it
is, so it frees it under its owner, and two processes can then have it. What is
claimed of a file (`UsoExacto`, `PunteroDelUltimoSeek`) is claimed while nobody did
that. What is passed beside the pcb
is not: `direccion_fisica` (`direccion`). Closing a file that nobody has open loses
the process, its owner too if another closed it first, and `CadaProcesoEnUnLugar`
allows those losses only.

The memory's lists are right for the three algorithms, and so are its replies,
except for a size of 2^31 or more (`CREATE_SEGMENT 1 -1`): no hole is that large, but
as an `int` it is below the sum of the holes, so the reply is NECESITA_COMPACTACION,
and again after the compaction. `RespuestaSegunMemoria` allows that one. The programs of
`socket` ask for no such size; one that did would never end. Across the socket, the
kernel's copies of the tables are right while the threads do not cross, and
`SeCruzanAlIngresar` bounds when they can: while the long-term planner is between
its request and the registration of the process, or after a process was registered
that had already ended. What follows a crossing is not followed. With no
crossing at all a table can still be left behind: a process is ready before it is
in `lista_global_de_pcbs`, and a compaction in between does not update its pcb
(`tablas`). Bytes survive compactions except where a segment overlaps its own destination.

Contexts are right too: what a process does depends on nobody else, if it meets no
other in memory or in a file operation (`ComoASolas`), except a read outside of its
segment (`segfault`) and what follows a fault of F_READ or F_WRITE, for which the
CPU sends two contexts; until then no context reaches another's pcb
(`ContextoPropio`). A program with no EXIT stops the CPU thread for ever, since the
CPU then answers nothing.

The file system's truncation is right without a fall, and growing survives one
because blocks are reserved before the FCB reaches them; shrinking does not, since
bits are cleared first. Accesses are right when they start in the first block or at
the start of another and end inside a block (`AccesoAlineado`). Elsewhere they are
not: one that ends exactly at the end of the first block touches nothing, the last
block of one that ends at the end of a block is skipped, and one that starts inside
an indirect block goes to the next.

## 6. Proofs

The theorems hold for all values of the constants that the named assumptions of
each module allow. None of the invariants that the runs check is inductive by
itself; each proof module states the one that is, conjunct by conjunct, and proves
`Init => Inv`, `Inv /\ [Next]_vars => Inv'` with one lemma per action, and
that `Inv` implies the properties. TLC checked these invariants on the instances of
section 4 before they were proved.

**PlanificadorProofs.** `TipoCorrecto`, `FichaUnica` (the single dispatch token),
`EjecucionEstable` (an action property), `ListosExactos`, `QuitaSeguro`. TypeOK
alone is not inductive: the CPU thread appends `pcb_en_ejecucion` to queues,
which keeps them sequences of pcbs only if it is not NULL then. That it is not NULL
(`PcbUsado`) follows because the planner posts `proceso_running` after choosing,
and nobody writes the global until the token comes back (`FichaDeEjecucion`). So
`Inv1 == TypeOK /\ FichaDeEjecucion /\ PcbUsado` is proved at once.
`Inv2` adds the exact counts of `lista_pcbs` (`CuentaDeListos`) and of
`cola_new` (`CuentaDeNuevos`, where the consoles halfway through their
announcement form a finite set) and that what was chosen is a pcb (`PcbElegido`);
an empty queue then contradicts its count.

**PlanificadorLugarProofs.** `CadaPcbUnico`, `GradoNuncaExcedido`,
`SiempreDespiertan`, `InstanciasConservadas`, `DetencionConMotivo`,
`DetenidoEsFinal`, `CicloImplementado`. `Inv3` adds the places: every pcb is
in exactly one, once, and the instruction it left pending is the one that
put it there (a sleeper is at its IO, a queued pcb at its WAIT). That is what keeps an
append from making a second copy. `Inv4` adds that the degree semaphore plus the
processes admitted and not ended is the degree. `Inv5` adds the resources:
instances free, WAITs and SIGNALs executed are finite sets whose sizes balance, and
for every waiter as many processes are awake and about to retry as instances are
free. `Inv6` adds that nothing runs before `sem_corto_plazo` is first posted. Why the
kernel stops follows from all of them: the token says that the short-term planner
waits for a ready process, the counts that there is none and that no NEW process is
unannounced; every pcb has a place, so each one left is in `cola_new`, in the queue
of a resource or in EXIT; and with nobody awake to retry, no instance is free of a
resource somebody waits for. `CicloImplementado` is the refinement
`Spec => ImplementaCicloDeVida`. Initial states map to initial states; each step of
a thread maps to one step of CicloDeVida or a stutter, by the places (`Inv3`), with
the degree (`Inv4`) enabling `Admite`. CicloDeVida states no fairness, so this is
all of the refinement.

**ConsolasProofs.** `TipoCorrecto`, `RespuestaDeUnFin`. A thread reads the
slot again after the unlock, so it may be of another process; what is invariant is
that it is of a process that ended, and that a pid is fixed before its process can
end. Which end it is cannot be proved: `perdidos` refutes it.

**MemoriaProofs.** `TipoCorrecto`, `SegmentosSeparados`, `HuecosSiempreAlDia`,
`RespuestasCorrectas`.
The list of holes is exact outside a compaction, which is what lets a
new segment be placed in one; during it, what was visited is packed from 0 up to
the frontier, and everything pending is at or past it, so a move never lands
on a segment that has not moved. The memory decides its replies from the sizes of
the holes and their sum. `EspacioLibreCuenta` says that the sum counts the free
addresses, since the holes do not overlap and are all of what is free; a reply
is then right of the addresses themselves (`RespuestaSegunMemoria`), for every size
a request can carry. A size is at least what it is as an `int`, so a refusal is
always right; a compaction may be asked for in vain if the size is negative.

**SocketMemoriaProofs.** `MemoriaDelSocket`, `TipoDelSocket`, `TablaSiempreFiel`,
`SoloSeCruzanAlIngresar`, `EscritoSePuedeLeer`. The memory's part of every step is a step of Memoria, so
that its invariant holds here too, whatever crosses. `Lugares` and `GradoExacto` say
in which place each published pid is and count the places of the degree. While
`sano`, `EnOrden` ties what is on the socket to the thread that waits for it: at
most one reply, or request that awaits one, of each thread, about what it asked
for, and a compaction only while the CPU thread waits for it; it gives which
processes the memory has (an end it has not read yet keeps its process), that the kernel's table of each is the memory's until a reply for it is
on its way, and that this reply carries the memory's table. A thread can then
take what is not its own only while both have something in flight, which
`SeCruzanAlIngresar` places in an admission; that the pcbs registered are the
processes the memory lists, save there or after a late registration, is what the
loop over the tables needs. `InvEspacio` adds the bytes: ids are unique in a
process's table; a segment that counts as written holds, at each address, what its
process put there; what counts as written exists, so a segment created later is
not taken for it. A write or a copy of a compaction only touches addresses of the
segment itself, since segments do not overlap and everything not yet moved lies past
the one being moved.

**FileSystemProofs.** `TipoCorrecto`, `BloquesSeparados`, `BitmapSiempreExacto`,
`ContenidoIntacto` (an action property), `AccesoAlineadoCorrecto`. A file's blocks are seen as numbered
places. No two places of all files have one block; the bitmap is what the places
keep plus what the truncation took or has still to free; what it took is of
no place, what it will free is of places past the new size; and once the pointers
are written, the places read through the FCB that is not saved yet are the old
ones and then the blocks taken, in order. That the words written belong to nobody
(`NoPisan`) is the heart: they are past the end of the file's own block of pointers,
or in a block just taken. `BuscaLibre` is a pigeonhole: the search for a bit always ends. An access is a
concatenation of runs of bytes; each run is that of a range of positions of the file
(`TramoDirecto`, `TramoIndirecto`), ranges join (`DesdeUne`), and the runs of
`accederAIndirectosRestantes` are whole blocks and what is left over
(`RestantesHace`), which is where the two conditions of `AccesoAlineado` are needed.

**ArchivosAbiertosProofs.** `TipoCorrecto`, `CompactacionNuncaATransferir`,
`UsoSiempreExacto`, `ProcesosEnUnLugar`, `SiempreHayQuienDespierte`,
`TransfiereDesdeElSeek`. Three sums say where the token of each semaphore is
(`Permiso`, `Apertura`, `Exclusion`). `CpuEnOrden` and `FsEnOrden` say what
each thread has read at each of its steps and what of it still holds, since
between two of its waits the other runs. The table of open files is tied to
the numbers of F_OPEN and F_CLOSE each process has executed, for the files that no
process closed without having them (`CerradoSigue`: that is never undone, so the
conditions carry over a step); the pointers to the
instruction that moved them last.

**CpuProofs.** `TipoCorrecto`, `ContextoEnSuPcb`, `MemoriaAjenaIntacta`,
`ComoASolasSiempre`. One context
is under way at most, and is of the process chosen last (`Protocolo`), until a
file instruction faults and two come back (`Sobra`); a context reaches another's pcb
only then. `MemoriaAjenaIntacta` states an action property of its own: each cell
the CPU writes is in a segment of the process it executes, by the MMU's lemma
`Traduce`. `ComoASolasSiempre` is about the programs in which the processes do not
meet outside the CPU (`PorSeparado`): one at most uses files, since two share
`direccion_fisica`, and none writes in a segment that another has, as segment 0 is.
For them `InvSolo` says that each process is where its program alone would take it
(`Solos`), in its pcb or in what travels while the CPU thread waits for it. One
instruction of the CPU, or a transfer of the file thread, is one step of the
reference (`EjecutaComoASolas`), and leaves the others where they were.

**Recursion.** The prover has no induction over a predicate here. `Induccion` states it
of a set of numbers, from the order of the naturals being well founded, and
`TrasRecursivo`, `Aplanar` and `EspacioLibreCuenta` use it, or a smallest
counterexample: a recursive function (`Tras`), the library's `FlattenSeq` and its
fold over a set are what their recursion says.

**Assumptions.** The pids of SocketMemoria are 1 to their number, as the kernel
gives them. Resources have natural numbers of instances; the processes of Cpu
are finitely many; programs are sequences of instructions, and in
Cpu each instruction asks the MMU for as many bytes as its register holds; segment
tables of Cpu do not overlap, which is `SegmentosSeparados`; sizes of segments are
not zero; a file fits the pointers of one block. `NuloAssumption`,
`NingunaAssumption`, `MotivosAssumption` and the like say that a value standing for
NULL is not one of the values it is told from. The sizes of segments are what a
`uint32_t` carries, and the memory's is an `int`.
`PorSeparado` is a hypothesis of one theorem, not of the module; **MCCpu.tla** assumes it
of its programs, so that TLC evaluates it on the instance where it checks `ComoASolas`.

**Only model-checked.** Liveness (`UltimoFinSeResponde` and the `TodosTerminan` of
four modules) is out of the prover's reach, as is ENABLED: that `Detenido` misses no
state in which the kernel can take no step is what `vida`'s deadlock check shows;
that none can be taken in it is `DetenidoEsFinal`.

## 7. Not modelled

- The HRRN formulas: ratios of wall-clock times, computed from 0 if a process is
  chosen before `estimacion_proxima_rafaga` is written. HRRN is any choice.
- The contents of files, and an access to a block of pointers that is full.
- Partial receives: several `recv` have no MSG_WAITALL and could return part of a
  packet; messages are whole here.
- Failures of a connection, and the handshakes at start: they end the thread
  or program that sees them and nothing reconnects.
- `procesar_eliminacion_memoria`, a thread function that is never started.
- Parsing of programs and addresses, the layout of packets, configuration, delays
  and logging.
- Memory management: a pcb or list freed and used after.

The kernel, the memory and the CPU keep nothing across a restart; only the file
system does, and FileSystem models it.
