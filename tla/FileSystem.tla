----------------------------- MODULE FileSystem ------------------------------
(***************************************************************************)
(* The file system module: the FCB of each file, the bitmap of blocks and  *)
(* the file of blocks, which are files of the host and survive a restart   *)
(* (the test configurations have FORMATEAR=0).  The kernel sends one       *)
(* request at a time.  A truncation is several steps, since each bit of    *)
(* the bitmap is on disk at once (the bitmap is mapped shared), the        *)
(* pointers when the file of blocks is closed, and the FCB at the end; the *)
(* module may fall between any two of them.                                *)
(*                                                                         *)
(* A block is its number.  Of the contents of blocks only the pointers are *)
(* kept, as words of 4 bytes addressed from the start of the file; a word  *)
(* that is not a pointer of a file reads as 0, what formatting leaves.     *)
(***************************************************************************)
EXTENDS Integers, Sequences, FiniteSets, SequencesExt

CONSTANTS
    Archivos,        \* the files the kernel may create
    Tamanios,        \* sizes a file may be truncated to, in bytes
    CANT_BLOQUES,    \* BLOCK_COUNT
    PUNTEROS,        \* pointers in one block, BLOCK_SIZE/4
    MAX_CAIDAS,      \* bound on the restarts
    Posiciones,      \* positions in a file where an access may start
    Largos,          \* lengths of an access
    Ninguna          \* no truncation under way

ASSUME SuperbloqueAssumption ==
    CANT_BLOQUES \in Nat \ {0} /\ PUNTEROS \in Nat \ {0}
tamanioBloque == 4 * PUNTEROS
\* Truncating to 0 bytes is refused, and a file needs at most the pointers
\* of one block.
ASSUME TamaniosAssumption ==
    Tamanios \subseteq 1..tamanioBloque * (PUNTEROS + 1)
ASSUME CaidasAssumption == MAX_CAIDAS \in Nat
ASSUME AccesosAssumption == Posiciones \subseteq Nat /\ Largos \subseteq Nat \ {0}

VARIABLES
    fcb,         \* the FCB on disk of every file that exists
    punteros,    \* the pointers on disk, by word
    bitmap,      \* the blocks whose bit is set
    obra,        \* the truncation under way
    caidas,      \* how many times the module fell
    sano         \* no fall has lost a bit of a block in use

vars == <<fcb, punteros, bitmap, obra, caidas, sano>>

\* A pointer that is NULL is read as 0.
Fcb == [tamanio : Nat, directo : Nat, indirecto : Nat]
Obra == [archivo : Archivos, tamanio : Nat, tomados : Seq(Nat),
         porLiberar : Seq(Nat), escrito : BOOLEAN]
ASSUME NingunaAssumption == Ninguna \notin Obra

\* ceiling(tamanio / tamanioBloque)
Bloques(t) == (t + tamanioBloque - 1) \div tamanioBloque
\* Entry k, from 0, of the block of pointers b.
Palabra(b, k) == b * PUNTEROS + k
Puntero(b, k) == IF Palabra(b, k) \in DOMAIN punteros
                 THEN punteros[Palabra(b, k)] ELSE 0

\* levantar_bitmap with FORMATEAR, the first time.
Init ==
    /\ fcb = [f \in {} |-> {}]
    /\ punteros = [w \in {} |-> 0]
    /\ bitmap = {}
    /\ obra = Ninguna
    /\ caidas = 0
    /\ sano = TRUE

\* crear_archivo: the kernel asks for it only when ABRIR_ARCHIVO, which
\* changes nothing, answers that the file does not exist.
CrearArchivo(f) ==
    /\ obra = Ninguna
    /\ f \notin DOMAIN fcb
    /\ fcb' = [g \in DOMAIN fcb \cup {f} |->
                  IF g = f THEN [tamanio |-> 0, directo |-> 0, indirecto |-> 0]
                  ELSE fcb[g]]
    /\ UNCHANGED <<punteros, bitmap, obra, caidas, sano>>

-----------------------------------------------------------------------------
(* truncar_archivo.                                                        *)

\* (mutant) the block of pointers is kept when one block is left.
PorLiberar_SinIndirecto(c, t) ==
    [i \in 1..Bloques(c.tamanio) - Bloques(t) |->
        Puntero(c.indirecto, Bloques(t) - 2 + i)]
\* The blocks past the new size, first to last, then the block of pointers.
PorLiberar(c, t) ==
    [i \in 1..Bloques(c.tamanio) - Bloques(t) |->
        Puntero(c.indirecto, Bloques(t) - 2 + i)]
    \o IF Bloques(t) = 1 /\ Bloques(c.tamanio) > 1
       THEN <<c.indirecto>> ELSE <<>>

\* An empty file counts as one block once its direct block is taken.
BloquesAntes(c) == Max({1, Bloques(c.tamanio)})
\* A file with one block has no block of pointers, and needs one to grow.
FaltaIndirecto(c, t) == BloquesAntes(c) = 1 /\ Bloques(t) > 1
CuantosToma(c, t) ==
    IF Bloques(t) <= Bloques(c.tamanio) THEN 0
    ELSE Bloques(t) - Bloques(c.tamanio)
         + IF FaltaIndirecto(c, t) THEN 1 ELSE 0

\* Bound: a history in which a fall lost a bit in use is not followed on.
SeSigue == sano

TruncarArchivo(f, t) ==
    /\ obra = Ninguna
    /\ SeSigue
    /\ f \in DOMAIN fcb
    /\ obra' = [archivo |-> f, tamanio |-> t, tomados |-> <<>>,
                porLiberar |-> PorLiberar(fcb[f], t), escrito |-> FALSE]
    /\ UNCHANGED <<fcb, punteros, bitmap, caidas, sano>>

LiberarBloque ==
    /\ obra # Ninguna
    /\ obra.porLiberar # <<>>
    /\ bitmap' = bitmap \ {Head(obra.porLiberar)}
    /\ obra' = [obra EXCEPT !.porLiberar = Tail(@)]
    /\ UNCHANGED <<fcb, punteros, caidas, sano>>

\* (mutant) the search stops one bit early.
BuscarBloqueLibre_UnoAntes ==
    Min({b \in 0..Cardinality(bitmap) : b \notin bitmap}) - 1
\* The first bit that is clear.  The search has no end: past the last block
\* it goes on in the page of the map, whose bits are not in the file.
BuscarBloqueLibre == Min({b \in 0..Cardinality(bitmap) : b \notin bitmap})

FaltanBloques ==
    Len(obra.tomados) < CuantosToma(fcb[obra.archivo], obra.tamanio)

TomarBloque ==
    /\ obra # Ninguna
    /\ FaltanBloques
    /\ bitmap' = bitmap \cup {BuscarBloqueLibre}
    /\ obra' = [obra EXCEPT !.tomados = Append(@, BuscarBloqueLibre)]
    /\ UNCHANGED <<fcb, punteros, caidas, sano>>

\* (mutant) the direct block of an empty file is also that of pointers.
Truncado_MismoBloque(c, o) ==
    [tamanio |-> o.tamanio,
     directo |-> IF c.tamanio = 0 THEN o.tomados[1] ELSE c.directo,
     indirecto |-> IF Bloques(o.tamanio) = 1 THEN 0
                   ELSE IF FaltaIndirecto(c, o.tamanio) THEN o.tomados[1]
                   ELSE c.indirecto]
\* The blocks taken are, in order, the direct one, that of pointers, and
\* those the new pointers point to.
Truncado(c, o) ==
    [tamanio |-> o.tamanio,
     directo |-> IF c.tamanio = 0 THEN o.tomados[1] ELSE c.directo,
     indirecto |-> IF Bloques(o.tamanio) = 1 THEN 0
                   ELSE IF FaltaIndirecto(c, o.tamanio)
                   THEN o.tomados[IF c.tamanio = 0 THEN 2 ELSE 1]
                   ELSE c.indirecto]

\* (mutant) the new pointers are written from the start of the block.
PrimeraEntrada_Cero(c) == 0
\* The entries the file has already.
PrimeraEntrada(c) == BloquesAntes(c) - 1

\* The words that the loop of fputs writes, once the file is closed.
PunterosNuevos(c, o) ==
    LET entradas == IF o.tomados = <<>> THEN 0
                    ELSE Bloques(o.tamanio) - BloquesAntes(c)
        antes == Len(o.tomados) - entradas
        palabra == Palabra(Truncado(c, o).indirecto, PrimeraEntrada(c))
    IN  [w \in palabra..palabra + entradas - 1 |->
            o.tomados[antes + 1 + w - palabra]]

EscribirPunteros ==
    /\ obra # Ninguna
    /\ obra.porLiberar = <<>> /\ ~FaltanBloques /\ ~obra.escrito
    /\ LET nuevos == PunterosNuevos(fcb[obra.archivo], obra)
       IN  punteros' = [w \in DOMAIN punteros \cup DOMAIN nuevos |->
                           IF w \in DOMAIN nuevos THEN nuevos[w]
                           ELSE punteros[w]]
    /\ obra' = [obra EXCEPT !.escrito = TRUE]
    /\ UNCHANGED <<fcb, bitmap, caidas, sano>>

\* The words where the files of g have a pointer.
Entradas(g) ==
    UNION {{Palabra(g[f].indirecto, k) : k \in 0..Bloques(g[f].tamanio) - 2} :
              f \in DOMAIN g}

\* config_save.  A word that is no longer a pointer is forgotten: its block
\* may hold anything from now on.
GuardarFcb ==
    /\ obra # Ninguna
    /\ obra.escrito
    /\ fcb' = [fcb EXCEPT ![obra.archivo] = Truncado(@, obra)]
    /\ punteros' = Restrict(punteros, Entradas(fcb') \cap DOMAIN punteros)
    /\ obra' = Ninguna
    /\ UNCHANGED <<bitmap, caidas, sano>>

Recortando ==
    obra # Ninguna /\ Bloques(obra.tamanio) < Bloques(fcb[obra.archivo].tamanio)

\* The module falls and starts again: what was not on disk is lost.
Caer ==
    /\ caidas < MAX_CAIDAS
    /\ caidas' = caidas + 1
    /\ obra' = Ninguna
    /\ bitmap' = bitmap \cap 0..CANT_BLOQUES - 1
    /\ sano' = (sano /\ ~Recortando /\ bitmap' = bitmap)
    /\ UNCHANGED <<fcb, punteros>>

Next ==
    \/ \E f \in Archivos :
          CrearArchivo(f) \/ \E t \in Tamanios : TruncarArchivo(f, t)
    \/ LiberarBloque
    \/ TomarBloque
    \/ EscribirPunteros
    \/ GuardarFcb
    \/ Caer

Spec == Init /\ [][Next]_vars

-----------------------------------------------------------------------------
(* acceder_archivo: which bytes of the file of blocks an access touches,   *)
(* in order, as runs of bytes of a block.                                  *)

Tramo(b, desde, n) ==
    [i \in 1..n |-> b * tamanioBloque + desde + i - 1]

\* (mutant) the pointers are read from the start of the block of pointers.
Restantes_DesdeCero(c, k, n) ==
    FlattenSeq([i \in 1..Bloques(n) |->
        Tramo(Puntero(c.indirecto, i - 1), 0,
              IF n - (i - 1) * tamanioBloque > tamanioBloque
              THEN tamanioBloque ELSE n % tamanioBloque)])
\* accederAIndirectosRestantes: n bytes from entry k on, the last run as
\* long as what is left over of whole blocks.
Restantes(c, k, n) ==
    FlattenSeq([i \in 1..Bloques(n) |->
        Tramo(Puntero(c.indirecto, k + i - 1), 0,
              IF n - (i - 1) * tamanioBloque > tamanioBloque
              THEN tamanioBloque ELSE n % tamanioBloque)])

\* The access of n bytes at position p, in an indirect block.
AccesoIndirecto(c, p, n) ==
    LET k == Bloques(p) - 1
        offset == p % tamanioBloque
        resto == tamanioBloque - offset
        bloque == Puntero(c.indirecto, k)
    IN  IF offset + n > resto
        THEN Tramo(bloque, offset, resto)
             \o (IF n > resto THEN Restantes(c, k + 1, n - resto) ELSE <<>>)
        ELSE Tramo(bloque, offset, n)

\* An access past the end is refused; one that ends exactly at the end of
\* the first block falls through every case.
Acceso(c, p, n) ==
    LET fin == p + n
        resto == tamanioBloque - p
    IN  IF fin > c.tamanio THEN <<>>
        ELSE CASE fin < tamanioBloque -> Tramo(c.directo, p, n)
               [] fin > tamanioBloque /\ p < tamanioBloque ->
                      Tramo(c.directo, p, resto) \o Restantes(c, 0, n - resto)
               [] p >= tamanioBloque -> AccesoIndirecto(c, p, n)
               [] OTHER -> <<>>

-----------------------------------------------------------------------------
(* The type of every variable.                                             *)
TypeOK ==
    /\ DOMAIN fcb \subseteq Archivos
    /\ \A f \in DOMAIN fcb : fcb[f] \in Fcb
    /\ \A w \in DOMAIN punteros : w \in Nat /\ punteros[w] \in Nat
    /\ bitmap \in SUBSET Nat
    /\ obra \in Obra \cup {Ninguna}
    /\ caidas \in 0..MAX_CAIDAS
    /\ sano \in BOOLEAN

\* The data blocks of a file, in order, and all its blocks.
Datos(c) == [i \in 1..Bloques(c.tamanio) |->
                IF i = 1 THEN c.directo ELSE Puntero(c.indirecto, i - 2)]
Ocupados(c) == Range(Datos(c))
               \cup IF Bloques(c.tamanio) > 1 THEN {c.indirecto} ELSE {}

(* No block belongs to two files, or twice to one: also after the module   *)
(* fell while a file grew.                                                 *)
BloquesDisjuntos ==
    sano => \A f \in DOMAIN fcb :
        /\ Cardinality(Ocupados(fcb[f])) =
               Bloques(fcb[f].tamanio)
               + IF Bloques(fcb[f].tamanio) > 1 THEN 1 ELSE 0
        /\ \A g \in DOMAIN fcb \ {f} :
               Ocupados(fcb[f]) \cap Ocupados(fcb[g]) = {}

(* The bit of every block in use is set, also after a fall: a block is     *)
(* reserved before the FCB on disk reaches it.  While the module has not   *)
(* fallen no other bit is: truncating back and forth leaks no block.       *)
BitmapExacto ==
    LET enUso == UNION {Ocupados(fcb[f]) : f \in DOMAIN fcb} IN
    /\ sano /\ ~Recortando => enUso \subseteq bitmap
    /\ caidas = 0 /\ obra = Ninguna => bitmap = enUso

(* Truncating a file, in any of its steps, does not move the blocks that   *)
(* any file keeps.                                                         *)
ContenidoConservado ==
    [][sano' => \A f \in DOMAIN fcb :
          LET antes == Datos(fcb[f])
              despues == Datos(fcb[f])'
          IN  \A i \in DOMAIN antes \cap DOMAIN despues :
                  antes[i] = despues[i]]_vars

\* The bytes that an access of n bytes at p should touch.
BytesDe(c, p, n) ==
    [i \in 1..n |->
        LET q == p + i - 1
        IN  Datos(c)[q \div tamanioBloque + 1] * tamanioBloque
            + (q % tamanioBloque)]
Accesos(c) == {a \in Posiciones \X Largos : a[1] + a[2] <= c.tamanio}

(* An access that starts in the first block or at the start of another,    *)
(* and ends inside a block, touches exactly its bytes, in order.           *)
AccesoAlineado ==
    sano /\ obra = Ninguna => \A f \in DOMAIN fcb : \A a \in Accesos(fcb[f]) :
        /\ a[1] < tamanioBloque \/ a[1] % tamanioBloque = 0
        /\ (a[1] + a[2]) % tamanioBloque # 0
        => Acceso(fcb[f], a[1], a[2]) = BytesDe(fcb[f], a[1], a[2])
=============================================================================
